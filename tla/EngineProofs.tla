----------------------------- MODULE EngineProofs -----------------------------
(***************************************************************************)
(* For every set of messages, of worlds and of delivery tags: on every way *)
(* out of Run what was opened is closed; the channel never carries a       *)
(* settlement the broker does not wait for; and no message is acked before *)
(* its emits arrived.                                                      *)
(***************************************************************************)
EXTENDS Engine, SequenceTheorems, TLAPS

-----------------------------------------------------------------------------
(* What is open follows from the deferred calls                            *)

Unwinding ==
  \/ defers = <<>> /\ open = {}
  \/ defers = <<"bus">> /\ open = {"conn", "channel"}
  \/ defers = <<"bus", "health">> /\ open = {"conn", "channel", "health"}
  \/ defers = <<"bus", "health", "signal">>
       /\ open = {"conn", "channel", "health", "signal"}
  \/ defers = <<"bus", "health", "signal", "pool">>
       /\ open = {"conn", "channel", "health", "signal", "pool"}

(* Each stage of Run with what it has opened and deferred so far.          *)
Opened ==
  \/ pc \in {"down", "start", "dial"} /\ defers = <<>> /\ open = {}
  \/ pc = "channel" /\ defers = <<>> /\ open = {"conn"}
  \/ pc = "setup" /\ defers = <<>> /\ open = {"conn", "channel"}
  \/ pc = "health" /\ defers = <<"bus">> /\ open = {"conn", "channel"}
  \/ pc = "pool" /\ defers = <<"bus", "health">>
       /\ open = {"conn", "channel", "health"}
  \/ /\ pc \in {"inputs", "select", "dispatch"}
     /\ defers = <<"bus", "health", "signal", "pool">>
     /\ open = {"conn", "channel", "health", "signal", "pool"}
  \/ pc = "unwind" /\ Unwinding

LEMMA Unstack ==
  ASSUME NEW S, NEW s \in Seq(S), NEW e \in S
  PROVE  Front(Append(s, e)) = s /\ Last(Append(s, e)) = e
  <1> DEFINE t == Append(s, e)
  <1>1. /\ t \in Seq(S) /\ Len(t) = Len(s) + 1 /\ Len(s) \in Nat
        /\ \A i \in 1 .. Len(s) : t[i] = s[i]
        /\ t[Len(s) + 1] = e
    BY AppendProperties, LenProperties
  <1>2. \A i \in 1 .. Len(t) : t[i] \in S
    BY <1>1, ElementOfSeq
  <1>3. /\ SubSeq(t, 1, Len(s)) \in Seq(S)
        /\ Len(SubSeq(t, 1, Len(s))) = Len(s)
        /\ \A i \in 1 .. Len(s) : SubSeq(t, 1, Len(s))[i] = t[i]
    BY <1>1, <1>2, SubSeqProperties
  <1>4. SubSeq(t, 1, Len(s)) = s
    BY <1>1, <1>3, SeqEqual
  <1> QED BY <1>1, <1>4 DEF Front, Last

LEMMA Fronts ==
  /\ Front(<<"bus">>) = <<>> /\ Last(<<"bus">>) = "bus"
  /\ Front(<<"bus", "health">>) = <<"bus">>
  /\ Last(<<"bus", "health">>) = "health"
  /\ Front(<<"bus", "health", "signal">>) = <<"bus", "health">>
  /\ Last(<<"bus", "health", "signal">>) = "signal"
  /\ Front(<<"bus", "health", "signal", "pool">>)
       = <<"bus", "health", "signal">>
  /\ Last(<<"bus", "health", "signal", "pool">>) = "pool"
  <1> DEFINE R == {"bus", "health", "signal", "pool"}
  <1>1. /\ <<>> \in Seq(R) /\ <<"bus">> \in Seq(R)
        /\ <<"bus", "health">> \in Seq(R)
        /\ <<"bus", "health", "signal">> \in Seq(R)
    OBVIOUS
  <1>2. /\ <<"bus">> = Append(<<>>, "bus")
        /\ <<"bus", "health">> = Append(<<"bus">>, "health")
        /\ <<"bus", "health", "signal">> = Append(<<"bus", "health">>, "signal")
        /\ <<"bus", "health", "signal", "pool">>
             = Append(<<"bus", "health", "signal">>, "pool")
    OBVIOUS
  <1>3. \A s \in Seq(R) : \A e \in R :
          Front(Append(s, e)) = s /\ Last(Append(s, e)) = e
    BY Unstack
  <1>4. "bus" \in R /\ "health" \in R /\ "signal" \in R /\ "pool" \in R
    OBVIOUS
  <1> HIDE DEF R
  <1>5. Front(Append(<<>>, "bus")) = <<>> /\ Last(Append(<<>>, "bus")) = "bus"
    BY <1>1, <1>3, <1>4
  <1>6. /\ Front(Append(<<"bus">>, "health")) = <<"bus">>
        /\ Last(Append(<<"bus">>, "health")) = "health"
    BY <1>1, <1>3, <1>4
  <1>7. /\ Front(Append(<<"bus", "health">>, "signal")) = <<"bus", "health">>
        /\ Last(Append(<<"bus", "health">>, "signal")) = "signal"
    BY <1>1, <1>3, <1>4
  <1>8. /\ Front(Append(<<"bus", "health", "signal">>, "pool"))
             = <<"bus", "health", "signal">>
        /\ Last(Append(<<"bus", "health", "signal">>, "pool")) = "pool"
    BY <1>1, <1>3, <1>4
  <1> QED BY <1>2, <1>5, <1>6, <1>7, <1>8

(* A message is offered to the pool only while Run waits in Dispatch, one  *)
(* at a time.                                                              *)
AllPhases == Phases \cup {"unseen", "gone"}

Offering ==
  /\ phase \in [Deliveries -> AllPhases]
  /\ \A t \in Deliveries : phase[t] = "offered" => pc = "dispatch"
  /\ \A t, u \in Deliveries :
       phase[t] = "offered" /\ phase[u] = "offered" => t = u

LEMMA OpenedInit == EngineInit => Opened /\ Offering
  BY DEF EngineInit, Opened, Offering, ContractInit, AllPhases, Phases

LEMMA OpenedStart ==
  ASSUME Opened, StartStep \/ StartFails
  PROVE  Opened'
  <1> USE DEF Goes
  <1>1. CASE Prepare
    BY <1>1 DEF Opened, Unwinding, Prepare
  <1>2. CASE Dial \/ OpenChannel \/ Setup
    BY <1>2 DEF Opened, Dial, OpenChannel, Setup
  <1>3. CASE ConnectFails
    BY <1>3 DEF Opened, Unwinding, ConnectFails, ClosedOnError
  <1>4. CASE ServeHealth
    <2>1. defers = <<"bus">> /\ open = {"conn", "channel"}
      BY <1>4 DEF Opened, ServeHealth
    <2>2. defers' = <<"bus", "health">>
      <3>1. defers' = Append(<<"bus">>, "health")
        BY <1>4, <2>1 DEF ServeHealth
      <3>2. <<"bus", "health">> = Append(<<"bus">>, "health")
        OBVIOUS
      <3> QED BY <3>1, <3>2
    <2>3. open' = {"conn", "channel", "health"}
      BY <1>4, <2>1 DEF ServeHealth
    <2> QED BY <1>4, <2>2, <2>3 DEF Opened, ServeHealth
  <1>5. CASE ServeFails
    BY <1>5 DEF Opened, Unwinding, ServeFails
  <1>6. CASE StartPool
    BY <1>6 DEF Opened, StartPool, AllDefers
  <1>7. CASE Subscribe
    BY <1>7 DEF Opened, Unwinding, Subscribe
  <1> QED BY <1>1, <1>2, <1>3, <1>4, <1>5, <1>6, <1>7 DEF StartStep, StartFails

LEMMA OpenedConsume ==
  ASSUME Opened, ConsumeStep
  PROVE  Opened'
  <1> USE DEF Goes
  <1>1. CASE Receive
    BY <1>1 DEF Opened, ConsumeStep, Receive, Undecodable, Rejected, Admitted
  <1>2. CASE CtxEnds \/ SeesClosed
    BY <1>2 DEF Opened, Unwinding, ConsumeStep, CtxEnds, SeesClosed
  <1> QED BY <1>1, <1>2 DEF ConsumeStep

LEMMA OpenedPool ==
  ASSUME Opened, Offering, PoolStep \/ PoolExtra
  PROVE  Opened'
  <1>1. UNCHANGED <<open, defers>>
    BY DEF PoolStep, PoolExtra, OtherThanPool
  <1>2. pc' = pc \/ (pc = "dispatch" /\ pc' = "select")
    BY DEF PoolStep, PoolExtra, PoolTakes, PoolRefuses, PoolSettles, PoolEmits,
           ProcessLost, Take, Refuse, Goes, Offering, TakeOffer, RefuseOffer,
           SettleTaken
  <1> QED BY <1>1, <1>2 DEF Opened, Unwinding

LEMMA OpenedClose ==
  ASSUME Opened, CloseStep
  PROVE  Opened'
  <1>1. CASE Return
    BY <1>1 DEF Opened, Return, ProcessEnds, Goes
  <1>2. CASE Restart
    BY <1>2 DEF Opened, Restart, Goes
  <1>3. ASSUME NEW r \in Resources \cup {"bus"}, Closing(r),
               open' = open \ (IF r = "bus" THEN {"channel", "conn"} ELSE {r})
        PROVE  Opened'
    <2>1. pc = "unwind" /\ pc' = "unwind" /\ defers # <<>>
          /\ Last(defers) = r /\ defers' = Front(defers)
      BY <1>3 DEF Closing
    <2>2. CASE defers = <<"bus">> /\ open = {"conn", "channel"}
      <3>1. r = "bus" /\ defers' = <<>>
        BY <2>1, <2>2, Fronts
      <3>2. open' = {}
        BY <1>3, <2>2, <3>1
      <3> QED BY <2>1, <3>1, <3>2 DEF Opened, Unwinding
    <2>3. CASE defers = <<"bus", "health">> /\ open = {"conn", "channel", "health"}
      <3>1. r = "health" /\ defers' = <<"bus">>
        BY <2>1, <2>3, Fronts
      <3>2. open' = {"conn", "channel"}
        BY <1>3, <2>3, <3>1
      <3> QED BY <2>1, <3>1, <3>2 DEF Opened, Unwinding
    <2>4. CASE defers = <<"bus", "health", "signal">>
                 /\ open = {"conn", "channel", "health", "signal"}
      <3>1. r = "signal" /\ defers' = <<"bus", "health">>
        BY <2>1, <2>4, Fronts
      <3>2. open' = {"conn", "channel", "health"}
        BY <1>3, <2>4, <3>1
      <3> QED BY <2>1, <3>1, <3>2 DEF Opened, Unwinding
    <2>5. CASE defers = <<"bus", "health", "signal", "pool">>
                 /\ open = {"conn", "channel", "health", "signal", "pool"}
      <3>1. r = "pool" /\ defers' = <<"bus", "health", "signal">>
        BY <2>1, <2>5, Fronts
      <3>2. open' = {"conn", "channel", "health", "signal"}
        BY <1>3, <2>5, <3>1
      <3> QED BY <2>1, <3>1, <3>2 DEF Opened, Unwinding
    <2> QED BY <2>1, <2>2, <2>3, <2>4, <2>5 DEF Opened, Unwinding
  <1>4. CASE ShutdownPool \/ StopSignals \/ CloseHealth \/ CloseBus
    BY <1>3, <1>4 DEF ShutdownPool, StopSignals, CloseHealth, CloseBus,
                      Resources
  <1> QED BY <1>1, <1>2, <1>4 DEF CloseStep, DeferredStep

LEMMA OpenedStep ==
  ASSUME Opened, Offering, [EngineNext]_vars
  PROVE  Opened'
  <1>1. CASE Signal \/ ServeStops
    BY <1>1 DEF Opened, Unwinding, Signal, ServeStops
  <1>2. CASE Crash
    BY <1>2 DEF Opened, Crash, ProcessEnds, Goes
  <1>3. CASE BrokerStep \/ OthersPublish \/ ChannelCloses
    BY <1>3 DEF Opened, Unwinding, BrokerStep, OthersPublish, ChannelCloses,
                OtherThanBroker
  <1>4. CASE UNCHANGED vars
    BY <1>4 DEF Opened, Unwinding, vars
  <1> QED
    BY <1>1, <1>2, <1>3, <1>4, OpenedStart, OpenedConsume, OpenedPool,
       OpenedClose DEF EngineNext, RunStep, Idle

LEMMA OfferingPool ==
  ASSUME Offering, PoolStep \/ PoolExtra
  PROVE  Offering'
  <1>1. PICK t \in Deliveries :
          \/ PoolTakes(t) \/ PoolRefuses(t) \/ PoolEmits(t) \/ ProcessLost(t)
          \/ \E v \in Verdicts : PoolSettles(t, v)
    BY DEF PoolStep, PoolExtra
  <1>2. CASE PoolTakes(t) \/ PoolRefuses(t)
    <2>1. \E p \in {"taken", "refused"} : phase' = [phase EXCEPT ![t] = p]
      BY <1>2 DEF PoolTakes, PoolRefuses, Take, Refuse, TakeOffer, RefuseOffer
    <2>2. phase[t] = "offered"
      BY <1>2 DEF PoolTakes, PoolRefuses, Take, Refuse, TakeOffer, RefuseOffer
    <2> QED BY <2>1, <2>2 DEF Offering, AllPhases, Phases
  <1>3. CASE ProcessLost(t) \/ \E v \in Verdicts : PoolSettles(t, v)
    <2>1. phase' = [phase EXCEPT ![t] = "settled"] /\ pc' = pc
      BY <1>3 DEF ProcessLost, PoolSettles, SettleWith, SettleTaken
    <2> QED BY <2>1 DEF Offering, AllPhases, Phases
  <1>4. CASE PoolEmits(t)
    BY <1>4 DEF PoolEmits, Offering, contractVars
  <1> QED BY <1>1, <1>2, <1>3, <1>4

LEMMA OfferingConsume ==
  ASSUME Offering, ConsumeStep, Head(buffer) \in Deliveries \/ buffer = <<>>
  PROVE  Offering'
  <1>1. CASE Receive
    <2> DEFINE t == Head(buffer)
    <2>1. t \in Deliveries /\ pc = "select"
      BY <1>1 DEF Receive
    <2>2. CASE Undecodable(t) \/ Rejected(t)
      <3>1. phase' = [phase EXCEPT ![t] = "unseen"] /\ pc' = pc
        BY <2>2 DEF Undecodable, Rejected, SettledUnseen
      <3> QED BY <2>1, <3>1 DEF Offering, AllPhases, Phases
    <2>3. CASE Admitted(t)
      <3>1. phase' = [phase EXCEPT ![t] = "offered"] /\ pc' = "dispatch"
        BY <2>3 DEF Admitted, Offer, Goes
      <3> QED BY <2>1, <3>1 DEF Offering, AllPhases, Phases
    <2> QED BY <1>1, <2>2, <2>3 DEF Receive
  <1>2. CASE CtxEnds \/ SeesClosed
    BY <1>2 DEF CtxEnds, SeesClosed, Offering, contractVars, Goes
  <1> QED BY <1>1, <1>2 DEF ConsumeStep

LEMMA OfferingStep ==
  ASSUME Offering, [EngineNext]_vars,
         Head(buffer) \in Deliveries \/ buffer = <<>>
  PROVE  Offering'
  <1>1. CASE StartStep \/ StartFails
    <2>1. phase' = phase
      BY <1>1 DEF StartStep, StartFails, OtherThanStart, contractVars
    <2>2. pc # "dispatch"
      BY <1>1 DEF StartStep, StartFails, Prepare, Dial, OpenChannel, Setup,
                  ConnectFails, ServeHealth, ServeFails, StartPool, Subscribe
    <2> QED BY <2>1, <2>2 DEF Offering
  <1>2. CASE Return \/ Crash
    BY <1>2 DEF Return, Crash, ProcessEnds, Offering, AllPhases, Phases
  <1>3. CASE CloseStep /\ ~Return
    <2>1. phase' = phase /\ pc # "dispatch"
      BY <1>3 DEF CloseStep, DeferredStep, ShutdownPool, StopSignals,
                  CloseHealth, CloseBus,
                  Restart, Closing
    <2> QED BY <2>1 DEF Offering
  <1>4. CASE Signal \/ ServeStops \/ BrokerStep \/ OthersPublish
              \/ ChannelCloses \/ UNCHANGED vars
    <2>1. phase' = phase /\ pc' = pc
      BY <1>4 DEF Signal, ServeStops, BrokerStep, OthersPublish, ChannelCloses,
                  OtherThanBroker, contractVars, vars
    <2> QED BY <2>1 DEF Offering
  <1> QED
    BY <1>1, <1>2, <1>3, <1>4, OfferingPool, OfferingConsume
       DEF EngineNext, RunStep, Idle, CloseStep, DeferredStep

-----------------------------------------------------------------------------
(* What is in flight: in the library's buffer, in hand, on the channel     *)

Queued(t) == \E i \in 1 .. Len(buffer) : buffer[i] = t

(* Somebody will settle t.                                                 *)
Held(t) == Queued(t) \/ phase[t] \in {"offered", "taken"}

SettleAt(i, t) == frames[i].k = "settle" /\ frames[i].t = t
EmitAt(i, t) == frames[i].k = "emit" /\ frames[i].t = t

(* The types of what the steps below touch.                                *)
Flows ==
  /\ carried \in Seq(Messages) /\ Len(carried) <= Cardinality(Deliveries)
  /\ buffer \in Seq(Deliveries)
  /\ frames \in Seq(Frame)
  /\ unacked \subseteq 1 .. Len(carried)
  /\ emitted \subseteq Deliveries
  /\ settled \in [Deliveries -> Verdicts \cup {"no"}]

(* A delivery has a history only once the broker has made it.              *)
Fresh ==
  \A t \in Deliveries : t > Len(carried) =>
    ~Queued(t) /\ phase[t] = "new" /\ settled[t] = "no" /\ t \notin emitted

(* A new life starts with nothing in hand and no channel.                  *)
Starting == {"down", "start", "dial", "channel", "setup", "health", "pool",
             "inputs"}
Connected ==
  /\ chan \in Live => "channel" \in open
  /\ pc \in Starting =>
       /\ chan # "consuming" /\ buffer = <<>>
       /\ \A t \in Deliveries : phase[t] \notin {"offered", "taken"}

(* What is in the buffer is there once and untouched; while the channel    *)
(* lives the broker waits for all that is held, and has not been told.     *)
Holding ==
  /\ \A i, j \in 1 .. Len(buffer) : buffer[i] = buffer[j] => i = j
  /\ \A t \in Deliveries : Queued(t) => phase[t] = "new"
  /\ chan \in Live =>
       \A t \in Deliveries : Held(t) =>
         t \in unacked /\ \A i \in 1 .. Len(frames) : ~SettleAt(i, t)

ToldOnce ==
  \A i \in 1 .. Len(frames), t \in Deliveries : SettleAt(i, t) =>
    t \in unacked /\ \A j \in 1 .. i - 1 : ~SettleAt(j, t)

(* An emit that has not arrived is still ahead of the settlement.          *)
EmitsAhead ==
  /\ \A t \in unacked : settled[t] = "no"
  /\ \A t \in emitted : t \notin arrived =>
       /\ settled[t] # "ack"
       /\ t \in unacked =>
            \E i \in 1 .. Len(frames) :
              EmitAt(i, t) /\ \A j \in 1 .. i - 1 : ~SettleAt(j, t)

Flight == Flows /\ Fresh /\ Holding /\ ToldOnce /\ EmitsAhead
InFlight == Opened /\ Offering /\ Connected /\ Flight

LEMMA ConnectedInit == EngineInit => Connected
  BY DEF EngineInit, Connected, Live, ContractInit

LEMMA ConnectedStart ==
  ASSUME Opened, Connected, StartStep \/ StartFails
  PROVE  Connected'
  <1>1. UNCHANGED <<buffer, phase>>
    BY DEF StartStep, StartFails, OtherThanStart, contractVars
  <1>2. pc \in Starting
    BY DEF StartStep, StartFails, Prepare, Dial, OpenChannel, Setup,
           ConnectFails, ServeHealth, ServeFails, StartPool, Subscribe,
           Starting
  <1>3. chan' \in Live => "channel" \in open'
    <2>1. CASE Prepare \/ Dial \/ OpenChannel \/ Setup \/ ServeHealth
                 \/ ServeFails \/ StartPool
      BY <2>1 DEF Connected, Live, Prepare, Dial, OpenChannel, Setup,
                  ServeHealth, ServeFails, StartPool
    <2>2. CASE ConnectFails
      BY <2>2 DEF ConnectFails, Live
    <2>3. CASE Subscribe
      BY <2>3 DEF Subscribe, Connected, Live
    <2> QED BY <2>1, <2>2, <2>3 DEF StartStep, StartFails
  <1>4. pc' \in Starting => chan' # "consuming"
    BY <1>2 DEF Connected, Starting, Goes, StartStep, StartFails, Prepare,
                Dial,
                OpenChannel, Setup, ConnectFails, ServeHealth, ServeFails,
                StartPool, Subscribe
  <1> QED BY <1>1, <1>2, <1>3, <1>4 DEF Connected

LEMMA ConnectedClose ==
  ASSUME Opened, Connected, CloseStep
  PROVE  Connected'
  <1>1. CASE Return
    <2>1. open = {} /\ chan \notin Live
      BY <1>1 DEF Return, Opened, Unwinding, Connected
    <2> QED BY <1>1, <2>1 DEF Return, ProcessEnds, Connected, Live
  <1>2. CASE Restart
    BY <1>2 DEF Restart, Connected, Live, Starting
  <1>3. CASE CloseBus
    BY <1>3 DEF CloseBus, Closing, Connected, Live, Starting
  <1>4. CASE ShutdownPool \/ StopSignals \/ CloseHealth
    BY <1>4 DEF ShutdownPool, StopSignals, CloseHealth, Closing, Connected,
                Starting
  <1> QED BY <1>1, <1>2, <1>3, <1>4 DEF CloseStep, DeferredStep

LEMMA ConnectedStep ==
  ASSUME Opened, Connected, [EngineNext]_vars
  PROVE  Connected'
  <1>1. CASE Crash
    BY <1>1 DEF Crash, ProcessEnds, Connected, Live
  <1>2. CASE ConsumeStep
    BY <1>2 DEF ConsumeStep, Receive, Undecodable, Rejected, Admitted, CtxEnds,
                SeesClosed, Connected, Starting, Goes
  <1>3. CASE PoolStep \/ PoolExtra
    <2>1. UNCHANGED <<chan, open, buffer>>
      BY <1>3 DEF PoolStep, PoolExtra, OtherThanPool
    <2>2. pc' \notin Starting \/ pc' = pc
      BY <1>3 DEF PoolStep, PoolExtra, PoolTakes, PoolRefuses, PoolSettles,
                  PoolEmits, ProcessLost, Goes, Starting, TakeOffer,
                  RefuseOffer, SettleTaken
    <2>3. PICK t \in Deliveries :
            phase[t] \in {"offered", "taken"} \/ UNCHANGED phase
      BY <1>3 DEF PoolStep, PoolExtra, PoolTakes, PoolRefuses, PoolSettles,
                  PoolEmits, ProcessLost, Take, Refuse, SettleWith,
                  contractVars, TakeOffer, RefuseOffer, SettleTaken
    <2> QED BY <2>1, <2>2, <2>3 DEF Connected
  <1>4. CASE BrokerStep
    <2>1. UNCHANGED <<pc, open, phase>>
      BY <1>4 DEF BrokerStep, OtherThanBroker, contractVars
    <2>2. CASE \E m \in Messages : Deliver(m)
      BY <2>1, <2>2 DEF Deliver, Connected
    <2>3. CASE HandleFrame
      BY <2>1, <2>3 DEF HandleFrame, Connected
    <2>4. CASE NoticeDeath
      BY <2>1, <2>4 DEF NoticeDeath, Ends, Connected, Live
    <2> QED BY <1>4, <2>2, <2>3, <2>4 DEF BrokerStep
  <1>5. CASE ChannelCloses
    BY <1>5 DEF ChannelCloses, Ends, OtherThanBroker, contractVars, Connected,
                Live
  <1>6. CASE Signal \/ ServeStops \/ OthersPublish \/ UNCHANGED vars
    BY <1>6 DEF Signal, ServeStops, OthersPublish, RouteMessage,
                OtherThanBroker,
                contractVars, vars, Connected
  <1> QED
    BY <1>1, <1>2, <1>3, <1>4, <1>5, <1>6, ConnectedStart, ConnectedClose
       DEF EngineNext, RunStep, Idle

-----------------------------------------------------------------------------
(* The steps as what they do to what is in flight                          *)

(* Nothing is sent or told; what is in hand may be dropped, or end its     *)
(* offer; the broker forgets what it waited for only with an empty channel.*)
Quiet ==
  /\ UNCHANGED <<frames, carried, settled, emitted, arrived, calls>>
  /\ sent' = sent \/ (unacked' = unacked /\ \E m \in DOMAIN kind : RouteMessage(m))
  /\ buffer' \in {buffer, <<>>}
  /\ unacked' = unacked \/ (unacked' = {} /\ frames = <<>> /\ chan' \notin Live)
  /\ \A t \in Deliveries :
       \/ phase'[t] = phase[t]
       \/ /\ phase[t] \in {"offered", "taken"}
          /\ \/ phase'[t] \in {"taken", "refused"}
             \/ phase'[t] = "gone" /\ chan' \notin Live
  /\ \/ chan' \in Live => chan \in Live
     \/ /\ buffer' = <<>>
        /\ \A t \in Deliveries : phase'[t] \notin {"offered", "taken"}

LEMMA QuietKeeps ==
  ASSUME Flight, Quiet
  PROVE  Flight'
  <1>1. \A t \in Deliveries : Queued(t)' => Queued(t)
    BY DEF Quiet, Queued
  <1>2. \A t \in Deliveries : Held(t)' => Held(t)
    BY <1>1 DEF Quiet, Held
  <1>3. Flows'
    BY EmptySeq DEF Flight, Flows, Quiet
  <1>4. Fresh'
    BY <1>1 DEF Flight, Fresh, Quiet
  <1>5. Holding'
    <2>1. \A i, j \in 1 .. Len(buffer') : buffer'[i] = buffer'[j] => i = j
      BY DEF Flight, Holding, Quiet
    <2>2. \A t \in Deliveries : Queued(t)' => phase'[t] = "new"
      BY <1>1 DEF Flight, Holding, Quiet
    <2>3. ASSUME chan' \in Live, NEW t \in Deliveries, Held(t)'
          PROVE  t \in unacked' /\ \A i \in 1 .. Len(frames') : ~SettleAt(i, t)'
      <3>1. chan \in Live
        BY <2>3 DEF Quiet, Held, Queued
      <3> QED BY <1>2, <2>3, <3>1 DEF Flight, Holding, Quiet, SettleAt
    <2> QED BY <2>1, <2>2, <2>3 DEF Holding
  <1>6. ToldOnce'
    BY DEF Flight, ToldOnce, Quiet, SettleAt
  <1>7. EmitsAhead'
    BY DEF Flight, EmitsAhead, Quiet, SettleAt, EmitAt
  <1> QED BY <1>3, <1>4, <1>5, <1>6, <1>7 DEF Flight

(* The delivery at the head of the buffer leaves it, and only that one.    *)
LEMMA Dequeued ==
  ASSUME Flows, Holding, buffer # <<>>, buffer' = Tail(buffer)
  PROVE  /\ buffer' \in Seq(Deliveries)
         /\ Head(buffer) \in Deliveries /\ Queued(Head(buffer))
         /\ \A t \in Deliveries : Queued(t)' => Queued(t) /\ t # Head(buffer)
         /\ \A i, j \in 1 .. Len(buffer') : buffer'[i] = buffer'[j] => i = j
  <1>1. /\ Head(buffer) \in Deliveries /\ buffer' \in Seq(Deliveries)
        /\ Len(buffer') = Len(buffer) - 1 /\ Len(buffer) \in Nat
        /\ \A i \in 1 .. Len(buffer') : buffer'[i] = buffer[i + 1]
    BY HeadTailProperties, LenProperties DEF Flows
  <1>2. Len(buffer) > 0 /\ Head(buffer) = buffer[1]
    BY <1>1, EmptySeq DEF Flows
  <1>3. \A i \in 1 .. Len(buffer') : i + 1 \in 1 .. Len(buffer) /\ i + 1 # 1
    BY <1>1
  <1>4. \A i, j \in 1 .. Len(buffer) : buffer[i] = buffer[j] => i = j
    BY DEF Holding
  <1>5. 1 \in 1 .. Len(buffer)
    BY <1>1, <1>2
  <1>6. ASSUME NEW t \in Deliveries, Queued(t)'
        PROVE  Queued(t) /\ t # Head(buffer)
    <2>1. PICK i \in 1 .. Len(buffer') : buffer'[i] = t
      BY <1>6 DEF Queued
    <2>2. buffer[i + 1] = t /\ buffer[1] # t
      BY <1>1, <1>3, <1>4, <1>5, <2>1
    <2> QED BY <1>2, <1>3, <2>2 DEF Queued
  <1>7. ASSUME NEW i \in 1 .. Len(buffer'), NEW j \in 1 .. Len(buffer'),
               buffer'[i] = buffer'[j]
        PROVE  i = j
    <2>1. i + 1 = j + 1
      BY <1>1, <1>3, <1>4, <1>7
    <2> QED BY <2>1, <1>1
  <1> QED BY <1>1, <1>2, <1>5, <1>6, <1>7 DEF Queued

(* A frame written is behind all there are.                                *)
LEMMA Written ==
  ASSUME Flows, NEW f \in Frame, Write(f)
  PROVE  /\ frames' \in Seq(Frame) /\ Len(frames) \in Nat
         /\ chan \notin Live => frames' = frames
         /\ chan \in Live =>
              /\ Len(frames') = Len(frames) + 1
              /\ frames'[Len(frames) + 1] = f
              /\ \A i \in 1 .. Len(frames) : frames'[i] = frames[i]
  BY AppendProperties, LenProperties DEF Flows, Write

(* Somebody who holds t lets go of it and tells the broker what becomes    *)
(* of it.                                                                  *)
Tells(t, v) ==
  /\ Held(t) /\ Settle(t, v)
  /\ calls' = [calls EXCEPT ![t] = Append(@, v)]
  /\ UNCHANGED <<carried, unacked, settled, emitted, arrived, chan, sent>>
  /\ \/ buffer' = buffer /\ phase[t] # "new"
     \/ buffer # <<>> /\ t = Head(buffer) /\ buffer' = Tail(buffer)
  /\ \E p \in {"unseen", "settled"} : phase' = [phase EXCEPT ![t] = p]

LEMMA TellsKeeps ==
  ASSUME Flight, Offering, NEW t \in Deliveries, NEW v \in Verdicts, Tells(t, v)
  PROVE  Flight'
  <1> DEFINE f == [k |-> "settle", t |-> t, v |-> v]
  <1>1. /\ frames' \in Seq(Frame) /\ Len(frames) \in Nat
        /\ chan \notin Live => frames' = frames
        /\ chan \in Live =>
             /\ Len(frames') = Len(frames) + 1
             /\ frames'[Len(frames) + 1] = f
             /\ \A i \in 1 .. Len(frames) : frames'[i] = frames[i]
    <2>1. f \in Frame /\ Write(f)
      BY DEF Tells, Settle, Frame
    <2> QED BY <2>1, Written DEF Flight
  <1>2. /\ buffer' \in Seq(Deliveries)
        /\ \A u \in Deliveries : Queued(u)' => Queued(u) /\ u # t
        /\ \A i, j \in 1 .. Len(buffer') : buffer'[i] = buffer'[j] => i = j
    <2>1. CASE buffer' = buffer /\ phase[t] # "new"
      BY <2>1 DEF Flight, Flows, Holding, Queued
    <2>2. CASE buffer # <<>> /\ t = Head(buffer) /\ buffer' = Tail(buffer)
      BY <2>2, Dequeued DEF Flight
    <2> QED BY <2>1, <2>2 DEF Tells
  <1>3. /\ \A u \in Deliveries : u # t => phase'[u] = phase[u]
        /\ phase'[t] \in {"unseen", "settled"}
    BY DEF Tells, Offering
  <1>4. t <= Len(carried) /\ Len(carried) \in Nat
    BY EngineAssumption DEF Flight, Flows, Fresh, Tells, Held
  <1>5. UNCHANGED <<carried, unacked, settled, emitted, arrived, chan>>
    BY DEF Tells
  <1>6. Flows'
    BY <1>1, <1>2, <1>5 DEF Flight, Flows
  <1>7. Fresh'
    BY <1>2, <1>3, <1>4, <1>5, EngineAssumption DEF Flight, Fresh
  <1>8. Holding'
    <2>1. \A u \in Deliveries : Queued(u)' => phase'[u] = "new"
      BY <1>2, <1>3 DEF Flight, Holding
    <2>2. ASSUME chan' \in Live, NEW u \in Deliveries, Held(u)'
          PROVE  u \in unacked' /\ \A i \in 1 .. Len(frames') : ~SettleAt(i, u)'
      <3>1. u # t /\ Held(u)
        BY <1>2, <1>3, <2>2 DEF Held
      <3>2. u \in unacked /\ \A i \in 1 .. Len(frames) : ~SettleAt(i, u)
        BY <1>5, <2>2, <3>1 DEF Flight, Holding
      <3>3. \A i \in 1 .. Len(frames') : ~SettleAt(i, u)'
        BY <1>1, <1>5, <2>2, <3>1, <3>2 DEF SettleAt
      <3> QED BY <1>5, <3>2, <3>3
    <2> QED BY <1>2, <2>1, <2>2 DEF Holding
  <1>9. ToldOnce'
    <2>1. CASE chan \notin Live
      BY <1>1, <1>5, <2>1 DEF Flight, ToldOnce, SettleAt
    <2>2. CASE chan \in Live
      <3>1. t \in unacked /\ \A i \in 1 .. Len(frames) : ~SettleAt(i, t)
        BY <2>2 DEF Flight, Holding, Tells
      <3> QED BY <1>1, <1>5, <2>2, <3>1 DEF Flight, ToldOnce, SettleAt
    <2> QED BY <2>1, <2>2
  <1>10. EmitsAhead'
    <2>1. CASE chan \notin Live
      BY <1>1, <1>5, <2>1 DEF Flight, EmitsAhead, SettleAt, EmitAt
    <2>2. CASE chan \in Live
      <3>1. ASSUME NEW u \in emitted, u \notin arrived, u \in unacked
            PROVE  \E i \in 1 .. Len(frames') :
                     EmitAt(i, u)' /\ \A j \in 1 .. i - 1 : ~SettleAt(j, u)'
        <4>1. PICK i \in 1 .. Len(frames) :
                EmitAt(i, u) /\ \A j \in 1 .. i - 1 : ~SettleAt(j, u)
          BY <3>1 DEF Flight, EmitsAhead
        <4>2. i \in 1 .. Len(frames') /\ \A j \in 1 .. i : frames'[j] = frames[j]
          BY <1>1, <2>2
        <4> QED BY <4>1, <4>2 DEF EmitAt, SettleAt
      <3> QED BY <1>5, <3>1 DEF Flight, EmitsAhead
    <2> QED BY <2>1, <2>2
  <1> QED BY <1>6, <1>7, <1>8, <1>9, <1>10 DEF Flight

(* The head of the buffer is offered to the pool.                          *)
HandsOver ==
  /\ buffer # <<>> /\ buffer' = Tail(buffer)
  /\ Admitted(Head(buffer))
  /\ UNCHANGED <<carried, unacked, settled, emitted, arrived, chan, sent>>

LEMMA HandsOverKeeps ==
  ASSUME Flight, Offering, HandsOver
  PROVE  Flight'
  <1> USE DEF HandsOver
  <1> DEFINE t == Head(buffer)
  <1>1. /\ buffer' \in Seq(Deliveries) /\ t \in Deliveries /\ Queued(t)
        /\ \A u \in Deliveries : Queued(u)' => Queued(u) /\ u # t
        /\ \A i, j \in 1 .. Len(buffer') : buffer'[i] = buffer'[j] => i = j
    BY Dequeued DEF Flight
  <1>2. frames' = frames /\ phase' = [phase EXCEPT ![t] = "offered"]
    BY DEF Admitted, Offer
  <1>3. \A u \in Deliveries : phase'[u] = IF u = t THEN "offered" ELSE phase[u]
    BY <1>2 DEF Offering
  <1>4. \A u \in Deliveries : Held(u)' => Held(u)
    BY <1>1, <1>3 DEF Held
  <1>5. Flows'
    BY <1>1, <1>2 DEF Flight, Flows
  <1>6. Fresh'
    BY <1>1, <1>3 DEF Flight, Fresh
  <1>7. Holding'
    <2>1. \A u \in Deliveries : Queued(u)' => phase'[u] = "new"
      BY <1>1, <1>3 DEF Flight, Holding
    <2> QED BY <1>1, <1>2, <1>4, <2>1 DEF Flight, Holding, SettleAt
  <1>8. ToldOnce'
    BY <1>2 DEF Flight, ToldOnce, SettleAt
  <1>9. EmitsAhead'
    BY <1>2 DEF Flight, EmitsAhead, SettleAt, EmitAt
  <1> QED BY <1>5, <1>6, <1>7, <1>8, <1>9 DEF Flight

LEMMA EmitsKeeps ==
  ASSUME Flight, Offering, NEW t \in Deliveries, PoolEmits(t), OtherThanPool
  PROVE  Flight'
  <1> DEFINE f == [k |-> "emit", t |-> t]
  <1>1. /\ frames' \in Seq(Frame) /\ Len(frames) \in Nat
        /\ Len(frames') = Len(frames) + 1
        /\ frames'[Len(frames) + 1] = f
        /\ \A i \in 1 .. Len(frames) : frames'[i] = frames[i]
    <2>1. f \in Frame /\ Write(f) /\ chan \in Live
      BY DEF PoolEmits, Frame
    <2> QED BY <2>1, Written DEF Flight
  <1>2. /\ UNCHANGED <<carried, unacked, settled, arrived, chan, buffer, phase>>
        /\ emitted' = emitted \cup {t} /\ phase[t] = "taken" /\ chan \in Live
    BY DEF PoolEmits, OtherThanPool, contractVars
  <1>3. t \in unacked /\ \A i \in 1 .. Len(frames) : ~SettleAt(i, t)
    BY <1>2 DEF Flight, Holding, Held
  <1>4. f.k = "emit" /\ f.t = t
    OBVIOUS
  <1>5. Flows' /\ Fresh'
    BY <1>1, <1>2 DEF Flight, Flows, Fresh, Queued
  <1>6. Holding'
    <2>1. ASSUME NEW u \in Deliveries, Held(u)'
          PROVE  u \in unacked' /\ \A i \in 1 .. Len(frames') : ~SettleAt(i, u)'
      <3>1. u \in unacked /\ \A i \in 1 .. Len(frames) : ~SettleAt(i, u)
        BY <1>2, <2>1 DEF Flight, Holding, Held, Queued
      <3> QED BY <1>1, <1>2, <1>4, <3>1 DEF SettleAt
    <2> QED BY <1>2, <2>1 DEF Flight, Holding, Queued
  <1>7. ToldOnce'
    BY <1>1, <1>2, <1>4 DEF Flight, ToldOnce, SettleAt
  <1>8. EmitsAhead'
    <2>1. ASSUME NEW u \in emitted', u \notin arrived
          PROVE  /\ settled[u] # "ack"
                 /\ u \in unacked =>
                      \E i \in 1 .. Len(frames') :
                        EmitAt(i, u)' /\ \A j \in 1 .. i - 1 : ~SettleAt(j, u)'
      <3>1. CASE u = t
        <4>1. settled[u] = "no"
          BY <1>3, <3>1 DEF Flight, EmitsAhead
        <4>2. PICK n \in Nat : n = Len(frames) + 1
          BY <1>1
        <4>3. n \in 1 .. Len(frames') /\ EmitAt(n, u)'
          BY <1>1, <1>4, <3>1, <4>2 DEF EmitAt
        <4>4. \A j \in 1 .. n - 1 : ~SettleAt(j, u)'
          BY <1>1, <1>3, <3>1, <4>2 DEF SettleAt
        <4> QED BY <4>1, <4>3, <4>4
      <3>2. CASE u # t /\ u \in unacked
        <4>1. u \in emitted
          BY <1>2, <3>2
        <4>2. PICK i \in 1 .. Len(frames) :
                EmitAt(i, u) /\ \A j \in 1 .. i - 1 : ~SettleAt(j, u)
          BY <2>1, <3>2, <4>1 DEF Flight, EmitsAhead
        <4>3. i \in 1 .. Len(frames') /\ \A j \in 1 .. i : frames'[j] = frames[j]
          BY <1>1
        <4>4. EmitAt(i, u)' /\ \A j \in 1 .. i - 1 : ~SettleAt(j, u)'
          BY <4>2, <4>3 DEF EmitAt, SettleAt
        <4> QED BY <2>1, <3>2, <4>1, <4>3, <4>4 DEF Flight, EmitsAhead
      <3>3. CASE u # t /\ u \notin unacked
        BY <1>2, <2>1, <3>3 DEF Flight, EmitsAhead
      <3> QED BY <3>1, <3>2, <3>3
    <2> QED BY <1>2, <2>1 DEF Flight, EmitsAhead
  <1> QED BY <1>5, <1>6, <1>7, <1>8 DEF Flight

LEMMA DeliverKeeps ==
  ASSUME Flight, Offering, NEW m \in Messages, Deliver(m),
         UNCHANGED <<emitted, phase>>
  PROVE  Flight'
  <1> DEFINE t == Len(carried) + 1
  <1>1. /\ Len(carried) \in Nat /\ carried' \in Seq(Messages)
        /\ Len(carried') = t
    BY AppendProperties, LenProperties DEF Flight, Flows, Deliver
  <1>2. t \in Deliveries
    BY <1>1, EngineAssumption DEF Deliver
  <1>3. ~Queued(t) /\ phase[t] = "new" /\ settled[t] = "no" /\ t \notin emitted
    BY <1>1, <1>2 DEF Flight, Fresh
  <1>4. /\ buffer' \in Seq(Deliveries) /\ Len(buffer') = Len(buffer) + 1
        /\ Len(buffer) \in Nat /\ buffer'[Len(buffer) + 1] = t
        /\ \A i \in 1 .. Len(buffer) : buffer'[i] = buffer[i]
    BY <1>2, AppendProperties, LenProperties DEF Flight, Flows, Deliver
  <1>5. /\ UNCHANGED <<chan, frames, settled, arrived, emitted, phase>>
        /\ unacked' = unacked \cup {t}
    BY DEF Deliver
  <1>6. \A u \in Deliveries : Queued(u)' => Queued(u) \/ u = t
    BY <1>4 DEF Queued
  <1>7. t \notin unacked
    BY <1>1 DEF Flight, Flows
  <1>8. \A i \in 1 .. Len(frames) : ~SettleAt(i, t)
    BY <1>2, <1>7 DEF Flight, ToldOnce
  <1>9. Flows'
    <2>1. unacked' \subseteq 1 .. Len(carried')
      <3>1. \A u \in unacked : u \in 1 .. Len(carried)
        BY DEF Flight, Flows
      <3>2. 1 .. Len(carried) \subseteq 1 .. t /\ t \in 1 .. t
        BY <1>1
      <3> QED BY <1>1, <1>5, <3>1, <3>2
    <2>2. Len(carried') <= Cardinality(Deliveries)
      BY <1>1, EngineAssumption DEF Deliver
    <2> QED BY <1>1, <1>4, <1>5, <2>1, <2>2 DEF Flight, Flows
  <1>10. Fresh'
    <2>1. ASSUME NEW u \in Deliveries, u > Len(carried')
          PROVE  ~Queued(u)' /\ phase[u] = "new" /\ settled[u] = "no"
                 /\ u \notin emitted
      <3>1. u > Len(carried) /\ u # t
        BY <1>1, <2>1, EngineAssumption
      <3> QED BY <1>6, <3>1 DEF Flight, Fresh
    <2> QED BY <1>5, <2>1 DEF Fresh
  <1>11. Holding'
    <2>1. \A i, j \in 1 .. Len(buffer') : buffer'[i] = buffer'[j] => i = j
      BY <1>3, <1>4 DEF Flight, Holding, Queued
    <2>2. \A u \in Deliveries : Queued(u)' => phase'[u] = "new"
      BY <1>3, <1>5, <1>6 DEF Flight, Holding
    <2>3. ASSUME chan' \in Live, NEW u \in Deliveries, Held(u)'
          PROVE  u \in unacked' /\ \A i \in 1 .. Len(frames') : ~SettleAt(i, u)'
      <3>1. u = t \/ Held(u)
        BY <1>5, <1>6, <2>3 DEF Held
      <3>2. CASE u = t
        BY <1>5, <1>8, <3>2 DEF SettleAt
      <3>3. CASE Held(u)
        BY <1>5, <2>3, <3>3 DEF Flight, Holding, SettleAt
      <3> QED BY <3>1, <3>2, <3>3
    <2> QED BY <2>1, <2>2, <2>3 DEF Holding
  <1>12. ToldOnce'
    BY <1>5 DEF Flight, ToldOnce, SettleAt
  <1>13. EmitsAhead'
    BY <1>3, <1>5 DEF Flight, EmitsAhead, SettleAt, EmitAt
  <1> QED BY <1>9, <1>10, <1>11, <1>12, <1>13 DEF Flight

LEMMA EndsKeeps ==
  ASSUME Flight, NEW to \in {"none", "closed"}, Ends(to), UNCHANGED <<emitted, phase>>
  PROVE  Flight'
  <1>1. Flows' /\ Fresh'
    BY EmptySeq DEF Flight, Flows, Fresh, Ends, Queued
  <1>2. Holding'
    BY DEF Flight, Holding, Ends, Queued, Held, Live
  <1>3. ToldOnce' /\ EmitsAhead'
    BY EmptySeq DEF Flight, ToldOnce, EmitsAhead, Ends
  <1> QED BY <1>1, <1>2, <1>3 DEF Flight

(* The broker takes the first frame; all others move up by one.            *)
LEMMA HandleKeeps ==
  ASSUME Flight, Offering, HandleFrame, UNCHANGED <<emitted, phase>>
  PROVE  Flight'
  <1> DEFINE f == Head(frames)
  <1>1. /\ f \in Frame /\ frames' \in Seq(Frame) /\ Len(frames) \in Nat
        /\ Len(frames') = Len(frames) - 1
        /\ \A i \in 1 .. Len(frames') : frames'[i] = frames[i + 1]
    BY HeadTailProperties, LenProperties DEF Flight, Flows, HandleFrame
  <1>2. Len(frames) > 0 /\ f = frames[1] /\ 1 \in 1 .. Len(frames)
    BY <1>1, EmptySeq DEF Flight, Flows, HandleFrame
  <1>3. \A i \in 1 .. Len(frames') :
          /\ i + 1 \in 2 .. Len(frames)
          /\ \A j \in 1 .. i - 1 : j + 1 \in 1 .. (i + 1) - 1
                                   /\ j \in 1 .. Len(frames')
    BY <1>1
  <1>4. UNCHANGED <<buffer, chan, carried, emitted, phase>>
    BY DEF HandleFrame
  <1>5. \A i \in 1 .. Len(frames'), t \in Deliveries :
          /\ SettleAt(i, t)' <=> SettleAt(i + 1, t)
          /\ EmitAt(i, t)' <=> EmitAt(i + 1, t)
    BY <1>1 DEF SettleAt, EmitAt
  <1>6. \A t \in Deliveries : Queued(t)' <=> Queued(t)
    BY <1>4 DEF Queued
  <1>7. \A t \in Deliveries : Held(t)' <=> Held(t)
    BY <1>4, <1>6 DEF Held
  (* An emit that is ahead of its settlement is still ahead, or arrives.   *)
  <1>8. ASSUME NEW t \in emitted, t \in unacked, t \notin arrived,
               ~EmitAt(1, t)
        PROVE  \E i \in 1 .. Len(frames') :
                 EmitAt(i, t)' /\ \A j \in 1 .. i - 1 : ~SettleAt(j, t)'
    <2>1. PICK i \in 1 .. Len(frames) :
            EmitAt(i, t) /\ \A j \in 1 .. i - 1 : ~SettleAt(j, t)
      BY <1>8 DEF Flight, EmitsAhead
    <2>2. i # 1
      BY <1>8, <2>1
    <2>3. PICK k \in 1 .. Len(frames') : k + 1 = i
      BY <1>1, <2>2
    <2>4. t \in Deliveries
      BY DEF Flight, Flows
    <2>5. EmitAt(k, t)'
      BY <1>5, <2>1, <2>3, <2>4
    <2>6. \A j \in 1 .. k - 1 : ~SettleAt(j, t)'
      BY <1>3, <1>5, <2>1, <2>3, <2>4
    <2> QED BY <2>5, <2>6
  <1>9. ASSUME NEW i \in 1 .. Len(frames'), NEW t \in Deliveries,
                SettleAt(i, t)'
         PROVE  /\ t \in unacked /\ \A j \in 1 .. i - 1 : ~SettleAt(j, t)'
                /\ ~SettleAt(1, t)
    <2>1. i + 1 \in 1 .. Len(frames) /\ SettleAt(i + 1, t)
      <3>1. i + 1 \in 2 .. Len(frames)
        BY <1>3
      <3>2. SettleAt(i + 1, t)
        BY <1>5, <1>9
      <3> QED BY <1>1, <3>1, <3>2
    <2>2. t \in unacked /\ \A j \in 1 .. (i + 1) - 1 : ~SettleAt(j, t)
      BY <2>1 DEF Flight, ToldOnce
    <2>3. 1 \in 1 .. (i + 1) - 1
      BY <1>1
    <2>4. \A j \in 1 .. i - 1 : ~SettleAt(j, t)'
      BY <1>3, <1>5, <2>2
    <2> QED BY <2>2, <2>3, <2>4
  <1>10. CASE HandleSettle(f)
    <2>1. f.k = "settle" /\ f.t \in Deliveries /\ f.v \in Verdicts
      BY <1>1, <1>10 DEF HandleSettle, Frame
    <2>2. f.t \in unacked /\ SettleAt(1, f.t)
      BY <1>2, <2>1 DEF Flight, ToldOnce, SettleAt
    <2>3. /\ unacked' = unacked \ {f.t}
          /\ settled' = [t \in Deliveries |-> IF t = f.t THEN f.v ELSE settled[t]]
          /\ arrived' = arrived
      BY <1>10, <2>2 DEF HandleSettle, SpokenFor
    <2>4. Flows' /\ Fresh'
      <3>1. \A t \in Deliveries : t > Len(carried) => t # f.t
        <4>1. f.t \in 1 .. Len(carried) /\ Len(carried) \in Nat
          BY <2>2, LenProperties DEF Flight, Flows
        <4> QED BY <4>1, EngineAssumption
      <3> QED BY <1>1, <1>4, <1>6, <2>1, <2>3, <3>1 DEF Flight, Flows, Fresh
    <2>6. Holding'
      <3>1. ASSUME chan' \in Live, NEW t \in Deliveries, Held(t)'
            PROVE  t \in unacked' /\ \A i \in 1 .. Len(frames') : ~SettleAt(i, t)'
        <4>1. t \in unacked /\ \A i \in 1 .. Len(frames) : ~SettleAt(i, t)
          BY <1>4, <1>7, <3>1 DEF Flight, Holding
        <4>2. t # f.t
          BY <1>2, <2>2, <4>1
        <4>3. \A i \in 1 .. Len(frames') : ~SettleAt(i, t)'
          BY <1>1, <1>3, <1>5, <4>1
        <4> QED BY <2>3, <4>1, <4>2, <4>3
      <3>2. \A t \in Deliveries : Queued(t)' => phase'[t] = "new"
        BY <1>4, <1>6 DEF Flight, Holding
      <3> QED BY <1>4, <3>1, <3>2 DEF Flight, Holding
    <2>7. ToldOnce'
      <3>1. ASSUME NEW i \in 1 .. Len(frames'), NEW t \in Deliveries,
                   SettleAt(i, t)'
            PROVE  t \in unacked' /\ \A j \in 1 .. i - 1 : ~SettleAt(j, t)'
        <4>1. /\ t \in unacked /\ \A j \in 1 .. i - 1 : ~SettleAt(j, t)'
              /\ ~SettleAt(1, t)
          BY <1>9, <3>1
        <4> QED BY <2>2, <2>3, <4>1
      <3> QED BY <3>1 DEF ToldOnce
    <2>8. EmitsAhead'
      <3>1. ASSUME NEW t \in emitted, t \notin arrived
            PROVE  /\ settled'[t] # "ack"
                   /\ t \in unacked' =>
                        \E i \in 1 .. Len(frames') :
                          EmitAt(i, t)' /\ \A j \in 1 .. i - 1 : ~SettleAt(j, t)'
        <4>1. t \in Deliveries /\ settled[t] # "ack"
          BY <3>1 DEF Flight, Flows, EmitsAhead
        <4>2. t # f.t
          <5>1. SUFFICES ASSUME t = f.t PROVE FALSE
            OBVIOUS
          <5>2. PICK i \in 1 .. Len(frames) :
                  EmitAt(i, t) /\ \A j \in 1 .. i - 1 : ~SettleAt(j, t)
            BY <2>2, <3>1, <5>1 DEF Flight, EmitsAhead
          <5>3. i # 1
            BY <1>2, <2>1, <5>2 DEF EmitAt
          <5> QED BY <2>2, <5>1, <5>2, <5>3
        <4>3. ~EmitAt(1, t)
          BY <1>2, <2>1 DEF EmitAt
        <4> QED BY <1>8, <2>3, <3>1, <4>1, <4>2, <4>3
      <3>2. \A t \in unacked' : settled'[t] = "no"
        <4>1. unacked \subseteq Deliveries
          BY EngineAssumption, LenProperties DEF Flight, Flows
        <4> QED BY <2>3, <4>1 DEF Flight, EmitsAhead
      <3> QED BY <1>4, <2>3, <3>1, <3>2 DEF EmitsAhead
    <2> QED BY <2>4, <2>6, <2>7, <2>8 DEF Flight
  <1>11. CASE HandleEmit(f)
    <2>1. /\ UNCHANGED <<unacked, settled>> /\ arrived' = arrived \cup {f.t}
          /\ f.k = "emit"
      BY <1>11 DEF HandleEmit
    <2>2. Flows' /\ Fresh'
      BY <1>1, <1>4, <1>6, <2>1 DEF Flight, Flows, Fresh
    <2>3. Holding'
      <3>1. \A t \in Deliveries : Queued(t)' => phase'[t] = "new"
        BY <1>4, <1>6 DEF Flight, Holding
      <3>2. ASSUME chan' \in Live, NEW t \in Deliveries, Held(t)'
            PROVE  t \in unacked' /\ \A i \in 1 .. Len(frames') : ~SettleAt(i, t)'
        <4>1. t \in unacked /\ \A i \in 1 .. Len(frames) : ~SettleAt(i, t)
          BY <1>4, <1>7, <3>2 DEF Flight, Holding
        <4> QED BY <1>1, <1>3, <1>5, <2>1, <4>1
      <3> QED BY <1>4, <3>1, <3>2 DEF Flight, Holding
    <2>4. ToldOnce'
      BY <1>9, <2>1 DEF ToldOnce
    <2>5. EmitsAhead'
      <3>1. \A t \in emitted : t \notin arrived' => t \notin arrived /\ ~EmitAt(1, t)
        BY <1>2, <2>1 DEF EmitAt
      <3> QED BY <1>4, <1>8, <2>1, <3>1 DEF Flight, EmitsAhead
    <2> QED BY <2>2, <2>3, <2>4, <2>5 DEF Flight
  <1> QED BY <1>10, <1>11 DEF HandleFrame

-----------------------------------------------------------------------------
(* The invariant and what follows from it                                  *)

LEMMA FlightInit == EngineInit => Flight
  <1> SUFFICES ASSUME EngineInit PROVE Flight
    OBVIOUS
  <1>1. /\ carried = <<>> /\ buffer = <<>> /\ frames = <<>> /\ unacked = {}
        /\ emitted = {} /\ settled = [t \in Deliveries |-> "no"]
        /\ phase = [t \in Deliveries |-> "new"] /\ chan = "none"
    BY DEF EngineInit, ContractInit
  <1>2. Flows
    BY <1>1, EmptySeq, EngineAssumption DEF Flows
  <1>3. Fresh /\ Holding
    BY <1>1 DEF Fresh, Holding, Queued, Live
  <1>4. ToldOnce /\ EmitsAhead
    BY <1>1 DEF ToldOnce, EmitsAhead
  <1> QED BY <1>2, <1>3, <1>4 DEF Flight

LEMMA ReceiveKind ==
  ASSUME Flight, ConsumeStep, Receive
  PROVE  HandsOver \/ \E t \in Deliveries, v \in Verdicts : Tells(t, v)
  <1> DEFINE t == Head(buffer)
  <1>1. /\ buffer # <<>> /\ buffer' = Tail(buffer)
        /\ UNCHANGED <<carried, unacked, settled, emitted, arrived, chan, sent>>
    BY DEF ConsumeStep, Receive
  <1>2. t \in Deliveries /\ Queued(t)
    BY <1>1, Dequeued DEF Flight
  <1>3. CASE Undecodable(t) \/ Rejected(t)
    <2>1. PICK v \in Verdicts : SettledUnseen(t, v)
      BY <1>3 DEF Undecodable, Rejected, Verdicts
    <2>2. Tells(t, v)
      BY <1>1, <1>2, <2>1 DEF Tells, Held, SettledUnseen
    <2> QED BY <1>2, <2>2
  <1>4. CASE Admitted(t)
    BY <1>1, <1>4 DEF HandsOver
  <1> QED BY <1>3, <1>4 DEF Receive

LEMMA PoolKind ==
  ASSUME Offering, PoolStep \/ PoolExtra
  PROVE  \/ Quiet
         \/ \E t \in Deliveries, v \in Verdicts : Tells(t, v)
         \/ \E t \in Deliveries : PoolEmits(t) /\ OtherThanPool
  <1>1. OtherThanPool
    BY DEF PoolStep, PoolExtra
  <1>2. PICK t \in Deliveries :
          \/ PoolTakes(t) \/ PoolRefuses(t) \/ PoolEmits(t) \/ ProcessLost(t)
          \/ \E v \in Verdicts : PoolSettles(t, v)
    BY DEF PoolStep, PoolExtra
  <1>3. CASE PoolTakes(t) \/ PoolRefuses(t)
    <2>1. /\ UNCHANGED <<frames, emitted, calls>> /\ phase[t] = "offered"
          /\ \E p \in {"taken", "refused"} : phase' = [phase EXCEPT ![t] = p]
      BY <1>3 DEF PoolTakes, PoolRefuses, Take, Refuse, TakeOffer, RefuseOffer
    <2> QED BY <1>1, <2>1 DEF Quiet, OtherThanPool, Offering
  <1>4. CASE ProcessLost(t) \/ \E v \in Verdicts : PoolSettles(t, v)
    <2>1. PICK v \in Verdicts : SettleWith(t, v) /\ Settle(t, v)
      BY <1>4 DEF ProcessLost, PoolSettles, Verdicts, SettleTaken
    <2>2. emitted' = emitted
      BY <1>4 DEF ProcessLost, PoolSettles, SettleTaken
    <2>3. Tells(t, v)
      BY <1>1, <2>1, <2>2 DEF Tells, Held, SettleWith, OtherThanPool
    <2> QED BY <2>3
  <1>5. CASE PoolEmits(t)
    BY <1>1, <1>5
  <1> QED BY <1>2, <1>3, <1>4, <1>5

(* What the broker does to what is in flight.                              *)
BrokerMoves ==
  /\ UNCHANGED <<emitted, phase, calls>>
  /\ \/ \E m \in Messages : Deliver(m)
     \/ HandleFrame
     \/ \E to \in {"none", "closed"} : Ends(to)

LEMMA StepKinds ==
  ASSUME InFlight, [EngineNext]_vars
  PROVE  \/ Quiet \/ HandsOver \/ BrokerMoves
         \/ \E t \in Deliveries, v \in Verdicts : Tells(t, v)
         \/ \E t \in Deliveries : PoolEmits(t) /\ OtherThanPool
  <1> USE DEF InFlight
  <1>1. CASE StartStep \/ StartFails
    <2>1. UNCHANGED <<buffer, frames, carried, unacked, settled, emitted,
                      arrived, phase, calls, sent>>
      BY <1>1 DEF StartStep, StartFails, OtherThanStart, contractVars
    <2>2. chan' \in Live => chan \in Live \/ pc \in Starting
      BY <1>1 DEF StartStep, StartFails, Prepare, Dial, OpenChannel, Setup,
                  ConnectFails, ServeHealth, ServeFails, StartPool, Subscribe,
                  Live, Starting
    <2> QED BY <2>1, <2>2 DEF Quiet, Connected
  <1>2. CASE ConsumeStep
    <2>1. CASE CtxEnds \/ SeesClosed
      BY <1>2, <2>1 DEF ConsumeStep, CtxEnds, SeesClosed, contractVars, Quiet
    <2> QED BY <1>2, <2>1, ReceiveKind DEF ConsumeStep
  <1>3. CASE CloseStep
    <2>1. UNCHANGED <<frames, carried, settled, emitted, arrived, calls, sent>>
      BY <1>3 DEF CloseStep, DeferredStep
    <2>2. buffer' \in {buffer, <<>>} /\ (chan' \in Live => chan \in Live)
      BY <1>3 DEF CloseStep, DeferredStep, ShutdownPool, StopSignals,
                  CloseHealth, CloseBus,
                  Return, Restart, ProcessEnds, Live
    <2>3. unacked' = unacked
            \/ (unacked' = {} /\ frames = <<>> /\ chan' \notin Live)
      BY <1>3 DEF CloseStep, DeferredStep, ShutdownPool, StopSignals,
                  CloseHealth, CloseBus,
                  Return, Restart, Live
    <2>4. \A t \in Deliveries :
            \/ phase'[t] = phase[t]
            \/ /\ phase[t] \in {"offered", "taken"} /\ phase'[t] = "gone"
               /\ chan' \notin Live
      <3>1. CASE Return
        <4>1. chan' \notin Live
          BY <3>1 DEF Return, Opened, Unwinding, Connected
        <4> QED BY <3>1, <4>1 DEF Return, ProcessEnds
      <3>2. CASE ~Return
        BY <1>3, <3>2 DEF CloseStep, DeferredStep, ShutdownPool, StopSignals,
                          CloseHealth,
                          CloseBus, Restart
      <3> QED BY <3>1, <3>2
    <2> QED BY <2>1, <2>2, <2>3, <2>4 DEF Quiet
  <1>4. CASE Crash
    BY <1>4 DEF Crash, ProcessEnds, Quiet, Live
  <1>5. CASE Signal \/ ServeStops \/ UNCHANGED vars
    BY <1>5 DEF Signal, ServeStops, contractVars, vars, Quiet
  <1>6. CASE OthersPublish
    <2>1. PICK m \in DOMAIN kind : RouteMessage(m)
      BY <1>6 DEF OthersPublish
    <2>2. UNCHANGED <<buffer, chan, frames, carried, unacked, settled, arrived>>
      BY <2>1 DEF RouteMessage
    <2>3. UNCHANGED <<emitted, phase, calls>>
      BY <1>6 DEF OthersPublish, OtherThanBroker, contractVars
    <2> QED BY <2>1, <2>2, <2>3 DEF Quiet
  <1>7. CASE BrokerStep \/ ChannelCloses
    BY <1>7 DEF BrokerStep, ChannelCloses, NoticeDeath, OtherThanBroker,
                contractVars, BrokerMoves
  <1> QED
    BY <1>1, <1>2, <1>3, <1>4, <1>5, <1>6, <1>7, PoolKind
       DEF EngineNext, RunStep, Idle

LEMMA FlightStep ==
  ASSUME InFlight, [EngineNext]_vars
  PROVE  Flight'
  <1>1. Flight /\ Offering
    BY DEF InFlight
  <1>2. CASE BrokerMoves
    BY <1>1, <1>2, DeliverKeeps, HandleKeeps, EndsKeeps DEF BrokerMoves
  <1> QED
    BY <1>1, <1>2, StepKinds, QuietKeeps, HandsOverKeeps, TellsKeeps, EmitsKeeps

LEMMA InFlightStep ==
  ASSUME InFlight, [EngineNext]_vars
  PROVE  InFlight'
  <1>1. Head(buffer) \in Deliveries \/ buffer = <<>>
    BY HeadTailProperties DEF InFlight, Flight, Flows
  <1> QED
    BY <1>1, OpenedStep, OfferingStep, ConnectedStep, FlightStep DEF InFlight

(* The invariant of the engine: in every reachable state what is open is   *)
(* what Run has deferred to close, and whatever is in flight is held by    *)
(* one party that will tell the broker about it once.                      *)
THEOREM InFlightAlways == EngineSpec => []InFlight
  <1>1. EngineInit => InFlight
    BY OpenedInit, ConnectedInit, FlightInit DEF InFlight
  <1>2. InFlight /\ [EngineNext]_vars => InFlight'
    BY InFlightStep
  <1> QED BY <1>1, <1>2, PTL DEF EngineSpec

(* Whatever step of a start fails and however Run ends, it leaves nothing  *)
(* open behind (engine.go:60-84, bus.go:81-96).                            *)
THEOREM NothingLeaksAlways == EngineSpec => []NothingLeaks
  <1>1. InFlight => NothingLeaks
    BY DEF InFlight, Opened, Unwinding, NothingLeaks
  <1> QED BY <1>1, InFlightAlways, PTL

(* While the pool may hold a message the health server has not been closed *)
(* yet: if the settings make it listen where the probe asks and its accept *)
(* loop has not failed, the probe succeeds (health.go:1-5, 46-50).         *)
THEOREM HealthyAlways == EngineSpec => []HealthyWhileWorking
  <1>1. InFlight => HealthyWhileWorking
    BY DEF InFlight, Opened, Unwinding, HealthyWhileWorking, ProbeOK
  <1> QED BY <1>1, InFlightAlways, PTL

(* The consume goroutine, the pool, crashes and restarts together never    *)
(* settle a delivery the broker does not wait for, nor one twice on the    *)
(* same channel (bus.go:56-59, 160-213).                                   *)
THEOREM ChannelNeverBroken == EngineSpec => []NeverBreaksChannel
  <1>1. InFlight => NeverBreaksChannel
    <2> SUFFICES ASSUME InFlight, NEW i \in DOMAIN frames,
                        frames[i].k = "settle"
                 PROVE  /\ frames[i].t \in unacked
                        /\ \A j \in 1 .. i - 1 :
                             frames[j].k = "settle" => frames[j].t # frames[i].t
      BY DEF NeverBreaksChannel
    <2>1. i \in 1 .. Len(frames) /\ frames[i] \in Frame
      BY LenProperties, ElementOfSeq DEF InFlight, Flight, Flows
    <2>2. frames[i].t \in Deliveries
      BY <2>1 DEF Frame
    <2> QED BY <2>1, <2>2 DEF InFlight, Flight, ToldOnce, SettleAt
  <1> QED BY <1>1, InFlightAlways, PTL

(* No handler's output is lost to an ack that overtook it, over any number *)
(* of messages, lives and faults (bus.go:197-235).                         *)
THEOREM AckedAfterEmitsAlways == EngineSpec => []AckedAfterEmits
  <1>1. InFlight => AckedAfterEmits
    BY DEF InFlight, Flight, EmitsAhead, AckedAfterEmits
  <1> QED BY <1>1, InFlightAlways, PTL
=============================================================================

-------------------------------- MODULE Engine --------------------------------
(***************************************************************************)
(* An agent's container over several lives: each runs main and engine.Run  *)
(* (engine.go, bus.go, health.go) against a broker that outlives it.  Run  *)
(* opens the bus, the health server, the signal handling and the pool,     *)
(* consumes, and on its way out closes them again in the reverse order.    *)
(*                                                                         *)
(* The pool is its contract, Settlement: one delivery of the broker (an    *)
(* AMQP delivery tag) is one member of Deliveries.  The broker and the     *)
(* client library are external, modelled from the calls bus.go makes: a    *)
(* durable queue, a window of unsettled deliveries, one channel whose      *)
(* frames are handled in order, and a close that gives back what was not   *)
(* settled.  The container runtime starts goxo again whenever it ends,     *)
(* perhaps with other settings.                                            *)
(***************************************************************************)
EXTENDS Config, Settlement, FiniteSets

CONSTANTS
  Messages,   \* the messages other agents may route to this agent's queue
  Scenarios,  \* what a container may be started with, see Scenario
  MaxEmits    \* bound: emits of all handlers together

(* good: decodes and is admitted; bad: its envelope or its body does not   *)
(* decode; looping: admit rejects it (Scan models how).                    *)
Kinds == {"good", "bad", "looping"}

(* What the process may be started with (what parses as a number, a list   *)
(* or a file is one): each life with one of these worlds, all of one agent *)
(* and so of one queue.  Then the kinds of the messages there are, the     *)
(* same in each life, and a bound on the crashes, signals, failed calls    *)
(* and lost processes.                                                     *)
Scenario(s) ==
  /\ DOMAIN s = {"worlds", "kind", "faults"}
  /\ s.worlds # {}
  /\ \A w \in s.worlds :
       /\ \A k \in Numbers : Params(w)[k] \in Int
       /\ IsList(Manifest(w).args) /\ IsList(Settings(w).args)
       /\ LoadConfig(w) # Unset
  /\ \E M \in SUBSET Messages : s.kind \in [M -> Kinds]
  /\ s.faults \in Nat

ASSUME EngineAssumption ==
  /\ Cardinality(Deliveries) \in Nat
  /\ Deliveries = 1 .. Cardinality(Deliveries)
  /\ \A s \in Scenarios : Scenario(s)
  /\ MaxEmits \in Nat

VARIABLES
  worlds,   \* what this container may be started with
  kind,     \* kind[m]: what becomes of m when it is received
  world,    \* what this life is started with
  conf,     \* what Run makes of it
  told,     \* history: the inputs the handlers of any life so far know of
  mute,     \* the health server's accept loop has failed
  pc,       \* where Run is
  open,     \* what the process holds open
  defers,   \* the deferred calls of Run, the latest last
  ctxDone,  \* runCtx is done
  buffer,   \* deliveries the client library holds for Consume
  chan,     \* the AMQP channel: none, open, consuming, closed, dying
  frames,   \* what was written to the channel and not handled yet
  bound,    \* the selectors the queue is bound to
  sent,     \* the messages routed to the queue so far
  carried,  \* carried[t]: the message delivery t carries
  unacked,  \* the deliveries the broker waits to hear about
  settled,  \* settled[t]: what the broker did on hearing about t
  emitted,  \* history: the deliveries whose handler emitted a message
  arrived,  \* history: those whose emit reached the exchange
  faults    \* how many faults may still happen

startVars == <<worlds, kind, world, conf, told>>
fixedVars == <<startVars, mute>>
vars == <<fixedVars, pc, open, defers, ctxDone, buffer, chan, frames, bound,
          sent, carried, unacked, settled, emitted, arrived, faults,
          contractVars>>

Stages == {"down", "start", "dial", "channel", "setup", "health", "pool",
           "inputs", "select", "dispatch", "unwind"}
Resources == {"conn", "channel", "health", "signal", "pool"}
Live == {"open", "consuming"}
Frame == [k : {"settle"}, t : Deliveries, v : Verdicts]
           \cup [k : {"emit"}, t : Deliveries]

EngineInit ==
  /\ \E s \in Scenarios :
       /\ worlds = s.worlds /\ world \in s.worlds /\ conf = Configured(world)
       /\ kind = s.kind /\ faults = s.faults
  /\ told = {} /\ mute = FALSE
  /\ ContractInit
  /\ pc = "down" /\ open = {} /\ defers = <<>> /\ ctxDone = FALSE
  /\ buffer = <<>> /\ chan = "none" /\ frames = <<>>
  /\ bound = {} /\ sent = {} /\ carried = <<>> /\ unacked = {}
  /\ settled = [t \in Deliveries |-> "no"]
  /\ emitted = {} /\ arrived = {}

Fault == faults > 0 /\ faults' = faults - 1

Goes(to) == pc' = to

HasTimeout == conf.timeout > 0

(* A message is at one place, told by the deliveries that carried it.      *)
Carrying(m) == {t \in DOMAIN carried : carried[t] = m}

Place(m) ==
  IF m \notin sent THEN "absent"
  ELSE IF \E t \in Carrying(m) : settled[t] = "ack" THEN "acked"
  ELSE IF \E t \in Carrying(m) : settled[t] = "nack" THEN "dropped"
  ELSE IF \E t \in Carrying(m) : t \in unacked THEN "held" ELSE "waiting"

-----------------------------------------------------------------------------
(* Starting                                                                *)

(* main and the checks of Run: nothing is open yet.                        *)
Prepare ==
  /\ pc = "start"
  /\ Goes(IF Startable(world) THEN "dial" ELSE "unwind")
  /\ UNCHANGED <<open, defers, chan, bound>>

Dial ==
  /\ pc = "dial"
  /\ Goes("channel")
  /\ open' = open \cup {"conn"}
  /\ UNCHANGED <<defers, chan, bound>>

OpenChannel ==
  /\ pc = "channel"
  /\ Goes("setup")
  /\ open' = open \cup {"channel"}
  /\ chan' = "open"
  /\ UNCHANGED <<defers, bound>>

(* setup: exchange, queue, window and bindings are in place.               *)
Setup ==
  /\ pc = "setup" /\ chan = "open"
  /\ Goes("health")
  /\ bound' = bound \cup conf.inputs
  /\ defers' = <<"bus">>
  /\ UNCHANGED <<open, chan>>

(* Variant: Connect forgets its connection.                                *)
ChannelOnly == {"channel"}

(* What Connect closes before it returns an error.                         *)
ClosedOnError == {"channel", "conn"}

(* A step of Connect fails, in setup perhaps after some of the bindings.   *)
ConnectFails ==
  /\ pc \in {"dial", "channel", "setup"}
  /\ Goes("unwind")
  /\ open' = open \ ClosedOnError
  /\ chan' = "none"
  /\ \E S \in SUBSET conf.inputs :
       /\ pc # "setup" => S = {}
       /\ bound' = bound \cup S
  /\ UNCHANGED defers

ServeHealth ==
  /\ pc = "health"
  /\ Goes("pool")
  /\ open' = open \cup {"health"}
  /\ defers' = Append(defers, "health")
  /\ UNCHANGED <<chan, bound>>

(* The port is taken.                                                      *)
ServeFails ==
  /\ pc = "health"
  /\ Goes("unwind")
  /\ UNCHANGED <<open, defers, chan, bound>>

(* Variants: the pool, or the health server, is closed in another place.   *)
PoolBeforeBus == <<"pool", "bus", "health", "signal">>
HealthOverPool == <<"bus", "signal", "pool", "health">>

(* The deferred calls of Run, in the order they are deferred.              *)
AllDefers == <<"bus", "health", "signal", "pool">>

(* NotifyContext, NewPool and Start.                                       *)
StartPool ==
  /\ pc = "pool"
  /\ Goes("inputs")
  /\ open' = open \cup {"signal", "pool"}
  /\ defers' = AllDefers
  /\ UNCHANGED <<chan, bound>>

(* basic.consume, unless there is nothing to consume or no channel.        *)
Subscribe ==
  /\ pc = "inputs"
  /\ IF conf.briefed # {} /\ chan = "open"
     THEN Goes("select") /\ chan' = "consuming"
     ELSE Goes("unwind") /\ UNCHANGED chan
  /\ UNCHANGED <<open, defers, bound>>

(* What no step of a start touches.                                        *)
OtherThanStart ==
  UNCHANGED <<fixedVars, ctxDone, buffer, frames, sent, carried, unacked,
              settled, emitted, arrived, contractVars>>

StartStep ==
  /\ \/ Prepare \/ Dial \/ OpenChannel \/ Setup
     \/ chan = "closed" /\ ConnectFails
     \/ ServeHealth \/ StartPool \/ Subscribe
  /\ OtherThanStart /\ UNCHANGED faults

StartFails ==
  /\ ConnectFails \/ ServeFails
  /\ OtherThanStart /\ Fault

-----------------------------------------------------------------------------
(* Consuming                                                               *)

(* Variant: settlements do not queue behind emits.                         *)
SettleFirst(f) ==
  frames' = IF chan \notin Live THEN frames
            ELSE IF f.k = "settle" THEN <<f>> \o frames ELSE Append(frames, f)

(* A frame written to a closed channel is an error that nobody looks at.   *)
Write(f) == frames' = IF chan \in Live THEN Append(frames, f) ELSE frames

(* Bus.ack, nack and requeue.                                              *)
Settle(t, v) == Write([k |-> "settle", t |-> t, v |-> v])

(* The consume goroutine settles t itself; the pool never hears of it.     *)
SettledUnseen(t, v) ==
  /\ Settle(t, v)
  /\ calls' = [calls EXCEPT ![t] = Append(@, v)]
  /\ phase' = [phase EXCEPT ![t] = "unseen"]

(* Variant: a bad message is nacked and handled all the same.              *)
NackAndHandle(t) ==
  /\ kind[carried[t]] = "bad"
  /\ Settle(t, "nack")
  /\ calls' = [calls EXCEPT ![t] = Append(@, "nack")]
  /\ phase' = [phase EXCEPT ![t] = "offered"]
  /\ Goes("dispatch")

(* bus.dispatch drops what it cannot decode, engine.handle what admit      *)
(* rejects; the rest is offered to the pool.                               *)
Undecodable(t) ==
  /\ kind[carried[t]] = "bad"
  /\ SettledUnseen(t, "nack")
  /\ UNCHANGED pc

Rejected(t) ==
  /\ kind[carried[t]] = "looping"
  /\ SettledUnseen(t, "ack")
  /\ UNCHANGED pc

Admitted(t) ==
  /\ kind[carried[t]] = "good"
  /\ Offer(t)
  /\ Goes("dispatch")
  /\ UNCHANGED frames

(* The select takes a delivery, even if the context is done too.           *)
Receive ==
  /\ pc = "select" /\ buffer # <<>>
  /\ LET t == Head(buffer) IN Undecodable(t) \/ Rejected(t) \/ Admitted(t)
  /\ buffer' = Tail(buffer)

CtxEnds ==
  /\ pc = "select" /\ ctxDone
  /\ Goes("unwind")
  /\ UNCHANGED <<buffer, frames, contractVars>>

(* Variant: the loop does not look at ok.                                  *)
IgnoreClosed ==
  /\ pc = "select" /\ chan = "closed"
  /\ buffer' = <<>>
  /\ UNCHANGED <<pc, frames, contractVars>>

(* The client library closes its deliveries, whatever it still holds.      *)
SeesClosed ==
  /\ pc = "select" /\ chan = "closed"
  /\ Goes("unwind")
  /\ buffer' = <<>>
  /\ UNCHANGED <<frames, contractVars>>

ConsumeStep ==
  /\ Receive \/ CtxEnds \/ SeesClosed
  /\ UNCHANGED <<fixedVars, open, defers, ctxDone, chan, bound, sent, carried,
                 unacked, settled, emitted, arrived, faults>>

-----------------------------------------------------------------------------
(* The pool, by its contract (PoolContract, which Pool implements):        *)
(* Dispatch blocks until a slot is free or the context is done, and every  *)
(* delivery taken is settled in time.  A slot is free before the callback  *)
(* of its message is called, so only a window no larger than the capacity  *)
(* bounds the deliveries taken.                                            *)

PoolTakes(t) ==
  /\ conf.window \in 1 .. conf.capacity => SlotFree(conf.capacity)
  /\ TakeOffer(t, ctxDone)
  /\ Goes("select")
  /\ UNCHANGED <<frames, emitted, faults>>

PoolRefuses(t) ==
  /\ RefuseOffer(t, ctxDone)
  /\ Goes("select")
  /\ UNCHANGED <<frames, emitted, faults>>

PoolSettles(t, v) ==
  /\ SettleTaken(t, v, ctxDone \/ pc = "unwind")
  /\ Settle(t, v)
  /\ UNCHANGED <<pc, emitted, faults>>

ProcessLost(t) ==
  /\ Fault
  /\ SettleTaken(t, "requeue", TRUE)
  /\ Settle(t, "requeue")
  /\ UNCHANGED <<pc, emitted>>

(* An emit of the handler that the channel accepts.                        *)
PoolEmits(t) ==
  /\ phase[t] = "taken" /\ t \notin emitted /\ chan \in Live
  /\ Cardinality(emitted) < MaxEmits
  /\ Write([k |-> "emit", t |-> t])
  /\ emitted' = emitted \cup {t}
  /\ UNCHANGED <<pc, contractVars, faults>>

OtherThanPool ==
  UNCHANGED <<fixedVars, open, defers, ctxDone, buffer, chan, bound, sent,
              carried, unacked, settled, arrived>>

PoolStep ==
  /\ \E t \in Deliveries :
       \/ PoolTakes(t)
       \/ PoolRefuses(t)
       \/ \E v \in Verdicts : PoolSettles(t, v)
  /\ OtherThanPool

PoolExtra ==
  /\ \E t \in Deliveries : PoolEmits(t) \/ ProcessLost(t)
  /\ OtherThanPool

-----------------------------------------------------------------------------
(* Closing: the deferred calls run from the last to the first.             *)

Closing(r) ==
  /\ pc = "unwind" /\ defers # <<>> /\ Last(defers) = r
  /\ defers' = Front(defers)
  /\ UNCHANGED pc

(* Shutdown returns when the workers have stopped; a message whose timer   *)
(* has just fired may still be waiting for its nack.  It may also block    *)
(* for ever (pool.go:85, the run pool_shutdown_grace): the step need not   *)
(* be taken, unless GraceSuffices is assumed.                              *)
ShutdownPool ==
  /\ Closing("pool")
  /\ Taken = {} \/ HasTimeout
  /\ open' = open \ {"pool"}
  /\ UNCHANGED <<ctxDone, buffer, chan, unacked, phase>>

StopSignals ==
  /\ Closing("signal")
  /\ open' = open \ {"signal"}
  /\ ctxDone' = TRUE
  /\ UNCHANGED <<buffer, chan, unacked, phase>>

CloseHealth ==
  /\ Closing("health")
  /\ open' = open \ {"health"}
  /\ UNCHANGED <<ctxDone, buffer, chan, unacked, phase>>

(* Channel.Close waits for the broker to have handled what was written;    *)
(* what the channel still held is given back.                              *)
CloseBus ==
  /\ Closing("bus")
  /\ frames = <<>>
  /\ open' = open \ {"channel", "conn"}
  /\ chan' = "none" /\ unacked' = {} /\ buffer' = <<>>
  /\ UNCHANGED <<ctxDone, phase>>

(* The process is gone, and with it what it was about to do.               *)
ProcessEnds ==
  /\ Goes("down")
  /\ open' = {} /\ defers' = <<>> /\ ctxDone' = FALSE /\ buffer' = <<>>
  /\ phase' = [t \in Deliveries |->
                 IF phase[t] \in {"offered", "taken"} THEN "gone" ELSE phase[t]]

Return ==
  /\ pc = "unwind" /\ defers = <<>>
  /\ ProcessEnds
  /\ UNCHANGED <<chan, unacked>>

(* The container runtime starts goxo again, on a new connection, with      *)
(* what the settings and the environment now are.                          *)
Restart ==
  /\ pc = "down" /\ chan = "none"
  /\ Goes("start")
  /\ world' \in worlds /\ conf' = Configured(world')
  /\ told' = told \cup BriefedInputs(world')
  /\ mute' = FALSE
  /\ UNCHANGED <<worlds, kind, open, defers, ctxDone, buffer, chan, unacked,
                 phase>>

DeferredStep == StopSignals \/ CloseHealth \/ CloseBus \/ Return

CloseStep ==
  /\ \/ (ShutdownPool \/ DeferredStep) /\ UNCHANGED fixedVars
     \/ Restart
  /\ UNCHANGED <<frames, bound, sent, carried, settled, emitted, arrived,
                 faults, calls>>

(* Accepting connections fails: Serve closes its listener and logs it.     *)
ServeStops ==
  /\ Fault
  /\ "health" \in open /\ ~mute
  /\ mute' = TRUE
  /\ UNCHANGED <<startVars, pc, open, defers, ctxDone, buffer, chan, frames,
                 bound, sent, carried, unacked, settled, emitted, arrived,
                 contractVars>>

(* SIGINT or SIGTERM; before NotifyContext or after stop it is a crash.    *)
Signal ==
  /\ Fault
  /\ "signal" \in open
  /\ ctxDone' = TRUE
  /\ UNCHANGED <<fixedVars, pc, open, defers, buffer, chan, frames, bound,
                 sent, carried, unacked, settled, emitted, arrived,
                 contractVars>>

Crash ==
  /\ Fault
  /\ pc # "down"
  /\ ProcessEnds
  /\ chan' = IF chan \in Live THEN "dying" ELSE "none"
  /\ UNCHANGED <<fixedVars, frames, bound, sent, carried, unacked, settled,
                 emitted, arrived, calls>>

-----------------------------------------------------------------------------
(* The broker                                                              *)

(* Variant: an ack speaks for every delivery before it too.                *)
AllUpTo(t) == 1 .. t

(* The deliveries a settlement of t is about: its "multiple" flag is off.  *)
SpokenFor(t) == {t}

RouteMessage(m) ==
  /\ m \notin sent /\ bound # {}
  /\ sent' = sent \cup {m}
  /\ UNCHANGED <<buffer, chan, frames, carried, unacked, settled, arrived>>

Deliver(m) ==
  /\ chan = "consuming" /\ Place(m) = "waiting"
  /\ Len(carried) < Cardinality(Deliveries)
  /\ conf.window = 0 \/ Cardinality(unacked) < conf.window
  /\ LET t == Len(carried) + 1
     IN  /\ carried' = Append(carried, m)
         /\ unacked' = unacked \cup {t}
         /\ buffer' = Append(buffer, t)
  /\ UNCHANGED <<chan, frames, sent, settled, arrived>>

HandleSettle(f) ==
  /\ f.k = "settle"
  /\ LET S == SpokenFor(f.t) \cap unacked
     IN  /\ unacked' = unacked \ S
         /\ settled' = [t \in Deliveries |->
                          IF t \in S THEN f.v ELSE settled[t]]
  /\ UNCHANGED arrived

HandleEmit(f) ==
  /\ f.k = "emit"
  /\ arrived' = arrived \cup {f.t}
  /\ UNCHANGED <<unacked, settled>>

(* Frames are handled in order; a dead connection's too, until the broker  *)
(* notices.  Settling an unknown delivery would close the channel.         *)
HandleFrame ==
  /\ frames # <<>>
  /\ HandleSettle(Head(frames)) \/ HandleEmit(Head(frames))
  /\ frames' = Tail(frames)
  /\ UNCHANGED <<buffer, chan, sent, carried>>

(* The channel is over for the broker: what it held waits again.           *)
Ends(to) ==
  /\ chan' = to /\ frames' = <<>> /\ unacked' = {}
  /\ UNCHANGED <<buffer, sent, carried, settled, arrived>>

NoticeDeath == chan = "dying" /\ Ends("none")

OtherThanBroker ==
  UNCHANGED <<fixedVars, pc, open, defers, ctxDone, bound, emitted,
              contractVars>>

BrokerStep ==
  /\ (\E m \in Messages : Deliver(m)) \/ HandleFrame \/ NoticeDeath
  /\ OtherThanBroker /\ UNCHANGED faults

OthersPublish ==
  /\ \E m \in DOMAIN kind : RouteMessage(m)
  /\ OtherThanBroker /\ UNCHANGED faults

(* The broker, or the network, closes the channel.                         *)
ChannelCloses ==
  /\ Fault
  /\ chan \in Live /\ Ends("closed")
  /\ OtherThanBroker

-----------------------------------------------------------------------------

RunStep == StartStep \/ ConsumeStep \/ CloseStep

Gone(m) == Place(m) \in {"acked", "dropped"}

(* Everything there was is settled and the engine waits for more.          *)
Idle ==
  /\ pc = "select" /\ \A m \in DOMAIN kind : Gone(m)
  /\ UNCHANGED vars

EngineNext ==
  \/ RunStep \/ StartFails
  \/ PoolStep \/ PoolExtra
  \/ BrokerStep \/ OthersPublish \/ ChannelCloses
  \/ Signal \/ ServeStops \/ Crash
  \/ Idle

EngineSpec == EngineInit /\ [][EngineNext]_vars

(* Run's goroutine is in Pool.Shutdown.                                    *)
InShutdown == pc = "unwind" /\ defers # <<>> /\ Last(defers) = "pool"

(* What is assumed of the pool: it settles what it takes (TakenIsSettled   *)
(* of the worker's runs, under their conditions), and Shutdown returns     *)
(* because the grace never ends while a worker is between two processes    *)
(* (pool_shutdown; pool_shutdown_grace shows that it may).                 *)
PoolGoesOn == WF_vars(PoolStep)
GraceSuffices == WF_vars(InShutdown /\ CloseStep)

FairEngineSpec ==
  /\ EngineSpec
  /\ WF_vars(~InShutdown /\ RunStep)
  /\ GraceSuffices
  /\ PoolGoesOn
  /\ WF_vars(BrokerStep)

-----------------------------------------------------------------------------
(* Properties                                                              *)

(* The types of Run's locals, of the channel and of the broker's records;  *)
(* the window is the 16 bits of basic.qos (engine.go:32-109, bus.go:58-68, *)
(* 111-117, engine/config.go:41-78).                                       *)
EngineTypeOK ==
  /\ pc \in Stages /\ open \subseteq Resources /\ ctxDone \in BOOLEAN
  /\ defers \in Seq(Resources \cup {"bus"})
  /\ chan \in {"none", "closed", "dying"} \cup Live
  /\ buffer \in Seq(Deliveries) /\ frames \in Seq(Frame)
  /\ conf.window \in 0 .. 2 ^ 16 - 1 /\ conf.capacity > 0
  /\ mute \in BOOLEAN /\ bound \subseteq told /\ sent \subseteq Messages
  /\ carried \in Seq(Messages) /\ Len(carried) <= Cardinality(Deliveries)
  /\ unacked \subseteq DOMAIN carried
  /\ settled \in [Deliveries -> Verdicts \cup {"no"}]
  /\ phase \in [Deliveries -> Phases \cup {"unseen", "gone"}]
  /\ calls \in [Deliveries -> Seq(Verdicts)]
  /\ arrived \subseteq emitted /\ emitted \subseteq DOMAIN carried
  /\ faults \in Nat

(* Refinement: over all its lives, with a broker that redelivers, the      *)
(* engine reads its queue as Mailbox says: no message leaves it without a  *)
(* verdict on that message, none that left comes back (bus.go:160-213).    *)
Said(m) == UNION {ToSet(calls[t]) : t \in Carrying(m)}
Box == INSTANCE Mailbox WITH
         place <- [m \in Messages |-> Place(m)],
         said <- [m \in Messages |-> Said(m)]
KeepsQueue == Box!MailboxSpec

(* No settlement reaches the broker for a delivery it no longer waits for: *)
(* it would close the channel that all workers share (bus.go:56-59).  So   *)
(* the consume goroutine and the pool never both settle a delivery.        *)
NeverBreaksChannel ==
  \A i \in DOMAIN frames :
    frames[i].k = "settle" =>
      /\ frames[i].t \in unacked
      /\ \A j \in 1 .. i - 1 :
           frames[j].k = "settle" => frames[j].t # frames[i].t

(* What a handler emitted for a message is on the exchange before the      *)
(* broker forgets the message, although publish and ack come from          *)
(* different calls and neither is confirmed (bus.go:197-235).              *)
AckedAfterEmits ==
  \A t \in emitted : settled[t] = "ack" => t \in arrived

(* With sizes of at least one and a capacity basic.qos can express, the    *)
(* broker's window keeps Dispatch from ever waiting for a slot, over       *)
(* requeues, redeliveries and a closed channel (engine/config.go:39-40).   *)
OfferFits ==
  \A t \in Deliveries :
    /\ phase[t] = "offered"
    /\ Params(world).pool > 0 /\ Params(world).cap > 0
    /\ conf.capacity < 2 ^ 16
    => Cardinality(Taken) < conf.capacity

(* A stop in good order gives back to the broker only messages no handler  *)
(* has seen: the pool is drained and its settlements have arrived before   *)
(* the bus closes (engine.go:82-84, 122-125).  A fired timer is not waited *)
(* for, so this is stated of an engine without a timeout.                  *)
CleanExit ==
  [][chan = "consuming" /\ chan' = "none" /\ ~HasTimeout =>
       \A t \in unacked : phase[t] \in {"new", "refused"}]_vars

(* On every path out of Run, the failures of each step of Connect and of   *)
(* Serve included, all that was opened is closed (engine.go:60-84,         *)
(* bus.go:81-96).                                                          *)
NothingLeaks == pc = "unwind" /\ defers = <<>> => open = {}

(* The healthcheck command exits 0: the server listens where it asks and   *)
(* still answers.                                                          *)
ProbeOK == "health" \in open /\ ~mute /\ ProbeReaches(world)

(* As long as the pool may hold a message the health server is open, so    *)
(* that the runtime does not restart a container that is draining          *)
(* (health.go:1-5).  Whether the probe then succeeds depends on two things *)
(* Run does not look at, and the property is stated where both are given:  *)
(* the settings make the server listen where the probe asks (engine.go:    *)
(* 148-160), and its accept loop has not failed (health.go:46-50).         *)
HealthyWhileWorking ==
  "pool" \in open /\ ProbeReaches(world) /\ ~mute => ProbeOK

(* While it consumes, the queue is bound to all that its handlers were     *)
(* told are their inputs, and to nothing that no life's handlers were ever *)
(* told of, whatever starts failed half-way (engine/config.go:41-88).      *)
(* What an earlier life with other settings bound stays bound, since the   *)
(* queue is durable and nothing unbinds it (bus.go:108-123).               *)
BoundAsBriefed ==
  pc = "select" => conf.briefed \subseteq bound /\ bound \subseteq told

(* Every number Run works with is the first well-formed one of             *)
(* environment, file and default, where 0 in the file means absent for the *)
(* sizes; every argument is the last settings value of its name, or else   *)
(* the last definition default (main.go:66-74, engine/config.go:90-116).   *)
Layers(k) ==
  <<Env(world)[k],
    IF world.file # Unset /\ k \in DOMAIN world.file
      /\ world.file[k] \notin Absent(k) THEN world.file[k] ELSE Unset,
    Default[k]>>
Names(args) == {args[i].name : i \in DOMAIN args}
LastOf(name, args) ==
  LET I == {i \in DOMAIN args : args[i].name = name}
  IN  args[CHOOSE i \in I : \A j \in I : j <= i]
LayersOverlay ==
  pc = "dial" =>
    /\ \A k \in Numbers : \E i \in 1 .. 3 :
         /\ Params(world)[k] = Layers(k)[i]
         /\ Layers(k)[i] \notin {Unset, Bad}
         /\ \A j \in 1 .. i - 1 : Layers(k)[j] \in {Unset, Bad}
    /\ \A n \in Names(Manifest(world).args) \cup Names(Settings(world).args) :
         HandlerArgs(world)[n] =
           IF n \in Names(Settings(world).args)
           THEN Decode(LastOf(n, Settings(world).args))
           ELSE LastOf(n, Manifest(world).args).value

(* Every message that reached the queue is settled in the end, whatever    *)
(* closes, crashes, is requeued or configured anew on the way, as long as  *)
(* the faults are finite and every start finds something to consume; under *)
(* PoolGoesOn and GraceSuffices (bus.go:142-156, engine.go:103-108).       *)
EventuallySettled == \A m \in Messages : m \in sent ~> Gone(m)
=============================================================================

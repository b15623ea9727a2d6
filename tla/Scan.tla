-------------------------------- MODULE Scan --------------------------------
(***************************************************************************)
(* A scan: several agents on one topic exchange, each run by a goxo engine *)
(* (internal/engine/admit.go and engine.go, internal/bus/bus.go and        *)
(* control.go).  A message is its selector and the chain of agents its     *)
(* control envelope records; an agent consumes its queue, admits a message *)
(* by its chain, and publishes emits with itself appended to that chain.   *)
(* The pool behind an agent is reduced to what Settlement promises: each   *)
(* admitted message is settled by one ack, nack or requeue.                *)
(***************************************************************************)
EXTENDS Naturals, Sequences, FiniteSets

CONSTANTS
  Agents,
  Words,         \* what the segments of a selector are drawn from
  MessageID,     \* the last segment of a routing key
  Selectors,     \* the selectors, as sequences of segments
  Roots,         \* the selectors a scan may be started with
  Inputs,        \* Inputs[a]: the selectors a's queue is bound to
  Outputs,       \* Outputs[a]: the selectors a declares as outputs
  Known,         \* Known[a]: the selectors a's descriptor set resolves
  Cyclic, Depth, \* Cyclic[a], Depth[a]: a's limits, 0 for none
  Accepted,      \* Accepted[a]: the senders a accepts, {} for all
  Slots,         \* the messages an agent may have unsettled (the prefetch)
  Timed,         \* the agents whose messages have a timeout
  Careless,      \* the agents whose handlers emit without naming a message
  EmitsEach,     \* bound: emits of one message
  MaxReturns,    \* bound: requeues and redeliveries
  MaxStray       \* bound: emits outstanding for no message in flight

ASSUME ScanAssumption ==
  /\ \A t \in Selectors : t \in Seq(Words)
  /\ Roots \subseteq Selectors
  /\ Inputs \in [Agents -> SUBSET Selectors]
  /\ Outputs \in [Agents -> SUBSET Selectors]
  /\ Known \in [Agents -> SUBSET Selectors]
  /\ Cyclic \in [Agents -> Nat]
  /\ Depth \in [Agents -> Nat]
  /\ Accepted \in [Agents -> SUBSET Agents]
  /\ Timed \subseteq Agents /\ Careless \subseteq Agents
  /\ EmitsEach \in Nat /\ MaxReturns \in Nat /\ MaxStray \in Nat

VARIABLES
  queue,   \* queue[a]: the messages in a's queue at the broker
  slot,    \* slot[a][i]: the message a works on in slot i, or Free
  stray,   \* stray[a]: emits to come for messages a has timed out, or none
  returns  \* requeues and redeliveries so far

vars == <<queue, slot, stray, returns>>

Message == [sel : Selectors, chain : Seq(Agents)]

(* A message in a slot and the emits its handler may still make.           *)
Work == [m : Message, left : 0 .. EmitsEach]
Free == [left |-> 0]

-----------------------------------------------------------------------------
(* count(chain, agent), and the immediate sender.                          *)
Uses(chain, a) == Cardinality({i \in DOMAIN chain : chain[i] = a})
Sender(chain) == chain[Len(chain)]

(* Variants of some of the operators below, as in Worker.                  *)
AdmitOneMore(chain, a) ==                \* > for >= in admit
  /\ Cyclic[a] # 0 => Uses(chain, a) <= Cyclic[a]
  /\ Depth[a] # 0 => Len(chain) <= Depth[a]
  /\ chain # <<>> /\ Accepted[a] # {} => Sender(chain) \in Accepted[a]
PassOn(chain, a) == chain                \* publish without appending
WholeKey(key) == key                     \* the id not stripped

-----------------------------------------------------------------------------

(* admit: count(chain, agent) below the cyclic limit, len(chain) below the *)
(* depth limit, the last agent of the chain an accepted sender.            *)
Admit(chain, a) ==
  /\ Cyclic[a] # 0 => Uses(chain, a) < Cyclic[a]
  /\ Depth[a] # 0 => Len(chain) < Depth[a]
  /\ chain # <<>> /\ Accepted[a] # {} => Sender(chain) \in Accepted[a]

(* The routing key of an emit is its selector and a fresh id, and the      *)
(* consumer takes the selector back out of it.                             *)
RoutingKey(s) == Append(s, MessageID)
SelectorFrom(key) == SubSeq(key, 1, Len(key) - 1)

(* The binding "input.#" of a's queue matches the routing key.             *)
Bound(a, key) ==
  \E t \in Inputs[a] : Len(t) <= Len(key) /\ SubSeq(key, 1, Len(t)) = t

(* buildPublishing: the chain of an emit is the message's and this agent.  *)
ChainAfter(chain, a) == Append(chain, a)

(* The exchange puts a copy in every queue with a matching binding.        *)
Publish(a, chain, s) ==
  LET m == [sel |-> SelectorFrom(RoutingKey(s)), chain |-> ChainAfter(chain, a)]
  IN  queue' = [b \in Agents |-> IF Bound(b, RoutingKey(s))
                                 THEN Append(queue[b], m)
                                 ELSE queue[b]]

(* The selectors an emit gets through with: declared, and encodable.       *)
Emittable(a) == Outputs[a] \cap Known[a]

(* The OXO runtime starts the scan with messages no agent has handled.     *)
(* A handler may emit for none of them, once it runs.                      *)
ScanInit ==
  /\ \E s \in Roots :
       queue = [a \in Agents |->
                  IF Bound(a, RoutingKey(s))
                  THEN <<[sel |-> s, chain |-> <<>>]>> ELSE <<>>]
  /\ slot = [a \in Agents |-> [i \in Slots |-> Free]]
  /\ stray \in [Agents -> 0 .. MaxStray]
  /\ \A a \in Agents \ Careless : stray[a] = 0
  /\ returns = 0

-----------------------------------------------------------------------------
(* Consume, dispatch and handle                                            *)

(* The broker delivers the oldest message while the window is open.        *)
Delivered(a) == queue[a] # <<>> /\ \E i \in Slots : slot[a][i] = Free

Dequeue(a) == queue' = [queue EXCEPT ![a] = Tail(@)]

(* The selector resolves and the chain is admitted: the pool takes it.     *)
Take(a, i) ==
  LET m == Head(queue[a])
  IN  /\ Delivered(a) /\ slot[a][i] = Free
      /\ m.sel \in Known[a]
      /\ Admit(m.chain, a)
      /\ Dequeue(a)
      /\ slot' = [slot EXCEPT ![a][i] = [m |-> m, left |-> EmitsEach]]
      /\ UNCHANGED <<stray, returns>>

(* An undecodable message is nacked, a rejected one acked: both are gone.  *)
Drop(a) ==
  LET m == Head(queue[a])
  IN  /\ Delivered(a)
      /\ m.sel \notin Known[a] \/ ~Admit(m.chain, a)
      /\ Dequeue(a)
      /\ UNCHANGED <<slot, stray, returns>>

(* The handler emits for a message in flight.                              *)
Emit(a, i, s) ==
  /\ slot[a][i] # Free /\ slot[a][i].left > 0
  /\ s \in Emittable(a)
  /\ slot' = [slot EXCEPT ![a][i].left = @ - 1]
  /\ Publish(a, slot[a][i].m.chain, s)
  /\ UNCHANGED <<stray, returns>>

(* ack and nack (without requeue): the message leaves the broker.          *)
Settle(a, i) ==
  /\ slot[a][i] # Free
  /\ slot' = [slot EXCEPT ![a][i] = Free]
  /\ UNCHANGED <<queue, stray, returns>>

(* requeue, or the engine goes away with the message unsettled: the broker *)
(* delivers it again.                                                      *)
Return(a, i) ==
  /\ slot[a][i] # Free
  /\ returns < MaxReturns
  /\ returns' = returns + 1
  /\ queue' = [queue EXCEPT ![a] = <<slot[a][i].m>> \o @]
  /\ slot' = [slot EXCEPT ![a][i] = Free]
  /\ UNCHANGED stray

(* armTimeout: the message is nacked, its handler works on.                *)
TimeOut(a, i) ==
  /\ a \in Timed
  /\ slot[a][i] # Free
  /\ stray[a] + slot[a][i].left <= MaxStray
  /\ stray' = [stray EXCEPT ![a] = @ + slot[a][i].left]
  /\ slot' = [slot EXCEPT ![a][i] = Free]
  /\ UNCHANGED <<queue, returns>>

(* A handler at work on a message emits without its id (an emit's deliver  *)
(* is optional), or with one that is not known: the chain is nil.          *)
EmitUnnamed(a, i, s) ==
  /\ a \in Careless
  /\ slot[a][i] # Free /\ slot[a][i].left > 0
  /\ s \in Emittable(a)
  /\ slot' = [slot EXCEPT ![a][i].left = @ - 1]
  /\ Publish(a, <<>>, s)
  /\ UNCHANGED <<stray, returns>>

(* An emit for no message in flight: onEmit finds no chain either.         *)
LateEmit(a, s) ==
  /\ stray[a] > 0
  /\ s \in Emittable(a)
  /\ stray' = [stray EXCEPT ![a] = @ - 1]
  /\ Publish(a, <<>>, s)
  /\ UNCHANGED <<slot, returns>>

(* A handler is done with it without a further emit.                       *)
LateEnds(a) ==
  /\ stray[a] > 0
  /\ stray' = [stray EXCEPT ![a] = @ - 1]
  /\ UNCHANGED <<queue, slot, returns>>

-----------------------------------------------------------------------------

Consume(a) == Drop(a) \/ \E i \in Slots : Take(a, i)

(* Every queue is empty and no handler works: the scan is over.            *)
Quiet ==
  \A a \in Agents :
    queue[a] = <<>> /\ stray[a] = 0 /\ \A i \in Slots : slot[a][i] = Free

Over == Quiet /\ UNCHANGED vars

ScanNext ==
  \/ \E a \in Agents :
       \/ Consume(a)
       \/ \E i \in Slots :
            \/ \E s \in Selectors : Emit(a, i, s) \/ EmitUnnamed(a, i, s)
            \/ Settle(a, i) \/ Return(a, i) \/ TimeOut(a, i)
       \/ \E s \in Selectors : LateEmit(a, s)
       \/ LateEnds(a)
  \/ Over

ScanSpec == ScanInit /\ [][ScanNext]_vars

(* Every engine consumes, and every handler finishes its messages.         *)
FairScanSpec ==
  /\ ScanSpec
  /\ \A a \in Agents :
       /\ WF_vars(Consume(a))
       /\ WF_vars(LateEnds(a))
       /\ \A i \in Slots : WF_vars(Settle(a, i))

-----------------------------------------------------------------------------
(* Properties                                                              *)

(* Queues hold messages, slots hold messages with emits left, and an emit  *)
(* is never counted twice (bus.go: Delivery; worker.go: inflight).         *)
ScanTypeOK ==
  /\ queue \in [Agents -> Seq(Message)]
  /\ slot \in [Agents -> [Slots -> Work \cup {Free}]]
  /\ stray \in [Agents -> Nat]
  /\ returns \in Nat

(* What the limits of the agents on a chain allow it to be.                *)
CyclicKept(chain) ==
  \A a \in Agents : Cyclic[a] # 0 => Uses(chain, a) <= Cyclic[a]

DepthKept(chain) ==
  \A i \in DOMAIN chain : Depth[chain[i]] # 0 => i <= Depth[chain[i]]

SendersKept(chain) ==
  \A i \in DOMAIN chain :
    i > 1 /\ Accepted[chain[i]] # {} => chain[i - 1] \in Accepted[chain[i]]

WithinLimits(chain) ==
  CyclicKept(chain) /\ DepthKept(chain) /\ SendersKept(chain)

(* Each agent checks only the chain it is shown and only its own limits    *)
(* (admit.go:11-17), on a chain other engines wrote; yet on the whole bus  *)
(* no chain ever runs through an agent more often than its cyclic limit,   *)
(* reaches it deeper than its depth limit or from a sender it does not     *)
(* accept, whatever is requeued, delivered twice, emitted late or emitted  *)
(* for no message at all.                                                  *)
ChainsWithinLimits ==
  \A a \in Agents :
    /\ \A j \in DOMAIN queue[a] : WithinLimits(queue[a][j].chain)
    /\ \A i \in Slots :
         slot[a][i] # Free =>
           WithinLimits(ChainAfter(slot[a][i].m.chain, a))

(* A cyclic limit on one agent of each loop ends the scan, whatever is     *)
(* requeued, as long as every emit on a loop names a message in flight: no *)
(* agent on a loop times messages out or is careless.  Any other emit has  *)
(* a chain of its own, which no limit has seen (worker.go:335-348, note.go:*)
(* 74-82, admit.go:21-35).                                                 *)
ScanEnds == <>[]Quiet
=============================================================================

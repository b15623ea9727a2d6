----------------------------- MODULE ScanProofs -----------------------------
(***************************************************************************)
(* Proofs about Scan: the limits of every agent hold of every chain on the *)
(* bus, for any agents, selectors, bindings and limits.                    *)
(*                                                                         *)
(* The inductive invariant is ScanTypeOK with ChainsWithinLimits itself:   *)
(* the conjunct about slots carries what Admit established from the moment *)
(* a message is taken to the moment an emit is published with its chain.   *)
(***************************************************************************)
EXTENDS Scan, FiniteSetTheorems, TLAPS

(* Queues and slots that are typed and within the limits.                  *)
QueuesIn(q) ==
  /\ q \in [Agents -> Seq(Message)]
  /\ \A a \in Agents : \A j \in DOMAIN q[a] : WithinLimits(q[a][j].chain)

SlotsIn(sl) ==
  /\ sl \in [Agents -> [Slots -> Work \cup {Free}]]
  /\ \A a \in Agents, i \in Slots :
       sl[a][i] # Free => WithinLimits(ChainAfter(sl[a][i].m.chain, a))

LIn == QueuesIn(queue) /\ SlotsIn(slot) /\ stray \in [Agents -> Nat]
       /\ returns \in Nat

-----------------------------------------------------------------------------
(* Chains                                                                  *)

(* count is a natural number, 0 of the empty chain.                        *)
LEMMA UsesType ==
  ASSUME NEW chain \in Seq(Agents), NEW a
  PROVE  /\ IsFiniteSet({i \in DOMAIN chain : chain[i] = a})
         /\ Uses(chain, a) \in Nat
         /\ chain = <<>> => Uses(chain, a) = 0
  <1> DEFINE P == {i \in DOMAIN chain : chain[i] = a}
  <1>1. IsFiniteSet(1 .. Len(chain)) BY FS_Interval
  <1>2. P \subseteq 1 .. Len(chain) OBVIOUS
  <1>3. IsFiniteSet(P) BY <1>1, <1>2, FS_Subset
  <1>4. Cardinality(P) \in Nat BY <1>3, FS_CardinalityType
  <1>5. chain = <<>> => P = {} BY SMT
  <1>6. chain = <<>> => Cardinality(P) = 0 BY <1>5, FS_EmptySet
  <1> QED BY <1>3, <1>4, <1>6 DEF Uses

(* Appending an agent to a chain adds one use of it and of no other.       *)
LEMMA UsesAppend ==
  ASSUME NEW chain \in Seq(Agents), NEW a \in Agents, NEW b \in Agents
  PROVE  Uses(Append(chain, a), b)
           = IF a = b THEN Uses(chain, b) + 1 ELSE Uses(chain, b)
  <1> DEFINE P == {i \in DOMAIN chain : chain[i] = b}
             c == Append(chain, a)
             Q == {i \in DOMAIN c : c[i] = b}
             n == Len(chain) + 1
  <1>1. n \notin P BY SMT
  <1>2. DOMAIN c = DOMAIN chain \cup {n}
        /\ c[n] = a /\ \A i \in DOMAIN chain : c[i] = chain[i]
    BY SMT
  <1>3. CASE a = b
    <2>1. Q = P \cup {n} BY <1>2, <1>3, Zenon
    <2>2. IsFiniteSet(P) BY UsesType
    <2>3. Cardinality(P \cup {n}) = Cardinality(P) + 1
      BY <1>1, <2>2, FS_AddElement
    <2> QED BY <2>1, <2>3, <1>3 DEF Uses
  <1>4. CASE a # b
    <2>1. Q = P BY <1>2, <1>4, Zenon
    <2> QED BY <2>1, <1>4 DEF Uses
  <1> QED BY <1>3, <1>4

(* A chain no agent has touched is within every limit.                     *)
LEMMA EmptyWithin == WithinLimits(<<>>)
  <1>1. <<>> \in Seq(Agents) OBVIOUS
  <1>2. CyclicKept(<<>>)
    <2> SUFFICES ASSUME NEW a \in Agents, Cyclic[a] # 0
                 PROVE  Uses(<<>>, a) <= Cyclic[a]
      BY DEF CyclicKept
    <2>1. Uses(<<>>, a) = 0 BY <1>1, UsesType
    <2>2. Cyclic[a] \in Nat BY ScanAssumption
    <2> QED BY <2>1, <2>2
  <1>3. DepthKept(<<>>) /\ SendersKept(<<>>)
    BY DEF DepthKept, SendersKept
  <1> QED BY <1>2, <1>3 DEF WithinLimits

(* What admit lets through stays within the limits when the agent that     *)
(* admitted it is appended: the step from one engine to the next.          *)
LEMMA AdmittedWithin ==
  ASSUME NEW chain \in Seq(Agents), NEW a \in Agents,
         WithinLimits(chain), Admit(chain, a)
  PROVE  WithinLimits(Append(chain, a))
  <1> DEFINE c == Append(chain, a)
             n == Len(chain) + 1
  <1>1. /\ DOMAIN c = DOMAIN chain \cup {n}
        /\ c[n] = a
        /\ \A i \in DOMAIN chain : c[i] = chain[i] /\ i \in 1 .. Len(chain)
    BY SMT
  <1>2. CyclicKept(c)
    <2> SUFFICES ASSUME NEW b \in Agents, Cyclic[b] # 0
                 PROVE  Uses(c, b) <= Cyclic[b]
      BY DEF CyclicKept
    <2>1. Uses(chain, b) \in Nat /\ Cyclic[b] \in Nat
      BY UsesType, ScanAssumption
    <2>2. Uses(chain, b) <= Cyclic[b]
      BY DEF WithinLimits, CyclicKept
    <2>3. a = b => Uses(chain, b) < Cyclic[b]
      BY DEF Admit
    <2>4. Uses(c, b) = IF a = b THEN Uses(chain, b) + 1 ELSE Uses(chain, b)
      BY UsesAppend
    <2> QED BY <2>1, <2>2, <2>3, <2>4
  <1>3. DepthKept(c)
    <2> SUFFICES ASSUME NEW i \in DOMAIN c, Depth[c[i]] # 0
                 PROVE  i <= Depth[c[i]]
      BY DEF DepthKept
    <2>1. CASE i \in DOMAIN chain
      BY <1>1, <2>1 DEF WithinLimits, DepthKept
    <2>2. CASE i = n
      <3>1. Len(chain) < Depth[a] BY <1>1, <2>2 DEF Admit
      <3>2. Depth[a] \in Nat BY ScanAssumption
      <3> QED BY <1>1, <2>2, <3>1, <3>2
    <2> QED BY <1>1, <2>1, <2>2
  <1>4. SendersKept(c)
    <2> SUFFICES ASSUME NEW i \in DOMAIN c, i > 1, Accepted[c[i]] # {}
                 PROVE  c[i - 1] \in Accepted[c[i]]
      BY DEF SendersKept
    <2>1. CASE i \in DOMAIN chain
      <3>1. i - 1 \in DOMAIN chain BY <1>1, <2>1, SMT
      <3> QED BY <1>1, <2>1, <3>1 DEF WithinLimits, SendersKept
    <2>2. CASE i = n
      <3>1. chain # <<>> /\ i - 1 = Len(chain) /\ i - 1 \in DOMAIN chain
        BY <2>2, SMT
      <3>2. chain[Len(chain)] \in Accepted[a]
        BY <1>1, <2>2, <3>1 DEF Admit, Sender
      <3> QED BY <1>1, <2>2, <3>1, <3>2
    <2> QED BY <1>1, <2>1, <2>2
  <1> QED BY <1>2, <1>3, <1>4 DEF WithinLimits

(* A late emit starts a chain of its own, which is within the limits too:  *)
(* they are all at least one and its one agent has no sender.              *)
LEMMA LateWithin ==
  ASSUME NEW a \in Agents
  PROVE  WithinLimits(Append(<<>>, a))
  <1>0. <<>> \in Seq(Agents) OBVIOUS
  <1>1. Uses(<<>>, a) = 0 BY <1>0, UsesType
  <1>2. Cyclic[a] \in Nat /\ Depth[a] \in Nat BY ScanAssumption
  <1>3. Admit(<<>>, a) BY <1>1, <1>2 DEF Admit
  <1> QED BY <1>0, <1>3, EmptyWithin, AdmittedWithin

-----------------------------------------------------------------------------
(* Queues and slots                                                        *)

LEMMA InIsInvariant == LIn <=> ScanTypeOK /\ ChainsWithinLimits
  BY DEF LIn, QueuesIn, SlotsIn, ScanTypeOK, ChainsWithinLimits

(* The selector an emit was published on is the one it is consumed with.   *)
LEMMA KeyRoundTrip ==
  ASSUME NEW s \in Selectors
  PROVE  SelectorFrom(RoutingKey(s)) = s
  <1> DEFINE S == Words \cup {MessageID}
  <1>1. s \in Seq(Words) BY ScanAssumption
  <1>2. s \in Seq(S) /\ MessageID \in S BY <1>1
  <1> HIDE DEF S
  <1>3. SubSeq(Append(s, MessageID), 1, Len(Append(s, MessageID)) - 1) = s
    BY <1>2
  <1> QED BY <1>3 DEF SelectorFrom, RoutingKey

(* A queue stays within the limits when a message within them arrives.     *)
LEMMA AppendIn ==
  ASSUME NEW q \in Seq(Message), NEW m \in Message,
         \A j \in DOMAIN q : WithinLimits(q[j].chain),
         WithinLimits(m.chain)
  PROVE  /\ Append(q, m) \in Seq(Message)
         /\ \A j \in DOMAIN Append(q, m) : WithinLimits(Append(q, m)[j].chain)
  <1>1. Append(q, m) \in Seq(Message) OBVIOUS
  <1>2. /\ DOMAIN Append(q, m) = DOMAIN q \cup {Len(q) + 1}
        /\ Append(q, m)[Len(q) + 1] = m
        /\ \A j \in DOMAIN q : Append(q, m)[j] = q[j]
    BY SMT
  <1> QED BY <1>1, <1>2, Zenon

LEMMA PublishIn ==
  ASSUME QueuesIn(queue), NEW a \in Agents, NEW chain \in Seq(Agents),
         NEW s \in Selectors, WithinLimits(ChainAfter(chain, a)),
         Publish(a, chain, s)
  PROVE  QueuesIn(queue')
  <1> DEFINE m == [sel |-> s, chain |-> ChainAfter(chain, a)]
  <1>1. m \in Message BY DEF Message, ChainAfter
  <1>2. queue' = [b \in Agents |-> IF Bound(b, RoutingKey(s))
                                   THEN Append(queue[b], m) ELSE queue[b]]
    BY KeyRoundTrip DEF Publish
  <1>3. ASSUME NEW b \in Agents
        PROVE  /\ queue'[b] \in Seq(Message)
               /\ \A j \in DOMAIN queue'[b] : WithinLimits(queue'[b][j].chain)
    <2>1. /\ queue[b] \in Seq(Message)
          /\ \A j \in DOMAIN queue[b] : WithinLimits(queue[b][j].chain)
      BY DEF QueuesIn
    <2>2. /\ Append(queue[b], m) \in Seq(Message)
          /\ \A j \in DOMAIN Append(queue[b], m) :
               WithinLimits(Append(queue[b], m)[j].chain)
      <3>1. WithinLimits(m.chain) OBVIOUS
      <3> HIDE DEF m
      <3> QED BY <1>1, <2>1, <3>1, AppendIn
    <2>3. queue'[b] = Append(queue[b], m) \/ queue'[b] = queue[b]
      BY <1>2
    <2> QED BY <2>1, <2>2, <2>3
  <1>4. queue' = [b \in Agents |-> queue'[b]] BY <1>2
  <1> QED BY <1>3, <1>4 DEF QueuesIn

(* The consumer takes the head of a queue; requeue puts a message back.    *)
LEMMA HeadIn ==
  ASSUME QueuesIn(queue), NEW a \in Agents, Delivered(a)
  PROVE  /\ Head(queue[a]) \in Message
         /\ WithinLimits(Head(queue[a]).chain)
         /\ Dequeue(a) => QueuesIn(queue')
  <1> DEFINE q == queue[a]
  <1>1. q \in Seq(Message) /\ q # <<>>
        /\ \A j \in DOMAIN q : WithinLimits(q[j].chain)
    BY DEF QueuesIn, Delivered
  <1>2. Head(q) \in Message /\ 1 \in DOMAIN q /\ Head(q) = q[1]
    BY <1>1
  <1>3. Tail(q) \in Seq(Message)
        /\ \A j \in DOMAIN Tail(q) : j + 1 \in DOMAIN q /\ Tail(q)[j] = q[j + 1]
    BY <1>1
  <1>4. \A j \in DOMAIN Tail(q) : WithinLimits(Tail(q)[j].chain)
    BY <1>1, <1>3
  <1>5. ASSUME Dequeue(a) PROVE QueuesIn(queue')
    BY <1>3, <1>4, <1>5 DEF Dequeue, QueuesIn
  <1> QED BY <1>1, <1>2, <1>5

LEMMA RequeueIn ==
  ASSUME QueuesIn(queue), NEW a \in Agents, NEW m \in Message,
         WithinLimits(m.chain),
         queue' = [queue EXCEPT ![a] = <<m>> \o @]
  PROVE  QueuesIn(queue')
  <1> DEFINE q == queue[a]
             r == <<m>> \o q
  <1>1. q \in Seq(Message) /\ \A j \in DOMAIN q : WithinLimits(q[j].chain)
    BY DEF QueuesIn
  <1>2. r \in Seq(Message) /\ Len(r) = Len(q) + 1 /\ r[1] = m
        /\ \A j \in DOMAIN r : j # 1 => j - 1 \in DOMAIN q /\ r[j] = q[j - 1]
    BY <1>1
  <1>3. \A j \in DOMAIN r : WithinLimits(r[j].chain)
    BY <1>1, <1>2
  <1> HIDE DEF r
  <1>4. queue' = [queue EXCEPT ![a] = r] BY DEF r
  <1> QED BY <1>2, <1>3, <1>4 DEF QueuesIn

(* A chain within the limits of its agents was within them before its last *)
(* agent was appended: so a message that is requeued still is.             *)
LEMMA BeforeWithin ==
  ASSUME NEW chain \in Seq(Agents), NEW a \in Agents,
         WithinLimits(ChainAfter(chain, a))
  PROVE  WithinLimits(chain)
  <1> DEFINE c == Append(chain, a)
  <1>1. /\ DOMAIN chain \subseteq DOMAIN c
        /\ \A i \in DOMAIN chain : c[i] = chain[i]
        /\ \A i \in DOMAIN chain : i > 1 => i - 1 \in DOMAIN chain
    BY SMT
  <1>2. WithinLimits(c) BY DEF ChainAfter
  <1>3. CyclicKept(chain)
    <2> SUFFICES ASSUME NEW b \in Agents, Cyclic[b] # 0
                 PROVE  Uses(chain, b) <= Cyclic[b]
      BY DEF CyclicKept
    <2>1. Uses(chain, b) \in Nat /\ Cyclic[b] \in Nat
      BY UsesType, ScanAssumption
    <2>2. Uses(c, b) <= Cyclic[b] BY <1>2 DEF WithinLimits, CyclicKept
    <2>3. Uses(c, b) = IF a = b THEN Uses(chain, b) + 1 ELSE Uses(chain, b)
      BY UsesAppend
    <2> QED BY <2>1, <2>2, <2>3
  <1>4. DepthKept(chain)
    BY <1>1, <1>2 DEF WithinLimits, DepthKept
  <1>5. SendersKept(chain)
    <2> HIDE DEF c
    <2> QED BY <1>1, <1>2 DEF WithinLimits, SendersKept
  <1> QED BY <1>3, <1>4, <1>5 DEF WithinLimits

LEMMA InFlightIn ==
  ASSUME SlotsIn(slot), NEW a \in Agents, NEW i \in Slots, slot[a][i] # Free
  PROVE  /\ slot[a][i] \in Work
         /\ slot[a][i].m \in Message
         /\ slot[a][i].m.chain \in Seq(Agents)
         /\ WithinLimits(ChainAfter(slot[a][i].m.chain, a))
  BY DEF SlotsIn, Work, Message

LEMMA FreedIn ==
  ASSUME SlotsIn(slot), NEW a \in Agents, NEW i \in Slots,
         slot' = [slot EXCEPT ![a][i] = Free]
  PROVE  SlotsIn(slot')
  BY DEF SlotsIn

LEMMA PutIn ==
  ASSUME SlotsIn(slot), NEW a \in Agents, NEW i \in Slots, NEW v \in Work,
         WithinLimits(ChainAfter(v.m.chain, a)),
         slot' = [slot EXCEPT ![a][i] = v]
  PROVE  SlotsIn(slot')
  BY DEF SlotsIn

(* An emit counts one down and leaves the message as it was.               *)
LEMMA OneEmitLess ==
  ASSUME SlotsIn(slot), NEW a \in Agents, NEW i \in Slots,
         slot[a][i] # Free, slot[a][i].left > 0,
         slot' = [slot EXCEPT ![a][i].left = @ - 1]
  PROVE  SlotsIn(slot')
  <1> DEFINE w == slot[a][i]
             k == w.left - 1
             v == [w EXCEPT !.left = k]
  <1>1. w \in Work /\ WithinLimits(ChainAfter(w.m.chain, a))
    BY InFlightIn
  <1>2. slot' = [slot EXCEPT ![a][i] = v]
    BY DEF SlotsIn
  <1>3. k \in 0 .. EmitsEach
    BY <1>1, ScanAssumption DEF Work
  <1>4. v \in Work /\ v.m = w.m
    <2> HIDE DEF k, w
    <2>1. PICK x \in Message, l \in 0 .. EmitsEach : w = [m |-> x, left |-> l]
      BY <1>1 DEF Work
    <2>2. v = [m |-> x, left |-> k]
      BY <2>1
    <2>3. v \in Work
      BY <1>3, <2>2 DEF Work
    <2> QED BY <2>1, <2>2, <2>3
  <1>5. WithinLimits(ChainAfter(v.m.chain, a))
    BY <1>1, <1>4
  <1> HIDE DEF v
  <1> QED BY <1>2, <1>4, <1>5, PutIn

-----------------------------------------------------------------------------
(* The invariant                                                           *)

LEMMA LInInit == ScanInit => LIn
  <1> SUFFICES ASSUME ScanInit PROVE LIn OBVIOUS
  <1>1. PICK s \in Roots : queue = [a \in Agents |->
                  IF Bound(a, RoutingKey(s))
                  THEN <<[sel |-> s, chain |-> <<>>]>> ELSE <<>>]
    BY DEF ScanInit
  <1> DEFINE m == [sel |-> s, chain |-> <<>>]
  <1>2. m \in Message /\ WithinLimits(m.chain)
    BY ScanAssumption, EmptyWithin DEF Message
  <1>3. ASSUME NEW a \in Agents
        PROVE  /\ queue[a] \in Seq(Message)
               /\ \A j \in DOMAIN queue[a] : WithinLimits(queue[a][j].chain)
    <2> HIDE DEF m
    <2>1. CASE queue[a] = <<m>>
      <3>1. DOMAIN queue[a] = {1} /\ queue[a][1] = m BY <2>1
      <3> QED BY <1>2, <2>1, <3>1
    <2>2. CASE queue[a] = <<>>
      BY <2>2
    <2> QED BY <1>1, <2>1, <2>2 DEF m
  <1>4. QueuesIn(queue) BY <1>1, <1>3 DEF QueuesIn
  <1>5. SlotsIn(slot) BY DEF ScanInit, SlotsIn
  <1> QED BY <1>4, <1>5 DEF ScanInit, LIn

LEMMA LInNext == LIn /\ [ScanNext]_vars => LIn'
  <1> SUFFICES ASSUME LIn, [ScanNext]_vars PROVE LIn' OBVIOUS
  <1> USE DEF LIn
  <1>1. ASSUME NEW a \in Agents, NEW i \in Slots, Take(a, i) PROVE LIn'
    <2> DEFINE m == Head(queue[a])
    <2>1. m \in Message /\ WithinLimits(m.chain) /\ QueuesIn(queue')
      BY <1>1, HeadIn DEF Take
    <2>2. m.chain \in Seq(Agents) BY <2>1 DEF Message
    <2>3. WithinLimits(ChainAfter(m.chain, a))
      BY <1>1, <2>1, <2>2, AdmittedWithin DEF Take, ChainAfter
    <2>4. [m |-> m, left |-> EmitsEach] \in Work
      BY <2>1, ScanAssumption DEF Work
    <2>5. slot' = [slot EXCEPT ![a][i] = [m |-> m, left |-> EmitsEach]]
      BY <1>1 DEF Take
    <2>6. SlotsIn(slot')
      <3> HIDE DEF m
      <3> QED BY <2>3, <2>4, <2>5 DEF SlotsIn
    <2> QED BY <1>1, <2>1, <2>6 DEF Take
  <1>2. ASSUME NEW a \in Agents, Drop(a) PROVE LIn'
    BY <1>2, HeadIn DEF Drop
  <1>3. ASSUME NEW a \in Agents, NEW i \in Slots, NEW s \in Selectors,
               Emit(a, i, s)
        PROVE  LIn'
    <2> DEFINE w == slot[a][i]
    <2>1. /\ w \in Work /\ w.m \in Message /\ w.m.chain \in Seq(Agents)
          /\ WithinLimits(ChainAfter(w.m.chain, a))
      BY <1>3, InFlightIn DEF Emit
    <2>2. QueuesIn(queue')
      BY <1>3, <2>1, PublishIn DEF Emit
    <2>3. SlotsIn(slot')
      BY <1>3, OneEmitLess DEF Emit
    <2> QED BY <1>3, <2>2, <2>3 DEF Emit
  <1>4. ASSUME NEW a \in Agents, NEW i \in Slots, Settle(a, i) PROVE LIn'
    BY <1>4, FreedIn DEF Settle
  <1>5. ASSUME NEW a \in Agents, NEW i \in Slots, Return(a, i) PROVE LIn'
    <2>1. /\ slot[a][i].m \in Message
          /\ slot[a][i].m.chain \in Seq(Agents)
          /\ WithinLimits(ChainAfter(slot[a][i].m.chain, a))
      BY <1>5, InFlightIn DEF Return
    <2>2. WithinLimits(slot[a][i].m.chain)
      BY <2>1, BeforeWithin
    <2>3. QueuesIn(queue')
      BY <1>5, <2>1, <2>2, RequeueIn DEF Return
    <2>4. SlotsIn(slot') BY <1>5, FreedIn DEF Return
    <2> QED BY <1>5, <2>3, <2>4 DEF Return
  <1>6. ASSUME NEW a \in Agents, NEW i \in Slots, TimeOut(a, i) PROVE LIn'
    <2>1. slot[a][i].left \in Nat
      BY <1>6, InFlightIn, ScanAssumption DEF TimeOut, Work
    <2>2. stray' \in [Agents -> Nat]
      BY <1>6, <2>1 DEF TimeOut
    <2> QED BY <1>6, <2>2, FreedIn DEF TimeOut
  <1>7. ASSUME NEW a \in Agents, NEW s \in Selectors, LateEmit(a, s)
        PROVE  LIn'
    <2>1. <<>> \in Seq(Agents) OBVIOUS
    <2>2. WithinLimits(ChainAfter(<<>>, a)) BY LateWithin DEF ChainAfter
    <2>3. QueuesIn(queue')
      BY <1>7, <2>1, <2>2, PublishIn DEF LateEmit
    <2>4. stray' \in [Agents -> Nat] BY <1>7 DEF LateEmit
    <2> QED BY <1>7, <2>3, <2>4 DEF LateEmit
  <1>10. ASSUME NEW a \in Agents, NEW i \in Slots, NEW s \in Selectors,
                EmitUnnamed(a, i, s)
         PROVE  LIn'
    <2>1. <<>> \in Seq(Agents) OBVIOUS
    <2>2. WithinLimits(ChainAfter(<<>>, a)) BY LateWithin DEF ChainAfter
    <2>3. QueuesIn(queue')
      BY <1>10, <2>1, <2>2, PublishIn DEF EmitUnnamed
    <2>4. SlotsIn(slot')
      BY <1>10, OneEmitLess DEF EmitUnnamed
    <2> QED BY <1>10, <2>3, <2>4 DEF EmitUnnamed
  <1>8. ASSUME NEW a \in Agents, LateEnds(a) PROVE LIn'
    BY <1>8 DEF LateEnds
  <1>9. CASE Over \/ UNCHANGED vars
    BY <1>9 DEF Over, vars
  <1> QED
    BY <1>1, <1>2, <1>3, <1>4, <1>5, <1>6, <1>7, <1>8, <1>9,
       <1>10
    DEF ScanNext, Consume

(* For any agents, bindings and limits, and however messages are requeued, *)
(* delivered again, timed out and emitted late or for no message: no chain *)
(* on the bus breaks a limit of an agent it runs through (admit.go:21-35,  *)
(* bus.go:248-250).                                                        *)
THEOREM LimitsHold == ScanSpec => []ChainsWithinLimits
  <1>1. LIn => ChainsWithinLimits BY InIsInvariant
  <1> QED BY <1>1, LInInit, LInNext, PTL DEF ScanSpec

(* The queues, the messages in flight and the stray emits of every agent   *)
(* keep their types (bus.go:29-35, admit.go:12-17).                        *)
THEOREM ScanTypes == ScanSpec => []ScanTypeOK
  <1>1. LIn => ScanTypeOK BY InIsInvariant
  <1> QED BY <1>1, LInInit, LInNext, PTL DEF ScanSpec
=============================================================================

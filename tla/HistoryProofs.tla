---------------------------- MODULE HistoryProofs ----------------------------
(***************************************************************************)
(* What the notes on their way between a worker and its process say about  *)
(* the worker's map, and what follows from it: an emit keeps the chain of  *)
(* its message, a requeued delivery was never picked up, and without       *)
(* timeouts the queue of cap + 1 notes always has room and the process     *)
(* never has more than cap messages.                                       *)
(*                                                                         *)
(* The inductive invariant follows a message through the two pipes: it is  *)
(* in the queue, or in stdin, or in the process's hands, or ended, and in  *)
(* one of these places at a time; pickups and emits come before its done;  *)
(* and until its done has been read, whoever names it agrees with the map. *)
(***************************************************************************)
EXTENDS ContractProofs, FiniteSetTheorems

-----------------------------------------------------------------------------
(* Queues of notes                                                         *)

(* The notes in a queue.                                                   *)
Notes(q) == {q[j] : j \in DOMAIN q}

(* No id has two notes of kind k in a queue.                               *)
Once(q, k) ==
  \A j, l \in DOMAIN q :
    q[j].k = k /\ q[l].k = k /\ q[j].id = q[l].id => j = l

(* What a process says of a message it says before it ends it.             *)
Ends(q) ==
  \A j, l \in DOMAIN q :
    q[j].k = "done" /\ q[l].k \in {"pickup", "emit"} /\ q[l].id = q[j].id
      => l < j

LEMMA QueueEmpty ==
  Notes(<<>>) = {} /\ (\A k : Once(<<>>, k)) /\ Ends(<<>>)
  BY DEF Notes, Once, Ends

LEMMA QueueAppend ==
  ASSUME NEW X, NEW q \in Seq(X), NEW n \in X
  PROVE  /\ Notes(Append(q, n)) = Notes(q) \cup {n}
         /\ \A k : /\ Once(q, k)
                   /\ n.k = k => \A m \in Notes(q) : m.k = k => m.id # n.id
                   => Once(Append(q, n), k)
         /\ /\ Ends(q)
            /\ n.k \in {"pickup", "emit"}
                 => \A m \in Notes(q) : m.k = "done" => m.id # n.id
            => Ends(Append(q, n))
  <1> DEFINE r == Append(q, n)
             e == Len(q) + 1
  <1>1. /\ DOMAIN r = DOMAIN q \cup {e} /\ r[e] = n
        /\ \A j \in DOMAIN q : r[j] = q[j] /\ j \in Int /\ j < e
        /\ e \in Int
    BY SMT
  <1> HIDE DEF r, e
  <1>2. Notes(r) = Notes(q) \cup {n}
    BY <1>1 DEF Notes
  <1>3. ASSUME NEW k, Once(q, k),
               n.k = k => \A m \in Notes(q) : m.k = k => m.id # n.id
        PROVE  Once(r, k)
    BY <1>1, <1>3 DEF Once, Notes
  <1>4. ASSUME Ends(q),
               n.k \in {"pickup", "emit"}
                 => \A m \in Notes(q) : m.k = "done" => m.id # n.id
        PROVE  Ends(r)
    <2> SUFFICES ASSUME NEW j \in DOMAIN r, NEW l \in DOMAIN r,
                        r[j].k = "done", r[l].k \in {"pickup", "emit"},
                        r[l].id = r[j].id
                 PROVE  l < j
      BY DEF Ends
    <2>1. CASE j \in DOMAIN q /\ l \in DOMAIN q
      BY <1>1, <1>4, <2>1 DEF Ends
    <2>2. CASE j = e /\ l \in DOMAIN q
      BY <1>1, <2>2
    <2>3. CASE j \in DOMAIN q /\ l = e
      BY <1>1, <1>4, <2>3 DEF Notes
    <2>4. CASE j = e /\ l = e
      BY <1>1, <2>4
    <2> QED BY <1>1, <2>1, <2>2, <2>3, <2>4
  <1> QED BY <1>2, <1>3, <1>4 DEF r

LEMMA QueueTail ==
  ASSUME NEW X, NEW q \in Seq(X), q # <<>>
  PROVE  /\ Notes(q) = {Head(q)} \cup Notes(Tail(q))
         /\ \A k : Once(q, k) =>
              /\ Once(Tail(q), k)
              /\ Head(q).k = k =>
                   \A m \in Notes(Tail(q)) : m.k = k => m.id # Head(q).id
         /\ Ends(q) =>
              /\ Ends(Tail(q))
              /\ Head(q).k = "done" =>
                   \A m \in Notes(Tail(q)) :
                     m.k \in {"pickup", "emit"} => m.id # Head(q).id
  <1> DEFINE r == Tail(q)
             h == Head(q)
  <1>1. /\ h = q[1] /\ 1 \in DOMAIN q
        /\ \A j \in DOMAIN r : /\ j \in Int /\ j > 0
                               /\ j + 1 \in DOMAIN q /\ r[j] = q[j + 1]
        /\ \A j \in DOMAIN q : j = 1 \/ (j - 1 \in DOMAIN r /\ q[j] = r[j - 1])
    BY SMT
  <1> HIDE DEF r, h
  <1>2. Notes(q) = {h} \cup Notes(r)
    BY <1>1 DEF Notes
  <1>3. ASSUME NEW k, Once(q, k)
        PROVE  /\ Once(r, k)
               /\ h.k = k => \A m \in Notes(r) : m.k = k => m.id # h.id
    <2>1. Once(r, k)
      BY <1>1, <1>3 DEF Once
    <2>2. ASSUME h.k = k, NEW j \in DOMAIN r, r[j].k = k PROVE r[j].id # h.id
      BY <1>1, <1>3, <2>2 DEF Once
    <2> QED BY <2>1, <2>2 DEF Notes
  <1>4. ASSUME Ends(q)
        PROVE  /\ Ends(r)
               /\ h.k = "done" => \A m \in Notes(r) :
                                    m.k \in {"pickup", "emit"} => m.id # h.id
    <2>1. ASSUME NEW j \in DOMAIN r, NEW l \in DOMAIN r, r[j].k = "done",
                 r[l].k \in {"pickup", "emit"}, r[l].id = r[j].id
          PROVE  l < j
      <3>1. l + 1 < j + 1
        <4>1. /\ j + 1 \in DOMAIN q /\ r[j] = q[j + 1]
              /\ l + 1 \in DOMAIN q /\ r[l] = q[l + 1]
          BY <1>1
        <4> QED BY <1>4, <2>1, <4>1 DEF Ends
      <3> QED BY <1>1, <3>1
    <2>2. ASSUME h.k = "done", NEW j \in DOMAIN r,
                 r[j].k \in {"pickup", "emit"}
          PROVE  r[j].id # h.id
      BY <1>1, <1>4, <2>2 DEF Ends
    <2>3. Ends(r)
      BY <2>1 DEF Ends
    <2> QED BY <2>2, <2>3 DEF Notes
  <1> QED BY <1>2, <1>3, <1>4 DEF r, h

(* What Says appends, note by note.                                        *)
LEMMA SaysOne ==
  ASSUME NEW X, NEW q \in Seq(X), NEW n \in X
  PROVE  q \o <<n>> = Append(q, n)
  <1>1. <<n>> \in Seq(X) /\ Len(<<n>>) = 1 /\ <<n>>[1] = n
    OBVIOUS
  <1>2. /\ q \o <<n>> \in Seq(X) /\ Len(q \o <<n>>) = Len(q) + 1
        /\ \A j \in 1 .. Len(q) + 1 :
             (q \o <<n>>)[j] = IF j <= Len(q) THEN q[j] ELSE <<n>>[j - Len(q)]
    BY <1>1, ConcatProperties
  <1>3. /\ Append(q, n) \in Seq(X) /\ Len(Append(q, n)) = Len(q) + 1
        /\ \A j \in 1 .. Len(q) : Append(q, n)[j] = q[j]
        /\ Append(q, n)[Len(q) + 1] = n
    BY AppendProperties
  <1>4. Len(q) \in Nat
    BY LenProperties
  <1> DEFINE c == q \o <<n>>
             a == Append(q, n)
  <1>5. \A j \in 1 .. Len(c) : c[j] = a[j]
    <2> SUFFICES ASSUME NEW j \in 1 .. Len(q) + 1 PROVE c[j] = a[j]
      BY <1>2
    <2>1. CASE j <= Len(q)
      BY <1>2, <1>3, <1>4, <2>1
    <2>2. CASE ~(j <= Len(q))
      <3>1. j = Len(q) + 1 /\ j - Len(q) = 1
        BY <1>4, <2>2
      <3> QED BY <1>1, <1>2, <1>3, <2>2, <3>1
    <2> QED BY <2>1, <2>2
  <1> HIDE DEF c, a
  <1>6. c = a
    BY <1>2, <1>3, <1>5, SeqEqual DEF c, a
  <1> QED BY <1>6 DEF c, a

LEMMA SaysTwo ==
  ASSUME NEW X, NEW q \in Seq(X), NEW m \in X, NEW n \in X
  PROVE  q \o <<m, n>> = Append(Append(q, m), n)
  <1>1. <<m>> \in Seq(X) /\ <<n>> \in Seq(X) /\ Append(q, m) \in Seq(X)
    BY AppendProperties
  <1>2. <<m, n>> = Append(<<m>>, n)
    BY SMT
  <1>3. <<m, n>> = <<m>> \o <<n>>
    BY <1>1, <1>2, SaysOne
  <1>4. q \o <<m, n>> = (q \o <<m>>) \o <<n>>
    BY <1>1, <1>3, ConcatAssociative
  <1> QED BY <1>1, <1>4, SaysOne

-----------------------------------------------------------------------------
(* A message on its way through one worker: O is the queue of its writer,  *)
(* I is stdin, H is what the process has in hand and S is stdout.          *)

(* The deliver notes on their way, and what the process has written.       *)
Queued(O, I) == {n \in Notes(O) \cup Notes(I) : n.k = "deliver"}
Spoken(S) == {p \in Notes(S) : p.k # "bad"}

(* Something refers to the id i; a message not yet ended has the id i and  *)
(* the delivery d.                                                         *)
Mentions(O, I, H, S, i) ==
  \E n \in Notes(O) \cup Notes(I) \cup H \cup Spoken(S) : n.id = i
Names(O, I, H, S, i, d) ==
  \E n \in Queued(O, I) \cup H \cup {p \in Spoken(S) : p.k # "done"} :
    n.id = i /\ n.d = d

(* A message is at one stage at a time: queued, in stdin, in hand, ended.  *)
Staged(O, I, H, S) ==
  /\ Once(O, "deliver") /\ Once(I, "deliver") /\ Ends(S)
  /\ \A n \in Notes(O), m \in Notes(I) :
       n.k = "deliver" /\ m.k = "deliver" => n.id # m.id
  /\ \A n \in Queued(O, I), m \in H \cup Spoken(S) : m.id # n.id
  /\ \A g, h \in H : g.id = h.id => g = h
  /\ \A h \in H, p \in Spoken(S) : p.k = "done" => p.id # h.id

(* From one state of the pipes to the next nothing new turns up.           *)
Flows(O, I, H, S, O2, I2, H2, S2) ==
  /\ Staged(O2, I2, H2, S2)
  /\ Queued(O2, I2) \subseteq Queued(O, I)
  /\ \A i : Mentions(O2, I2, H2, S2, i) => Mentions(O, I, H, S, i)
  /\ \A i, d : Names(O2, I2, H2, S2, i, d) => Names(O, I, H, S, i, d)

(* The writer moves a note from the queue to stdin, or loses it.           *)
LEMMA WriteFlows ==
  ASSUME NEW O \in Seq(OutNote), NEW I \in Seq(OutNote), NEW H, NEW S,
         O # <<>>, Staged(O, I, H, S),
         NEW I2, I2 = I \/ I2 = Append(I, Head(O))
  PROVE  Flows(O, I, H, S, Tail(O), I2, H, S)
  <1> DEFINE h == Head(O)
             O2 == Tail(O)
  <1>1. /\ Notes(O) = {h} \cup Notes(O2)
        /\ Once(O, "deliver") =>
             /\ Once(O2, "deliver")
             /\ h.k = "deliver" =>
                  \A m \in Notes(O2) : m.k = "deliver" => m.id # h.id
    BY QueueTail
  <1>2. h \in OutNote
    BY HeadTailProperties
  <1>3. \/ Notes(I2) = Notes(I) /\ (Once(I, "deliver") => Once(I2, "deliver"))
        \/ /\ Notes(I2) = Notes(I) \cup {h}
           /\ /\ Once(I, "deliver")
              /\ h.k = "deliver"
                   => \A m \in Notes(I) : m.k = "deliver" => m.id # h.id
              => Once(I2, "deliver")
    <2>1. CASE I2 = I
      BY <2>1
    <2>2. CASE I2 = Append(I, h)
      <3> DEFINE J == Append(I, h)
      <3>1. /\ Notes(J) = Notes(I) \cup {h}
            /\ \A k : /\ Once(I, k)
                      /\ h.k = k => \A m \in Notes(I) : m.k = k => m.id # h.id
                      => Once(J, k)
        BY <1>2, QueueAppend
      <3> HIDE DEF h, J
      <3> QED BY <2>2, <3>1 DEF J
    <2> QED BY <2>1, <2>2
  <1> HIDE DEF h, O2
  <1>4. Queued(O2, I2) \subseteq Queued(O, I)
    BY <1>1, <1>3 DEF Queued
  <1>5. Once(O2, "deliver") /\ Once(I2, "deliver") /\ Ends(S)
    BY <1>1, <1>3 DEF Staged
  <1>6. \A n \in Notes(O2), m \in Notes(I2) :
          n.k = "deliver" /\ m.k = "deliver" => n.id # m.id
    BY <1>1, <1>3 DEF Staged
  <1>7. Staged(O2, I2, H, S)
    BY <1>4, <1>5, <1>6 DEF Staged
  <1>8. Notes(O2) \cup Notes(I2) \subseteq Notes(O) \cup Notes(I)
    BY <1>1, <1>3
  <1> QED BY <1>4, <1>7, <1>8 DEF Flows, Mentions, Names, O2

(* The process takes a message off stdin and writes its pickup.            *)
LEMMA TakeFlows ==
  ASSUME NEW O, NEW I \in Seq(OutNote), NEW H, NEW S \in Seq(InNote),
         I # <<>>, Head(I).k = "deliver", Staged(O, I, H, S),
         NEW m, m.id = Head(I).id, m.d = Head(I).d,
         NEW p \in InNote, p.k = "pickup", p.id = m.id, p.d = m.d
  PROVE  Flows(O, I, H, S, O, Tail(I), H \cup {m}, Append(S, p))
  <1> DEFINE n == Head(I)
             I2 == Tail(I)
             S2 == Append(S, p)
             H2 == H \cup {m}
  <1>1. /\ Notes(I) = {n} \cup Notes(I2)
        /\ Once(I, "deliver") =>
             /\ Once(I2, "deliver")
             /\ \A l \in Notes(I2) : l.k = "deliver" => l.id # n.id
    BY QueueTail
  <1>2. /\ Notes(S2) = Notes(S) \cup {p}
        /\ /\ Ends(S)
           /\ \A l \in Notes(S) : l.k = "done" => l.id # p.id
           => Ends(S2)
    BY QueueAppend
  <1>3. n.k = "deliver" /\ m.id = n.id /\ m.d = n.d
    OBVIOUS
  <1> HIDE DEF n, I2, S2
  <1>4. n \in Queued(O, I)
    BY <1>1, <1>3 DEF Queued
  <1>5. \A l \in H \cup Spoken(S) : l.id # n.id
    BY <1>4 DEF Staged
  <1>6. Ends(S2)
    BY <1>2, <1>3, <1>5 DEF Staged, Spoken
  <1>7. Spoken(S2) = Spoken(S) \cup {p}
    BY <1>2 DEF Spoken
  <1>8. Queued(O, I) = Queued(O, I2) \cup {n}
    BY <1>1, <1>3 DEF Queued
  <1>9. \A l \in Queued(O, I2) : l.id # n.id
    BY <1>1, <1>3 DEF Queued, Staged
  <1>10. \A l \in Queued(O, I2), g \in H2 \cup Spoken(S2) : g.id # l.id
    BY <1>3, <1>7, <1>8, <1>9 DEF Staged
  <1>11. \A g, l \in H2 : g.id = l.id => g = l
    BY <1>3, <1>5 DEF Staged
  <1>12. \A g \in H2, l \in Spoken(S2) : l.k = "done" => l.id # g.id
    BY <1>3, <1>5, <1>7 DEF Staged
  <1>13. Staged(O, I2, H2, S2)
    <2>1. \A l \in Notes(O), g \in Notes(I2) :
            l.k = "deliver" /\ g.k = "deliver" => l.id # g.id
      BY <1>1 DEF Staged
    <2>2. Once(O, "deliver") /\ Once(I2, "deliver")
      BY <1>1 DEF Staged
    <2> HIDE DEF H2
    <2> QED BY <1>6, <1>10, <1>11, <1>12, <2>1, <2>2 DEF Staged
  <1>14. \A i : Mentions(O, I2, H2, S2, i) => Mentions(O, I, H, S, i)
    BY <1>1, <1>3, <1>7 DEF Mentions
  <1>15. \A i, d : Names(O, I2, H2, S2, i, d) => Names(O, I, H, S, i, d)
    BY <1>3, <1>4, <1>7, <1>8 DEF Names
  <1> QED BY <1>8, <1>13, <1>14, <1>15 DEF Flows, I2, S2

(* The messages in hand change their state, or some are gone; and maybe an *)
(* answer is taken off stdin.                                              *)
LEMMA HandFlows ==
  ASSUME NEW O, NEW I \in Seq(OutNote), NEW H, NEW S, Staged(O, I, H, S),
         NEW H2, \A m \in H2 : \E l \in H : l.id = m.id /\ l.d = m.d,
         \A g, l \in H2 : g.id = l.id => g = l,
         NEW I2, I2 = I \/ (I # <<>> /\ I2 = Tail(I))
  PROVE  Flows(O, I, H, S, O, I2, H2, S)
  <1>1. /\ Notes(I2) \subseteq Notes(I)
        /\ Once(I, "deliver") => Once(I2, "deliver")
    <2>1. CASE I2 = I
      BY <2>1
    <2>2. CASE I # <<>> /\ I2 = Tail(I)
      BY <2>2, QueueTail
    <2> QED BY <2>1, <2>2
  <1>2. Queued(O, I2) \subseteq Queued(O, I)
    BY <1>1 DEF Queued
  <1>3. \A n \in Queued(O, I2), m \in H2 \cup Spoken(S) : m.id # n.id
    BY <1>2 DEF Staged
  <1>4. \A h \in H2, p \in Spoken(S) : p.k = "done" => p.id # h.id
    BY DEF Staged
  <1>5. Staged(O, I2, H2, S)
    BY <1>1, <1>3, <1>4 DEF Staged
  <1>6. \A i : Mentions(O, I2, H2, S, i) => Mentions(O, I, H, S, i)
    BY <1>1 DEF Mentions
  <1>7. \A i, d : Names(O, I2, H2, S, i, d) => Names(O, I, H, S, i, d)
    BY <1>2 DEF Names
  <1> QED BY <1>2, <1>5, <1>6, <1>7 DEF Flows

(* The process writes an emit of a message it has in hand, ends a message, *)
(* or writes what is no note.                                              *)
LEMMA SayFlows ==
  ASSUME NEW O, NEW I, NEW H, NEW S \in Seq(InNote), Staged(O, I, H, S),
         NEW p \in InNote, NEW H2 \in SUBSET H,
         \/ p.k = "bad"
         \/ p.k = "emit" /\ \E m \in H : m.id = p.id /\ m.d = p.d
         \/ /\ p.k = "done" /\ Mentions(O, I, H, S, p.id)
            /\ \A n \in Queued(O, I) : n.id # p.id
            /\ \A h \in H2 : h.id # p.id
  PROVE  Flows(O, I, H, S, O, I, H2, Append(S, p))
  <1> DEFINE S2 == Append(S, p)
  <1>1. /\ Notes(S2) = Notes(S) \cup {p}
        /\ /\ Ends(S)
           /\ p.k \in {"pickup", "emit"}
                => \A m \in Notes(S) : m.k = "done" => m.id # p.id
           => Ends(S2)
    BY QueueAppend
  <1> HIDE DEF S2
  <1>2. Ends(S2)
    BY <1>1 DEF Staged, Spoken
  <1>3. Spoken(S2) \subseteq Spoken(S) \cup {p} /\ (p.k = "bad" => p \notin Spoken(S2))
    BY <1>1 DEF Spoken
  <1>4. \A n \in Queued(O, I), m \in H2 \cup Spoken(S2) : m.id # n.id
    BY <1>3 DEF Staged
  <1>5. \A h \in H2, l \in Spoken(S2) : l.k = "done" => l.id # h.id
    BY <1>3 DEF Staged
  <1>6. Staged(O, I, H2, S2)
    BY <1>2, <1>4, <1>5 DEF Staged
  <1>7. \A i : Mentions(O, I, H2, S2, i) => Mentions(O, I, H, S, i)
    BY <1>3 DEF Mentions
  <1>8. \A i, d : Names(O, I, H2, S2, i, d) => Names(O, I, H, S, i, d)
    BY <1>3 DEF Names
  <1> QED BY <1>6, <1>7, <1>8 DEF Flows, S2

(* The engine reads a note, and may queue the answer to an emit.           *)
LEMMA ReadFlows ==
  ASSUME NEW O \in Seq(OutNote), NEW I, NEW H, NEW S \in Seq(InNote),
         S # <<>>, Staged(O, I, H, S), NEW O2,
         \/ O2 = O
         \/ /\ Head(S).k = "emit"
            /\ \E a \in OutNote : /\ a.k = "emit_ack" /\ a.id = Head(S).id
                                  /\ O2 = Append(O, a)
  PROVE  /\ Flows(O, I, H, S, O2, I, H, Tail(S))
         /\ Head(S).k = "done"
              => \A d : ~Names(O2, I, H, Tail(S), Head(S).id, d)
  <1> DEFINE p == Head(S)
             S2 == Tail(S)
  <1>1. /\ Notes(S) = {p} \cup Notes(S2)
        /\ Ends(S) =>
             /\ Ends(S2)
             /\ p.k = "done" => \A m \in Notes(S2) :
                                  m.k \in {"pickup", "emit"} => m.id # p.id
    BY QueueTail
  <1>2. \A m \in Notes(S2) : m.k \in {"pickup", "emit", "done", "bad"}
    <2>1. \A m \in InNote : m.k \in {"pickup", "emit", "done", "bad"}
      BY DEF InNote, BadNote
    <2>2. S2 \in Seq(InNote)
      BY HeadTailProperties
    <2> HIDE DEF S2
    <2> QED BY <2>1, <2>2 DEF Notes
  <1>3. \/ Notes(O2) = Notes(O) /\ (Once(O, "deliver") => Once(O2, "deliver"))
        \/ \E a \in OutNote :
             /\ a.k = "emit_ack" /\ a.id = p.id /\ p.k = "emit"
             /\ Notes(O2) = Notes(O) \cup {a}
             /\ Once(O, "deliver") => Once(O2, "deliver")
    <2>1. CASE O2 = O
      BY <2>1
    <2>2. ASSUME p.k = "emit", NEW a \in OutNote, a.k = "emit_ack", a.id = p.id,
                 O2 = Append(O, a)
          PROVE  /\ Notes(O2) = Notes(O) \cup {a}
                 /\ Once(O, "deliver") => Once(O2, "deliver")
      <3> DEFINE A == Append(O, a)
      <3>1. /\ Notes(A) = Notes(O) \cup {a}
            /\ \A k : /\ Once(O, k)
                      /\ a.k = k => \A m \in Notes(O) : m.k = k => m.id # a.id
                      => Once(A, k)
        BY QueueAppend
      <3> HIDE DEF A
      <3> QED BY <2>2, <3>1 DEF A
    <2> HIDE DEF p
    <2>3. QED BY <2>1, <2>2 DEF p
  <1> HIDE DEF p, S2
  <1>4. Queued(O2, I) \subseteq Queued(O, I)
    BY <1>3 DEF Queued
  <1>5. Spoken(S2) \subseteq Spoken(S)
    BY <1>1 DEF Spoken
  <1>6. \A n \in Notes(O2), m \in Notes(I) :
          n.k = "deliver" /\ m.k = "deliver" => n.id # m.id
    BY <1>3 DEF Staged
  <1>7. Staged(O2, I, H, S2)
    BY <1>1, <1>3, <1>4, <1>5, <1>6 DEF Staged
  <1>8. \A i : Mentions(O2, I, H, S2, i) => Mentions(O, I, H, S, i)
    <2>1. p.k = "emit" => p \in Spoken(S)
      BY <1>1 DEF Spoken
    <2> QED BY <1>3, <1>5, <2>1 DEF Mentions
  <1>9. \A i, d : Names(O2, I, H, S2, i, d) => Names(O, I, H, S, i, d)
    BY <1>4, <1>5 DEF Names
  <1>10. ASSUME p.k = "done", NEW d PROVE ~Names(O2, I, H, S2, p.id, d)
    <2>1. p \in Spoken(S)
      BY <1>1, <1>10 DEF Spoken
    <2>2. \A n \in Queued(O2, I) \cup H : n.id # p.id
      BY <1>4, <1>10, <2>1 DEF Staged
    <2>3. \A m \in Spoken(S2) : m.k # "done" => m.id # p.id
      BY <1>1, <1>2, <1>10 DEF Staged, Spoken
    <2> QED BY <2>2, <2>3 DEF Names
  <1> QED BY <1>4, <1>7, <1>8, <1>9, <1>10 DEF Flows, p, S2

LEMMA FlowsTwice ==
  ASSUME NEW O, NEW I, NEW H, NEW S, NEW O2, NEW I2, NEW H2, NEW S2,
         NEW O3, NEW I3, NEW H3, NEW S3,
         Flows(O, I, H, S, O2, I2, H2, S2),
         Flows(O2, I2, H2, S2, O3, I3, H3, S3)
  PROVE  Flows(O, I, H, S, O3, I3, H3, S3)
  BY DEF Flows

(* The caller's note joins the queue: its id was mentioned nowhere.        *)
LEMMA SendFlows ==
  ASSUME NEW O \in Seq(OutNote), NEW I, NEW H, NEW S, Staged(O, I, H, S),
         NEW n \in OutNote, n.k = "deliver", ~Mentions(O, I, H, S, n.id)
  PROVE  /\ Staged(Append(O, n), I, H, S)
         /\ Queued(Append(O, n), I) = Queued(O, I) \cup {n}
         /\ \A i : Mentions(Append(O, n), I, H, S, i)
                     => Mentions(O, I, H, S, i) \/ i = n.id
         /\ \A i, d : Names(Append(O, n), I, H, S, i, d)
                        => Names(O, I, H, S, i, d) \/ (i = n.id /\ d = n.d)
  <1> DEFINE O2 == Append(O, n)
  <1>1. /\ Notes(O2) = Notes(O) \cup {n}
        /\ \A k : /\ Once(O, k)
                  /\ n.k = k => \A m \in Notes(O) : m.k = k => m.id # n.id
                  => Once(O2, k)
    BY QueueAppend
  <1> HIDE DEF O2
  <1>2. \A m \in Notes(O) \cup Notes(I) \cup H \cup Spoken(S) : m.id # n.id
    BY DEF Mentions
  <1>3. Once(O2, "deliver")
    BY <1>1, <1>2 DEF Staged
  <1>4. Queued(O2, I) = Queued(O, I) \cup {n}
    BY <1>1 DEF Queued
  <1>5. \A l \in Queued(O2, I), m \in H \cup Spoken(S) : m.id # l.id
    BY <1>2, <1>4 DEF Staged
  <1>6. \A l \in Notes(O2), m \in Notes(I) :
          l.k = "deliver" /\ m.k = "deliver" => l.id # m.id
    BY <1>1, <1>2 DEF Staged
  <1>7. Staged(O2, I, H, S)
    BY <1>3, <1>5, <1>6 DEF Staged
  <1>8. \A i : Mentions(O2, I, H, S, i) => Mentions(O, I, H, S, i) \/ i = n.id
    BY <1>1 DEF Mentions
  <1>9. \A i, d : Names(O2, I, H, S, i, d)
                    => Names(O, I, H, S, i, d) \/ (i = n.id /\ d = n.d)
    BY <1>4 DEF Names
  <1> QED BY <1>4, <1>7, <1>8, <1>9 DEF O2

-----------------------------------------------------------------------------
(* The pipes of a worker and its map                                       *)

StagedIn(w) == Staged(out[w], stdin[w], hand[w], stdout[w])
QueuedIn(w) == Queued(out[w], stdin[w])
MentionsIn(w, i) == Mentions(out[w], stdin[w], hand[w], stdout[w], i)
NamesIn(w, i, d) == Names(out[w], stdin[w], hand[w], stdout[w], i, d)

(* A timeout has settled d, or is about to.                                *)
GivenUp(d) ==
  calls[d] = <<"nack">> \/ \E o \in owed : o.d = d /\ o.v = "nack"

(* Whoever says that message i of w carries d is right: the map says so    *)
(* too, or a timeout has taken the entry away.                             *)
Known(w, i, d) ==
  IF i \in DOMAIN msgs[w] THEN msgs[w][i].d = d ELSE HasTimeout /\ GivenUp(d)

(* A dead process has nothing in hand, and one still starting has been     *)
(* sent nothing and has said nothing.                                      *)
Idling(w) ==
  /\ ~alive[w] => hand[w] = {}
  /\ sup[w] = "init" => /\ stdin[w] = <<>> /\ hand[w] = {}
                        /\ Spoken(stdout[w]) = {}

(* What is under way between a live worker and its process is staged, uses *)
(* ids handed out and is known.                                            *)
Following(w) ==
  /\ StagedIn(w)
  /\ \A i : MentionsIn(w, i) => i < nextID[w]
  /\ \A i, d : NamesIn(w, i, d) => Known(w, i, d)

Traced ==
  \A w \in Workers : Idling(w) /\ (live[w] => Following(w) /\ gen[w] > 0)

(* The id of a Dispatch blocked in p.send has not reached the pipes, and   *)
(* as long as its process lives the map knows it, unless timed out.        *)
Unsent ==
  caller.pc = "send" =>
    /\ caller.p \in 1 .. gen[caller.w]
    /\ live[caller.w] => ~MentionsIn(caller.w, caller.id)
    /\ live[caller.w] /\ caller.p = gen[caller.w]
         => Known(caller.w, caller.id, caller.d)

Base == Custody /\ NothingStranded /\ Managed
Trace == Base /\ Traced /\ Unsent

(* Nothing new turns up in the pipes of w; nothing happens in them.        *)
Passes(w) == Flows(out[w], stdin[w], hand[w], stdout[w],
                   out'[w], stdin'[w], hand'[w], stdout'[w])
Quiet(w) == /\ out'[w] = out[w] /\ stdin'[w] = stdin[w]
            /\ hand'[w] = hand[w] /\ stdout'[w] = stdout[w]

LEMMA PipeTypes ==
  ASSUME TypeOK, NEW w \in Workers
  PROVE  /\ out[w] \in Seq(OutNote) /\ stdin[w] \in Seq(OutNote)
         /\ hand[w] \in SUBSET Held /\ stdout[w] \in Seq(InNote)
  BY DEF TypeOK, HandlerTypeOK

LEMMA NotesType ==
  ASSUME NEW X, NEW q \in Seq(X)
  PROVE  Notes(q) \subseteq X
  BY DEF Notes

LEMMA NamesType ==
  ASSUME TypeOK, NEW w \in Workers, NEW i, NEW d, NamesIn(w, i, d)
  PROVE  i \in Nat /\ d \in Deliveries
  <1>1. /\ Notes(out[w]) \subseteq OutNote /\ Notes(stdin[w]) \subseteq OutNote
        /\ Notes(stdout[w]) \subseteq InNote /\ hand[w] \subseteq Held
    BY PipeTypes, NotesType
  <1>2. /\ \A n \in OutNote \cup Held : n.id \in Nat /\ n.d \in Deliveries
        /\ \A n \in InNote : n.k # "bad" => n.id \in Nat /\ n.d \in Deliveries
    BY DEF OutNote, Held, InNote, BadNote
  <1> QED BY <1>1, <1>2 DEF NamesIn, Names, Queued, Spoken

LEMMA QuietPasses ==
  ASSUME NEW w, Quiet(w), StagedIn(w)
  PROVE  Passes(w)
  BY DEF Quiet, Passes, Flows, StagedIn

(* A timeout's verdict stays.                                              *)
LEMMA GivenUpStays ==
  ASSUME Custody, [WorkerNext]_vars, NEW d \in Deliveries, GivenUp(d)
  PROVE  GivenUp(d)'
  <1>1. ASSUME NEW o \in owed, Settle(o) PROVE GivenUp(d)'
    <2>1. /\ owed' = owed \ {o}
          /\ calls' = [calls EXCEPT ![o.d] = Append(@, o.v)]
      BY <1>1 DEF Settle
    <2>2. o.d \in Deliveries /\ calls[o.d] = <<>>
      BY DEF Custody, TypeOK, Owed, OneOwner, IsOwed
    <2>3. CASE calls[d] = <<"nack">>
      <3>1. o.d # d
        <4>1. Len(<<>>) # Len(<<"nack">>)
          OBVIOUS
        <4> QED BY <2>2, <2>3, <4>1
      <3>2. calls'[d] = calls[d]
        BY <2>1, <3>1 DEF Custody, TypeOK
      <3> QED BY <2>3, <3>2 DEF GivenUp
    <2>4. CASE o.d = d /\ o.v = "nack"
      <3>1. calls'[d] = Append(calls[d], "nack")
        BY <2>1, <2>2, <2>4 DEF Custody, TypeOK
      <3>2. Append(calls[d], "nack") = <<"nack">>
        <4>1. calls[d] = <<>> /\ Append(<<>>, "nack") = <<"nack">>
          BY <2>2, <2>4
        <4> QED BY <4>1
      <3> QED BY <3>1, <3>2 DEF GivenUp
    <2>5. ASSUME NEW q \in owed, q.d = d, q.v = "nack", q # o PROVE GivenUp(d)'
      BY <2>1, <2>5 DEF GivenUp
    <2> QED BY <2>3, <2>4, <2>5 DEF GivenUp
  <1>2. CASE UNCHANGED calls /\ owed \subseteq owed'
    BY <1>2 DEF GivenUp
  <1>3. SettleStep \/ (UNCHANGED calls /\ owed \subseteq owed')
    <2>1. CASE CallerStep
      BY <2>1 DEF CallerStep, DispatchRefuse, DispatchRegister, DispatchWait,
         SendQueued, SendStopped, CtxWake, ledgerVars
    <2>2. ASSUME NEW w \in Workers, SupervisorStep(w)
          PROVE  UNCHANGED calls /\ owed \subseteq owed'
      BY <2>2 DEF SupervisorStep, SpawnStart, SpawnReady, SpawnFail,
                  SpawnError, InitFails,
         BackoffEnds, OnPickup, OnDone, OnEmit, ReadEOF, ReadError,
         ReadLoopReturns, Reap, StaleSettled, ledgerVars
    <2>3. ASSUME NEW w \in Workers,
                 \/ WriterStep(w) \/ TimerStep(w)
                 \/ HandlerStep(w) /\ UNCHANGED engineVars
                 \/ \E e \in Deliveries : DispatchCall(w, e)
                 \/ BeginClose(w) \/ Kill(w)
          PROVE  UNCHANGED calls /\ owed \subseteq owed'
      BY <2>3 DEF WriterStep, WriteNote, WriterCloses, TimerStep, Timeout,
         DispatchCall, BeginClose, Kill, engineVars, ledgerVars
    <2>4. CASE CtxCancel \/ UNCHANGED vars
      BY <2>4 DEF CtxCancel, vars, engineVars, ledgerVars
    <2> QED BY <2>1, <2>2, <2>3, <2>4 DEF WorkerNext, WorkerStep
  <1> QED BY <1>1, <1>2, <1>3 DEF SettleStep

(* The actions that touch the pipes of a worker.                           *)
LEMMA WriterPasses ==
  ASSUME TypeOK, NEW w \in Workers, WriterStep(w)
  PROVE  /\ \A v \in Workers \ {w} : Quiet(v)
         /\ StagedIn(w) => Passes(w)
  <1>1. CASE WriterCloses(w)
    BY <1>1, QuietPasses DEF WriterCloses, Quiet, engineVars, procVars
  <1>2. CASE WriteNote(w)
    <2>1. /\ out[w] # <<>> /\ out' = [out EXCEPT ![w] = Tail(@)]
          /\ UNCHANGED <<hand, stdout>>
          /\ stdin' = stdin \/ stdin' = [stdin EXCEPT ![w] = Append(@, Head(out[w]))]
      BY <1>2 DEF WriteNote
    <2>2. /\ \A v \in Workers \ {w} : Quiet(v)
          /\ out'[w] = Tail(out[w]) /\ hand'[w] = hand[w] /\ stdout'[w] = stdout[w]
          /\ stdin'[w] = stdin[w] \/ stdin'[w] = Append(stdin[w], Head(out[w]))
      BY <2>1 DEF Quiet, TypeOK, HandlerTypeOK
    <2>3. out[w] \in Seq(OutNote) /\ stdin[w] \in Seq(OutNote)
      BY PipeTypes
    <2> DEFINE O == out[w]
               J == stdin'[w]
               T == Tail(out[w])
    <2>4. StagedIn(w) => Flows(O, stdin[w], hand[w], stdout[w],
                               T, J, hand[w], stdout[w])
      BY <2>1, <2>2, <2>3, WriteFlows DEF StagedIn
    <2> HIDE DEF T
    <2> QED BY <2>2, <2>4 DEF Passes, T
  <1> QED BY <1>1, <1>2 DEF WriterStep

LEMMA SaysPipes ==
  ASSUME TypeOK, NEW w \in Workers, NEW notes, Says(w, notes)
  PROVE  /\ stdout'[w] = stdout[w] \o notes
         /\ \A v \in Workers \ {w} : stdout'[v] = stdout[v]
  BY DEF Says, TypeOK, HandlerTypeOK

LEMMA HandlerPasses ==
  ASSUME TypeOK, NEW w \in Workers,
         (HandlerStep(w) /\ UNCHANGED engineVars) \/ Kill(w)
  PROVE  /\ \A v \in Workers \ {w} : Quiet(v)
         /\ StagedIn(w) => Passes(w)
  <1> DEFINE O == out[w]
             I == stdin[w]
             H == hand[w]
             S == stdout[w]
  <1>1. O \in Seq(OutNote) /\ I \in Seq(OutNote) /\ H \in SUBSET Held
        /\ S \in Seq(InNote)
    BY PipeTypes
  <1>2. out' = out
    BY DEF engineVars, procVars, Kill
  <1>3. CASE HandlerTake(w)
    <2> DEFINE n == Head(I)
               m == [id |-> n.id, d |-> n.d, wait |-> FALSE]
               p == [k |-> "pickup", id |-> n.id, d |-> n.d, ok |-> TRUE]
    <2>1. /\ I # <<>> /\ n.k = "deliver" /\ Says(w, <<p>>)
          /\ hand' = [hand EXCEPT ![w] = @ \cup {m}]
          /\ stdin' = [stdin EXCEPT ![w] = Tail(@)]
      BY <1>3 DEF HandlerTake
    <2>2. n \in OutNote
      BY <1>1, <2>1, HeadTailProperties
    <2>3. /\ p \in InNote /\ p.k = "pickup" /\ p.id = m.id /\ p.d = m.d
          /\ m.id = n.id /\ m.d = n.d
      BY <2>2 DEF OutNote, InNote
    <2> HIDE DEF n, m, p
    <2>4. /\ \A v \in Workers \ {w} : Quiet(v)
          /\ stdin'[w] = Tail(I) /\ hand'[w] = H \cup {m}
          /\ stdout'[w] = S \o <<p>>
      BY <1>2, <2>1, SaysPipes DEF Quiet, TypeOK, HandlerTypeOK
    <2>5. stdout'[w] = Append(S, p)
      BY <1>1, <2>3, <2>4, SaysOne
    <2> HIDE DEF O, I, H, S
    <2>6. Staged(O, I, H, S) => Flows(O, I, H, S, O, Tail(I), H \cup {m}, Append(S, p))
      BY <1>1, <2>1, <2>3, TakeFlows DEF n
    <2> QED BY <1>2, <2>4, <2>5, <2>6 DEF StagedIn, Passes, O, I, H, S
  <1>4. CASE HandlerHearAck(w)
    <2> DEFINE n == Head(I)
               H2 == {m \in H : m.id # n.id}
                       \cup {[m EXCEPT !.wait = FALSE] : m \in {h \in H : h.id = n.id}}
    <2>1. /\ I # <<>> /\ stdin' = [stdin EXCEPT ![w] = Tail(@)]
          /\ hand' = [hand EXCEPT ![w] = H2] /\ stdout' = stdout
      BY <1>4 DEF HandlerHearAck
    <2>2. /\ \A m \in H2 : \E l \in H : l.id = m.id /\ l.d = m.d
          /\ (\A g, l \in H : g.id = l.id => g = l)
               => \A g, l \in H2 : g.id = l.id => g = l
      <3>1. \A m \in H : [m EXCEPT !.wait = FALSE].id = m.id
                         /\ [m EXCEPT !.wait = FALSE].d = m.d
        BY <1>1 DEF Held
      <3> DEFINE Heard(m) == [m EXCEPT !.wait = FALSE]
      <3>2. H2 = {m \in H : m.id # n.id}
                   \cup {Heard(m) : m \in {h \in H : h.id = n.id}}
        OBVIOUS
      <3>3. \A m \in H : Heard(m).id = m.id /\ Heard(m).d = m.d
        BY <3>1
      <3> HIDE DEF Heard, H2
      <3>4. \A m \in H2 : \E l \in H : /\ l.id = m.id /\ l.d = m.d
                                     /\ m = IF l.id = n.id THEN Heard(l) ELSE l
        BY <3>2, <3>3
      <3> QED BY <3>4
    <2> HIDE DEF H2
    <2>3. /\ \A v \in Workers \ {w} : Quiet(v)
          /\ stdin'[w] = Tail(I) /\ hand'[w] = H2 /\ stdout'[w] = S
      BY <1>2, <2>1 DEF Quiet, TypeOK, HandlerTypeOK
    <2> HIDE DEF O, I, H, S
    <2>4. Staged(O, I, H, S) => Flows(O, I, H, S, O, Tail(I), H2, S)
      <3> SUFFICES ASSUME Staged(O, I, H, S)
                   PROVE  Flows(O, I, H, S, O, Tail(I), H2, S)
        OBVIOUS
      <3>1. \A g, l \in H2 : g.id = l.id => g = l
        BY <2>2 DEF Staged
      <3> QED BY <1>1, <2>1, <2>2, <3>1, HandFlows
    <2> QED BY <1>2, <2>3, <2>4 DEF StagedIn, Passes, O, I, H, S
  <1>5. ASSUME NEW m \in H, NEW ok \in BOOLEAN, HandlerEmit(w, m, ok)
        PROVE  (\A v \in Workers \ {w} : Quiet(v)) /\ (StagedIn(w) => Passes(w))
    <2> DEFINE p == [k |-> "emit", id |-> m.id, d |-> m.d, ok |-> ok]
               g == [m EXCEPT !.wait = SyncEmits]
               H2 == (H \ {m}) \cup {g}
    <2>1. /\ Says(w, <<p>>) /\ hand' = [hand EXCEPT ![w] = H2] /\ stdin' = stdin
      BY <1>5 DEF HandlerEmit
    <2>2. p \in InNote /\ p.k = "emit" /\ m.id = p.id /\ m.d = p.d
          /\ g.id = m.id /\ g.d = m.d
      BY <1>1 DEF Held, InNote
    <2> HIDE DEF p, g
    <2>3. /\ \A v \in Workers \ {w} : Quiet(v)
          /\ stdin'[w] = I /\ hand'[w] = H2 /\ stdout'[w] = S \o <<p>>
      BY <1>2, <2>1, SaysPipes DEF Quiet, TypeOK, HandlerTypeOK
    <2>4. stdout'[w] = Append(S, p)
      BY <1>1, <2>2, <2>3, SaysOne
    <2> HIDE DEF O, I, H, S
    <2>5. ASSUME Staged(O, I, H, S)
          PROVE  Flows(O, I, H, S, O, I, H2, Append(S, p))
      <3>1. Flows(O, I, H, S, O, I, H, Append(S, p))
        BY <1>1, <2>2, <2>5, SayFlows
      <3>2. \A l \in H2 : \E h \in H : h.id = l.id /\ h.d = l.d
        BY <2>2
      <3>3. \A l, h \in H2 : l.id = h.id => l = h
        BY <2>2, <2>5 DEF Staged
      <3> HIDE DEF H2
      <3>4. Flows(O, I, H, Append(S, p), O, I, H2, Append(S, p))
        BY <1>1, <3>1, <3>2, <3>3, HandFlows DEF Flows
      <3> QED BY <3>1, <3>4, FlowsTwice
    <2> QED BY <1>2, <2>3, <2>4, <2>5 DEF StagedIn, Passes, O, I, H, S
  <1>6. ASSUME NEW m \in H, NEW ok \in BOOLEAN, NEW twice \in BOOLEAN,
               IF twice THEN HandlerDoneTwice(w, m) ELSE HandlerDone(w, m, ok)
        PROVE  (\A v \in Workers \ {w} : Quiet(v)) /\ (StagedIn(w) => Passes(w))
    <2> DEFINE p(b) == [k |-> "done", id |-> m.id, d |-> m.d, ok |-> b]
               H2 == H \ {m}
    <2>1. /\ IF twice THEN Says(w, <<p(TRUE), p(FALSE)>>) ELSE Says(w, <<p(ok)>>)
          /\ hand' = [hand EXCEPT ![w] = H2] /\ stdin' = stdin
      BY <1>6 DEF HandlerDone, HandlerDoneTwice
    <2>2. \A b \in BOOLEAN : p(b) \in InNote /\ p(b).k = "done" /\ p(b).id = m.id
      BY <1>1 DEF Held, InNote
    <2> HIDE DEF p
    <2>3. /\ \A v \in Workers \ {w} : Quiet(v)
          /\ stdin'[w] = I /\ hand'[w] = H2
          /\ stdout'[w] = IF twice THEN S \o <<p(TRUE), p(FALSE)>> ELSE S \o <<p(ok)>>
      BY <1>2, <2>1, SaysPipes DEF Quiet, TypeOK, HandlerTypeOK
    <2>4. stdout'[w] = IF twice THEN Append(Append(S, p(TRUE)), p(FALSE))
                                ELSE Append(S, p(ok))
      <3>1. p(TRUE) \in InNote /\ p(FALSE) \in InNote /\ p(ok) \in InNote
        BY <2>2
      <3>2. S \o <<p(ok)>> = Append(S, p(ok))
        BY <1>1, <3>1, SaysOne
      <3>3. \A a, b \in InNote : S \o <<a, b>> = Append(Append(S, a), b)
        BY <1>1, SaysTwo
      <3> QED BY <2>3, <3>1, <3>2, <3>3
    <2> HIDE DEF O, I, H, S
    <2>5. ASSUME Staged(O, I, H, S), NEW b \in BOOLEAN
          PROVE  Flows(O, I, H, S, O, I, H2, Append(S, p(b)))
      <3>1. Mentions(O, I, H, S, m.id)
        BY DEF Mentions
      <3>2. (\A n \in Queued(O, I) : n.id # m.id) /\ \A h \in H2 : h.id # m.id
        BY <2>5 DEF Staged
      <3>3. p(b) \in InNote /\ p(b).k = "done" /\ p(b).id = m.id
        BY <2>2
      <3> QED BY <1>1, <2>5, <3>1, <3>2, <3>3, SayFlows
    <2>6. ASSUME Staged(O, I, H, S), NEW b \in BOOLEAN, NEW c \in BOOLEAN
          PROVE  Flows(O, I, H, S, O, I, H2, Append(Append(S, p(b)), p(c)))
      <3> DEFINE T == Append(S, p(b))
      <3>1. Flows(O, I, H, S, O, I, H2, T)
        BY <2>5, <2>6
      <3>2. p(c) \in InNote /\ p(c).k = "done" /\ p(c).id = m.id
            /\ T \in Seq(InNote)
        BY <1>1, <2>2, AppendProperties
      <3>3. Mentions(O, I, H2, T, p(c).id)
        <4>1. Notes(T) = Notes(S) \cup {p(b)}
          BY <1>1, <2>2, QueueAppend
        <4>2. p(b) \in Spoken(T) /\ p(b).id = p(c).id
          BY <2>2, <4>1 DEF Spoken
        <4> HIDE DEF T
        <4> QED BY <4>2 DEF Mentions
      <3>4. (\A n \in Queued(O, I) : n.id # m.id) /\ \A h \in H2 : h.id # m.id
        BY <2>6 DEF Staged
      <3> HIDE DEF T, H2
      <3>5. Flows(O, I, H2, T, O, I, H2, Append(T, p(c)))
        BY <3>1, <3>2, <3>3, <3>4, SayFlows DEF Flows
      <3> QED BY <3>1, <3>5, FlowsTwice DEF T
    <2> QED BY <1>2, <2>3, <2>4, <2>5, <2>6 DEF StagedIn, Passes, O, I, H, S
  <1>7. CASE HandlerBad(w)
    <2>1. /\ Says(w, <<BadNote>>) /\ UNCHANGED <<hand, stdin>>
      BY <1>7 DEF HandlerBad
    <2>2. BadNote \in InNote /\ BadNote.k = "bad"
      BY DEF InNote, BadNote
    <2>3. /\ \A v \in Workers \ {w} : Quiet(v)
          /\ stdin'[w] = I /\ hand'[w] = H /\ stdout'[w] = S \o <<BadNote>>
      BY <1>2, <2>1, SaysPipes DEF Quiet
    <2>4. stdout'[w] = Append(S, BadNote)
      BY <1>1, <2>2, <2>3, SaysOne
    <2> HIDE DEF O, I, H, S
    <2>5. Staged(O, I, H, S) => Flows(O, I, H, S, O, I, H, Append(S, BadNote))
      BY <1>1, <2>2, SayFlows
    <2> QED BY <1>2, <2>3, <2>4, <2>5 DEF StagedIn, Passes, O, I, H, S
  <1>8. CASE Dies(w)
    <2>1. /\ \A v \in Workers \ {w} : Quiet(v)
          /\ stdin'[w] = I /\ hand'[w] = {} /\ stdout'[w] = S
      BY <1>2, <1>8 DEF Dies, Quiet, TypeOK, HandlerTypeOK
    <2> HIDE DEF O, I, H, S
    <2>2. Staged(O, I, H, S) => Flows(O, I, H, S, O, I, {}, S)
      BY <1>1, HandFlows
    <2> QED BY <1>2, <2>1, <2>2 DEF StagedIn, Passes, O, I, H, S
  <1>9. CASE UNCHANGED handlerVars
    BY <1>2, <1>9, QuietPasses DEF handlerVars, Quiet
  <1> QED
    <2>1. CASE Kill(w)
      BY <1>8, <1>9, <2>1 DEF Kill
    <2>2. CASE HandlerStep(w)
      <3>1. CASE HandlerWork(w)
        BY <1>3, <1>4, <1>6, <1>8, <3>1 DEF HandlerWork, HandlerExit
      <3>2. CASE \E m \in hand[w], declared \in BOOLEAN : HandlerEmit(w, m, declared)
        BY <1>5, <3>2
      <3>3. CASE \E m \in hand[w] : HandlerDoneTwice(w, m)
        BY <1>6, <3>3
      <3>4. CASE HandlerBad(w) \/ HandlerCrash(w)
        BY <1>7, <1>8, <3>4 DEF HandlerCrash
      <3> QED BY <2>2, <3>1, <3>2, <3>3, <3>4 DEF HandlerStep
    <2> QED BY <2>1, <2>2

LEMMA ReaderPasses ==
  ASSUME TypeOK, NEW w \in Workers,
         OnPickup(w) \/ OnDone(w) \/ OnEmit(w) \/ ReadError(w)
  PROVE  /\ \A v \in Workers \ {w} : Quiet(v)
         /\ StagedIn(w) =>
              /\ Passes(w)
              /\ OnDone(w) =>
                   \A d : ~Names(out'[w], stdin'[w], hand'[w], stdout'[w],
                                 Head(stdout[w]).id, d)
  <1> DEFINE O == out[w]
             I == stdin[w]
             H == hand[w]
             S == stdout[w]
             p == Head(S)
             a == [k |-> "emit_ack", id |-> p.id, d |-> p.d]
  <1>1. O \in Seq(OutNote) /\ S \in Seq(InNote)
    BY PipeTypes
  <1>2. PICK kind \in {"pickup", "done", "emit", "bad"} :
          Reads(w, kind) /\ (OnEmit(w) => kind = "emit") /\ (OnDone(w) => kind = "done")
    <2>1. CASE OnPickup(w) BY <2>1 DEF OnPickup, OnDone, OnEmit, Reads
    <2>2. CASE OnDone(w) BY <2>2 DEF OnEmit, OnDone, Reads
    <2>3. CASE OnEmit(w) BY <2>3 DEF OnEmit, OnDone, Reads
    <2>4. CASE ReadError(w) BY <2>4 DEF ReadError, OnDone, OnEmit, Reads
    <2> QED BY <2>1, <2>2, <2>3, <2>4
  <1>3. /\ S # <<>> /\ p.k = kind
        /\ stdout' = [stdout EXCEPT ![w] = Tail(@)]
        /\ UNCHANGED <<hand, stdin>>
    BY <1>2 DEF Reads
  <1>4. /\ \A v \in Workers \ {w} : stdout'[v] = stdout[v]
        /\ stdout'[w] = Tail(S)
    BY <1>3 DEF TypeOK, HandlerTypeOK
  <1>5. \/ out' = out
        \/ kind = "emit" /\ out' = [out EXCEPT ![w] = Append(@, a)]
    BY <1>2 DEF OnPickup, OnDone, OnEmit, AckEmit, ReadError, ReadLoopReturns,
                procVars
  <1>6. kind = "emit" => a \in OutNote
    <2>1. p \in InNote
      BY <1>1, <1>3, HeadTailProperties
    <2> QED BY <1>3, <2>1 DEF InNote, BadNote, OutNote
  <1>7. a.k = "emit_ack" /\ a.id = p.id
    OBVIOUS
  <1> DEFINE O2 == out'[w]
  <1> HIDE DEF a, p
  <1>8. /\ \A v \in Workers \ {w} : out'[v] = out[v]
        /\ \/ O2 = O
           \/ kind = "emit" /\ O2 = Append(O, a)
    BY <1>5 DEF TypeOK
  <1>9. \A v \in Workers \ {w} : Quiet(v)
    BY <1>3, <1>4, <1>8 DEF Quiet
  <1>10. \/ O2 = O
         \/ /\ p.k = "emit"
            /\ \E b \in OutNote : /\ b.k = "emit_ack" /\ b.id = p.id
                                  /\ O2 = Append(O, b)
    BY <1>3, <1>6, <1>7, <1>8
  <1> HIDE DEF O, I, H, S, O2
  <1>11. Staged(O, I, H, S) =>
           /\ Flows(O, I, H, S, O2, I, H, Tail(S))
           /\ p.k = "done" => \A d : ~Names(O2, I, H, Tail(S), p.id, d)
    BY <1>1, <1>3, <1>10, ReadFlows DEF p
  <1>12. OnDone(w) => p.k = "done"
    BY <1>2, <1>3
  <1>13. O2 = out'[w] /\ I = stdin'[w] /\ H = hand'[w] /\ Tail(S) = stdout'[w]
    BY <1>3, <1>4 DEF O, I, H, S, O2
  <1> QED BY <1>9, <1>11, <1>12, <1>13 DEF StagedIn, Passes, O, I, H, S, p

(* What a step does to the pipes of a worker that is live before and after *)
(* it: nothing new turns up, unless Dispatch queues its note there.        *)
Sending(w) == SendQueued /\ caller.w = w /\ caller.p = gen[w]

LEMMA PipeStep ==
  ASSUME TypeOK, NothingStranded, [WorkerNext]_vars, NEW v \in Workers,
         live[v], live'[v], StagedIn(v), ~Sending(v)
  PROVE  Passes(v)
  <1>1. ASSUME NEW w \in Workers, SupervisorStep(w) PROVE Passes(v)
    <2>1. CASE OnPickup(w) \/ OnDone(w) \/ OnEmit(w) \/ ReadError(w)
      BY <2>1, ReaderPasses, QuietPasses
    <2>2. CASE SpawnStart(w) \/ SpawnReady(w)
      <3>1. v # w
        BY <2>2 DEF SpawnStart, SpawnReady, NothingStranded
      <3>2. Quiet(v)
        BY <2>2, <3>1 DEF SpawnStart, SpawnReady, Quiet, TypeOK, HandlerTypeOK,
                          handlerVars
      <3> QED BY <3>2, QuietPasses
    <2>3. CASE \/ SpawnFail(w) \/ BackoffEnds(w) \/ ReadEOF(w) \/ Reap(w)
               \/ StaleSettled(w)
      BY <2>3, QuietPasses DEF SpawnFail, SpawnError, InitFails, BackoffEnds,
                               ReadEOF,
         ReadLoopReturns, Reap, StaleSettled, handlerVars, procVars, Quiet
    <2> QED BY <1>1, <2>1, <2>2, <2>3 DEF SupervisorStep
  <1>2. ASSUME NEW w \in Workers,
               \/ WriterStep(w)
               \/ HandlerStep(w) /\ UNCHANGED engineVars
               \/ Kill(w)
        PROVE  Passes(v)
    BY <1>2, WriterPasses, HandlerPasses, QuietPasses
  <1>3. CASE SendQueued
    <2>1. \/ out' = out
          \/ /\ caller.p = gen[caller.w]
             /\ out' = [out EXCEPT ![caller.w] =
                          Append(@, [k |-> "deliver", id |-> caller.id,
                                     d |-> caller.d])]
      BY <1>3 DEF SendQueued
    <2>2. out'[v] = out[v]
      BY <1>3, <2>1 DEF Sending, TypeOK
    <2> QED BY <1>3, <2>2, QuietPasses DEF SendQueued, handlerVars, Quiet
  <1>4. CASE \/ DispatchRefuse \/ DispatchRegister \/ DispatchWait
             \/ SendStopped \/ \E w \in Workers : CtxWake(w)
    BY <1>4, QuietPasses DEF DispatchRefuse, DispatchRegister, DispatchWait,
       SendStopped, CtxWake, handlerVars, procVars, Quiet
  <1>5. CASE \/ SettleStep \/ CtxCancel \/ UNCHANGED vars
             \/ \E w \in Workers : \/ TimerStep(w) \/ BeginClose(w)
                                   \/ \E d \in Deliveries : DispatchCall(w, d)
    BY <1>5, QuietPasses DEF SettleStep, Settle, CtxCancel, TimerStep, Timeout,
       BeginClose, DispatchCall, vars, engineVars, handlerVars, procVars, Quiet
  <1> QED BY <1>1, <1>2, <1>3, <1>4, <1>5 DEF WorkerNext, WorkerStep,
                                              CallerStep

(* What a step does to the entries of a live worker: each keeps its        *)
(* delivery or goes away, and it goes away by its done, by its timeout or  *)
(* by a Dispatch that reclaims it; only Dispatch adds one.                 *)
KeepsEntry(w, i) ==
  /\ i \in DOMAIN msgs'[w] <=> i \in DOMAIN msgs[w]
  /\ i \in DOMAIN msgs[w] => msgs'[w][i].d = msgs[w][i].d
Ending(w, i) == OnDone(w) /\ i = Head(stdout[w]).id
Reclaiming(w, i) == SendStopped /\ w = caller.w /\ i = caller.id
Registering(w, i) == DispatchRegister /\ w = caller.w /\ i = nextID[w]

LEMMA DeleteKeeps ==
  ASSUME TypeOK, NEW w \in Workers, NEW id,
         msgs' = [msgs EXCEPT ![w] = Delete(@, id)],
         NEW v \in Workers, NEW i
  PROVE  KeepsEntry(v, i) \/ (v = w /\ i = id)
  BY DEF TypeOK, SlotsOK, Delete, KeepsEntry

LEMMA PickupKeeps ==
  ASSUME TypeOK, NEW w \in Workers, OnPickup(w), NEW v \in Workers, NEW i
  PROVE  KeepsEntry(v, i)
  <1> DEFINE id == Head(stdout[w]).id
             e  == [msgs[w][id] EXCEPT !.picked = TRUE]
  <1>1. CASE id \in DOMAIN msgs[w]
    <2>1. e.d = msgs[w][id].d
      BY <1>1, SlotType DEF Inflight, TypeOK
    <2>2. msgs' = [msgs EXCEPT ![w] = [@ EXCEPT ![id] = e]]
      BY <1>1 DEF OnPickup
    <2>3. DOMAIN msgs = Workers
      BY DEF TypeOK, SlotsOK
    <2> HIDE DEF id, e
    <2>4. msgs'[w] = [msgs[w] EXCEPT ![id] = e]
          /\ (v # w => msgs'[v] = msgs[v])
      BY <2>2, <2>3
    <2> QED BY <2>1, <2>4 DEF KeepsEntry
  <1>2. CASE id \notin DOMAIN msgs[w]
    BY <1>2 DEF OnPickup, KeepsEntry
  <1> QED BY <1>1, <1>2

LEMMA EntryStep ==
  ASSUME TypeOK, [WorkerNext]_vars, NEW w \in Workers, live'[w], NEW i
  PROVE  \/ KeepsEntry(w, i) \/ Ending(w, i) \/ Reclaiming(w, i)
         \/ Registering(w, i)
         \/ \E o \in Owed : /\ i \in DOMAIN msgs[w] /\ i \notin DOMAIN msgs'[w]
                            /\ o.d = msgs[w][i].d /\ o.v = "nack" /\ o \in owed'
                            /\ HasTimeout
  <1>1. CASE SendStopped
    <2>1. caller.w \in Workers
      BY <1>1, CallerBusy DEF SendStopped, TypeOK
    <2>2. \/ msgs' = [msgs EXCEPT ![caller.w] = Delete(@, caller.id)]
          \/ msgs' = msgs
      BY <1>1 DEF SendStopped
    <2>3. CASE msgs' = msgs
      BY <2>3 DEF KeepsEntry
    <2>4. CASE msgs' = [msgs EXCEPT ![caller.w] = Delete(@, caller.id)]
      BY <1>1, <2>1, <2>4, DeleteKeeps DEF Reclaiming
    <2> QED BY <2>2, <2>3, <2>4
  <1>2. CASE DispatchRegister
    <2> DEFINE v == caller.w
               id == nextID[v]
    <2>1. v \in Workers
      BY <1>2, CallerBusy DEF DispatchRegister, TypeOK
    <2>2. msgs' = [msgs EXCEPT ![v] =
                     [j \in DOMAIN @ \cup {id} |->
                        IF j = id THEN [d |-> caller.d, picked |-> FALSE]
                                  ELSE @[j]]]
      BY <1>2 DEF DispatchRegister
    <2>3. KeepsEntry(w, i) \/ (w = v /\ i = id)
      BY <2>1, <2>2 DEF KeepsEntry, TypeOK, SlotsOK
    <2> QED BY <1>2, <2>3 DEF Registering
  <1>3. ASSUME NEW v \in Workers, SupervisorStep(v)
        PROVE  KeepsEntry(w, i) \/ Ending(w, i)
    <2>1. CASE OnPickup(v)
      BY <2>1, PickupKeeps
    <2>2. CASE OnDone(v)
      <3>1. msgs' = msgs \/ msgs' = [msgs EXCEPT ![v] = Delete(@, Head(stdout[v]).id)]
        BY <2>2 DEF OnDone
      <3>2. CASE msgs' = msgs
        BY <3>2 DEF KeepsEntry
      <3>3. CASE msgs' = [msgs EXCEPT ![v] = Delete(@, Head(stdout[v]).id)]
        BY <2>2, <3>3, DeleteKeeps, ZenonT(40) DEF Ending
      <3> QED BY <3>1, <3>2, <3>3
    <2>3. CASE Reap(v)
      <3>1. w # v
        BY <2>3 DEF Reap, TypeOK
      <3> QED BY <2>3, <3>1 DEF Reap, KeepsEntry, TypeOK, SlotsOK
    <2>4. CASE \/ SpawnStart(v) \/ SpawnReady(v) \/ SpawnFail(v)
               \/ BackoffEnds(v) \/ OnEmit(v) \/ ReadEOF(v) \/ ReadError(v)
               \/ StaleSettled(v)
      BY <2>4 DEF SpawnStart, SpawnReady, SpawnFail, SpawnError, InitFails,
                  BackoffEnds,
         OnEmit, ReadEOF, ReadError, ReadLoopReturns, StaleSettled, slotVars,
         KeepsEntry
    <2> QED BY <1>3, <2>1, <2>2, <2>3, <2>4 DEF SupervisorStep
  <1>4. ASSUME NEW v \in Workers, NEW id \in DOMAIN msgs[v], Timeout(v, id)
        PROVE  \/ KeepsEntry(w, i)
               \/ \E o \in Owed :
                    /\ i \in DOMAIN msgs[w] /\ i \notin DOMAIN msgs'[w]
                    /\ o.d = msgs[w][i].d /\ o.v = "nack" /\ o \in owed'
                    /\ HasTimeout
    <2> DEFINE o == [by |-> "timer", w |-> v, d |-> msgs[v][id].d, v |-> "nack"]
    <2>1. /\ msgs' = [msgs EXCEPT ![v] = Delete(@, id)]
          /\ owed' = owed \cup {o} /\ HasTimeout
      BY <1>4 DEF Timeout, Armed
    <2>2. o \in Owed /\ o.d = msgs[v][id].d /\ o.v = "nack"
      BY SlotType DEF TypeOK, Owed, Verdicts
    <2>3. KeepsEntry(w, i) \/ (w = v /\ i = id)
      BY <2>1, DeleteKeeps
    <2>4. w = v /\ i = id => i \notin DOMAIN msgs'[w]
      BY <2>1 DEF Delete, TypeOK, SlotsOK
    <2> HIDE DEF o
    <2> QED BY <1>4, <2>1, <2>2, <2>3, <2>4
  <1>5. CASE \/ DispatchRefuse \/ DispatchWait \/ SendQueued \/ SettleStep
             \/ CtxCancel \/ UNCHANGED vars
             \/ \E v \in Workers :
                  \/ CtxWake(v) \/ WriterStep(v) \/ BeginClose(v) \/ Kill(v)
                  \/ HandlerStep(v) /\ UNCHANGED engineVars
                  \/ \E d \in Deliveries : DispatchCall(v, d)
    <2>1. msgs' = msgs
      BY <1>5 DEF DispatchRefuse, DispatchWait, SendQueued, SettleStep, Settle,
         CtxCancel, CtxWake, WriterStep, WriteNote, WriterCloses, BeginClose,
         Kill, DispatchCall, vars, engineVars, slotVars
    <2> QED BY <2>1 DEF KeepsEntry
  <1> QED BY <1>1, <1>2, <1>3, <1>4, <1>5
          DEF WorkerNext, WorkerStep, CallerStep, TimerStep

LEMMA KnownStays ==
  ASSUME Custody, [WorkerNext]_vars, NEW w \in Workers, live'[w],
         NEW i, NEW d \in Deliveries, Known(w, i, d)
  PROVE  Known(w, i, d)' \/ Ending(w, i) \/ Reclaiming(w, i) \/ Registering(w, i)
  <1>1. GivenUp(d) => GivenUp(d)'
    BY GivenUpStays
  <1>2. ASSUME KeepsEntry(w, i) PROVE Known(w, i, d)'
    BY <1>1, <1>2 DEF KeepsEntry, Known
  <1>3. ASSUME i \in DOMAIN msgs[w], i \notin DOMAIN msgs'[w], HasTimeout,
               NEW o \in owed', o.d = msgs[w][i].d, o.v = "nack"
        PROVE  Known(w, i, d)'
    <2>1. o.d = d
      BY <1>3 DEF Known
    <2>2. GivenUp(d)'
      BY <1>3, <2>1 DEF GivenUp
    <2> QED BY <1>3, <2>2 DEF Known
  <1> QED BY <1>2, <1>3, EntryStep DEF Custody

LEMMA IdlingStep ==
  ASSUME TypeOK, Managed, [WorkerNext]_vars, NEW w \in Workers, Idling(w)
  PROVE  Idling(w)'
  <1> USE DEF Idling
  <1>1. ASSUME Quiet(w), alive'[w] = alive[w],
               sup'[w] = sup[w] \/ sup'[w] # "init"
        PROVE  Idling(w)'
    BY <1>1 DEF Quiet
  <1>2. ASSUME NEW v \in Workers, HandlerStep(v) /\ UNCHANGED engineVars
        PROVE  Idling(w)'
    <2>1. sup' = sup
      BY <1>2 DEF engineVars, procVars
    <2>2. CASE v # w
      <3>1. alive'[w] = alive[w]
        BY <1>2, <2>2 DEF HandlerStep, HandlerWork, HandlerTake,
                          HandlerHearAck,
           HandlerDone, HandlerExit, HandlerEmit, HandlerDoneTwice, HandlerBad,
           HandlerCrash, Dies, TypeOK, HandlerTypeOK
      <3> QED BY <1>1, <1>2, <2>1, <2>2, <3>1, HandlerPasses
    <2>3. CASE Dies(w)
      BY <2>1, <2>3 DEF Dies, TypeOK, HandlerTypeOK
    <2>4. CASE HandlerBad(w)
      <3>1. /\ stdout'[w] = stdout[w] \o <<BadNote>>
            /\ UNCHANGED <<alive, hand, stdin>>
        BY <2>4, SaysPipes DEF HandlerBad
      <3>2. stdout[w] \in Seq(InNote) /\ BadNote \in InNote /\ BadNote.k = "bad"
        BY PipeTypes DEF InNote, BadNote
      <3>3. stdout'[w] = Append(stdout[w], BadNote)
        BY <3>1, <3>2, SaysOne
      <3>4. Notes(stdout'[w]) = Notes(stdout[w]) \cup {BadNote}
        BY <3>2, <3>3, QueueAppend
      <3> QED BY <2>1, <3>1, <3>2, <3>4 DEF Spoken
    <2>5. CASE \/ HandlerTake(w) \/ HandlerHearAck(w)
               \/ \E m \in hand[w], ok \in BOOLEAN : \/ HandlerDone(w, m, ok)
                                                     \/ HandlerEmit(w, m, ok)
               \/ \E m \in hand[w] : HandlerDoneTwice(w, m)
      BY <2>1, <2>5 DEF HandlerTake, HandlerHearAck, HandlerDone, HandlerEmit,
                        HandlerDoneTwice
    <2> QED BY <1>2, <2>2, <2>3, <2>4, <2>5
            DEF HandlerStep, HandlerWork, HandlerExit, HandlerCrash
  <1>3. ASSUME NEW v \in Workers, Kill(v) PROVE Idling(w)'
    <2>1. CASE Dies(v)
      BY <1>3, <2>1 DEF Kill, Dies, engineVars, procVars, TypeOK, HandlerTypeOK
    <2>2. CASE UNCHANGED handlerVars
      BY <1>3, <2>2 DEF Kill, engineVars, procVars, handlerVars
    <2> QED BY <1>3, <2>1, <2>2 DEF Kill
  <1>4. ASSUME NEW v \in Workers, SupervisorStep(v) PROVE Idling(w)'
    <2>1. CASE SpawnStart(v)
      <3>1. /\ sup[v] = "spawn" /\ sup' = [sup EXCEPT ![v] = "init"]
            /\ alive' = [alive EXCEPT ![v] = TRUE]
            /\ stdin' = [stdin EXCEPT ![v] = <<>>]
            /\ stdout' = [stdout EXCEPT ![v] = <<>>] /\ hand' = hand
        BY <2>1 DEF SpawnStart
      <3>2. ~alive[v]
        BY <3>1 DEF Managed
      <3>3. Spoken(<<>>) = {}
        BY QueueEmpty DEF Spoken
      <3>4. CASE v = w
        BY <3>1, <3>2, <3>3, <3>4 DEF TypeOK, HandlerTypeOK
      <3>5. CASE v # w
        BY <3>1, <3>5 DEF TypeOK, HandlerTypeOK
      <3> QED BY <3>4, <3>5
    <2>2. CASE OnPickup(v) \/ OnDone(v) \/ OnEmit(v) \/ ReadError(v)
      <3>1. sup[v] = "read" /\ alive' = alive
            /\ (\A u \in Workers : sup'[u] = sup[u] \/ sup'[u] = "wait")
            /\ UNCHANGED <<hand, stdin>>
        BY <2>2 DEF OnPickup, OnDone, OnEmit, ReadError, Reads,
                    ReadLoopReturns,
                    procVars, TypeOK
      <3>2. \A u \in Workers \ {v} : stdout'[u] = stdout[u]
        BY <2>2, ReaderPasses DEF Quiet
      <3>3. sup'[v] # "init"
        BY <3>1
      <3> QED BY <3>1, <3>2, <3>3
    <2>3. CASE \/ SpawnReady(v) \/ SpawnFail(v) \/ BackoffEnds(v) \/ ReadEOF(v)
               \/ Reap(v) \/ StaleSettled(v)
      <3>1. UNCHANGED <<alive, hand, stdin, stdout>>
        BY <2>3 DEF SpawnReady, SpawnFail, SpawnError, InitFails, BackoffEnds,
                    ReadEOF,
                    Reap, StaleSettled, handlerVars
      <3>2. PICK s \in SupStates : /\ sup' = [sup EXCEPT ![v] = s]
                                   /\ s = "init" => sup' = sup
        BY <2>3, SpawnFailMoves
           DEF SpawnReady, BackoffEnds, ReadEOF, ReadLoopReturns, Reap,
               StaleSettled, SupStates
      <3>3. sup'[w] = sup[w] \/ sup'[w] # "init"
        BY <3>2 DEF TypeOK
      <3> QED BY <3>1, <3>3
    <2> QED BY <1>4, <2>1, <2>2, <2>3 DEF SupervisorStep
  <1>5. ASSUME NEW v \in Workers, WriterStep(v) PROVE Idling(w)'
    <2>1. /\ sup[v] # "init" /\ sup' = sup /\ UNCHANGED <<alive, hand, stdout>>
      BY <1>5 DEF WriterStep, WriteNote, WriterCloses, WriterRuns, engineVars,
                  procVars
    <2>2. v # w => stdin'[w] = stdin[w]
      BY <1>5, WriterPasses DEF Quiet
    <2> QED BY <2>1, <2>2
  <1>6. CASE \/ CallerStep \/ SettleStep \/ CtxCancel \/ UNCHANGED vars
             \/ \E v \in Workers : \/ TimerStep(v) \/ BeginClose(v)
                                   \/ \E d \in Deliveries : DispatchCall(v, d)
    <2>1. UNCHANGED <<alive, hand, stdin, stdout, sup>>
      BY <1>6 DEF CallerStep, DispatchRefuse, DispatchRegister, DispatchWait,
         SendQueued, SendStopped, CtxWake, SettleStep, Settle, CtxCancel,
         TimerStep, Timeout, BeginClose, DispatchCall, vars, engineVars,
         handlerVars, procVars
    <2> QED BY <2>1
  <1> QED BY <1>2, <1>3, <1>4, <1>5, <1>6 DEF WorkerNext, WorkerStep

(* A process goes live only in SpawnReady, gen and nextID only grow.       *)
LEMMA LiveStep ==
  ASSUME TypeOK, [WorkerNext]_vars, NEW w \in Workers
  PROVE  /\ live'[w] => live[w] \/ SpawnReady(w)
         /\ nextID'[w] = nextID[w]
            \/ (nextID'[w] = nextID[w] + 1 /\ DispatchRegister /\ caller.w = w)
         /\ gen'[w] = gen[w] \/ (gen'[w] = gen[w] + 1 /\ SpawnReady(w))
  <1>1. CASE DispatchRegister
    BY <1>1, CallerBusy DEF DispatchRegister, FollowingID, procVars, TypeOK
  <1>2. ASSUME NEW v \in Workers, SpawnReady(v)
        PROVE  /\ live'[w] => live[w] \/ SpawnReady(w)
               /\ nextID'[w] = nextID[w]
               /\ gen'[w] = gen[w] \/ (gen'[w] = gen[w] + 1 /\ SpawnReady(w))
    BY <1>2 DEF SpawnReady, slotVars, TypeOK
  <1>3. ASSUME NEW v \in Workers, Reap(v)
        PROVE  (live'[w] => live[w]) /\ UNCHANGED <<nextID, gen>>
    BY <1>3 DEF Reap, TypeOK
  <1>4. CASE \/ DispatchRefuse \/ DispatchWait \/ SendQueued \/ SendStopped
             \/ SettleStep \/ CtxCancel \/ UNCHANGED vars
             \/ \E v \in Workers :
                  \/ CtxWake(v) \/ WriterStep(v) \/ BeginClose(v) \/ Kill(v)
                  \/ (HandlerStep(v) /\ UNCHANGED engineVars) \/ TimerStep(v)
                  \/ \E d \in Deliveries : DispatchCall(v, d)
    <2>1. UNCHANGED <<live, nextID, gen>>
      BY <1>4 DEF DispatchRefuse, DispatchWait, SendQueued, SendStopped,
         SettleStep, Settle, CtxCancel, CtxWake, WriterStep, WriteNote,
         WriterCloses, BeginClose, Kill, TimerStep, Timeout, DispatchCall,
         vars,
         engineVars, slotVars, procVars
    <2> QED BY <2>1
  <1>5. ASSUME NEW v \in Workers,
               \/ SpawnStart(v) \/ SpawnFail(v) \/ BackoffEnds(v) \/ OnPickup(v)
               \/ OnDone(v) \/ OnEmit(v) \/ ReadEOF(v) \/ ReadError(v)
               \/ StaleSettled(v)
        PROVE  UNCHANGED <<live, nextID, gen>>
    BY <1>5 DEF SpawnStart, SpawnFail, SpawnError, InitFails, BackoffEnds,
                OnPickup, OnDone,
       OnEmit, ReadEOF, ReadError, ReadLoopReturns, StaleSettled, slotVars,
       procVars
  <1> QED BY <1>1, <1>2, <1>3, <1>4, <1>5
          DEF WorkerNext, WorkerStep, CallerStep, SupervisorStep

(* A process that becomes live has empty pipes.                            *)
LEMMA SpawnFollows ==
  ASSUME Trace, NEW w \in Workers, SpawnReady(w)
  PROVE  Following(w)' /\ \A i : ~MentionsIn(w, i)'
  <1>0. TypeOK
    BY DEF Trace, Base, Custody
  <1>1. /\ sup[w] = "init" /\ out' = [out EXCEPT ![w] = <<>>]
        /\ UNCHANGED <<stdin, hand, stdout>>
    BY DEF SpawnReady, handlerVars
  <1>2. /\ out'[w] = <<>> /\ stdin'[w] = <<>> /\ hand'[w] = {}
        /\ Spoken(stdout'[w]) = {}
    BY <1>0, <1>1 DEF Trace, Traced, Idling, TypeOK
  <1>3. Ends(stdout'[w])
    <2>1. \A l \in DOMAIN stdout'[w] : stdout'[w][l].k = "bad"
      BY <1>2 DEF Spoken, Notes
    <2> QED BY <2>1 DEF Ends
  <1>4. (\A k : Once(<<>>, k)) /\ Notes(<<>>) = {}
    BY QueueEmpty
  <1>5. /\ StagedIn(w)'
        /\ \A i : ~MentionsIn(w, i)'
        /\ \A i, d : ~NamesIn(w, i, d)'
    BY <1>2, <1>3, <1>4
       DEF StagedIn, MentionsIn, NamesIn, Staged, Mentions, Names, Queued
  <1> QED BY <1>5 DEF Following

(* Following is kept: what a step takes out of the map is no longer named. *)
LEMMA FollowingStep ==
  ASSUME Trace, [WorkerNext]_vars, NEW w \in Workers, live'[w]
  PROVE  Following(w)'
  <1> USE DEF Trace, Base
  <1>0. TypeOK /\ NothingStranded
    BY DEF Custody
  <1>1. CASE live[w] /\ ~Sending(w)
    <2>1. Following(w)
      BY <1>1 DEF Traced
    <2>2. Passes(w)
      BY <1>0, <1>1, <2>1, PipeStep DEF Following
    <2>3. ASSUME NEW i, MentionsIn(w, i)' PROVE MentionsIn(w, i) /\ i < nextID[w]
      BY <2>1, <2>2, <2>3 DEF Following, Passes, Flows, MentionsIn
    <2>4. nextID[w] \in Nat /\ (nextID'[w] = nextID[w] \/ nextID'[w] = nextID[w] + 1)
      BY <1>0, LiveStep DEF TypeOK
    <2>5. ASSUME NEW i, NEW d, NamesIn(w, i, d)' PROVE Known(w, i, d)'
      <3>1. NamesIn(w, i, d)
        BY <2>2, <2>5 DEF Passes, Flows, NamesIn
      <3>2. Known(w, i, d) /\ i \in Nat /\ d \in Deliveries
        BY <1>0, <2>1, <3>1, NamesType DEF Following
      <3>3. MentionsIn(w, i)
        BY <3>1 DEF NamesIn, MentionsIn, Names, Mentions, Queued
      <3>4. ~Registering(w, i)
        BY <2>1, <2>4, <3>2, <3>3 DEF Following, Registering
      <3>5. ~Reclaiming(w, i)
        BY <1>1, <3>3 DEF Reclaiming, SendStopped, Unsent
      <3>6. ~Ending(w, i)
        BY <1>0, <2>1, <2>5, ReaderPasses DEF Ending, Following, NamesIn
      <3> QED BY <3>2, <3>4, <3>5, <3>6, KnownStays
    <2>6. StagedIn(w)'
      BY <2>2 DEF Passes, Flows, StagedIn
    <2>7. \A i : MentionsIn(w, i)' => i < nextID'[w]
      <3> SUFFICES ASSUME NEW i, MentionsIn(w, i)' PROVE i < nextID'[w]
        OBVIOUS
      <3>1. MentionsIn(w, i) /\ i < nextID[w] BY <2>3
      <3>2. i \in Nat
        <4>1. /\ Notes(out[w]) \subseteq OutNote
              /\ Notes(stdin[w]) \subseteq OutNote
              /\ Notes(stdout[w]) \subseteq InNote /\ hand[w] \subseteq Held
          BY <1>0, PipeTypes, NotesType
        <4>2. \A n \in OutNote \cup Held \cup InNote : n.id \in Nat
          BY DEF OutNote, Held, InNote, BadNote
        <4> QED BY <3>1, <4>1, <4>2 DEF MentionsIn, Mentions, Spoken
      <3> QED BY <2>4, <3>1, <3>2
    <2> QED BY <2>5, <2>6, <2>7 DEF Following
  <1>2. CASE live[w] /\ Sending(w)
    <2> DEFINE n == [k |-> "deliver", id |-> caller.id, d |-> caller.d]
    <2>1. /\ caller.pc = "send" /\ caller.w = w /\ caller.p = gen[w]
          /\ out' = [out EXCEPT ![w] = Append(@, n)]
          /\ UNCHANGED <<stdin, hand, stdout, msgs, nextID>>
      BY <1>2 DEF Sending, SendQueued, handlerVars, slotVars
    <2>2. n \in OutNote /\ n.k = "deliver" /\ n.id = caller.id /\ n.d = caller.d
          /\ caller.id < nextID[w] /\ n.d \in Deliveries
      BY <1>0, <2>1, CallerBusy DEF OutNote, Custody, CallerGate, OwnEntry,
                                    TypeOK
    <2> HIDE DEF n
    <2>3. Following(w) /\ ~MentionsIn(w, n.id) /\ Known(w, n.id, n.d)
      BY <1>2, <2>1, <2>2 DEF Traced, Unsent
    <2>4. out'[w] = Append(out[w], n) /\ out[w] \in Seq(OutNote)
      BY <1>0, <2>1 DEF TypeOK
    <2> DEFINE O == out[w]
               I == stdin[w]
               H == hand[w]
               S == stdout[w]
    <2>5. Staged(O, I, H, S) /\ ~Mentions(O, I, H, S, n.id)
      BY <2>3 DEF Following, StagedIn, MentionsIn
    <2> HIDE DEF O, I, H, S
    <2>6. /\ Staged(Append(O, n), I, H, S)
          /\ \A i : Mentions(Append(O, n), I, H, S, i)
                      => Mentions(O, I, H, S, i) \/ i = n.id
          /\ \A i, d : Names(Append(O, n), I, H, S, i, d)
                         => Names(O, I, H, S, i, d) \/ (i = n.id /\ d = n.d)
      BY <2>2, <2>4, <2>5, SendFlows DEF O
    <2>7. Append(O, n) = out'[w] /\ I = stdin'[w] /\ H = hand'[w] /\ S = stdout'[w]
      BY <2>1, <2>4 DEF O, I, H, S
    <2>8. /\ StagedIn(w)'
          /\ \A i : MentionsIn(w, i)' => MentionsIn(w, i) \/ i = n.id
          /\ \A i, d : NamesIn(w, i, d)'
                         => NamesIn(w, i, d) \/ (i = n.id /\ d = n.d)
      BY <2>6, <2>7 DEF StagedIn, MentionsIn, NamesIn, O, I, H, S
    <2>9. ASSUME NEW i, NEW d, NamesIn(w, i, d)' PROVE Known(w, i, d)'
      <3>1. Known(w, i, d)
        BY <2>3, <2>8, <2>9 DEF Following
      <3>2. d \in Deliveries
        BY <1>0, <2>2, <2>8, <2>9, NamesType
      <3>3. (GivenUp(d) => GivenUp(d)') /\ msgs' = msgs
        BY <2>1, <3>2, GivenUpStays
      <3> QED BY <3>1, <3>3 DEF Known
    <2>10. \A i : MentionsIn(w, i)' => i < nextID'[w]
      BY <2>1, <2>2, <2>3, <2>8 DEF Following
    <2> QED BY <2>8, <2>9, <2>10 DEF Following
  <1>3. CASE ~live[w]
    BY <1>0, <1>3, LiveStep, SpawnFollows
  <1> QED BY <1>1, <1>2, <1>3

LEMMA SendingKept ==
  ASSUME TypeOK, [WorkerNext]_vars, caller'.pc = "send"
  PROVE  DispatchRegister \/ (caller' = caller /\ ~SendQueued /\ ~SendStopped)
  <1>1. \A w : (Broadcast(w).pc = "send" => Broadcast(w) = caller)
    BY DEF Broadcast, TypeOK, Dispatching, Idle
  <1>2. CASE CallerStep
    BY <1>1, <1>2 DEF CallerStep, DispatchRefuse, DispatchWait, SendQueued,
       SendStopped, CtxWake, TypeOK, Dispatching, Idle
  <1>3. ASSUME ~CallerStep
        PROVE  caller' = caller \/ caller' = Idle \/ (\E w : caller' = Broadcast(w))
               \/ \E w, d : DispatchCall(w, d)
    <2>1. ASSUME NEW w \in Workers, SupervisorStep(w)
          PROVE  caller' = caller \/ caller' = Broadcast(w)
      BY <2>1 DEF SupervisorStep, SpawnStart, SpawnReady, SpawnFail,
                  SpawnError, InitFails,
         BackoffEnds, OnPickup, OnDone, OnEmit, ReadEOF, ReadError,
         ReadLoopReturns, Reap, StaleSettled
    <2>2. ASSUME NEW w \in Workers,
                 \/ WriterStep(w) \/ TimerStep(w) \/ BeginClose(w) \/ Kill(w)
                 \/ HandlerStep(w) /\ UNCHANGED engineVars
          PROVE  caller' = caller \/ caller' = Broadcast(w)
      BY <2>2 DEF WriterStep, WriteNote, WriterCloses, TimerStep, Timeout,
         BeginClose, Kill, engineVars
    <2>3. CASE SettleStep \/ CtxCancel \/ UNCHANGED vars
      BY <2>3 DEF SettleStep, Settle, CtxCancel, vars, engineVars
    <2> QED BY <1>3, <2>1, <2>2, <2>3 DEF WorkerNext, WorkerStep
  <1>4. \A w, d : DispatchCall(w, d) => caller'.pc = "check"
    BY DEF DispatchCall, Idle
  <1>5. caller' # Idle
    BY DEF Idle
  <1> QED BY <1>1, <1>2, <1>3, <1>4, <1>5 DEF CallerStep

LEMMA UnsentStep ==
  ASSUME Trace, [WorkerNext]_vars
  PROVE  Unsent'
  <1> USE DEF Trace, Base
  <1> SUFFICES ASSUME caller'.pc = "send" PROVE Unsent'
    BY DEF Unsent
  <1>0. TypeOK /\ NothingStranded /\ TypeOK'
    BY TypeStep DEF Custody
  <1>1. CASE DispatchRegister
    <2>1. caller.pc = "check" /\ caller.w \in Workers /\ caller.d \in Deliveries
      BY <1>0, <1>1, CallerBusy DEF DispatchRegister, TypeOK
    <2>2. PICK w \in Workers, d \in Deliveries, i \in Nat :
            caller.w = w /\ caller.d = d /\ i = nextID[w]
      BY <1>0, <2>1 DEF TypeOK
    <2>3. /\ caller' = [caller EXCEPT !.pc = "send", !.id = i, !.p = gen[w]]
          /\ live[w] /\ UNCHANGED <<handlerVars, out, gen>>
          /\ msgs' = [msgs EXCEPT ![w] =
                        [j \in DOMAIN @ \cup {i} |->
                           IF j = i THEN [d |-> d, picked |-> FALSE] ELSE @[j]]]
      BY <1>1, <2>2 DEF DispatchRegister, FreeSlot, procVars
    <2>4. caller'.w = w /\ caller'.d = d /\ caller'.id = i /\ caller'.p = gen[w]
      BY <1>0, <2>1, <2>2, <2>3, CallerBusy DEF TypeOK, Dispatching
    <2>5. Known(w, i, d)'
      BY <1>0, <2>3 DEF Known, TypeOK, SlotsOK
    <2>6. ~MentionsIn(w, i)
      BY <2>2, <2>3 DEF Traced, Following
    <2>7. ~MentionsIn(w, i)'
      BY <2>3, <2>6 DEF MentionsIn, handlerVars
    <2>8. gen[w] \in Nat /\ gen[w] > 0
      BY <1>0, <2>3 DEF Traced, TypeOK
    <2> QED BY <2>3, <2>4, <2>5, <2>7, <2>8 DEF Unsent
  <1>2. CASE caller' = caller /\ ~SendQueued /\ ~SendStopped
    <2>1. PICK w \in Workers, d \in Deliveries, i \in Nat, p \in Nat :
            caller.w = w /\ caller.d = d /\ i = caller.id /\ p = caller.p
      BY <1>0, <1>2, CallerBusy DEF TypeOK
    <2>2. /\ p \in 1 .. gen[w]
          /\ live[w] => ~MentionsIn(w, i)
          /\ live[w] /\ p = gen[w] => Known(w, i, d)
      BY <1>2, <2>1 DEF Unsent
    <2>3. gen[w] \in Nat
          /\ (gen'[w] = gen[w] \/ (gen'[w] = gen[w] + 1 /\ SpawnReady(w)))
      BY <1>0, LiveStep DEF TypeOK
    <2>4. p \in 1 .. gen'[w]
      BY <2>2, <2>3
    <2>5. live'[w] => ~MentionsIn(w, i)'
      <3>1. CASE SpawnReady(w)
        BY <3>1, SpawnFollows
      <3>2. CASE live[w] /\ live'[w]
        <4>1. Passes(w)
          BY <1>0, <1>2, <3>2, PipeStep DEF Sending, Traced, Following
        <4> QED BY <2>2, <3>2, <4>1 DEF Passes, Flows, MentionsIn
      <3> QED BY <1>0, <3>1, <3>2, LiveStep
    <2>6. ASSUME live'[w], p = gen'[w] PROVE Known(w, i, d)'
      <3>1. gen'[w] = gen[w] /\ ~SpawnReady(w)
        <4>1. SpawnReady(w) => gen'[w] = gen[w] + 1
          BY <1>0 DEF SpawnReady, TypeOK
        <4> QED BY <2>2, <2>3, <2>6, <4>1
      <3>2. live[w]
        BY <1>0, <2>6, <3>1, LiveStep
      <3>3. Known(w, i, d) /\ ~MentionsIn(w, i)
        BY <2>2, <2>6, <3>1, <3>2
      <3>4. ~Reclaiming(w, i) /\ ~Registering(w, i)
        BY <1>2 DEF Reclaiming, Registering, DispatchRegister
      <3>5. ~Ending(w, i)
        <4> SUFFICES ASSUME Ending(w, i) PROVE FALSE
          OBVIOUS
        <4>1. /\ stdout[w] # <<>> /\ Head(stdout[w]).k = "done"
              /\ Head(stdout[w]).id = i
          BY DEF Ending, OnDone, Reads
        <4>2. Head(stdout[w]) \in Notes(stdout[w])
          BY <1>0, <4>1, PipeTypes, QueueTail
        <4> QED BY <3>3, <4>1, <4>2 DEF MentionsIn, Mentions, Spoken
      <3> QED BY <2>6, <3>3, <3>4, <3>5, KnownStays
    <2> QED BY <1>2, <2>1, <2>4, <2>5, <2>6 DEF Unsent
  <1> QED BY <1>0, <1>1, <1>2, SendingKept

LEMMA TraceInit == WorkerInit => Traced /\ Unsent
  <1> SUFFICES ASSUME WorkerInit PROVE Traced /\ Unsent
    OBVIOUS
  <1>1. Unsent
    BY DEF WorkerInit, Unsent, Idle
  <1>2. Traced
    BY DEF WorkerInit, HandlerInit, Traced, Idling
  <1> QED BY <1>1, <1>2

LEMMA TraceStep == Trace /\ [WorkerNext]_vars => Trace'
  <1> SUFFICES ASSUME Trace, [WorkerNext]_vars PROVE Trace'
    OBVIOUS
  <1>1. Custody /\ NothingStranded /\ Managed
    BY DEF Trace, Base
  <1>2. TypeOK
    BY <1>1 DEF Custody
  <1>3. Base'
    BY <1>1, <1>2, TypeStep, CustodyStep, StrandStep, ManagedStep
       DEF Base, Custody
  <1>4. Traced'
    <2> SUFFICES ASSUME NEW w \in Workers
                 PROVE  /\ Idling(w)'
                        /\ live'[w] => Following(w)' /\ gen'[w] > 0
      BY DEF Traced
    <2>1. Idling(w)'
      BY <1>1, <1>2, IdlingStep DEF Trace, Traced
    <2>2. live'[w] => Following(w)'
      BY FollowingStep
    <2>3. live'[w] => gen'[w] > 0
      <3>1. CASE live[w] /\ gen'[w] = gen[w]
        BY <3>1 DEF Trace, Traced
      <3>2. CASE SpawnReady(w)
        BY <1>2, <3>2 DEF TypeOK, SpawnReady
      <3> QED BY <1>2, <3>1, <3>2, LiveStep
    <2> QED BY <2>1, <2>2, <2>3
  <1>5. Unsent'
    BY UnsentStep
  <1> QED BY <1>3, <1>4, <1>5 DEF Trace

LEMMA TraceCorrect == WorkerSpec => []Trace
  <1>1. WorkerInit => Trace
    BY InitType, InitOwner, InitNotStranded, ManagedInit, TraceInit
       DEF Trace, Base, Custody
  <1> QED BY <1>1, TraceStep, PTL DEF WorkerSpec

-----------------------------------------------------------------------------
(* The chain of an emit                                                    *)

(* The emit carries what it should: its message's chain if it names it.    *)
Owned(e) == (e.named /\ e.chain = e.d) \/ (~e.named /\ e.chain = None)

LEMMA ChainStep ==
  ASSUME Trace, EmitKeepsChain, [WorkerNext]_vars
  PROVE  EmitKeepsChain'
  <1>0. TypeOK /\ Custody
    BY DEF Trace, Base, Custody
  <1>1. EmitKeepsChain <=>
          \A e \in published :
            \/ Owned(e)
            \/ HasTimeout /\ e.chain = None /\ GivenUp(e.d)
    BY DEF EmitKeepsChain, GivenUp, Owned
  <1>2. \A e \in published :
          \/ Owned(e)
          \/ HasTimeout /\ e.chain = None /\ GivenUp(e.d)'
    <2> SUFFICES ASSUME NEW e \in published, GivenUp(e.d) PROVE GivenUp(e.d)'
      BY <1>1
    <2>1. PICK d \in Deliveries : d = e.d
      BY <1>0 DEF TypeOK
    <2>2. GivenUp(d)'
      BY <1>0, <2>1, GivenUpStays
    <2> QED BY <2>1, <2>2
  <1>3. EmitKeepsChain' <=>
          \A e \in published' :
            \/ Owned(e)
            \/ HasTimeout /\ e.chain = None /\ GivenUp(e.d)'
    BY DEF EmitKeepsChain, GivenUp, Owned
  <1>4. CASE published' = published
    BY <1>2, <1>3, <1>4
  <1>5. ASSUME NEW w \in Workers, OnEmit(w) PROVE EmitKeepsChain'
    <2>1. PICK n \in InNote : n = Head(stdout[w])
      BY <1>0, <1>5, PipeTypes, HeadTailProperties DEF OnEmit, Reads
    <2>2. /\ sup[w] = "read" /\ stdout[w] # <<>> /\ n.k = "emit"
          /\ \/ \E b \in BOOLEAN :
                  published' =
                    published \cup
                      {[d |-> n.d, named |-> b,
                        chain |-> IF b THEN ChainOf(w, n.id) ELSE None]}
             \/ published' = published
      BY <1>5, <2>1 DEF OnEmit, Reads
    <2>3. Following(w)
      BY <2>2 DEF Trace, Base, Traced, NothingStranded
    <2>4. n \in Notes(stdout[w])
      BY <1>0, <2>1, <2>2, PipeTypes, QueueTail
    <2>5. Known(w, n.id, n.d) /\ n.d \in Deliveries
      <3>1. NamesIn(w, n.id, n.d)
        BY <2>2, <2>4 DEF NamesIn, Names, Spoken
      <3> QED BY <1>0, <2>3, <3>1, NamesType DEF Following
    <2>6. \/ ChainOf(w, n.id) = n.d
          \/ HasTimeout /\ ChainOf(w, n.id) = None /\ GivenUp(n.d)
      BY <2>5 DEF Known, ChainOf
    <2>7. GivenUp(n.d) => GivenUp(n.d)'
      <3>1. PICK d \in Deliveries : d = n.d
        BY <2>5
      <3>2. GivenUp(d) => GivenUp(d)'
        BY <1>0, GivenUpStays
      <3> QED BY <3>1, <3>2
    <2>8. PICK c : c = ChainOf(w, n.id)
      OBVIOUS
    <2>9. PICK d \in Deliveries : d = n.d
      BY <2>5
    <2>10. ASSUME NEW b \in BOOLEAN, NEW f,
                  f = [d |-> d, named |-> b, chain |-> IF b THEN c ELSE None]
           PROVE  \/ Owned(f)
                  \/ HasTimeout /\ f.chain = None /\ GivenUp(f.d)'
      <3>1. f.d = d /\ f.named = b /\ f.chain = IF b THEN c ELSE None
        BY <2>10
      <3>2. CASE b
        BY <2>6, <2>7, <2>8, <2>9, <3>1, <3>2 DEF Owned
      <3>3. CASE ~b
        BY <3>1, <3>3 DEF Owned
      <3> QED BY <3>2, <3>3
    <2>11. CASE published' = published
      BY <1>4, <2>11
    <2>12. CASE published' # published
      <3>1. PICK b \in BOOLEAN :
              published' =
                published \cup
                  {[d |-> d, named |-> b, chain |-> IF b THEN c ELSE None]}
        BY <2>2, <2>8, <2>9, <2>12
      <3>2. PICK f : f = [d |-> d, named |-> b,
                          chain |-> IF b THEN c ELSE None]
        OBVIOUS
      <3> QED BY <1>2, <1>3, <2>10, <3>1, <3>2
    <2> QED BY <2>11, <2>12
  <1>6. published' = published \/ \E w \in Workers : OnEmit(w)
    <2>1. ASSUME NEW w \in Workers, SupervisorStep(w)
          PROVE  published' = published \/ OnEmit(w)
      BY <2>1 DEF SupervisorStep, SpawnStart, SpawnReady, SpawnFail,
                  SpawnError, InitFails,
         BackoffEnds, OnPickup, OnDone, ReadEOF, ReadError, ReadLoopReturns,
         Reap, StaleSettled, emitVars
    <2>2. ASSUME NEW w \in Workers,
                 \/ WriterStep(w) \/ TimerStep(w) \/ BeginClose(w) \/ Kill(w)
                 \/ HandlerStep(w) /\ UNCHANGED engineVars
                 \/ \E d \in Deliveries : DispatchCall(w, d)
          PROVE  published' = published
      BY <2>2 DEF WriterStep, WriteNote, WriterCloses, TimerStep, Timeout,
         BeginClose, Kill, DispatchCall, engineVars, emitVars
    <2>3. CASE CallerStep \/ SettleStep \/ CtxCancel \/ UNCHANGED vars
      BY <2>3 DEF CallerStep, DispatchRefuse, DispatchRegister, DispatchWait,
         SendQueued, SendStopped, CtxWake, SettleStep, Settle, CtxCancel, vars,
         engineVars, emitVars
    <2> QED BY <2>1, <2>2, <2>3 DEF WorkerNext, WorkerStep
  <1> QED BY <1>4, <1>5, <1>6

(* An emit carries the chain of the message it was made for                *)
(* (worker.go, onEmit), or none if a timeout had freed the slot: ids are   *)
(* not reused, so the entry the emit names is its own or gone.             *)
THEOREM ChainKept == WorkerSpec => []EmitKeepsChain
  <1>1. WorkerInit => EmitKeepsChain
    BY DEF WorkerInit, EmitKeepsChain
  <1>2. Trace /\ EmitKeepsChain /\ [WorkerNext]_vars => EmitKeepsChain'
    BY ChainStep
  <1> QED BY <1>1, <1>2, TraceCorrect, PTL DEF WorkerSpec

-----------------------------------------------------------------------------
(* A requeued delivery was not processed                                   *)

(* The pickup of message i has been written and will be read.              *)
Announced(w, i) ==
  sup[w] = "read" /\ \E p \in Spoken(stdout[w]) : p.k = "pickup" /\ p.id = i

(* The reader reads every process to the end of its stdout.                *)
Drained ==
  \A w \in Workers :
    /\ \A p \in Notes(stdout[w]) : p.k # "bad"
    /\ sup[w] = "wait" => ~alive[w] /\ stdout[w] = <<>>

(* A delivery some process has picked up is settled by an ack or a nack:   *)
(* its entry is marked, or its pickup is on the way.                       *)
SeenSettled ==
  \A d \in seen :
    calls[d] # <<"requeue">> /\ \A o \in owed : o.d = d => o.v # "requeue"
SeenMarked ==
  \A d \in seen, w \in Workers : \A i \in DOMAIN msgs[w] :
    msgs[w][i].d = d => msgs[w][i].picked \/ Announced(w, i)

(* What the caller still holds has been picked up by nobody.               *)
Offering == caller.pc \in {"check", "asleep", "send"}
Unseen ==
  /\ seen \subseteq given
  /\ Offering => caller.d \notin seen
  /\ caller.pc = "send" =>
       \A w \in Workers : live[w] => \A n \in QueuedIn(w) : n.d # caller.d

Marked == Drained /\ SeenSettled /\ SeenMarked /\ Unseen

LEMMA HandlerSays ==
  ASSUME TypeOK, NEW w \in Workers, HandlerStep(w)
  PROVE  /\ alive[w] /\ (\A v \in Workers \ {w} : stdout'[v] = stdout[v])
         /\ Notes(stdout[w]) \subseteq Notes(stdout'[w])
         /\ \A p \in Notes(stdout'[w]) \ Notes(stdout[w]) : p.k = "bad" => BadFrames
         /\ seen' = seen \/ HandlerTake(w)
         /\ HandlerTake(w) =>
              /\ seen' = seen \cup {Head(stdin[w]).d}
              /\ \E p \in Spoken(stdout'[w]) :
                   p.k = "pickup" /\ p.id = Head(stdin[w]).id
  <1> DEFINE S == stdout[w]
  <1>0. S \in Seq(InNote) /\ hand[w] \in SUBSET Held
    BY PipeTypes
  <1>1. ASSUME NEW p \in InNote, Says(w, <<p>>)
        PROVE  /\ \A v \in Workers \ {w} : stdout'[v] = stdout[v]
               /\ Notes(stdout'[w]) = Notes(S) \cup {p}
    <2>1. stdout'[w] = S \o <<p>>
          /\ \A v \in Workers \ {w} : stdout'[v] = stdout[v]
      BY <1>1, SaysPipes
    <2> HIDE DEF S
    <2>2. stdout'[w] = Append(S, p)
      BY <1>0, <2>1, SaysOne
    <2>3. Notes(Append(S, p)) = Notes(S) \cup {p}
      BY <1>0, QueueAppend
    <2> QED BY <2>1, <2>2, <2>3
  <1>2. CASE HandlerTake(w)
    <2>1. PICK n \in OutNote : n = Head(stdin[w])
      BY <1>2, PipeTypes, HeadTailProperties DEF HandlerTake
    <2>2. PICK p : p = [k |-> "pickup", id |-> n.id, d |-> n.d, ok |-> TRUE]
      OBVIOUS
    <2>3. alive[w] /\ Says(w, <<p>>) /\ seen' = seen \cup {n.d}
      BY <1>2, <2>1, <2>2 DEF HandlerTake
    <2>7. p \in InNote /\ p.k = "pickup" /\ p.id = n.id
      BY <2>2 DEF OutNote, InNote
    <2>4. /\ \A v \in Workers \ {w} : stdout'[v] = stdout[v]
          /\ Notes(stdout'[w]) = Notes(S) \cup {p}
      BY <1>1, <2>3, <2>7
    <2>5. p \in Spoken(stdout'[w])
      BY <2>4, <2>7 DEF Spoken
    <2>6. \E q \in Spoken(stdout'[w]) :
            q.k = "pickup" /\ q.id = Head(stdin[w]).id
      BY <2>1, <2>5, <2>7
    <2>8. \A q \in Notes(stdout'[w]) \ Notes(S) : q.k # "bad"
      BY <2>4, <2>7
    <2> QED BY <1>2, <2>1, <2>3, <2>4, <2>6, <2>8
  <1>3. ASSUME NEW m \in hand[w], NEW ok \in BOOLEAN,
               HandlerDone(w, m, ok) \/ HandlerEmit(w, m, ok)
        PROVE  /\ alive[w] /\ seen' = seen
               /\ \A v \in Workers \ {w} : stdout'[v] = stdout[v]
               /\ \E p \in InNote : /\ p.k # "bad"
                                    /\ Notes(stdout'[w]) = Notes(S) \cup {p}
    <2>1. PICK k \in {"done", "emit"} :
            /\ alive[w] /\ seen' = seen
            /\ Says(w, <<[k |-> k, id |-> m.id, d |-> m.d, ok |-> ok]>>)
      BY <1>3 DEF HandlerDone, HandlerEmit
    <2>2. PICK p : p = [k |-> k, id |-> m.id, d |-> m.d, ok |-> ok]
      OBVIOUS
    <2>3. p \in InNote /\ p.k # "bad"
      BY <1>0, <2>2 DEF Held, InNote
    <2>4. Says(w, <<p>>)
      BY <2>1, <2>2
    <2> QED BY <1>1, <2>1, <2>3, <2>4
  <1>4. ASSUME NEW m \in hand[w], HandlerDoneTwice(w, m)
        PROVE  /\ alive[w] /\ seen' = seen
               /\ \A v \in Workers \ {w} : stdout'[v] = stdout[v]
               /\ \E p, q \in InNote : /\ p.k # "bad" /\ q.k # "bad"
                                       /\ Notes(stdout'[w]) = Notes(S) \cup {p, q}
    <2>0. PICK a, b :
            /\ a = [k |-> "done", id |-> m.id, d |-> m.d, ok |-> TRUE]
            /\ b = [k |-> "done", id |-> m.id, d |-> m.d, ok |-> FALSE]
      OBVIOUS
    <2>1. a \in InNote /\ b \in InNote /\ a.k # "bad" /\ b.k # "bad"
      BY <1>0, <2>0 DEF Held, InNote
    <2>2. alive[w] /\ seen' = seen /\ Says(w, <<a, b>>)
      BY <1>4, <2>0 DEF HandlerDoneTwice
    <2>3. stdout'[w] = S \o <<a, b>>
          /\ \A v \in Workers \ {w} : stdout'[v] = stdout[v]
      BY <2>2, SaysPipes
    <2> HIDE DEF S
    <2>4. stdout'[w] = Append(Append(S, a), b)
      BY <1>0, <2>1, <2>3, SaysTwo
    <2>5. Append(S, a) \in Seq(InNote) /\ Notes(Append(S, a)) = Notes(S) \cup {a}
      BY <1>0, <2>1, AppendProperties, QueueAppend
    <2> DEFINE T == Append(S, a)
    <2> HIDE DEF T
    <2>6. T \in Seq(InNote)
      BY <2>5 DEF T
    <2>7. Notes(Append(T, b)) = Notes(T) \cup {b}
      BY <2>1, <2>6, QueueAppend
    <2>8. Notes(stdout'[w]) = Notes(S) \cup {a, b}
      BY <2>4, <2>5, <2>7 DEF T
    <2> QED BY <2>1, <2>2, <2>3, <2>8
  <1>5. CASE HandlerBad(w) /\ ~HandlerTake(w)
    <2>0. PICK p : p = BadNote
      OBVIOUS
    <2>1. p \in InNote
      BY <2>0 DEF InNote
    <2>2. alive[w] /\ seen' = seen /\ Says(w, <<p>>) /\ BadFrames
      BY <1>5, <2>0 DEF HandlerBad
    <2>3. /\ \A v \in Workers \ {w} : stdout'[v] = stdout[v]
          /\ Notes(stdout'[w]) = Notes(S) \cup {p}
      BY <1>1, <2>1, <2>2
    <2> QED BY <1>5, <2>2, <2>3
  <1>6. CASE HandlerHearAck(w) \/ Dies(w)
    BY <1>2, <1>6 DEF HandlerHearAck, Dies
  <1>7. ASSUME NEW m \in hand[w], NEW ok \in BOOLEAN,
               \/ HandlerDone(w, m, ok) \/ HandlerEmit(w, m, ok)
               \/ HandlerDoneTwice(w, m)
        PROVE  /\ alive[w] /\ (\A v \in Workers \ {w} : stdout'[v] = stdout[v])
               /\ Notes(S) \subseteq Notes(stdout'[w]) /\ seen' = seen
               /\ \A p \in Notes(stdout'[w]) \ Notes(S) : p.k # "bad"
    BY <1>3, <1>4, <1>7
  <1> QED BY <1>2, <1>5, <1>6, <1>7
          DEF HandlerStep, HandlerWork, HandlerExit, HandlerCrash

LEMMA DrainedStep ==
  ASSUME ~BadFrames, TypeOK, Drained, [WorkerNext]_vars
  PROVE  Drained'
  <1> USE DEF Drained
  <1>1. ASSUME NEW w \in Workers, HandlerStep(w) /\ UNCHANGED engineVars
        PROVE  Drained'
    <2>1. /\ sup' = sup /\ sup[w] # "wait"
          /\ \A v \in Workers : alive'[v] => alive[v]
      BY <1>1, HandlerOnlyDies, HandlerSays DEF TypeOK
    <2>2. /\ \A v \in Workers \ {w} : stdout'[v] = stdout[v]
          /\ \A p \in Notes(stdout'[w]) : p.k # "bad"
      BY <1>1, HandlerSays
    <2> QED BY <2>1, <2>2
  <1>2. ASSUME NEW w \in Workers, Kill(w) PROVE Drained'
    <2>1. sup' = sup /\ stdout' = stdout /\ \A v \in Workers : alive'[v] => alive[v]
      BY <1>2, HandlerOnlyDies DEF TypeOK, Kill, Dies, handlerVars
    <2> QED BY <2>1
  <1>3. ASSUME NEW w \in Workers, SupervisorStep(w) PROVE Drained'
    <2>1. CASE OnPickup(w) \/ OnDone(w) \/ OnEmit(w)
      <3>1. /\ sup[w] = "read" /\ sup' = sup /\ alive' = alive
            /\ stdout[w] # <<>> /\ stdout' = [stdout EXCEPT ![w] = Tail(@)]
        BY <2>1 DEF OnPickup, OnDone, OnEmit, Reads, procVars
      <3>2. Notes(Tail(stdout[w])) \subseteq Notes(stdout[w])
        BY <3>1, PipeTypes, QueueTail
      <3>3. stdout'[w] = Tail(stdout[w])
            /\ \A v \in Workers \ {w} : stdout'[v] = stdout[v]
        BY <3>1 DEF TypeOK, HandlerTypeOK
      <3> QED BY <3>1, <3>2, <3>3
    <2>2. ~ReadError(w)
      <3> SUFFICES ASSUME ReadError(w) PROVE FALSE
        OBVIOUS
      <3>1. stdout[w] # <<>> /\ Head(stdout[w]).k = "bad"
        BY DEF ReadError, Reads
      <3>2. Head(stdout[w]) \in Notes(stdout[w])
        BY <3>1, PipeTypes, QueueTail
      <3> QED BY <3>1, <3>2
    <2>3. CASE ReadEOF(w)
      BY <2>3 DEF ReadEOF, ReadLoopReturns, handlerVars, TypeOK
    <2>4. CASE SpawnStart(w)
      BY <2>4, QueueEmpty DEF SpawnStart, TypeOK, HandlerTypeOK
    <2>5. CASE \/ SpawnReady(w) \/ SpawnFail(w) \/ BackoffEnds(w) \/ Reap(w)
               \/ StaleSettled(w)
      <3>1. PICK s \in SupStates \ {"wait"} : sup' = [sup EXCEPT ![w] = s]
        BY <2>5, SpawnFailMoves
           DEF SpawnReady, BackoffEnds, Reap, StaleSettled, SupStates
      <3>2. UNCHANGED <<alive, stdout>>
        BY <2>5 DEF SpawnReady, SpawnFail, SpawnError, InitFails, BackoffEnds,
                    Reap,
                    StaleSettled, handlerVars
      <3> QED BY <3>1, <3>2 DEF TypeOK
    <2> QED BY <1>3, <2>1, <2>2, <2>3, <2>4, <2>5 DEF SupervisorStep
  <1>4. CASE \/ CallerStep \/ SettleStep \/ CtxCancel \/ UNCHANGED vars
             \/ \E v \in Workers : \/ TimerStep(v) \/ BeginClose(v)
                                   \/ WriterStep(v)
                                   \/ \E d \in Deliveries : DispatchCall(v, d)
    <2>1. UNCHANGED <<alive, stdout, sup>>
      BY <1>4 DEF CallerStep, DispatchRefuse, DispatchRegister, DispatchWait,
         SendQueued, SendStopped, CtxWake, SettleStep, Settle, CtxCancel,
         TimerStep, Timeout, BeginClose, DispatchCall, WriterStep, WriteNote,
         WriterCloses, vars, engineVars, handlerVars, procVars
    <2> QED BY <2>1
  <1> QED BY <1>1, <1>2, <1>3, <1>4 DEF WorkerNext, WorkerStep

(* Only a handler's take adds to the deliveries seen.                      *)
LEMMA SeenStep ==
  ASSUME TypeOK, [WorkerNext]_vars
  PROVE  \/ seen' = seen
         \/ \E w \in Workers : HandlerTake(w) /\ UNCHANGED engineVars
  <1>1. ASSUME NEW w \in Workers, HandlerStep(w) /\ UNCHANGED engineVars
        PROVE  seen' = seen \/ HandlerTake(w)
    BY <1>1, HandlerSays
  <1>2. ASSUME NEW w \in Workers, SupervisorStep(w) PROVE seen' = seen
    BY <1>2 DEF SupervisorStep, SpawnStart, SpawnReady, SpawnFail, SpawnError,
                InitFails,
       BackoffEnds, OnPickup, OnDone, OnEmit, ReadEOF, ReadError, Reads,
       ReadLoopReturns, Reap, StaleSettled, handlerVars
  <1>3. ASSUME NEW w \in Workers,
               \/ WriterStep(w) \/ TimerStep(w) \/ BeginClose(w) \/ Kill(w)
               \/ \E d \in Deliveries : DispatchCall(w, d)
        PROVE  seen' = seen
    BY <1>3 DEF WriterStep, WriteNote, WriterCloses, TimerStep, Timeout,
       BeginClose, Kill, Dies, DispatchCall, handlerVars
  <1>4. CASE CallerStep \/ SettleStep \/ CtxCancel \/ UNCHANGED vars
    BY <1>4 DEF CallerStep, DispatchRefuse, DispatchRegister, DispatchWait,
       SendQueued, SendStopped, CtxWake, SettleStep, Settle, CtxCancel, vars,
       handlerVars
  <1> QED BY <1>1, <1>2, <1>3, <1>4 DEF WorkerNext, WorkerStep

(* A delivery named in the pipes is not in Dispatch any more.              *)
LEMMA KnownTaken ==
  ASSUME Custody, NEW w \in Workers, NEW i, NEW d \in Deliveries, Known(w, i, d)
  PROVE  /\ d \in given /\ ~InDispatch(d) /\ calls[d] # <<"requeue">>
         /\ \A o \in owed : o.d = d => o.v # "requeue"
         /\ \A v \in Workers : \A j \in DOMAIN msgs[v] :
              msgs[v][j].d = d => v = w /\ j = i
  <1>1. /\ InSlot(d) \/ IsOwed(d) => calls[d] = <<>>
        /\ InSlot(d) => ~IsOwed(d)
        /\ InDispatch(d) => ~InSlot(d) /\ ~IsOwed(d) /\ calls[d] = <<>>
        /\ d \notin given => ~InSlot(d) /\ ~IsOwed(d) /\ calls[d] = <<>>
    BY DEF Custody, OneOwner, CallerGate, NoTrace
  <1>2. /\ <<>> # <<"nack">> /\ <<>> # <<"requeue">>
        /\ <<"nack">> # <<"requeue">>
    <2>1. Len(<<>>) # Len(<<"nack">>) /\ Len(<<>>) # Len(<<"requeue">>)
      OBVIOUS
    <2>2. <<"nack">>[1] # <<"requeue">>[1]
      OBVIOUS
    <2> QED BY <2>1, <2>2
  <1>3. CASE i \in DOMAIN msgs[w] /\ msgs[w][i].d = d
    <2>1. InSlot(d)
      BY <1>3 DEF InSlot
    <2>2. \A v \in Workers : \A j \in DOMAIN msgs[v] :
            msgs[v][j].d = d => v = w /\ j = i
      BY <1>3 DEF Custody, OneOwner, OneSlot
    <2> QED BY <1>1, <1>2, <2>1, <2>2 DEF IsOwed
  <1>4. CASE calls[d] = <<"nack">>
    BY <1>1, <1>2, <1>4 DEF InSlot, IsOwed
  <1>5. ASSUME NEW o \in owed, o.d = d, o.v = "nack"
        PROVE  /\ IsOwed(d)
               /\ \A q \in owed : q.d = d => q.v # "requeue"
    BY <1>5 DEF Custody, OneOwner, OneDebt, IsOwed
  <1>6. CASE \E o \in owed : o.d = d /\ o.v = "nack"
    BY <1>1, <1>2, <1>5, <1>6 DEF InSlot
  <1> QED BY <1>3, <1>4, <1>6 DEF Known, GivenUp

(* A requeue is owed only for what nobody has picked up.                   *)
LEMMA SettledStep ==
  ASSUME Trace, Marked, [WorkerNext]_vars, NEW d \in seen
  PROVE  /\ calls'[d] # <<"requeue">>
         /\ \A o \in owed' : o.d = d => o.v # "requeue"
  <1>0. TypeOK /\ Custody /\ d \in Deliveries
    BY DEF Trace, Base, Custody, TypeOK, HandlerTypeOK
  <1>1. /\ calls[d] # <<"requeue">>
        /\ \A o \in owed : o.d = d => o.v # "requeue"
    BY DEF Marked, SeenSettled
  <1>2. ASSUME NEW o \in owed, Settle(o)
        PROVE  /\ calls'[d] # <<"requeue">> /\ owed' \subseteq owed
    <2>1. /\ owed' = owed \ {o}
          /\ calls' = [calls EXCEPT ![o.d] = Append(@, o.v)]
      BY <1>2 DEF Settle
    <2>2. CASE o.d # d
      BY <1>0, <1>1, <2>1, <2>2 DEF TypeOK
    <2>3. CASE o.d = d
      <3>1. calls[d] = <<>> /\ calls'[d] = Append(calls[d], o.v)
        BY <1>0, <2>1, <2>3 DEF Custody, OneOwner, IsOwed, TypeOK
      <3>2. calls'[d] = <<o.v>> /\ o.v # "requeue"
        BY <1>1, <2>3, <3>1
      <3>3. PICK v : v = o.v
        OBVIOUS
      <3>4. <<v>>[1] = v /\ <<"requeue">>[1] = "requeue"
        OBVIOUS
      <3> QED BY <2>1, <3>2, <3>3, <3>4
    <2> QED BY <2>1, <2>2, <2>3
  <1>3. CASE SendStopped
    <2>1. PICK o : o = [by |-> "caller", w |-> caller.w, d |-> caller.d,
                        v |-> "requeue"]
      OBVIOUS
    <2>2. calls' = calls /\ (owed' = owed \/ owed' = owed \cup {o})
      BY <1>3, <2>1 DEF SendStopped
    <2>3. o.d # d
      BY <1>3, <2>1 DEF SendStopped, Marked, Unseen, Offering
    <2> QED BY <1>1, <2>2, <2>3
  <1>4. ASSUME NEW w \in Workers, Reap(w)
        PROVE  calls' = calls /\ \A o \in owed' : o.d = d => o.v # "requeue"
    <2>1. /\ sup[w] = "wait" /\ calls' = calls
          /\ owed' = owed \cup {[by |-> "reader", w |-> w, d |-> msgs[w][i].d,
                                 v |-> StaleVerdict(msgs[w][i])] :
                                  i \in DOMAIN msgs[w]}
      BY <1>4 DEF Reap
    <2>2. ASSUME NEW i \in DOMAIN msgs[w], msgs[w][i].d = d
          PROVE  StaleVerdict(msgs[w][i]) # "requeue"
      <3>1. msgs[w][i].picked
        BY <2>1, <2>2 DEF Marked, SeenMarked, Announced
      <3> QED BY <3>1 DEF StaleVerdict
    <2> QED BY <1>1, <2>1, <2>2
  <1>5. ASSUME NEW w \in Workers, OnDone(w) \/ TimerStep(w)
        PROVE  /\ calls' = calls
               /\ \A o \in owed' : o \in owed \/ o.v # "requeue"
    BY <1>5 DEF OnDone, TimerStep, Timeout
  <1>6. ASSUME NEW w \in Workers,
               \/ SpawnStart(w) \/ SpawnReady(w) \/ SpawnFail(w)
               \/ BackoffEnds(w) \/ OnPickup(w) \/ OnEmit(w) \/ ReadEOF(w)
               \/ ReadError(w) \/ StaleSettled(w) \/ WriterStep(w)
               \/ BeginClose(w) \/ Kill(w)
               \/ HandlerStep(w) /\ UNCHANGED engineVars
               \/ \E e \in Deliveries : DispatchCall(w, e)
        PROVE  UNCHANGED <<calls, owed>>
    BY <1>6 DEF SpawnStart, SpawnReady, SpawnFail, SpawnError, InitFails,
                BackoffEnds,
       OnPickup, OnEmit, ReadEOF, ReadError, ReadLoopReturns, StaleSettled,
       WriterStep, WriteNote, WriterCloses, BeginClose, Kill, DispatchCall,
       engineVars, ledgerVars
  <1>7. CASE \/ DispatchRefuse \/ DispatchRegister \/ DispatchWait \/ SendQueued
             \/ CtxCancel \/ UNCHANGED vars \/ \E w \in Workers : CtxWake(w)
    BY <1>1, <1>7 DEF DispatchRefuse, DispatchRegister, DispatchWait,
                      SendQueued,
       CtxWake, CtxCancel, vars, engineVars, ledgerVars
  <1> QED BY <1>1, <1>2, <1>3, <1>4, <1>5, <1>6, <1>7
          DEF WorkerNext, WorkerStep, CallerStep, SupervisorStep, SettleStep

(* An entry in the map after a step was there before it, and stays picked  *)
(* up, or Dispatch has just registered it.                                 *)
LEMMA PickedStays ==
  ASSUME TypeOK, [WorkerNext]_vars, NEW w \in Workers, NEW i \in DOMAIN msgs'[w]
  PROVE  \/ /\ i \in DOMAIN msgs[w] /\ msgs'[w][i].d = msgs[w][i].d
            /\ msgs[w][i].picked => msgs'[w][i].picked
         \/ DispatchRegister /\ msgs'[w][i].d = caller.d
  <1> DEFINE Stays == /\ i \in DOMAIN msgs[w] /\ msgs'[w][i].d = msgs[w][i].d
                      /\ msgs[w][i].picked => msgs'[w][i].picked
  <1>1. ASSUME NEW v \in Workers, NEW id,
               msgs' = [msgs EXCEPT ![v] = Delete(@, id)]
        PROVE  Stays
    BY <1>1 DEF TypeOK, SlotsOK, Delete
  <1>2. CASE DispatchRegister
    <2>1. PICK v \in Workers, d \in Deliveries, id \in Nat :
            caller.w = v /\ caller.d = d /\ id = nextID[v]
      BY <1>2, CallerBusy DEF DispatchRegister, TypeOK
    <2>2. msgs' = [msgs EXCEPT ![v] =
                     [j \in DOMAIN @ \cup {id} |->
                        IF j = id THEN [d |-> d, picked |-> FALSE] ELSE @[j]]]
      BY <1>2, <2>1 DEF DispatchRegister
    <2>3. Stays \/ msgs'[w][i].d = d
      BY <2>2 DEF TypeOK, SlotsOK
    <2> QED BY <1>2, <2>1, <2>3
  <1>3. ASSUME NEW v \in Workers, SupervisorStep(v) PROVE Stays
    <2>1. CASE OnPickup(v)
      <3> DEFINE id == Head(stdout[v]).id
                 e  == [msgs[v][id] EXCEPT !.picked = TRUE]
      <3>1. CASE id \in DOMAIN msgs[v]
        <4>1. e.d = msgs[v][id].d /\ e.picked
          BY <3>1, SlotType DEF Inflight, TypeOK
        <4>2. msgs' = [msgs EXCEPT ![v] = [@ EXCEPT ![id] = e]]
          BY <2>1, <3>1 DEF OnPickup
        <4>3. DOMAIN msgs = Workers
          BY DEF TypeOK, SlotsOK
        <4> HIDE DEF id, e
        <4>4. msgs'[v] = [msgs[v] EXCEPT ![id] = e]
              /\ (v # w => msgs'[w] = msgs[w])
          BY <4>2, <4>3
        <4> QED BY <4>1, <4>4
      <3>2. CASE id \notin DOMAIN msgs[v]
        BY <2>1, <3>2 DEF OnPickup
      <3> QED BY <3>1, <3>2
    <2>2. CASE OnDone(v)
      <3>1. msgs' = msgs \/ msgs' = [msgs EXCEPT ![v] = Delete(@, Head(stdout[v]).id)]
        BY <2>2 DEF OnDone
      <3> QED BY <1>1, <3>1
    <2>3. CASE Reap(v)
      BY <2>3 DEF Reap, TypeOK, SlotsOK
    <2>4. CASE \/ SpawnStart(v) \/ SpawnReady(v) \/ SpawnFail(v)
               \/ BackoffEnds(v) \/ OnEmit(v) \/ ReadEOF(v) \/ ReadError(v)
               \/ StaleSettled(v)
      BY <2>4 DEF SpawnStart, SpawnReady, SpawnFail, SpawnError, InitFails,
                  BackoffEnds,
         OnEmit, ReadEOF, ReadError, ReadLoopReturns, StaleSettled, slotVars
    <2> QED BY <1>3, <2>1, <2>2, <2>3, <2>4 DEF SupervisorStep
  <1>4. CASE SendStopped
    <2>1. PICK v \in Workers : v = caller.w
      BY <1>4, CallerBusy DEF SendStopped, TypeOK
    <2>2. msgs' = msgs \/ msgs' = [msgs EXCEPT ![v] = Delete(@, caller.id)]
      BY <1>4, <2>1 DEF SendStopped
    <2> QED BY <1>1, <2>2
  <1>5. ASSUME NEW v \in Workers, TimerStep(v) PROVE Stays
    BY <1>1, <1>5 DEF TimerStep, Timeout
  <1>6. CASE \/ DispatchRefuse \/ DispatchWait \/ SendQueued \/ SettleStep
             \/ CtxCancel \/ UNCHANGED vars
             \/ \E v \in Workers :
                  \/ CtxWake(v) \/ WriterStep(v) \/ BeginClose(v) \/ Kill(v)
                  \/ HandlerStep(v) /\ UNCHANGED engineVars
                  \/ \E d \in Deliveries : DispatchCall(v, d)
    <2>1. msgs' = msgs
      BY <1>6 DEF DispatchRefuse, DispatchWait, SendQueued, SettleStep, Settle,
         CtxCancel, CtxWake, WriterStep, WriteNote, WriterCloses, BeginClose,
         Kill, DispatchCall, vars, engineVars, slotVars
    <2> QED BY <2>1
  <1> QED BY <1>2, <1>3, <1>4, <1>5, <1>6
          DEF WorkerNext, WorkerStep, CallerStep

(* A pickup on its way gets there: the reader marks the entry.             *)
LEMMA AnnouncedStep ==
  ASSUME ~BadFrames, TypeOK, Drained, [WorkerNext]_vars, NEW w \in Workers,
         NEW i, Announced(w, i)
  PROVE  \/ Announced(w, i)'
         \/ /\ OnPickup(w) /\ Head(stdout[w]).id = i
            /\ i \in DOMAIN msgs[w] => msgs'[w][i].picked
  <1>0. sup[w] = "read"
    BY DEF Announced
  <1>1. PICK p \in Spoken(stdout[w]) : p.k = "pickup" /\ p.id = i
    BY DEF Announced
  <1>2. ASSUME Spoken(stdout[w]) \subseteq Spoken(stdout'[w]), sup'[w] = sup[w]
        PROVE  Announced(w, i)'
    BY <1>1, <1>2 DEF Announced
  <1>3. ASSUME NEW v \in Workers,
               (HandlerStep(v) /\ UNCHANGED engineVars) \/ Kill(v)
        PROVE  Announced(w, i)'
    <2>1. sup' = sup /\ Notes(stdout[w]) \subseteq Notes(stdout'[w])
      BY <1>3, HandlerSays DEF Kill, Dies, engineVars, procVars, handlerVars
    <2> QED BY <1>2, <2>1 DEF Spoken
  <1>4. ASSUME NEW v \in Workers, OnPickup(v) \/ OnDone(v) \/ OnEmit(v)
        PROVE  \/ Announced(w, i)'
               \/ /\ OnPickup(w) /\ Head(stdout[w]).id = i
                  /\ i \in DOMAIN msgs[w] => msgs'[w][i].picked
    <2>1. /\ stdout[v] # <<>> /\ sup' = sup
          /\ stdout' = [stdout EXCEPT ![v] = Tail(@)]
          /\ Head(stdout[v]).k = "pickup" => OnPickup(v)
      BY <1>4 DEF OnPickup, OnDone, OnEmit, Reads, procVars
    <2>2. CASE v # w
      <3>1. stdout'[w] = stdout[w]
        BY <2>1, <2>2 DEF TypeOK, HandlerTypeOK
      <3> QED BY <1>2, <2>1, <3>1
    <2>3. CASE v = w /\ p # Head(stdout[w])
      <3>1. Notes(stdout[w]) = {Head(stdout[w])} \cup Notes(Tail(stdout[w]))
        BY <2>1, <2>3, PipeTypes, QueueTail
      <3>2. stdout'[w] = Tail(stdout[w])
        BY <2>1, <2>3 DEF TypeOK, HandlerTypeOK
      <3>3. p \in Spoken(stdout'[w])
        BY <1>1, <2>3, <3>1, <3>2 DEF Spoken
      <3> QED BY <1>0, <1>1, <2>1, <3>3 DEF Announced
    <2>4. CASE v = w /\ p = Head(stdout[w])
      <3>1. OnPickup(w) /\ Head(stdout[w]).id = i
        BY <1>1, <2>1, <2>4
      <3>2. i \in DOMAIN msgs[w] => msgs' = [msgs EXCEPT ![w][i].picked = TRUE]
        BY <3>1 DEF OnPickup
      <3>3. i \in DOMAIN msgs[w] => msgs'[w][i].picked
        <4> SUFFICES ASSUME i \in DOMAIN msgs[w] PROVE msgs'[w][i].picked
          OBVIOUS
        <4>1. PICK e : e = [msgs[w][i] EXCEPT !.picked = TRUE]
          OBVIOUS
        <4>2. e.picked
          BY <4>1, SlotType DEF Inflight, TypeOK
        <4>3. msgs' = [msgs EXCEPT ![w] = [@ EXCEPT ![i] = e]]
          BY <3>2, <4>1
        <4> QED BY <4>2, <4>3 DEF TypeOK, SlotsOK
      <3> QED BY <3>1, <3>3
    <2> QED BY <2>2, <2>3, <2>4
  <1>5. ASSUME NEW v \in Workers, SpawnStart(v) PROVE Announced(w, i)'
    <2>1. v # w
      BY <1>0, <1>5 DEF SpawnStart
    <2>2. stdout'[w] = stdout[w] /\ sup'[w] = sup[w]
      BY <1>5, <2>1 DEF SpawnStart, TypeOK, HandlerTypeOK
    <2> QED BY <1>2, <2>2
  <1>6. ASSUME NEW v \in Workers,
               \/ SpawnReady(v) \/ SpawnFail(v) \/ BackoffEnds(v) \/ Reap(v)
               \/ StaleSettled(v) \/ ReadEOF(v)
        PROVE  Announced(w, i)'
    <2>1. stdout' = stdout /\ \E s \in SupStates : sup' = [sup EXCEPT ![v] = s]
      <3>1. stdout' = stdout
        BY <1>6 DEF SpawnReady, SpawnFail, SpawnError, InitFails, BackoffEnds,
                    Reap, StaleSettled, ReadEOF, handlerVars
      <3> QED BY <1>0, <1>6, <3>1, SpawnFailMoves
              DEF SpawnReady, BackoffEnds, Reap, StaleSettled, ReadEOF,
                  ReadLoopReturns, SupStates
    <2>2. v # w
      <3>1. stdout[w] # <<>>
        BY <1>1, QueueEmpty DEF Spoken
      <3> QED BY <1>0, <1>6, <3>1
              DEF SpawnReady, SpawnFail, InitFails, BackoffEnds, Reap,
                  StaleSettled, ReadEOF
    <2> QED BY <1>2, <2>1, <2>2 DEF TypeOK
  <1>7. ASSUME NEW v \in Workers PROVE ~ReadError(v)
    <2> SUFFICES ASSUME ReadError(v) PROVE FALSE
      OBVIOUS
    <2>1. stdout[v] # <<>> /\ Head(stdout[v]).k = "bad"
      BY DEF ReadError, Reads
    <2>2. Head(stdout[v]) \in Notes(stdout[v])
      BY <2>1, PipeTypes, QueueTail
    <2> QED BY <2>1, <2>2 DEF Drained
  <1>8. CASE \/ CallerStep \/ SettleStep \/ CtxCancel \/ UNCHANGED vars
             \/ \E v \in Workers : \/ TimerStep(v) \/ BeginClose(v)
                                   \/ WriterStep(v)
                                   \/ \E d \in Deliveries : DispatchCall(v, d)
    <2>1. UNCHANGED <<stdout, sup>>
      BY <1>8 DEF CallerStep, DispatchRefuse, DispatchRegister, DispatchWait,
         SendQueued, SendStopped, CtxWake, SettleStep, Settle, CtxCancel,
         TimerStep, Timeout, BeginClose, DispatchCall, WriterStep, WriteNote,
         WriterCloses, vars, engineVars, handlerVars, procVars
    <2> QED BY <1>2, <2>1
  <1> QED BY <1>3, <1>4, <1>5, <1>6, <1>7, <1>8
          DEF WorkerNext, WorkerStep, SupervisorStep

LEMMA MarkStep ==
  ASSUME ~BadFrames, Trace, Marked, [WorkerNext]_vars, NEW d \in seen,
         NEW w \in Workers, NEW i \in DOMAIN msgs'[w], msgs'[w][i].d = d
  PROVE  msgs'[w][i].picked \/ Announced(w, i)'
  <1>0. TypeOK /\ Drained
    BY DEF Trace, Base, Custody, Marked
  <1>1. ~(DispatchRegister /\ msgs'[w][i].d = caller.d)
    BY DEF DispatchRegister, Marked, Unseen, Offering
  <1>2. /\ i \in DOMAIN msgs[w] /\ msgs[w][i].d = d
        /\ msgs[w][i].picked => msgs'[w][i].picked
    BY <1>0, <1>1, PickedStays
  <1>3. msgs[w][i].picked \/ Announced(w, i)
    BY <1>2 DEF Marked, SeenMarked
  <1> QED BY <1>0, <1>2, <1>3, AnnouncedStep

(* What a handler takes off stdin is known, and no longer with Dispatch.   *)
LEMMA TakenMarked ==
  ASSUME Trace, Drained, Unseen, NEW w \in Workers,
         HandlerTake(w) /\ UNCHANGED engineVars
  PROVE  \E d \in Deliveries :
           /\ seen' = seen \cup {d} /\ d \in given
           /\ Offering => caller.d # d
           /\ calls[d] # <<"requeue">>
           /\ \A o \in owed : o.d = d => o.v # "requeue"
           /\ \A v \in Workers : \A j \in DOMAIN msgs[v] :
                msgs[v][j].d = d => Announced(v, j)'
  <1>0. TypeOK /\ Custody
    BY DEF Trace, Base, Custody
  <1>1. /\ alive[w] /\ stdin[w] # <<>> /\ Head(stdin[w]).k = "deliver"
        /\ seen' = seen \cup {Head(stdin[w]).d} /\ sup' = sup
    BY DEF HandlerTake, engineVars, procVars
  <1>2. PICK n \in OutNote : n = Head(stdin[w])
    BY <1>0, <1>1, PipeTypes, HeadTailProperties
  <1>3. PICK d \in Deliveries, i \in Nat : d = n.d /\ i = n.id
    BY DEF OutNote
  <1>4. n \in QueuedIn(w)
    <2>1. n \in Notes(stdin[w])
      BY <1>0, <1>1, <1>2, PipeTypes, QueueTail
    <2> QED BY <1>1, <1>2, <2>1 DEF QueuedIn, Queued
  <1>5. sup[w] = "read" /\ live[w]
    <2>1. sup[w] # "init"
      BY <1>1 DEF Trace, Traced, Idling
    <2>2. sup[w] # "wait"
      BY <1>1 DEF Drained
    <2> QED BY <1>1, <2>1, <2>2 DEF Trace, Base, Managed, NothingStranded
  <1>6. Known(w, i, d)
    <2>1. NamesIn(w, i, d)
      BY <1>3, <1>4 DEF NamesIn, Names, QueuedIn
    <2> QED BY <1>5, <2>1 DEF Trace, Traced, Following
  <1>7. /\ d \in given /\ ~InDispatch(d) /\ calls[d] # <<"requeue">>
        /\ \A o \in owed : o.d = d => o.v # "requeue"
        /\ \A v \in Workers : \A j \in DOMAIN msgs[v] :
             msgs[v][j].d = d => v = w /\ j = i
    BY <1>0, <1>6, KnownTaken
  <1>8. Offering => caller.d # d
    <2>1. caller.pc = "send" => n.d # caller.d
      BY <1>4, <1>5 DEF Unseen
    <2> QED BY <1>3, <1>7, <2>1 DEF Offering, InDispatch
  <1>9. Announced(w, i)'
    <2>1. \E p \in Spoken(stdout'[w]) : p.k = "pickup" /\ p.id = i
      <3>1. HandlerStep(w)
        BY DEF HandlerStep, HandlerWork
      <3> QED BY <1>0, <1>2, <1>3, <3>1, HandlerSays
    <2> QED BY <1>1, <1>5, <2>1 DEF Announced
  <1>10. seen' = seen \cup {d}
    BY <1>1, <1>2, <1>3
  <1>11. \A v \in Workers : \A j \in DOMAIN msgs[v] :
           msgs[v][j].d = d => Announced(v, j)'
    <2> SUFFICES ASSUME NEW v \in Workers, NEW j \in DOMAIN msgs[v],
                        msgs[v][j].d = d
                 PROVE  Announced(v, j)'
      OBVIOUS
    <2>1. v = w /\ j = i
      BY <1>7
    <2> QED BY <1>9, <2>1
  <1> QED BY <1>7, <1>8, <1>10, <1>11

(* The caller holds what it held, or a delivery it has just been given.    *)
LEMMA OfferingStep ==
  ASSUME TypeOK, [WorkerNext]_vars, Offering'
  PROVE  \/ Offering /\ caller'.d = caller.d
         \/ \E w \in Workers, d \in Deliveries :
              DispatchCall(w, d) /\ caller'.d = d
  <1>1. \A w : Broadcast(w).pc \in {"check", "asleep", "send"} =>
                 Offering /\ Broadcast(w).d = caller.d
    BY DEF Broadcast, Offering, TypeOK, Dispatching, Idle
  <1>2. CASE CallerStep
    <2>1. CASE DispatchRefuse \/ SendQueued
      BY <2>1 DEF DispatchRefuse, SendQueued, Offering, Idle
    <2>2. CASE SendStopped
      <3>1. caller' = Idle \/ caller' = [caller EXCEPT !.pc = "requeue"]
        BY <2>2 DEF SendStopped
      <3>2. caller \in Dispatching
        BY <2>2 DEF SendStopped, TypeOK, Idle
      <3> QED BY <3>1, <3>2 DEF Offering, Idle, Dispatching
    <2>3. CASE DispatchWait
      <3>1. caller' = [caller EXCEPT !.pc = "asleep"] /\ caller.pc = "check"
        BY <2>3 DEF DispatchWait
      <3> QED BY <3>1 DEF Offering, TypeOK, Dispatching, Idle
    <2>4. CASE DispatchRegister
      <3>1. PICK i, p : caller' = [caller EXCEPT !.pc = "send", !.id = i, !.p = p]
        BY <2>4 DEF DispatchRegister
      <3>2. caller.pc = "check" /\ caller \in Dispatching
        BY <2>4 DEF DispatchRegister, TypeOK, Idle
      <3> QED BY <3>1, <3>2 DEF Offering, Dispatching
    <2>5. CASE \E w \in Workers : CtxWake(w)
      BY <1>1, <2>5 DEF CtxWake, Offering
    <2> QED BY <1>2, <2>1, <2>2, <2>3, <2>4, <2>5 DEF CallerStep
  <1>3. ASSUME NEW w \in Workers, SupervisorStep(w)
        PROVE  caller' = caller \/ caller' = Broadcast(w)
    BY <1>3 DEF SupervisorStep, SpawnStart, SpawnReady, SpawnFail, SpawnError,
                InitFails,
       BackoffEnds, OnPickup, OnDone, OnEmit, ReadEOF, ReadError,
       ReadLoopReturns, Reap, StaleSettled
  <1>4. ASSUME NEW w \in Workers,
               \/ WriterStep(w) \/ TimerStep(w) \/ BeginClose(w) \/ Kill(w)
               \/ HandlerStep(w) /\ UNCHANGED engineVars
        PROVE  caller' = caller \/ caller' = Broadcast(w)
    BY <1>4 DEF WriterStep, WriteNote, WriterCloses, TimerStep, Timeout,
       BeginClose, Kill, engineVars
  <1>5. CASE SettleStep \/ CtxCancel \/ UNCHANGED vars
    <2>1. caller' = caller \/ caller' = Idle
      BY <1>5 DEF SettleStep, Settle, CtxCancel, vars, engineVars
    <2> QED BY <2>1 DEF Offering, Idle
  <1>6. ASSUME NEW w \in Workers, NEW d \in Deliveries, DispatchCall(w, d)
        PROVE  caller'.d = d
    BY <1>6 DEF DispatchCall, Idle
  <1> QED BY <1>1, <1>2, <1>3, <1>4, <1>5, <1>6
          DEF WorkerNext, WorkerStep, Offering

(* The note Dispatch has still to send is not yet in any queue.            *)
LEMMA UnqueuedStep ==
  ASSUME Trace, Unseen, [WorkerNext]_vars, caller'.pc = "send",
         NEW v \in Workers, live'[v], NEW n \in QueuedIn(v)'
  PROVE  n.d # caller'.d
  <1>0. TypeOK /\ Custody /\ NothingStranded
    BY DEF Trace, Base, Custody
  <1>1. ~SendQueued
    BY <1>0, SendingKept DEF SendQueued, DispatchRegister
  <1>2. live[v] /\ n \in QueuedIn(v)
    <2>1. CASE SpawnReady(v)
      <3>1. ~MentionsIn(v, n.id)'
        BY <2>1, SpawnFollows
      <3> QED BY <3>1 DEF MentionsIn, Mentions, QueuedIn, Queued
    <2>2. CASE live[v]
      <3>1. Passes(v)
        BY <1>0, <1>1, <2>2, PipeStep DEF Sending, Trace, Traced, Following
      <3> QED BY <2>2, <3>1 DEF Passes, Flows, QueuedIn
    <2> QED BY <1>0, <2>1, <2>2, LiveStep
  <1>3. CASE caller' = caller
    BY <1>2, <1>3 DEF Unseen
  <1>4. CASE DispatchRegister
    <2>1. NamesIn(v, n.id, n.d)
      BY <1>2 DEF NamesIn, Names, QueuedIn
    <2>2. Known(v, n.id, n.d) /\ n.d \in Deliveries
      BY <1>0, <1>2, <2>1, NamesType DEF Trace, Traced, Following
    <2>3. PICK d, i : d \in Deliveries /\ d = n.d /\ i = n.id
      BY <2>2
    <2>4. ~InDispatch(d)
      BY <1>0, <2>2, <2>3, KnownTaken
    <2>5. d # caller.d
      BY <1>4, <2>4 DEF InDispatch, DispatchRegister
    <2>6. caller'.d = caller.d
      <3>1. caller.pc = "check"
        BY <1>4 DEF DispatchRegister
      <3>2. PICK i2, p2 : caller' = [caller EXCEPT !.pc = "send", !.id = i2, !.p = p2]
        BY <1>4 DEF DispatchRegister
      <3> QED BY <1>0, <3>1, <3>2 DEF TypeOK, Dispatching, Idle
    <2> QED BY <2>3, <2>5, <2>6
  <1> QED BY <1>0, <1>3, <1>4, SendingKept

LEMMA GivenGrows ==
  ASSUME [WorkerNext]_vars
  PROVE  given' = given \/ \E w \in Workers, d \in Deliveries : DispatchCall(w, d)
  <1>1. ASSUME NEW w \in Workers, SupervisorStep(w) PROVE given' = given
    BY <1>1 DEF SupervisorStep, SpawnStart, SpawnReady, SpawnFail, SpawnError,
                InitFails,
       BackoffEnds, OnPickup, OnDone, OnEmit, ReadEOF, ReadError,
       ReadLoopReturns, Reap, StaleSettled, ledgerVars
  <1>2. ASSUME NEW w \in Workers,
               \/ WriterStep(w) \/ TimerStep(w) \/ BeginClose(w) \/ Kill(w)
               \/ HandlerStep(w) /\ UNCHANGED engineVars
        PROVE  given' = given
    BY <1>2 DEF WriterStep, WriteNote, WriterCloses, TimerStep, Timeout,
       BeginClose, Kill, engineVars, ledgerVars
  <1>3. CASE CallerStep \/ SettleStep \/ CtxCancel \/ UNCHANGED vars
    BY <1>3 DEF CallerStep, DispatchRefuse, DispatchRegister, DispatchWait,
       SendQueued, SendStopped, CtxWake, SettleStep, Settle, CtxCancel, vars,
       engineVars, ledgerVars
  <1> QED BY <1>1, <1>2, <1>3 DEF WorkerNext, WorkerStep

LEMMA MarkedStep ==
  ASSUME ~BadFrames, Trace, Marked, [WorkerNext]_vars
  PROVE  Marked'
  <1>0. TypeOK /\ Custody /\ Drained /\ Unseen
    BY DEF Trace, Base, Custody, Marked
  <1>1. Drained'
    BY <1>0, DrainedStep
  <1>2. seen \subseteq given'
    <2>1. \A w \in Workers, d \in Deliveries :
            DispatchCall(w, d) => given' = given \cup {d}
      BY DEF DispatchCall
    <2> QED BY <1>0, <2>1, GivenGrows DEF Unseen
  <1>3. Offering' => caller'.d \notin seen
    <2>1. \A w \in Workers, d \in Deliveries : DispatchCall(w, d) => d \notin seen
      BY <1>0 DEF DispatchCall, Unseen
    <2> QED BY <1>0, <2>1, OfferingStep DEF Unseen
  <1>4. caller'.pc = "send" =>
          \A v \in Workers : live'[v] => \A n \in QueuedIn(v)' : n.d # caller'.d
    BY <1>0, UnqueuedStep
  <1>5. CASE seen' = seen
    <2>1. SeenSettled'
      BY <1>5, SettledStep DEF SeenSettled
    <2>2. SeenMarked'
      BY <1>5, MarkStep DEF SeenMarked
    <2>3. Unseen'
      BY <1>2, <1>3, <1>4, <1>5 DEF Unseen
    <2> QED BY <1>1, <2>1, <2>2, <2>3 DEF Marked
  <1>6. ASSUME NEW w \in Workers, HandlerTake(w), UNCHANGED engineVars
        PROVE  Marked'
    <2>1. PICK d \in Deliveries :
            /\ seen' = seen \cup {d} /\ d \in given
            /\ Offering => caller.d # d
            /\ calls[d] # <<"requeue">>
            /\ \A o \in owed : o.d = d => o.v # "requeue"
            /\ \A v \in Workers : \A j \in DOMAIN msgs[v] :
                 msgs[v][j].d = d => Announced(v, j)'
      BY <1>0, <1>6, TakenMarked
    <2>2. UNCHANGED <<calls, owed, msgs, caller, given>>
      BY <1>6 DEF engineVars, slotVars, ledgerVars
    <2>3. SeenSettled'
      <3> SUFFICES ASSUME NEW e \in seen'
                   PROVE  /\ calls'[e] # <<"requeue">>
                          /\ \A o \in owed' : o.d = e => o.v # "requeue"
        BY DEF SeenSettled
      <3> QED BY <2>1, <2>2, SettledStep
    <2>4. SeenMarked'
      <3> SUFFICES ASSUME NEW e \in seen', NEW v \in Workers,
                          NEW j \in DOMAIN msgs'[v], msgs'[v][j].d = e
                   PROVE  msgs'[v][j].picked \/ Announced(v, j)'
        BY DEF SeenMarked
      <3>1. CASE e = d
        BY <2>1, <2>2, <3>1
      <3>2. CASE e \in seen
        BY <3>2, MarkStep
      <3> QED BY <2>1, <3>1, <3>2
    <2>5. Offering' => caller'.d # d
      BY <2>1, <2>2 DEF Offering
    <2>6. Unseen'
      BY <1>2, <1>3, <1>4, <2>1, <2>2, <2>5 DEF Unseen
    <2> QED BY <1>1, <2>3, <2>4, <2>6 DEF Marked
  <1> QED BY <1>0, <1>5, <1>6, SeenStep

(* A delivery is requeued only if no process took it off the wire          *)
(* (worker.go:207-208).  It needs the reader to read stdout to its end, so *)
(* it is proved for handlers whose every frame is readable, and for every  *)
(* number of workers, deliveries and faults, every cap and pipe.           *)
THEOREM RequeueKept ==
  ASSUME ~BadFrames
  PROVE  WorkerSpec => []RequeueUnprocessed
  <1>1. WorkerInit => Marked
    <2> SUFFICES ASSUME WorkerInit PROVE Marked
      OBVIOUS
    <2>1. seen = {} /\ caller.pc = "idle"
      BY DEF WorkerInit, HandlerInit, Idle
    <2>2. Drained
      BY QueueEmpty DEF WorkerInit, HandlerInit, Drained
    <2> QED BY <2>1, <2>2 DEF Marked, SeenSettled, SeenMarked, Unseen, Offering
  <1>2. Trace /\ Marked /\ [WorkerNext]_vars => Marked'
    BY MarkedStep
  <1>3. Marked => RequeueUnprocessed
    BY DEF Marked, SeenSettled, RequeueUnprocessed
  <1> QED BY <1>1, <1>2, <1>3, TraceCorrect, PTL DEF WorkerSpec

-----------------------------------------------------------------------------
(* The process never has more than cap messages                            *)

LEMMA SlotsFinite ==
  ASSUME TypeOK, NEW w \in Workers
  PROVE  IsFiniteSet(DOMAIN msgs[w]) /\ Outstanding(w) \in Nat
  <1>1. DOMAIN msgs[w] \subseteq 1 .. (nextID[w] - 1) /\ nextID[w] \in Nat
    BY DEF TypeOK, SlotsOK
  <1>2. IsFiniteSet(1 .. (nextID[w] - 1))
    BY <1>1, FS_Interval
  <1>3. IsFiniteSet(DOMAIN msgs[w])
    BY <1>1, <1>2, FS_Subset
  <1> QED BY <1>3, FS_CardinalityType DEF Outstanding

(* Dispatch waits for a free slot (worker.go:429): the map of a worker     *)
(* has at most cap entries.                                                *)
Fits == \A w \in Workers : Outstanding(w) <= Cap

LEMMA FitsStep ==
  ASSUME TypeOK, Fits, [WorkerNext]_vars
  PROVE  Fits'
  <1> SUFFICES ASSUME NEW w \in Workers PROVE Outstanding(w)' <= Cap
    BY DEF Fits
  <1>0. TypeOK' /\ Cap \in Nat /\ Outstanding(w) <= Cap
        /\ IsFiniteSet(DOMAIN msgs[w]) /\ Outstanding(w) \in Nat
    BY TypeStep, SlotsFinite, WorkerAssumption DEF Fits
  <1>1. ASSUME DOMAIN msgs'[w] \subseteq DOMAIN msgs[w]
        PROVE  Outstanding(w)' <= Cap
    <2>1. /\ IsFiniteSet(DOMAIN msgs'[w])
          /\ Cardinality(DOMAIN msgs'[w]) <= Cardinality(DOMAIN msgs[w])
      BY <1>0, <1>1, FS_Subset
    <2>2. Cardinality(DOMAIN msgs'[w]) \in Nat
      BY <2>1, FS_CardinalityType
    <2> QED BY <1>0, <2>1, <2>2 DEF Outstanding
  <1>2. CASE DispatchRegister
    <2>1. PICK v \in Workers, d \in Deliveries, id \in Nat :
            caller.w = v /\ caller.d = d /\ id = nextID[v]
      BY <1>2, CallerBusy DEF DispatchRegister, TypeOK
    <2>2. /\ Outstanding(v) < Cap
          /\ msgs' = [msgs EXCEPT ![v] =
                        [j \in DOMAIN @ \cup {id} |->
                           IF j = id THEN [d |-> d, picked |-> FALSE] ELSE @[j]]]
      BY <1>2, <2>1 DEF DispatchRegister, FreeSlot
    <2>3. CASE v # w
      BY <1>1, <2>2, <2>3 DEF TypeOK, SlotsOK
    <2>4. CASE v = w
      <3>1. DOMAIN msgs'[w] = DOMAIN msgs[w] \cup {id}
        BY <2>2, <2>4 DEF TypeOK, SlotsOK
      <3>2. Cardinality(DOMAIN msgs[w] \cup {id})
              = IF id \in DOMAIN msgs[w] THEN Cardinality(DOMAIN msgs[w])
                                         ELSE Cardinality(DOMAIN msgs[w]) + 1
        BY <1>0, FS_AddElement
      <3>3. PICK c \in Nat : c = Cardinality(DOMAIN msgs[w]) /\ c < Cap
        BY <1>0, <2>2, <2>4 DEF Outstanding
      <3>4. Outstanding(w)' \in {c, c + 1}
        BY <3>1, <3>2, <3>3 DEF Outstanding
      <3> QED BY <1>0, <3>3, <3>4
    <2> QED BY <2>3, <2>4
  <1>3. CASE ~DispatchRegister
    <2>1. DOMAIN msgs'[w] \subseteq DOMAIN msgs[w]
      BY <1>3, PickedStays
    <2> QED BY <1>1, <2>1
  <1> QED BY <1>2, <1>3

LEMMA FitsInit == WorkerInit => Fits
  <1> SUFFICES ASSUME WorkerInit, NEW w \in Workers PROVE Outstanding(w) <= Cap
    BY DEF Fits
  <1>1. DOMAIN msgs[w] = {}
    BY DEF WorkerInit
  <1>2. Cardinality({}) = 0
    BY FS_EmptySet
  <1>3. Outstanding(w) = 0
    BY <1>1, <1>2 DEF Outstanding
  <1> QED BY <1>3, WorkerAssumption

(* Two kinds of things with an id of their own each, and the ids of D.     *)
LEMMA CountOne ==
  ASSUME NEW A, NEW D, IsFiniteSet(D), NEW f \in [A -> D],
         \A x, y \in A : f[x] = f[y] => x = y
  PROVE  /\ IsFiniteSet(A) /\ Cardinality(A) \in Nat
         /\ Cardinality(A) <= Cardinality(D)
  <1>1. f \in Injection(A, D)
    BY DEF Injection, IsInjective
  <1> QED BY <1>1, FS_Injection, FS_CardinalityType

LEMMA CountTwo ==
  ASSUME NEW A, NEW B, NEW D, IsFiniteSet(D), NEW f \in [A -> D],
         NEW g \in [B -> D], \A x, y \in A : f[x] = f[y] => x = y,
         \A x, y \in B : g[x] = g[y] => x = y,
         \A x \in A, y \in B : f[x] # g[y]
  PROVE  Cardinality(A) + Cardinality(B) <= Cardinality(D)
  <1> DEFINE E == {f[x] : x \in A}
             F == {g[x] : x \in B}
  <1>1. E \in SUBSET D /\ F \in SUBSET D /\ E \cap F = {}
    OBVIOUS
  <1>2. f \in [A -> E] /\ g \in [B -> F]
    OBVIOUS
  <1> HIDE DEF E, F
  <1>3. IsFiniteSet(E) /\ IsFiniteSet(F)
    BY <1>1, FS_Subset
  <1>4. /\ Cardinality(A) \in Nat /\ Cardinality(A) <= Cardinality(E)
        /\ Cardinality(B) \in Nat /\ Cardinality(B) <= Cardinality(F)
    BY <1>2, <1>3, CountOne
  <1>5. Cardinality(E \cup F) = Cardinality(E) + Cardinality(F)
    <2>1. Cardinality(E \cap F) = 0
      BY <1>1, FS_EmptySet
    <2>2. Cardinality(E) \in Nat /\ Cardinality(F) \in Nat
      BY <1>3, FS_CardinalityType
    <2>3. Cardinality(E \cup F)
            = Cardinality(E) + Cardinality(F) - Cardinality(E \cap F)
      BY <1>3, FS_Union
    <2> QED BY <2>1, <2>2, <2>3
  <1>6. E \cup F \in SUBSET D
    BY <1>1
  <1>7. Cardinality(E \cup F) <= Cardinality(D)
    BY <1>6, FS_Subset
  <1>8. /\ Cardinality(E) \in Nat /\ Cardinality(F) \in Nat
        /\ Cardinality(D) \in Nat
    BY <1>3, FS_CardinalityType
  <1> QED BY <1>4, <1>5, <1>7, <1>8

(* Without timeouts every message a live process has or has yet to read    *)
(* is in the map.                                                          *)
LEMMA NamedInMap ==
  ASSUME ~HasTimeout, NEW w \in Workers, Following(w), NEW i, NEW d,
         NamesIn(w, i, d)
  PROVE  i \in DOMAIN msgs[w]
  BY DEF Following, Known

Unread(w) == {i \in DOMAIN stdin[w] : stdin[w][i].k = "deliver"}

LEMMA UnreadFinite ==
  ASSUME TypeOK, NEW w \in Workers
  PROVE  Cardinality(Unread(w)) \in Nat
  <1>1. PICK n \in Nat : DOMAIN stdin[w] = 1 .. n
    BY PipeTypes
  <1>2. IsFiniteSet(1 .. n)
    BY FS_Interval
  <1>3. IsFiniteSet(Unread(w))
    BY <1>1, <1>2, FS_Subset DEF Unread
  <1> QED BY <1>3, FS_CardinalityType

LEMMA LiveWithinCap ==
  ASSUME ~HasTimeout, TypeOK, Fits, NEW w \in Workers, Following(w)
  PROVE  /\ Cardinality(hand[w]) + Cardinality(Unread(w)) <= Cap
         /\ Cardinality(Unread(w)) <= Cap
  <1> DEFINE H == hand[w]
             I == stdin[w]
             U == Unread(w)
             D == DOMAIN msgs[w]
             f == [m \in H |-> m.id]
             g == [j \in U |-> I[j].id]
  <1>1. StagedIn(w)
    BY DEF Following
  <1>2. \A j \in U : j \in DOMAIN I /\ I[j] \in QueuedIn(w) /\ I[j].k = "deliver"
    BY DEF Unread, QueuedIn, Queued, Notes
  <1>3. \A m \in H : m.id \in D
    <2> SUFFICES ASSUME NEW m \in H PROVE m.id \in D
      OBVIOUS
    <2>1. NamesIn(w, m.id, m.d)
      BY DEF NamesIn, Names
    <2> QED BY <2>1, NamedInMap
  <1>4. \A j \in U : I[j].id \in D
    <2> SUFFICES ASSUME NEW j \in U PROVE I[j].id \in D
      OBVIOUS
    <2>1. NamesIn(w, I[j].id, I[j].d)
      BY <1>2 DEF NamesIn, Names, QueuedIn
    <2> QED BY <2>1, NamedInMap
  <1>5. \A x, y \in H : x.id = y.id => x = y
    BY <1>1 DEF StagedIn, Staged
  <1>6. \A x, y \in U : I[x].id = I[y].id => x = y
    BY <1>1, <1>2 DEF StagedIn, Staged, Once
  <1>7. \A x \in H, y \in U : x.id # I[y].id
    BY <1>1, <1>2 DEF StagedIn, Staged, QueuedIn
  <1>8. IsFiniteSet(D) /\ Cardinality(D) <= Cap
    BY SlotsFinite DEF Fits, Outstanding
  <1> HIDE DEF H, I, U, D
  <1>9. /\ f \in [H -> D] /\ \A x, y \in H : f[x] = f[y] => x = y
        /\ g \in [U -> D] /\ \A x, y \in U : g[x] = g[y] => x = y
        /\ \A x \in H, y \in U : f[x] # g[y]
    BY <1>3, <1>4, <1>5, <1>6, <1>7
  <1> HIDE DEF f, g
  <1>10. Cardinality(H) + Cardinality(U) <= Cardinality(D)
    BY <1>8, <1>9, CountTwo
  <1>11. /\ Cardinality(H) \in Nat /\ Cardinality(U) \in Nat
         /\ Cardinality(D) \in Nat /\ Cap \in Nat
    <2>1. Cardinality(H) \in Nat /\ Cardinality(U) \in Nat
      BY <1>8, <1>9, CountOne
    <2> QED BY <1>8, <2>1, FS_CardinalityType, WorkerAssumption
  <1> QED BY <1>8, <1>10, <1>11 DEF H, U

(* The stdin of a worker without a live process stays as it is, until the  *)
(* next process gets an empty one.                                         *)
LEMMA StdinStill ==
  ASSUME Trace, [WorkerNext]_vars, NEW w \in Workers, ~live'[w]
  PROVE  stdin'[w] = stdin[w] \/ stdin'[w] = <<>>
  <1>0. TypeOK /\ NothingStranded /\ Managed /\ Idling(w)
    BY DEF Trace, Traced, Base, Custody
  <1>1. ASSUME NEW v \in Workers, HandlerStep(v), UNCHANGED engineVars
        PROVE  stdin'[w] = stdin[w]
    <2>1. stdin' = stdin \/ (alive[v] /\ stdin[v] # <<>> /\
                             stdin' = [stdin EXCEPT ![v] = Tail(@)])
      BY <1>1 DEF HandlerStep, HandlerWork, HandlerTake, HandlerHearAck,
         HandlerDone, HandlerExit, HandlerEmit, HandlerDoneTwice, HandlerBad,
         HandlerCrash, Dies
    <2>2. v = w /\ alive[w] => stdin[w] = <<>>
      BY <1>0, <1>1 DEF engineVars, procVars, Managed, NothingStranded, Idling
    <2> QED BY <1>0, <2>1, <2>2 DEF TypeOK, HandlerTypeOK
  <1>2. ASSUME NEW v \in Workers, WriterStep(v)
        PROVE  stdin'[w] = stdin[w]
    <2>1. sup[v] \in {"read", "wait"} /\ live' = live
      BY <1>2 DEF WriterStep, WriteNote, WriterCloses, WriterRuns, engineVars,
                  procVars
    <2>2. v # w
      BY <1>0, <2>1 DEF NothingStranded
    <2>3. QED BY <1>0, <1>2, <2>2, WriterPasses DEF Quiet
  <1>3. ASSUME NEW v \in Workers, SupervisorStep(v)
        PROVE  stdin'[w] = stdin[w] \/ stdin'[w] = <<>>
    <2>1. stdin' = stdin \/ stdin' = [stdin EXCEPT ![v] = <<>>]
      BY <1>3 DEF SupervisorStep, SpawnStart, SpawnReady, SpawnFail,
                  SpawnError, InitFails,
         BackoffEnds, OnPickup, OnDone, OnEmit, ReadEOF, ReadError, Reads,
         ReadLoopReturns, Reap, StaleSettled, handlerVars
    <2> QED BY <1>0, <2>1 DEF TypeOK, HandlerTypeOK
  <1>4. ASSUME NEW v \in Workers,
               \/ TimerStep(v) \/ BeginClose(v) \/ Kill(v)
               \/ \E d \in Deliveries : DispatchCall(v, d)
        PROVE  stdin' = stdin
    BY <1>4 DEF TimerStep, Timeout, BeginClose, Kill, Dies, DispatchCall,
                handlerVars
  <1>5. CASE CallerStep \/ SettleStep \/ CtxCancel \/ UNCHANGED vars
    <2>1. stdin' = stdin
      BY <1>5 DEF CallerStep, DispatchRefuse, DispatchRegister, DispatchWait,
         SendQueued, SendStopped, CtxWake, SettleStep, Settle, CtxCancel, vars,
         handlerVars
    <2> QED BY <2>1
  <1> QED BY <1>1, <1>2, <1>3, <1>4, <1>5 DEF WorkerNext, WorkerStep

(* What a process had not read when it died stays in stdin.                *)
Resting == \A w \in Workers : ~live[w] => Cardinality(Unread(w)) <= Cap

LEMMA RestingStep ==
  ASSUME ~HasTimeout, Trace, Fits, Resting, [WorkerNext]_vars
  PROVE  Resting'
  <1> SUFFICES ASSUME NEW w \in Workers, ~live'[w]
               PROVE  Cardinality(Unread(w)') <= Cap
    BY DEF Resting
  <1>0. TypeOK
    BY DEF Trace, Base, Custody
  <1>1. Cardinality(Unread(w)) <= Cap
    <2>1. CASE live[w]
      BY <1>0, <2>1, LiveWithinCap DEF Trace, Traced
    <2>2. CASE ~live[w]
      BY <2>2 DEF Resting
    <2> QED BY <2>1, <2>2
  <1>2. CASE stdin'[w] = <<>>
    <2>1. Unread(w)' = {}
      BY <1>2 DEF Unread
    <2>2. Cardinality({}) = 0
      BY FS_EmptySet
    <2> QED BY <2>1, <2>2, WorkerAssumption
  <1>3. CASE stdin'[w] = stdin[w]
    <2>1. Unread(w)' = Unread(w)
      BY <1>3 DEF Unread
    <2> QED BY <1>1, <2>1
  <1> QED BY <1>2, <1>3, StdinStill

LEMMA WithinCapHolds ==
  ASSUME ~HasTimeout, Trace, Fits, Resting
  PROVE  HandlerWithinCap
  <1> SUFFICES ASSUME NEW w \in Workers
               PROVE  Cardinality(hand[w]) + Cardinality(Unread(w)) <= Cap
    BY DEF HandlerWithinCap, Unread
  <1>0. TypeOK
    BY DEF Trace, Base, Custody
  <1>1. CASE live[w]
    BY <1>0, <1>1, LiveWithinCap DEF Trace, Traced
  <1>2. CASE ~live[w]
    <2>1. hand[w] = {}
      BY <1>2 DEF Trace, Base, Traced, Idling, Managed, NothingStranded
    <2>2. Cardinality(hand[w]) = 0
      BY <2>1, FS_EmptySet
    <2>3. Cardinality(Unread(w)) \in Nat
      BY <1>0, UnreadFinite
    <2>4. Cardinality(Unread(w)) <= Cap
      BY <1>2 DEF Resting
    <2> QED BY <2>2, <2>3, <2>4
  <1> QED BY <1>1, <1>2

(* Without timeouts the messages a handler has in hand or still to read    *)
(* are never more than cap (worker.go:429), though the map is changed long *)
(* before and after the handler acts: each of them has an id of its own    *)
(* and an entry in the map.                                                *)
THEOREM WithinCapKept ==
  ASSUME ~HasTimeout
  PROVE  WorkerSpec => []HandlerWithinCap
  <1>1. WorkerInit => Fits /\ Resting
    <2> SUFFICES ASSUME WorkerInit, NEW w \in Workers
                 PROVE  Cardinality(Unread(w)) <= Cap
      BY FitsInit DEF Resting
    <2>1. Unread(w) = {}
      BY DEF WorkerInit, HandlerInit, Unread
    <2>2. Cardinality({}) = 0
      BY FS_EmptySet
    <2> QED BY <2>1, <2>2, WorkerAssumption
  <1>2. Trace /\ Fits /\ Resting /\ [WorkerNext]_vars => Fits' /\ Resting'
    BY FitsStep, RestingStep DEF Trace, Base, Custody
  <1>3. Trace /\ Fits /\ Resting => HandlerWithinCap
    BY WithinCapHolds
  <1> QED BY <1>1, <1>2, <1>3, TraceCorrect, PTL DEF WorkerSpec

-----------------------------------------------------------------------------
(* The queue of cap + 1 notes has room                                     *)

(* An emit on its way to the engine and its answer on the way back.        *)
Acks(O, I) == {n \in Notes(O) \cup Notes(I) : n.k = "emit_ack"}
Emits(S) == {p \in Notes(S) : p.k = "emit"}
Tokens(O, I, S) == Acks(O, I) \cup Emits(S)

(* A message has at most one emit without an answer: while that emit or    *)
(* its answer is under way the message is in hand, waiting, or the process *)
(* is gone; it is neither queued nor done.                                 *)
Answering(O, I, H, S) ==
  /\ Once(S, "emit") /\ Once(O, "emit_ack") /\ Once(I, "emit_ack")
  /\ \A n \in Notes(O), m \in Notes(I) :
       n.k = "emit_ack" /\ m.k = "emit_ack" => n.id # m.id
  /\ \A n \in Acks(O, I), p \in Emits(S) : n.id # p.id
  /\ \A t \in Tokens(O, I, S) :
       /\ \A n \in Queued(O, I) : n.id # t.id
       /\ \A p \in Notes(S) : p.k = "done" => p.id # t.id
       /\ \A h \in H : h.id = t.id => h.wait

LEMMA WriteAnswers ==
  ASSUME NEW O \in Seq(OutNote), NEW I \in Seq(OutNote), NEW H, NEW S,
         O # <<>>, Answering(O, I, H, S),
         NEW I2, I2 = I \/ I2 = Append(I, Head(O))
  PROVE  /\ Answering(Tail(O), I2, H, S)
         /\ Acks(Tail(O), I2) \subseteq Acks(O, I)
  <1> DEFINE h == Head(O)
             O2 == Tail(O)
  <1>1. /\ Notes(O) = {h} \cup Notes(O2)
        /\ Once(O, "emit_ack") =>
             /\ Once(O2, "emit_ack")
             /\ h.k = "emit_ack" =>
                  \A m \in Notes(O2) : m.k = "emit_ack" => m.id # h.id
    BY QueueTail
  <1>2. h \in OutNote
    BY HeadTailProperties
  <1>3. \/ Notes(I2) = Notes(I) /\ (Once(I, "emit_ack") => Once(I2, "emit_ack"))
        \/ /\ Notes(I2) = Notes(I) \cup {h}
           /\ /\ Once(I, "emit_ack")
              /\ h.k = "emit_ack"
                   => \A m \in Notes(I) : m.k = "emit_ack" => m.id # h.id
              => Once(I2, "emit_ack")
    <2>1. CASE I2 = I
      BY <2>1
    <2>2. CASE I2 = Append(I, h)
      <3> DEFINE J == Append(I, h)
      <3>1. /\ Notes(J) = Notes(I) \cup {h}
            /\ \A k : /\ Once(I, k)
                      /\ h.k = k => \A m \in Notes(I) : m.k = k => m.id # h.id
                      => Once(J, k)
        BY <1>2, QueueAppend
      <3> HIDE DEF h, J
      <3> QED BY <2>2, <3>1 DEF J
    <2> QED BY <2>1, <2>2
  <1> HIDE DEF h, O2
  <1>4. Queued(O2, I2) \subseteq Queued(O, I) /\ Acks(O2, I2) \subseteq Acks(O, I)
    BY <1>1, <1>3 DEF Queued, Acks
  <1>5. Once(O2, "emit_ack") /\ Once(I2, "emit_ack") /\ Once(S, "emit")
    BY <1>1, <1>3 DEF Answering
  <1>6. \A n \in Notes(O2), m \in Notes(I2) :
          n.k = "emit_ack" /\ m.k = "emit_ack" => n.id # m.id
    BY <1>1, <1>3 DEF Answering
  <1>7. Answering(O2, I2, H, S)
    BY <1>4, <1>5, <1>6 DEF Answering, Tokens
  <1> QED BY <1>4, <1>7 DEF O2

LEMMA TakeAnswers ==
  ASSUME NEW O, NEW I \in Seq(OutNote), NEW H, NEW S \in Seq(InNote),
         I # <<>>, Head(I).k = "deliver", Answering(O, I, H, S),
         NEW m, m.id = Head(I).id,
         NEW p \in InNote, p.k = "pickup"
  PROVE  /\ Answering(O, Tail(I), H \cup {m}, Append(S, p))
         /\ Acks(O, Tail(I)) \subseteq Acks(O, I)
  <1> DEFINE n == Head(I)
             I2 == Tail(I)
             S2 == Append(S, p)
             H2 == H \cup {m}
  <1>1. /\ Notes(I) = {n} \cup Notes(I2)
        /\ Once(I, "emit_ack") => Once(I2, "emit_ack")
    BY QueueTail
  <1>2. /\ Notes(S2) = Notes(S) \cup {p}
        /\ Once(S, "emit") => Once(S2, "emit")
    BY QueueAppend
  <1>3. n.k = "deliver" /\ m.id = n.id
    OBVIOUS
  <1> HIDE DEF n, I2, S2
  <1>4. n \in Queued(O, I)
    BY <1>1, <1>3 DEF Queued
  <1>5. /\ Queued(O, I2) \subseteq Queued(O, I) /\ Acks(O, I2) \subseteq Acks(O, I)
        /\ Emits(S2) = Emits(S)
    BY <1>1, <1>2 DEF Queued, Acks, Emits
  <1>6. Tokens(O, I2, S2) \subseteq Tokens(O, I, S)
    BY <1>5 DEF Tokens
  <1>7. \A t \in Tokens(O, I2, S2), h \in H2 : h.id = t.id => h.wait
    BY <1>3, <1>4, <1>6 DEF Answering
  <1>8. \A t \in Tokens(O, I2, S2) :
          /\ \A l \in Queued(O, I2) : l.id # t.id
          /\ \A l \in Notes(S2) : l.k = "done" => l.id # t.id
    BY <1>2, <1>5, <1>6 DEF Answering
  <1>9. Once(S2, "emit") /\ Once(O, "emit_ack") /\ Once(I2, "emit_ack")
    BY <1>1, <1>2 DEF Answering
  <1>10. /\ \A l \in Notes(O), g \in Notes(I2) :
              l.k = "emit_ack" /\ g.k = "emit_ack" => l.id # g.id
         /\ \A l \in Acks(O, I2), g \in Emits(S2) : l.id # g.id
    BY <1>1, <1>5 DEF Answering
  <1> HIDE DEF H2
  <1>11. Answering(O, I2, H2, S2)
    BY <1>7, <1>8, <1>9, <1>10 DEF Answering
  <1> QED BY <1>5, <1>11 DEF I2, S2, H2

LEMMA HearAnswers ==
  ASSUME NEW O, NEW I \in Seq(OutNote), NEW H, NEW S,
         I # <<>>, Head(I).k = "emit_ack", Answering(O, I, H, S),
         NEW H2, \A h \in H2 : h.id = Head(I).id \/ h \in H
  PROVE  /\ Answering(O, Tail(I), H2, S)
         /\ Acks(O, Tail(I)) \subseteq Acks(O, I)
  <1> DEFINE n == Head(I)
             I2 == Tail(I)
  <1>1. /\ Notes(I) = {n} \cup Notes(I2)
        /\ Once(I, "emit_ack") =>
             /\ Once(I2, "emit_ack")
             /\ \A m \in Notes(I2) : m.k = "emit_ack" => m.id # n.id
    BY QueueTail
  <1>2. n.k = "emit_ack" /\ \A h \in H2 : h.id = n.id \/ h \in H
    OBVIOUS
  <1> HIDE DEF n, I2
  <1>3. /\ Queued(O, I2) \subseteq Queued(O, I) /\ Acks(O, I2) \subseteq Acks(O, I)
        /\ n \in Acks(O, I)
    BY <1>1, <1>2 DEF Queued, Acks
  <1>4. Tokens(O, I2, S) \subseteq Tokens(O, I, S)
    BY <1>3 DEF Tokens
  <1>5. \A t \in Tokens(O, I2, S) : t.id # n.id
    <2>1. \A t \in Acks(O, I2) : t.id # n.id
      BY <1>1, <1>2 DEF Answering, Acks
    <2> QED BY <1>3, <2>1 DEF Answering, Tokens
  <1>6. \A t \in Tokens(O, I2, S), h \in H2 : h.id = t.id => h.wait
    BY <1>2, <1>4, <1>5 DEF Answering
  <1>7. \A t \in Tokens(O, I2, S) :
          /\ \A l \in Queued(O, I2) : l.id # t.id
          /\ \A l \in Notes(S) : l.k = "done" => l.id # t.id
    BY <1>3, <1>4 DEF Answering
  <1>8. Once(S, "emit") /\ Once(O, "emit_ack") /\ Once(I2, "emit_ack")
    BY <1>1 DEF Answering
  <1>9. /\ \A l \in Notes(O), g \in Notes(I2) :
             l.k = "emit_ack" /\ g.k = "emit_ack" => l.id # g.id
        /\ \A l \in Acks(O, I2), g \in Emits(S) : l.id # g.id
    BY <1>1, <1>3 DEF Answering
  <1>10. Answering(O, I2, H2, S)
    BY <1>6, <1>7, <1>8, <1>9 DEF Answering
  <1> QED BY <1>3, <1>10 DEF I2

LEMMA SayAnswers ==
  ASSUME NEW O, NEW I, NEW H, NEW S \in Seq(InNote), Answering(O, I, H, S),
         NEW p \in InNote, NEW H2, \A h \in H2 : h \in H \/ h.wait,
         p.k # "bad" => \A t \in Tokens(O, I, S) : t.id # p.id,
         p.k = "emit" => /\ \A n \in Queued(O, I) : n.id # p.id
                         /\ \A l \in Notes(S) : l.k = "done" => l.id # p.id
                         /\ \A h \in H2 : h.id = p.id => h.wait
  PROVE  Answering(O, I, H2, Append(S, p))
  <1> DEFINE S2 == Append(S, p)
  <1>1. /\ Notes(S2) = Notes(S) \cup {p}
        /\ /\ Once(S, "emit")
           /\ p.k = "emit" => \A m \in Notes(S) : m.k = "emit" => m.id # p.id
           => Once(S2, "emit")
    BY QueueAppend
  <1> HIDE DEF S2
  <1>2. p.k = "emit" => \A m \in Notes(S) : m.k = "emit" => m.id # p.id
    BY DEF Tokens, Emits
  <1>3. Once(S2, "emit")
    BY <1>1, <1>2 DEF Answering
  <1>4. Emits(S2) = Emits(S) \cup {l \in {p} : l.k = "emit"}
    BY <1>1 DEF Emits
  <1>5. \A n \in Acks(O, I), l \in Emits(S2) : n.id # l.id
    BY <1>4 DEF Answering, Tokens
  <1>6. \A t \in Tokens(O, I, S2) :
          t \in Tokens(O, I, S) \/ (t = p /\ p.k = "emit")
    BY <1>4 DEF Tokens
  <1>7. \A t \in Tokens(O, I, S2) : \A n \in Queued(O, I) : n.id # t.id
    BY <1>6 DEF Answering
  <1>8. \A t \in Tokens(O, I, S2) :
          \A l \in Notes(S2) : l.k = "done" => l.id # t.id
    BY <1>1, <1>6 DEF Answering
  <1>9. \A t \in Tokens(O, I, S2) : \A h \in H2 : h.id = t.id => h.wait
    BY <1>6 DEF Answering
  <1>10. Answering(O, I, H2, S2)
    BY <1>3, <1>5, <1>7, <1>8, <1>9 DEF Answering
  <1> QED BY <1>10 DEF S2

LEMMA ReadAnswers ==
  ASSUME NEW O \in Seq(OutNote), NEW I, NEW H, NEW S \in Seq(InNote),
         S # <<>>, Answering(O, I, H, S), Staged(O, I, H, S), NEW O2,
         \/ O2 = O
         \/ /\ Head(S).k = "emit"
            /\ \E a \in OutNote : /\ a.k = "emit_ack" /\ a.id = Head(S).id
                                  /\ O2 = Append(O, a)
  PROVE  /\ Answering(O2, I, H, Tail(S))
         /\ \A n \in Acks(O2, I) : \E t \in Tokens(O, I, S) : t.id = n.id
         /\ Head(S).k = "done"
              => \A t \in Tokens(O2, I, Tail(S)) : t.id # Head(S).id
  <1> DEFINE p == Head(S)
             S2 == Tail(S)
  <1>1. /\ Notes(S) = {p} \cup Notes(S2)
        /\ Once(S, "emit") =>
             /\ Once(S2, "emit")
             /\ p.k = "emit" =>
                  \A m \in Notes(S2) : m.k = "emit" => m.id # p.id
    BY QueueTail
  <1>2. CASE O2 = O
    <2> HIDE DEF p, S2
    <2>1. Emits(S2) \subseteq Emits(S) /\ Tokens(O, I, S2) \subseteq Tokens(O, I, S)
      BY <1>1 DEF Emits, Tokens
    <2>2. Once(S2, "emit")
      BY <1>1 DEF Answering
    <2>3. Answering(O, I, H, S2)
      BY <1>1, <2>1, <2>2 DEF Answering
    <2>4. p.k = "done" => \A t \in Tokens(O, I, S2) : t.id # p.id
      BY <1>1, <2>1 DEF Answering
    <2>5. \A n \in Acks(O, I) : n \in Tokens(O, I, S)
      BY DEF Tokens
    <2> QED BY <1>2, <2>3, <2>4, <2>5 DEF p, S2
  <1>3. ASSUME p.k = "emit", NEW a \in OutNote, a.k = "emit_ack", a.id = p.id,
               O2 = Append(O, a)
        PROVE  /\ Answering(O2, I, H, S2)
               /\ \A n \in Acks(O2, I) : \E t \in Tokens(O, I, S) : t.id = n.id
    <2> DEFINE A == Append(O, a)
    <2>1. /\ Notes(A) = Notes(O) \cup {a}
          /\ \A k : /\ Once(O, k)
                    /\ a.k = k => \A m \in Notes(O) : m.k = k => m.id # a.id
                    => Once(A, k)
      BY QueueAppend
    <2> HIDE DEF A, p, S2
    <2>2. p \in Emits(S) /\ p \in Tokens(O, I, S) /\ Emits(S2) \subseteq Emits(S)
      BY <1>1, <1>3 DEF Emits, Tokens
    <2>3. /\ Acks(A, I) = Acks(O, I) \cup {a} /\ Queued(A, I) = Queued(O, I)
      BY <1>3, <2>1 DEF Acks, Queued
    <2>4. \A n \in Acks(O, I) : n.id # a.id
      BY <1>3, <2>2 DEF Answering
    <2>5. \A l \in Emits(S2) : l.id # a.id
      BY <1>1, <1>3, <2>2 DEF Answering, Emits
    <2>6. Once(A, "emit_ack") /\ Once(S2, "emit") /\ Once(I, "emit_ack")
      BY <1>1, <1>3, <2>1, <2>4 DEF Answering, Acks
    <2>7. \A n \in Notes(A), m \in Notes(I) :
            n.k = "emit_ack" /\ m.k = "emit_ack" => n.id # m.id
      BY <1>3, <2>1, <2>4 DEF Answering, Acks
    <2>8. \A n \in Acks(A, I), l \in Emits(S2) : n.id # l.id
      BY <2>2, <2>3, <2>5 DEF Answering
    <2>9. \A t \in Tokens(A, I, S2) : \E u \in Tokens(O, I, S) : u.id = t.id
      BY <1>3, <2>2, <2>3 DEF Tokens
    <2>10. Notes(S2) \subseteq Notes(S)
      BY <1>1
    <2>11. \A t \in Tokens(A, I, S2) :
             /\ \A n \in Queued(A, I) : n.id # t.id
             /\ \A l \in Notes(S2) : l.k = "done" => l.id # t.id
             /\ \A h \in H : h.id = t.id => h.wait
      BY <2>3, <2>9, <2>10 DEF Answering
    <2>12. Answering(A, I, H, S2)
      BY <2>6, <2>7, <2>8, <2>11 DEF Answering
    <2> QED BY <1>3, <2>9, <2>12 DEF A, Tokens
  <1> QED BY <1>2, <1>3

LEMMA SendAnswers ==
  ASSUME NEW O \in Seq(OutNote), NEW I, NEW H, NEW S, Answering(O, I, H, S),
         NEW n \in OutNote, n.k = "deliver",
         \A t \in Tokens(O, I, S) : t.id # n.id
  PROVE  /\ Answering(Append(O, n), I, H, S)
         /\ Acks(Append(O, n), I) = Acks(O, I)
  <1> DEFINE A == Append(O, n)
  <1>1. /\ Notes(A) = Notes(O) \cup {n}
        /\ \A k : /\ Once(O, k)
                  /\ n.k = k => \A m \in Notes(O) : m.k = k => m.id # n.id
                  => Once(A, k)
    BY QueueAppend
  <1> HIDE DEF A
  <1>2. Acks(A, I) = Acks(O, I) /\ Queued(A, I) = Queued(O, I) \cup {n}
    BY <1>1 DEF Acks, Queued
  <1>3. Tokens(A, I, S) = Tokens(O, I, S)
    BY <1>2 DEF Tokens
  <1>4. Once(A, "emit_ack")
    BY <1>1 DEF Answering
  <1>5. \A l \in Notes(A), m \in Notes(I) :
          l.k = "emit_ack" /\ m.k = "emit_ack" => l.id # m.id
    BY <1>1 DEF Answering
  <1>6. \A t \in Tokens(A, I, S) : \A l \in Queued(A, I) : l.id # t.id
    BY <1>2, <1>3 DEF Answering
  <1>7. Answering(A, I, H, S)
    BY <1>2, <1>3, <1>4, <1>5, <1>6 DEF Answering
  <1> QED BY <1>2, <1>7 DEF A

(* The answers under way at a worker, and what a step may do to them: one  *)
(* that is new answers an emit.                                            *)
AnswersIn(w) == Answering(out[w], stdin[w], hand[w], stdout[w])
TokensIn(w) == Tokens(out[w], stdin[w], stdout[w])
Replies(w) ==
  /\ Answering(out'[w], stdin'[w], hand'[w], stdout'[w])
  /\ \A n \in Acks(out'[w], stdin'[w]) : \E t \in TokensIn(w) : t.id = n.id

LEMMA QuietReplies ==
  ASSUME NEW w, Quiet(w), AnswersIn(w)
  PROVE  Replies(w)
  <1>1. \A n \in Acks(out[w], stdin[w]) : n \in TokensIn(w)
    BY DEF TokensIn, Tokens
  <1> QED BY <1>1 DEF Quiet, Replies, AnswersIn

LEMMA WriterReplies ==
  ASSUME TypeOK, NEW w \in Workers, WriterStep(w), AnswersIn(w)
  PROVE  Replies(w)
  <1>1. CASE WriterCloses(w)
    BY <1>1, QuietReplies DEF WriterCloses, Quiet, engineVars, procVars
  <1>2. CASE WriteNote(w)
    <2> DEFINE O == out[w]
               I == stdin[w]
               J == stdin'[w]
               T == Tail(out[w])
    <2>1. /\ O # <<>> /\ out' = [out EXCEPT ![w] = Tail(@)]
          /\ UNCHANGED <<hand, stdout>>
          /\ stdin' = stdin \/ stdin' = [stdin EXCEPT ![w] = Append(@, Head(out[w]))]
      BY <1>2 DEF WriteNote
    <2>2. /\ out'[w] = T /\ hand'[w] = hand[w] /\ stdout'[w] = stdout[w]
          /\ J = I \/ J = Append(I, Head(O))
      BY <2>1 DEF TypeOK, HandlerTypeOK
    <2>3. O \in Seq(OutNote) /\ I \in Seq(OutNote)
      BY PipeTypes
    <2> HIDE DEF O, I, J
    <2>4. Answering(O, I, hand[w], stdout[w])
      BY DEF AnswersIn, O, I
    <2>5. /\ Answering(Tail(O), J, hand[w], stdout[w])
          /\ Acks(Tail(O), J) \subseteq Acks(O, I)
      BY <2>1, <2>2, <2>3, <2>4, WriteAnswers
    <2>6. \A n \in Acks(O, I) : n \in TokensIn(w)
      BY DEF TokensIn, Tokens, O, I
    <2>7. T = Tail(O) /\ J = stdin'[w]
      BY DEF O, J
    <2> HIDE DEF T
    <2> QED BY <2>2, <2>5, <2>6, <2>7 DEF Replies
  <1> QED BY <1>1, <1>2 DEF WriterStep

LEMMA HandlerReplies ==
  ASSUME SyncEmits, TypeOK, NEW w \in Workers, StagedIn(w), AnswersIn(w),
         (HandlerStep(w) /\ UNCHANGED engineVars) \/ Kill(w)
  PROVE  Replies(w)
  <1> DEFINE O == out[w]
             I == stdin[w]
             H == hand[w]
             S == stdout[w]
  <1>1. O \in Seq(OutNote) /\ I \in Seq(OutNote) /\ H \in SUBSET Held
        /\ S \in Seq(InNote)
    BY PipeTypes
  <1>2. out' = out
    BY DEF engineVars, procVars, Kill
  <1>3. Staged(O, I, H, S) /\ Answering(O, I, H, S)
    BY DEF StagedIn, AnswersIn
  <1>4. ASSUME Answering(O, stdin'[w], hand'[w], stdout'[w]),
               Acks(O, stdin'[w]) \subseteq Acks(O, I)
        PROVE  Replies(w)
    <2>1. \A n \in Acks(O, I) : n \in TokensIn(w)
      BY DEF TokensIn, Tokens
    <2> QED BY <1>2, <1>4, <2>1 DEF Replies
  <1>5. CASE HandlerTake(w)
    <2> DEFINE n == Head(I)
               m == [id |-> n.id, d |-> n.d, wait |-> FALSE]
               p == [k |-> "pickup", id |-> n.id, d |-> n.d, ok |-> TRUE]
    <2>1. /\ I # <<>> /\ n.k = "deliver" /\ Says(w, <<p>>)
          /\ hand' = [hand EXCEPT ![w] = @ \cup {m}]
          /\ stdin' = [stdin EXCEPT ![w] = Tail(@)]
      BY <1>5 DEF HandlerTake
    <2>2. n \in OutNote
      BY <1>1, <2>1, HeadTailProperties
    <2>3. p \in InNote /\ p.k = "pickup" /\ m.id = n.id
      BY <2>2 DEF OutNote, InNote
    <2> HIDE DEF n, m, p
    <2>4. /\ stdin'[w] = Tail(I) /\ hand'[w] = H \cup {m}
          /\ stdout'[w] = S \o <<p>>
      BY <2>1, SaysPipes DEF TypeOK, HandlerTypeOK
    <2>5. stdout'[w] = Append(S, p)
      BY <1>1, <2>3, <2>4, SaysOne
    <2> HIDE DEF O, I, H, S
    <2>6. /\ Answering(O, Tail(I), H \cup {m}, Append(S, p))
          /\ Acks(O, Tail(I)) \subseteq Acks(O, I)
      BY <1>1, <1>3, <2>1, <2>3, TakeAnswers DEF n
    <2> QED BY <1>4, <2>4, <2>5, <2>6
  <1>6. CASE HandlerHearAck(w)
    <2> DEFINE n == Head(I)
               H2 == {m \in H : m.id # n.id}
                       \cup {[m EXCEPT !.wait = FALSE] : m \in {h \in H : h.id = n.id}}
    <2>1. /\ I # <<>> /\ n.k = "emit_ack"
          /\ stdin' = [stdin EXCEPT ![w] = Tail(@)]
          /\ hand' = [hand EXCEPT ![w] = H2] /\ stdout' = stdout
      BY <1>6 DEF HandlerHearAck
    <2>2. \A m \in H : [m EXCEPT !.wait = FALSE].id = m.id
      BY <1>1 DEF Held
    <2>3. \A m \in H2 : m.id = n.id \/ m \in H
      BY <2>2
    <2>4. stdin'[w] = Tail(I) /\ hand'[w] = H2 /\ stdout'[w] = S
      BY <2>1 DEF TypeOK, HandlerTypeOK
    <2> HIDE DEF O, I, H, S, H2
    <2>5. /\ Answering(O, Tail(I), H2, S)
          /\ Acks(O, Tail(I)) \subseteq Acks(O, I)
      BY <1>1, <1>3, <2>1, <2>3, HearAnswers
    <2> QED BY <1>4, <2>4, <2>5
  <1>7. ASSUME NEW m \in H, ~m.wait
        PROVE  \A t \in Tokens(O, I, S) : t.id # m.id
    BY <1>3, <1>7 DEF Answering
  <1>8. ASSUME NEW m \in H, NEW ok \in BOOLEAN, HandlerEmit(w, m, ok)
        PROVE  Replies(w)
    <2> DEFINE p == [k |-> "emit", id |-> m.id, d |-> m.d, ok |-> ok]
               g == [m EXCEPT !.wait = SyncEmits]
               H2 == (H \ {m}) \cup {g}
    <2>1. /\ Says(w, <<p>>) /\ hand' = [hand EXCEPT ![w] = H2] /\ stdin' = stdin
          /\ ~m.wait
      BY <1>8 DEF HandlerEmit
    <2>2. p \in InNote /\ p.k = "emit" /\ p.id = m.id /\ g.id = m.id /\ g.wait
      BY <1>1 DEF Held, InNote
    <2> HIDE DEF p, g
    <2>3. stdin'[w] = I /\ hand'[w] = H2 /\ stdout'[w] = S \o <<p>>
      BY <2>1, SaysPipes DEF TypeOK, HandlerTypeOK
    <2>4. stdout'[w] = Append(S, p)
      BY <1>1, <2>2, <2>3, SaysOne
    <2>5. \A t \in Tokens(O, I, S) : t.id # m.id
      BY <1>7, <2>1
    <2> HIDE DEF O, I, H, S
    <2>6. /\ \A h \in H2 : h \in H \/ h.wait
          /\ \A h \in H2 : h.id = m.id => h.wait
      BY <1>3, <2>2 DEF Staged
    <2>7. /\ \A n \in Queued(O, I) : n.id # m.id
          /\ \A l \in Notes(S) : l.k = "done" => l.id # m.id
      BY <1>3 DEF Staged, Spoken
    <2> HIDE DEF H2
    <2>8. Answering(O, I, H2, Append(S, p))
      BY <1>1, <1>3, <2>2, <2>5, <2>6, <2>7, SayAnswers
    <2> QED BY <1>4, <2>3, <2>4, <2>8
  <1>9. ASSUME NEW m \in H, NEW ok \in BOOLEAN, NEW twice \in BOOLEAN,
               IF twice THEN HandlerDoneTwice(w, m) ELSE HandlerDone(w, m, ok)
        PROVE  Replies(w)
    <2> DEFINE p(b) == [k |-> "done", id |-> m.id, d |-> m.d, ok |-> b]
               H2 == H \ {m}
    <2>1. /\ IF twice THEN Says(w, <<p(TRUE), p(FALSE)>>) ELSE Says(w, <<p(ok)>>)
          /\ hand' = [hand EXCEPT ![w] = H2] /\ stdin' = stdin /\ ~m.wait
      BY <1>9 DEF HandlerDone, HandlerDoneTwice
    <2>2. \A b \in BOOLEAN : p(b) \in InNote /\ p(b).k = "done" /\ p(b).id = m.id
      BY <1>1 DEF Held, InNote
    <2> HIDE DEF p
    <2>3. /\ stdin'[w] = I /\ hand'[w] = H2
          /\ stdout'[w] = IF twice THEN S \o <<p(TRUE), p(FALSE)>> ELSE S \o <<p(ok)>>
      BY <2>1, SaysPipes DEF TypeOK, HandlerTypeOK
    <2>4. stdout'[w] = IF twice THEN Append(Append(S, p(TRUE)), p(FALSE))
                                ELSE Append(S, p(ok))
      <3>1. p(TRUE) \in InNote /\ p(FALSE) \in InNote /\ p(ok) \in InNote
        BY <2>2
      <3>2. S \o <<p(ok)>> = Append(S, p(ok))
        BY <1>1, <3>1, SaysOne
      <3>3. \A a, b \in InNote : S \o <<a, b>> = Append(Append(S, a), b)
        BY <1>1, SaysTwo
      <3> QED BY <2>3, <3>1, <3>2, <3>3
    <2>5. \A t \in Tokens(O, I, S) : t.id # m.id
      BY <1>7, <2>1
    <2>6. \A h \in H2 : h \in H
      OBVIOUS
    <2> HIDE DEF O, I, H, S, H2
    <2>7. ASSUME NEW b \in BOOLEAN
          PROVE  Answering(O, I, H2, Append(S, p(b)))
      BY <1>1, <1>3, <2>2, <2>5, <2>6, SayAnswers
    <2>8. ASSUME NEW b \in BOOLEAN, NEW c \in BOOLEAN
          PROVE  Answering(O, I, H2, Append(Append(S, p(b)), p(c)))
      <3> DEFINE T == Append(S, p(b))
      <3>1. Answering(O, I, H2, T)
        BY <2>7
      <3>2. T \in Seq(InNote) /\ p(c) \in InNote /\ p(c).k = "done" /\ p(c).id = m.id
        BY <1>1, <2>2, AppendProperties
      <3>3. \A t \in Tokens(O, I, T) : t.id # m.id
        <4>1. Notes(T) = Notes(S) \cup {p(b)} /\ p(b).k = "done"
          BY <1>1, <2>2, QueueAppend
        <4> HIDE DEF T
        <4>2. Tokens(O, I, T) = Tokens(O, I, S)
          BY <4>1 DEF Tokens, Emits
        <4> QED BY <2>5, <4>2
      <3> HIDE DEF T
      <3>4. Answering(O, I, H2, Append(T, p(c)))
        BY <3>1, <3>2, <3>3, SayAnswers
      <3> QED BY <3>4 DEF T
    <2> QED BY <1>4, <2>3, <2>4, <2>7, <2>8
  <1>10. CASE HandlerBad(w)
    <2>1. /\ Says(w, <<BadNote>>) /\ UNCHANGED <<hand, stdin>>
      BY <1>10 DEF HandlerBad
    <2>2. BadNote \in InNote /\ BadNote.k = "bad"
      BY DEF InNote, BadNote
    <2>3. stdin'[w] = I /\ hand'[w] = H /\ stdout'[w] = S \o <<BadNote>>
      BY <2>1, SaysPipes
    <2>4. stdout'[w] = Append(S, BadNote)
      BY <1>1, <2>2, <2>3, SaysOne
    <2> HIDE DEF O, I, H, S
    <2>5. Answering(O, I, H, Append(S, BadNote))
      BY <1>1, <1>3, <2>2, SayAnswers
    <2> QED BY <1>4, <2>3, <2>4, <2>5
  <1>11. CASE Dies(w)
    <2>1. stdin'[w] = I /\ hand'[w] = {} /\ stdout'[w] = S
      BY <1>11 DEF Dies, TypeOK, HandlerTypeOK
    <2>2. Answering(O, I, {}, S)
      BY <1>3 DEF Answering
    <2> QED BY <1>4, <2>1, <2>2
  <1>12. CASE UNCHANGED handlerVars
    BY <1>2, <1>12, QuietReplies DEF handlerVars, Quiet
  <1> QED
    <2>1. CASE Kill(w)
      BY <1>11, <1>12, <2>1 DEF Kill
    <2>2. CASE HandlerStep(w)
      <3>1. CASE HandlerWork(w)
        BY <1>5, <1>6, <1>9, <1>11, <3>1 DEF HandlerWork, HandlerExit
      <3>2. CASE \E m \in hand[w], declared \in BOOLEAN : HandlerEmit(w, m, declared)
        BY <1>8, <3>2
      <3>3. CASE \E m \in hand[w] : HandlerDoneTwice(w, m)
        BY <1>9, <3>3
      <3>4. CASE HandlerBad(w) \/ HandlerCrash(w)
        BY <1>10, <1>11, <3>4 DEF HandlerCrash
      <3> QED BY <2>2, <3>1, <3>2, <3>3, <3>4 DEF HandlerStep
    <2> QED BY <2>1, <2>2

LEMMA ReaderReplies ==
  ASSUME TypeOK, NEW w \in Workers, StagedIn(w), AnswersIn(w),
         OnPickup(w) \/ OnDone(w) \/ OnEmit(w) \/ ReadError(w)
  PROVE  /\ Replies(w)
         /\ OnDone(w) => \A t \in TokensIn(w)' : t.id # Head(stdout[w]).id
  <1> DEFINE O == out[w]
             I == stdin[w]
             H == hand[w]
             S == stdout[w]
             p == Head(S)
             a == [k |-> "emit_ack", id |-> p.id, d |-> p.d]
             O2 == out'[w]
  <1>1. O \in Seq(OutNote) /\ S \in Seq(InNote)
    BY PipeTypes
  <1>2. PICK kind \in {"pickup", "done", "emit", "bad"} :
          Reads(w, kind) /\ (OnEmit(w) => kind = "emit") /\ (OnDone(w) => kind = "done")
    <2>1. CASE OnPickup(w) BY <2>1 DEF OnPickup, OnDone, OnEmit, Reads
    <2>2. CASE OnDone(w) BY <2>2 DEF OnEmit, OnDone, Reads
    <2>3. CASE OnEmit(w) BY <2>3 DEF OnEmit, OnDone, Reads
    <2>4. CASE ReadError(w) BY <2>4 DEF ReadError, OnDone, OnEmit, Reads
    <2> QED BY <2>1, <2>2, <2>3, <2>4
  <1>3. /\ S # <<>> /\ p.k = kind
        /\ stdout' = [stdout EXCEPT ![w] = Tail(@)]
        /\ UNCHANGED <<hand, stdin>>
    BY <1>2 DEF Reads
  <1>4. stdout'[w] = Tail(S)
    BY <1>3 DEF TypeOK, HandlerTypeOK
  <1>5. \/ out' = out
        \/ kind = "emit" /\ out' = [out EXCEPT ![w] = Append(@, a)]
    BY <1>2 DEF OnPickup, OnDone, OnEmit, AckEmit, ReadError, ReadLoopReturns,
                procVars
  <1>6. kind = "emit" => a \in OutNote
    <2>1. p \in InNote
      BY <1>1, <1>3, HeadTailProperties
    <2> QED BY <1>3, <2>1 DEF InNote, BadNote, OutNote
  <1>7. a.k = "emit_ack" /\ a.id = p.id
    OBVIOUS
  <1> HIDE DEF a, p
  <1>8. O2 = O \/ (kind = "emit" /\ O2 = Append(O, a))
    BY <1>5 DEF TypeOK
  <1>9. \/ O2 = O
        \/ /\ p.k = "emit"
           /\ \E b \in OutNote : /\ b.k = "emit_ack" /\ b.id = p.id
                                 /\ O2 = Append(O, b)
    BY <1>3, <1>6, <1>7, <1>8
  <1>10. Staged(O, I, H, S) /\ Answering(O, I, H, S)
    BY DEF StagedIn, AnswersIn
  <1> HIDE DEF O, I, H, S, O2
  <1>11. /\ Answering(O2, I, H, Tail(S))
         /\ \A n \in Acks(O2, I) : \E t \in Tokens(O, I, S) : t.id = n.id
         /\ p.k = "done" => \A t \in Tokens(O2, I, Tail(S)) : t.id # p.id
    BY <1>1, <1>3, <1>9, <1>10, ReadAnswers DEF p
  <1>12. OnDone(w) => p.k = "done"
    BY <1>2, <1>3
  <1>13. O2 = out'[w] /\ I = stdin'[w] /\ H = hand'[w] /\ Tail(S) = stdout'[w]
    BY <1>3, <1>4 DEF O, I, H, S, O2
  <1>14. Tokens(O, I, S) = TokensIn(w) /\ Tokens(O2, I, Tail(S)) = TokensIn(w)'
    BY <1>13 DEF TokensIn, O, I, S
  <1> QED BY <1>11, <1>12, <1>13, <1>14 DEF Replies, S, p

(* What a step does to the answers of a worker live before and after it.   *)
LEMMA ReplyStep ==
  ASSUME SyncEmits, TypeOK, NothingStranded, [WorkerNext]_vars,
         NEW v \in Workers, live[v], live'[v], StagedIn(v), AnswersIn(v),
         Sending(v) => \A t \in TokensIn(v) : t.id # caller.id
  PROVE  /\ Replies(v)
         /\ OnDone(v) => \A t \in TokensIn(v)' : t.id # Head(stdout[v]).id
  <1>0. OnDone(v) => \A t \in TokensIn(v)' : t.id # Head(stdout[v]).id
    BY ReaderReplies
  <1> SUFFICES Replies(v)
    BY <1>0
  <1>1. ASSUME NEW w \in Workers, SupervisorStep(w) PROVE Replies(v)
    <2>1. CASE OnPickup(w) \/ OnDone(w) \/ OnEmit(w) \/ ReadError(w)
      BY <2>1, ReaderPasses, ReaderReplies, QuietReplies
    <2>2. CASE SpawnStart(w) \/ SpawnReady(w)
      <3>1. v # w
        BY <2>2 DEF SpawnStart, SpawnReady, NothingStranded
      <3>2. Quiet(v)
        BY <2>2, <3>1 DEF SpawnStart, SpawnReady, Quiet, TypeOK, HandlerTypeOK,
                          handlerVars
      <3> QED BY <3>2, QuietReplies
    <2>3. CASE \/ SpawnFail(w) \/ BackoffEnds(w) \/ ReadEOF(w) \/ Reap(w)
               \/ StaleSettled(w)
      BY <2>3, QuietReplies DEF SpawnFail, SpawnError, InitFails, BackoffEnds,
                                ReadEOF,
         ReadLoopReturns, Reap, StaleSettled, handlerVars, procVars, Quiet
    <2> QED BY <1>1, <2>1, <2>2, <2>3 DEF SupervisorStep
  <1>2. ASSUME NEW w \in Workers,
               \/ WriterStep(w)
               \/ HandlerStep(w) /\ UNCHANGED engineVars
               \/ Kill(w)
        PROVE  Replies(v)
    <2>1. CASE WriterStep(w)
      BY <2>1, WriterPasses, WriterReplies, QuietReplies
    <2>2. CASE (HandlerStep(w) /\ UNCHANGED engineVars) \/ Kill(w)
      BY <2>2, HandlerPasses, HandlerReplies, QuietReplies
    <2> QED BY <1>2, <2>1, <2>2
  <1>3. CASE SendQueued
    <2> DEFINE n == [k |-> "deliver", id |-> caller.id, d |-> caller.d]
    <2>1. \/ out' = out
          \/ /\ caller.p = gen[caller.w]
             /\ out' = [out EXCEPT ![caller.w] = Append(@, n)]
      BY <1>3 DEF SendQueued
    <2>2. UNCHANGED <<stdin, hand, stdout>>
      BY <1>3 DEF SendQueued, handlerVars
    <2>3. CASE ~Sending(v)
      <3>1. out'[v] = out[v]
        BY <1>3, <2>1, <2>3 DEF Sending, TypeOK
      <3> QED BY <2>2, <3>1, QuietReplies DEF Quiet
    <2>4. CASE Sending(v) /\ out' # out
      <3>1. caller.w = v /\ \A t \in TokensIn(v) : t.id # caller.id
        BY <2>4 DEF Sending
      <3>2. n \in OutNote /\ n.k = "deliver" /\ n.id = caller.id
        <4>1. caller.id \in Nat /\ caller.d \in Deliveries
          BY <1>3, CallerBusy DEF SendQueued, TypeOK
        <4> QED BY <4>1 DEF OutNote
      <3>3. out[v] \in Seq(OutNote) /\ out'[v] = Append(out[v], n)
        <4> HIDE DEF n
        <4> QED BY <2>1, <2>4, <3>1, PipeTypes DEF TypeOK
      <3> HIDE DEF n
      <3>4. /\ Answering(Append(out[v], n), stdin[v], hand[v], stdout[v])
            /\ Acks(Append(out[v], n), stdin[v]) = Acks(out[v], stdin[v])
        <4>1. Answering(out[v], stdin[v], hand[v], stdout[v])
          BY DEF AnswersIn
        <4>2. \A t \in Tokens(out[v], stdin[v], stdout[v]) : t.id # n.id
          BY <3>1, <3>2 DEF TokensIn
        <4> QED BY <3>2, <3>3, <4>1, <4>2, SendAnswers
      <3> QED BY <2>2, <3>3, <3>4 DEF Replies, TokensIn, Tokens
    <2>5. CASE out' = out
      BY <2>2, <2>5, QuietReplies DEF Quiet
    <2> QED BY <2>3, <2>4, <2>5
  <1>4. CASE \/ DispatchRefuse \/ DispatchRegister \/ DispatchWait
             \/ SendStopped \/ \E w \in Workers : CtxWake(w)
    BY <1>4, QuietReplies DEF DispatchRefuse, DispatchRegister, DispatchWait,
       SendStopped, CtxWake, handlerVars, procVars, Quiet
  <1>5. CASE \/ SettleStep \/ CtxCancel \/ UNCHANGED vars
             \/ \E w \in Workers : \/ TimerStep(w) \/ BeginClose(w)
                                   \/ \E d \in Deliveries : DispatchCall(w, d)
    BY <1>5, QuietReplies DEF SettleStep, Settle, CtxCancel, TimerStep,
                              Timeout,
       BeginClose, DispatchCall, vars, engineVars, handlerVars, procVars, Quiet
  <1> QED BY <1>1, <1>2, <1>3, <1>4, <1>5
          DEF WorkerNext, WorkerStep, CallerStep

(* A live worker has a slot for every answer it has queued.                *)
Answered ==
  \A w \in Workers :
    live[w] => /\ AnswersIn(w)
               /\ \A n \in Acks(out[w], stdin[w]) : n.id \in DOMAIN msgs[w]

(* The emits and answers under way are of messages the map has.            *)
LEMMA TokenInMap ==
  ASSUME ~HasTimeout, Answered, NEW w \in Workers, live[w], Following(w),
         NEW t \in TokensIn(w)
  PROVE  t.id \in DOMAIN msgs[w] /\ MentionsIn(w, t.id)
  <1>1. CASE t \in Acks(out[w], stdin[w])
    BY <1>1 DEF Answered, MentionsIn, Mentions, Acks
  <1>2. CASE t \in Emits(stdout[w])
    <2>1. t \in Spoken(stdout[w]) /\ t.k # "done"
      BY <1>2 DEF Emits, Spoken
    <2>2. NamesIn(w, t.id, t.d) /\ MentionsIn(w, t.id)
      BY <2>1 DEF NamesIn, Names, MentionsIn, Mentions
    <2> QED BY <2>2, NamedInMap
  <1> QED BY <1>1, <1>2 DEF TokensIn, Tokens

LEMMA AnsweredStep ==
  ASSUME SyncEmits, ~HasTimeout, Trace, Answered, [WorkerNext]_vars
  PROVE  Answered'
  <1> SUFFICES ASSUME NEW w \in Workers, live'[w]
               PROVE  /\ AnswersIn(w)'
                      /\ \A n \in Acks(out[w], stdin[w])' : n.id \in DOMAIN msgs'[w]
    BY DEF Answered
  <1>0. TypeOK /\ NothingStranded
    BY DEF Trace, Base, Custody
  <1>1. CASE live[w]
    <2>1. Following(w) /\ AnswersIn(w)
      BY <1>1 DEF Trace, Traced, Answered
    <2>2. ASSUME caller.pc = "send", caller.w = w
          PROVE  \A t \in TokensIn(w) : t.id # caller.id
      BY <1>1, <2>1, <2>2, TokenInMap DEF Trace, Unsent
    <2>3. Sending(w) => \A t \in TokensIn(w) : t.id # caller.id
      BY <2>2 DEF Sending, SendQueued
    <2>4. /\ Replies(w)
          /\ OnDone(w) => \A t \in TokensIn(w)' : t.id # Head(stdout[w]).id
      BY <1>0, <1>1, <2>1, <2>3, ReplyStep DEF Following
    <2>5. ASSUME NEW n \in Acks(out'[w], stdin'[w]) PROVE n.id \in DOMAIN msgs'[w]
      <3>1. PICK t \in TokensIn(w) : t.id = n.id
        BY <2>4 DEF Replies
      <3>2. n.id \in DOMAIN msgs[w]
        BY <1>1, <2>1, <3>1, TokenInMap
      <3>3. ~Ending(w, n.id)
        <4>1. n \in TokensIn(w)'
          BY <2>5 DEF TokensIn, Tokens
        <4> QED BY <2>4, <4>1 DEF Ending
      <3>4. ~Reclaiming(w, n.id)
        BY <2>2, <3>1 DEF Reclaiming, SendStopped
      <3>5. ~Registering(w, n.id)
        <4>1. DOMAIN msgs[w] \subseteq 1 .. (nextID[w] - 1) /\ nextID[w] \in Nat
          BY <1>0 DEF TypeOK, SlotsOK
        <4> QED BY <3>2, <4>1 DEF Registering
      <3>6. KeepsEntry(w, n.id)
        BY <1>0, <3>3, <3>4, <3>5, EntryStep
      <3> QED BY <3>2, <3>6 DEF KeepsEntry
    <2> QED BY <2>4, <2>5 DEF Replies, AnswersIn
  <1>2. CASE ~live[w]
    <2>1. SpawnReady(w)
      BY <1>0, <1>2, LiveStep
    <2>2. /\ sup[w] = "init" /\ out' = [out EXCEPT ![w] = <<>>]
          /\ UNCHANGED <<stdin, hand, stdout>>
      BY <2>1 DEF SpawnReady, handlerVars
    <2>3. /\ out'[w] = <<>> /\ stdin'[w] = <<>> /\ hand'[w] = {}
          /\ Spoken(stdout'[w]) = {}
      BY <1>0, <2>2 DEF Trace, Traced, Idling, TypeOK
    <2>4. \A l \in DOMAIN stdout'[w] : stdout'[w][l].k = "bad"
      BY <2>3 DEF Spoken, Notes
    <2>5. Emits(stdout'[w]) = {} /\ Once(stdout'[w], "emit")
      BY <2>4 DEF Emits, Notes, Once
    <2>6. (\A k : Once(<<>>, k)) /\ Notes(<<>>) = {}
      BY QueueEmpty
    <2>7. Acks(<<>>, <<>>) = {}
      BY <2>6 DEF Acks
    <2>8. Answering(<<>>, <<>>, {}, stdout'[w])
      BY <2>5, <2>6, <2>7 DEF Answering, Tokens
    <2> QED BY <2>3, <2>7, <2>8 DEF AnswersIn
  <1> QED BY <1>1, <1>2

(* The notes in the queue of a live worker have an id of their own each,   *)
(* and an entry in the map: the deliver notes because they are known, the  *)
(* answers because their messages are not done.                            *)
LEMMA RoomInQueue ==
  ASSUME ~HasTimeout, TypeOK, Fits, Answered,
         NEW w \in Workers, live[w], Following(w)
  PROVE  Len(out[w]) \in Nat /\ Len(out[w]) <= Cap
  <1> DEFINE O == out[w]
             A == 1 .. Len(O)
             D == DOMAIN msgs[w]
             f == [j \in A |-> O[j].id]
  <1>1. O \in Seq(OutNote)
    BY PipeTypes
  <1>2. Len(O) \in Nat /\ DOMAIN O = A
    BY <1>1
  <1>3. \A j \in A : /\ O[j] \in Notes(O)
                     /\ O[j].k \in {"deliver", "emit_ack"}
    <2>1. \A j \in A : O[j] \in OutNote
      <3> HIDE DEF O
      <3> QED BY <1>1, <1>2
    <2> QED BY <1>2, <2>1 DEF Notes, OutNote
  <1>4. \A j \in A : O[j].id \in D
    <2> SUFFICES ASSUME NEW j \in A PROVE O[j].id \in D
      OBVIOUS
    <2>1. CASE O[j].k = "deliver"
      <3>1. O[j] \in Queued(O, stdin[w])
        BY <1>3, <2>1 DEF Queued
      <3>2. NamesIn(w, O[j].id, O[j].d)
        BY <3>1 DEF NamesIn, Names
      <3> QED BY <3>2, NamedInMap
    <2>2. CASE O[j].k = "emit_ack"
      <3>1. O[j] \in Acks(O, stdin[w])
        BY <1>3, <2>2 DEF Acks
      <3> QED BY <3>1 DEF Answered
    <2> QED BY <1>3, <2>1, <2>2
  <1>5. StagedIn(w) /\ AnswersIn(w)
    BY DEF Following, Answered
  <1>6. \A n, m \in Notes(O) : n.k = "deliver" /\ m.k = "emit_ack" => n.id # m.id
    <2> SUFFICES ASSUME NEW n \in Notes(O), NEW m \in Notes(O),
                        n.k = "deliver", m.k = "emit_ack"
                 PROVE  n.id # m.id
      OBVIOUS
    <2>1. n \in Queued(O, stdin[w]) /\ m \in Tokens(O, stdin[w], stdout[w])
      BY DEF Queued, Tokens, Acks
    <2> QED BY <1>5, <2>1 DEF AnswersIn, Answering
  <1>7. Once(O, "deliver") /\ Once(O, "emit_ack")
    BY <1>5 DEF StagedIn, Staged, AnswersIn, Answering
  <1>8. IsFiniteSet(D) /\ Cardinality(D) \in Nat /\ Cardinality(D) <= Cap
    BY SlotsFinite DEF Fits, Outstanding
  <1>9. Cardinality(A) = Len(O)
    <2> HIDE DEF O
    <2>1. Cardinality(1 .. Len(O)) = IF 1 > Len(O) THEN 0 ELSE Len(O) - 1 + 1
      BY <1>2, FS_Interval
    <2> QED BY <1>2, <2>1
  <1> HIDE DEF O, A, D
  <1>10. \A x, y \in A : O[x].id = O[y].id => x = y
    BY <1>2, <1>3, <1>6, <1>7 DEF Once
  <1>11. f \in [A -> D] /\ \A x, y \in A : f[x] = f[y] => x = y
    BY <1>4, <1>10
  <1> HIDE DEF f
  <1>12. Cardinality(A) <= Cardinality(D)
    BY <1>8, <1>11, CountOne
  <1> QED BY <1>2, <1>8, <1>9, <1>12, WorkerAssumption DEF O

(* A queue whose process is gone is one that was told to stop, unless      *)
(* there has been no process yet.                                          *)
Stopping ==
  \A w \in Workers :
    /\ sup[w] = "wait" => stop[w]
    /\ ~live[w] /\ ~stop[w] => gen[w] = 0

LEMMA StoppingStep ==
  ASSUME TypeOK, NothingStranded, Stopping, [WorkerNext]_vars
  PROVE  Stopping'
  <1> USE DEF Stopping
  <1>1. ASSUME NEW v \in Workers, SupervisorStep(v) PROVE Stopping'
    <2>1. CASE SpawnReady(v)
      BY <2>1 DEF SpawnReady, TypeOK
    <2>2. CASE SpawnStart(v) \/ SpawnFail(v) \/ BackoffEnds(v) \/ StaleSettled(v)
      BY <2>2, SpawnFailMoves DEF SpawnStart, SpawnFail, SpawnError, InitFails,
                  procVars, BackoffEnds, StaleSettled, TypeOK
    <2>3. CASE OnPickup(v) \/ OnDone(v) \/ OnEmit(v)
      BY <2>3 DEF OnPickup, OnDone, OnEmit, procVars
    <2>4. CASE ReadEOF(v) \/ ReadError(v)
      BY <2>4 DEF ReadEOF, ReadError, ReadLoopReturns, TypeOK
    <2>5. CASE Reap(v)
      BY <2>5 DEF Reap, TypeOK
    <2> QED BY <1>1, <2>1, <2>2, <2>3, <2>4, <2>5 DEF SupervisorStep
  <1>2. ASSUME NEW v \in Workers, BeginClose(v) PROVE Stopping'
    BY <1>2 DEF BeginClose, TypeOK
  <1>3. CASE \/ CallerStep \/ SettleStep \/ CtxCancel \/ UNCHANGED vars
             \/ \E v \in Workers :
                  \/ WriterStep(v) \/ Kill(v) \/ TimerStep(v)
                  \/ HandlerStep(v) /\ UNCHANGED engineVars
                  \/ \E d \in Deliveries : DispatchCall(v, d)
    <2>1. UNCHANGED <<sup, live, stop, gen>>
      BY <1>3 DEF CallerStep, DispatchRefuse, DispatchRegister, DispatchWait,
         SendQueued, SendStopped, SettleStep, Settle, CtxCancel, CtxWake,
         WriterStep, WriteNote, WriterCloses, Kill, TimerStep, Timeout,
         DispatchCall, vars, engineVars, procVars
    <2> QED BY <2>1
  <1> QED BY <1>1, <1>2, <1>3 DEF WorkerNext, WorkerStep

(* What the room in the queue rests on.                                    *)
Roomy == Trace /\ Fits /\ Answered /\ Stopping

LEMMA RoomyCorrect ==
  ASSUME SyncEmits, ~HasTimeout
  PROVE  WorkerSpec => []Roomy
  <1>1. WorkerInit => Fits /\ Answered /\ Stopping
    BY FitsInit DEF WorkerInit, Answered, Stopping
  <1>2. Trace /\ Fits /\ Answered /\ Stopping /\ [WorkerNext]_vars
          => Fits' /\ Answered' /\ Stopping'
    BY FitsStep, AnsweredStep, StoppingStep DEF Trace, Base, Custody
  <1> QED BY <1>1, <1>2, TraceCorrect, PTL DEF WorkerSpec, Roomy

LEMMA RoomyQueue ==
  ASSUME ~HasTimeout, Roomy, NEW w \in Workers, live[w]
  PROVE  Len(out[w]) < OutCap
  <1>1. Len(out[w]) \in Nat /\ Len(out[w]) <= Cap
    BY RoomInQueue DEF Roomy, Trace, Traced, Base, Custody
  <1> QED BY <1>1, WorkerAssumption DEF OutCap

LEMMA AnswerStep ==
  ASSUME ~HasTimeout, Roomy, NoAckLost, [WorkerNext]_vars
  PROVE  NoAckLost'
  <1> SUFFICES unanswered' = unanswered
    BY DEF NoAckLost
  <1>1. ASSUME NEW w \in Workers, OnEmit(w) PROVE unanswered' = unanswered
    <2>1. live[w]
      BY <1>1 DEF OnEmit, Reads, Roomy, Trace, Base, NothingStranded
    <2>2. Len(out[w]) < OutCap
      BY <2>1, RoomyQueue
    <2> QED BY <1>1, <2>2 DEF OnEmit, AckEmit
  <1>2. ASSUME NEW w \in Workers, SupervisorStep(w), ~OnEmit(w)
        PROVE  unanswered' = unanswered
    BY <1>2 DEF SupervisorStep, SpawnStart, SpawnReady, SpawnFail, SpawnError,
                InitFails,
       BackoffEnds, OnPickup, OnDone, ReadEOF, ReadError, ReadLoopReturns,
       Reap,
       StaleSettled, emitVars
  <1>3. CASE CallerStep \/ SettleStep \/ CtxCancel \/ UNCHANGED vars
    <2>1. CASE DispatchRegister
      BY <2>1 DEF DispatchRegister, emitVars
    <2>2. CASE SendQueued \/ SendStopped
      BY <2>2 DEF SendQueued, SendStopped, emitVars
    <2>3. CASE DispatchRefuse \/ DispatchWait \/ \E w \in Workers : CtxWake(w)
      BY <2>3 DEF DispatchRefuse, DispatchWait, CtxWake, emitVars
    <2>4. CASE SettleStep \/ CtxCancel \/ UNCHANGED vars
      BY <2>4 DEF SettleStep, Settle, CtxCancel, vars, engineVars, emitVars
    <2> QED BY <1>3, <2>1, <2>2, <2>3, <2>4 DEF CallerStep
  <1>4. ASSUME NEW w \in Workers,
               \/ WriterStep(w) \/ Kill(w) \/ TimerStep(w) \/ BeginClose(w)
               \/ HandlerStep(w) /\ UNCHANGED engineVars
               \/ \E d \in Deliveries : DispatchCall(w, d)
        PROVE  unanswered' = unanswered
    BY <1>4 DEF WriterStep, WriteNote, WriterCloses, Kill, TimerStep, Timeout,
       BeginClose, DispatchCall, engineVars, emitVars
  <1> QED BY <1>1, <1>2, <1>3, <1>4 DEF WorkerNext, WorkerStep

(* The queue of cap + 1 notes (worker.go:271) has room for the emit_ack of *)
(* every handler that waits for each one: without timeouts ackEmit never   *)
(* takes its lossy default branch.                                         *)
THEOREM NoAckLostAlways ==
  ASSUME SyncEmits, ~HasTimeout
  PROVE  WorkerSpec => []NoAckLost
  <1>1. WorkerInit => NoAckLost
    BY DEF WorkerInit, NoAckLost
  <1>2. Roomy /\ NoAckLost /\ [WorkerNext]_vars => NoAckLost'
    BY AnswerStep
  <1> QED BY <1>1, <1>2, RoomyCorrect, PTL DEF WorkerSpec

(* The p.send of a Dispatch that has a slot does not block (pool.go:46):   *)
(* without timeouts the queue of a process not told to stop has room for   *)
(* its deliver note, when handlers wait for each emit_ack.                 *)
THEOREM SendHasRoomAlways ==
  ASSUME SyncEmits, ~HasTimeout
  PROVE  WorkerSpec => []SendHasRoom
  <1>1. Roomy => SendHasRoom
    <2> SUFFICES ASSUME Roomy, caller.pc = "send", caller.p = gen[caller.w],
                        ~stop[caller.w]
                 PROVE  Len(out[caller.w]) < OutCap
      BY DEF SendHasRoom
    <2>1. PICK w \in Workers : caller.w = w
      BY CallerBusy DEF Roomy, Trace, Base, Custody, TypeOK
    <2>2. CASE live[w]
      BY <2>1, <2>2, RoomyQueue
    <2>3. CASE ~live[w]
      <3>1. gen[w] = 0 /\ caller.p \in 1 .. gen[w] /\ caller.p = gen[w]
        BY <2>1, <2>3 DEF Roomy, Stopping, Trace, Unsent
      <3> QED BY <3>1
    <2> QED BY <2>2, <2>3
  <1> QED BY <1>1, RoomyCorrect, PTL
=============================================================================

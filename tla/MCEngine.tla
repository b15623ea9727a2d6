------------------------------- MODULE MCEngine -------------------------------
(***************************************************************************)
(* Small instances of Engine for TLC.                                      *)
(***************************************************************************)
EXTENDS Engine

CONSTANTS m1, m2, fast, slow, ip, link

TwoMessages == {m1, m2}
SixTags == 1 .. 6

(* A message the pool gets and another of any kind; one message.           *)
Pairs == {[m \in TwoMessages |-> IF m = m1 THEN "good" ELSE k] : k \in Kinds}
GoodPair == {[m \in TwoMessages |-> "good"]}
Singles == [{m1} -> Kinds]
GoodSingle == [{m1} -> {"good"}]
Nothing == {<<>>}

Defs == <<[name |-> fast, value |-> 1], [name |-> slow, value |-> Unset]>>
Json(n, v) == [name |-> n, type |-> "number", value |-> v]
Binary(n, v) == [name |-> n, type |-> "binary", value |-> v]

(* The worlds in which goxo consumes: two processes without a timeout, or  *)
(* one with a timeout.                                                     *)
Base ==
  [settings |-> [inputs |-> <<ip>>, args |-> <<Json(slow, 2)>>],
   manifest |-> [name |-> "agent", inputs |-> <<link>>, args |-> Defs],
   file     |-> [handler |-> <<"python">>, fdset |-> "fdset", pool |-> 2],
   env      |-> <<>>,
   codec    |-> TRUE]
Timed ==
  [Base EXCEPT !.file = [handler |-> <<"python">>, fdset |-> "fdset", cap |-> 0],
               !.env = [timeout |-> 5, pool |-> Bad],
               !.settings = [inputs |-> <<>>]]
Consuming == {Base, Timed}

(* Base with other inputs: a container started now with these settings,    *)
(* now with those.                                                         *)
Moved == [Base EXCEPT !.settings = <<>>, !.env = [pool |-> 1]]

(* Worlds with nothing to consume, one per way to give a knob or argument. *)
Silent ==
  [Base EXCEPT !.settings = [args |-> <<Json(slow, 2), Binary(fast, Bad)>>],
               !.manifest = [name |-> "agent", args |-> Defs]]
Knob(k, v) == [Silent EXCEPT !.env = (k :> v)]
InFile(k, v) == [Silent EXCEPT !.file = (k :> v) @@ @]
SilentWorlds ==
  {Silent}
    \cup {Knob(k, v) : k \in Numbers, v \in {Unset, Bad, 0, 3}}
    \cup {InFile(k, v) : k \in Numbers, v \in {Unset, Bad, 0, 3}}
    \cup {[InFile(k, 2) EXCEPT !.env = (k :> v)] :
            k \in Numbers, v \in {Bad, 0, 3}}
    \cup {[Silent EXCEPT !.env = [pool |-> 256, cap |-> 256]]}
    \cup {[Silent EXCEPT !.settings = [args |-> a, port |-> 6000]] :
            a \in {<<>>, <<Json(fast, 2), Json(fast, 3)>>}}
    \cup {[Silent EXCEPT !.settings = [host |-> h]] :
            h \in {"127.0.0.1", "10.0.0.1"}}
    \cup {[Silent EXCEPT !.settings = <<>>, !.manifest = [name |-> "agent"],
                         !.env = [port |-> 5000]]}

(* Worlds in which Run returns before it connects.                         *)
BrokenWorlds ==
  {[Silent EXCEPT !.settings = Bad], [Silent EXCEPT !.settings = Unset],
   [Silent EXCEPT !.settings = [args |-> <<Json(fast, Bad)>>]],
   [Silent EXCEPT !.manifest = Bad], [Silent EXCEPT !.manifest = <<>>],
   [Silent EXCEPT !.file = Bad], [Silent EXCEPT !.file = Unset],
   [Silent EXCEPT !.file = Unset, !.env = [config |-> "x", handler |-> <<"sh">>,
                                           fdset |-> "fdset"]],
   [Silent EXCEPT !.env = [handler |-> <<>>]],
   [Silent EXCEPT !.codec = FALSE],
   InFile("worker_cap", 8)}

(* Two faults where the state space allows it.                             *)
Start(W, K, n) == [worlds : {{w} : w \in W}, kind : K, faults : {n}]
Restarts(W, K, n) == [worlds : {W}, kind : K, faults : {n}]
AllScenarios ==
  Start(Consuming, Pairs, 1) \cup Start({Timed}, GoodPair, 2)
    \cup Start(Consuming, Singles, 2)
    \cup Restarts({Base, Moved}, GoodSingle, 2)
    \cup Start(SilentWorlds \cup BrokenWorlds, Nothing, 2)
=============================================================================

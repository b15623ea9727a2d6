------------------------------ MODULE MCWorker ------------------------------
(***************************************************************************)
(* Small instances of Worker for TLC.                                      *)
(***************************************************************************)
EXTENDS Worker, TLC

CONSTANTS w1, w2, d1, d2, d3, d4

OneWorker == {w1}
TwoWorkers == {w1, w2}
OneDelivery == {d1}
TwoDeliveries == {d1, d2}
ThreeDeliveries == {d1, d2, d3}
FourDeliveries == {d1, d2, d3, d4}
NoDeliveries == {}

(* Workers and deliveries are interchangeable in Worker; sound for safety  *)
(* properties only, so the liveness runs do not use it.                    *)
Symmetry == Permutations(Workers) \cup Permutations(Deliveries)
=============================================================================

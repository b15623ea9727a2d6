------------------------------- MODULE MCPool -------------------------------
(***************************************************************************)
(* Small instances of Pool for TLC.                                        *)
(***************************************************************************)
EXTENDS Pool, TLC

CONSTANTS d1, d2, d3, d4

TwoDeliveries == {d1, d2}
ThreeDeliveries == {d1, d2, d3}
FourDeliveries == {d1, d2, d3, d4}
OneDelivery == {d1}
NoDeliveries == {}
AllWorkers == 1 .. Size

(* The workers are not interchangeable: leastLoaded and Shutdown go        *)
(* through them in order.                                                  *)
Symmetry == Permutations(Deliveries)
=============================================================================

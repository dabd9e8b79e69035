------------------------------ MODULE MCField -------------------------------
(***************************************************************************)
(* The instance of Field for TLC: two ticks in flight, with the intervals  *)
(* of the contract in the same order; two rides and two drivers, one offer *)
(* per wave, and drivers at either side of every threshold; a browser for  *)
(* each role over a ride; fares at either side of what caps and rounds.    *)
(***************************************************************************)
EXTENDS Field, TLC

Near == [fit |-> TRUE, age |-> 20, distance |-> 2, eta |-> 90, stamp |-> 40, idle |-> 5]

Candidates ==
  {Near, [Near EXCEPT !.age = 21], [Near EXCEPT !.distance = 3, !.idle = 9], [Near EXCEPT !.distance = 8],
   [Near EXCEPT !.eta = 60, !.stamp = 30]}

Roles == [passenger |-> "PASSENGER", driver |-> "DRIVER", operator |-> "OPERATOR"]

Users == DOMAIN Roles

(* Two who dispatch, each at a panel.                                      *)
PanelRoles == [operator |-> "OPERATOR", admin |-> "TENANT_ADMIN"]

PanelUsers == DOMAIN PanelRoles

(* One trip whose fare ends in a half, one below every minimum, and one    *)
(* just under a half with the smallest surge.                              *)
Trips ==
  {[distance |-> 10000, duration |-> 61], [distance |-> 1000, duration |-> 60],
   [distance |-> 15937, duration |-> 8]}

Symmetry == Permutations(Tick) \cup Permutations(OpenRide)
=============================================================================

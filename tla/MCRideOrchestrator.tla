------------------------ MODULE MCRideOrchestrator -------------------------
(***************************************************************************)
(* Instances of RideOrchestrator for TLC.  The slots of Call and the       *)
(* drivers are interchangeable.                                            *)
(***************************************************************************)
EXTENDS RideOrchestrator, TLC

Symmetry == Permutations(Call) \cup Permutations(Driver)

(* What the buttons of the ride page ask advanceRide for.                  *)
PageTargets == {"DRIVER_ARRIVING", "DRIVER_ARRIVED", "IN_PROGRESS", "COMPLETED"}

(* Those, and what the service accepts from any other caller.              *)
ServiceTargets ==
  PageTargets \cup
    {"MATCHING", "ACCEPTED", "CANCELLED", "PAYMENT_PENDING", "PAID", "PAYMENT_FAILED"}

(* The first of them, for the runs about what happens before the pick-up.  *)
PickupTargets == {"DRIVER_ARRIVING"}

PageTriggers == {"other"}
ServiceTriggers == {"other", "verified-provider-event"}

(* The trigger that refuses nothing more than the transition table does.   *)
ProviderTriggers == {"verified-provider-event"}
=============================================================================

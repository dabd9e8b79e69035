---------------------------- MODULE RideMachine ----------------------------
(***************************************************************************)
(* The ride entity of domain/ride.ts: the closed table of statuses, the    *)
(* triggers that may conclude a payment, the single assignment of a driver *)
(* and the timestamps a transition sets.  The module has no state: it is   *)
(* what one Ride object does, and is shared by the abstract life cycle and *)
(* by the request handlers that load, change and save such objects.        *)
(*                                                                         *)
(* A definition named Slip... is a plausible mistake in the definition     *)
(* after it, which the specification never uses; PROJECT.json pairs each   *)
(* with the property that notices it.                                      *)
(***************************************************************************)
CONSTANTS
  Driver,    \* user ids of drivers
  NoDriver   \* driverId = null

ASSUME DriverAssumption == NoDriver \notin Driver

RideStatus ==
  {"REQUESTED", "MATCHING", "ACCEPTED", "DRIVER_ARRIVING", "DRIVER_ARRIVED",
   "IN_PROGRESS", "COMPLETED", "CANCELLED", "PAYMENT_PENDING", "PAID",
   "PAYMENT_FAILED"}

(***************************************************************************)
(* TRANSITIONS, as the set of its pairs.                                   *)
(***************************************************************************)
Edge ==
  {<<"REQUESTED", "MATCHING">>,             <<"REQUESTED", "CANCELLED">>,
   <<"MATCHING", "ACCEPTED">>,              <<"MATCHING", "CANCELLED">>,
   <<"ACCEPTED", "DRIVER_ARRIVING">>,       <<"ACCEPTED", "CANCELLED">>,
   <<"DRIVER_ARRIVING", "DRIVER_ARRIVED">>, <<"DRIVER_ARRIVING", "CANCELLED">>,
   <<"DRIVER_ARRIVED", "IN_PROGRESS">>,     <<"DRIVER_ARRIVED", "CANCELLED">>,
   <<"IN_PROGRESS", "COMPLETED">>,          <<"IN_PROGRESS", "CANCELLED">>,
   <<"COMPLETED", "PAYMENT_PENDING">>,
   <<"PAYMENT_PENDING", "PAID">>,           <<"PAYMENT_PENDING", "PAYMENT_FAILED">>}

PaymentTriggers == {"verified-provider-event", "system-reconciliation"}

(* Every trigger that is not a payment trigger is treated alike.           *)
Trigger == PaymentTriggers \cup {"other"}

(* The statuses whose entry sets a timestamp: acceptedAt, startedAt,       *)
(* completedAt and cancelledAt.                                            *)
Stamped == {"ACCEPTED", "IN_PROGRESS", "COMPLETED", "CANCELLED"}

RideRecord ==
  [status: RideStatus, driver: Driver \cup {NoDriver}, stamps: SUBSET Stamped]

RequestedRide == [status |-> "REQUESTED", driver |-> NoDriver, stamps |-> {}]

-----------------------------------------------------------------------------
(* assignDriver: the check and the assignment.                             *)
SlipCanAssign(ride) == ride.status # "COMPLETED"

CanAssign(ride) == ride.driver = NoDriver
Assigned(ride, d) == [ride EXCEPT !.driver = d]

(* transitionTo: the two checks, then the status and its timestamp.        *)
SlipCanTransition(ride, to, trigger) == to # ride.status

CanTransition(ride, to, trigger) ==
  /\ <<ride.status, to>> \in Edge
  /\ to \in {"PAID", "PAYMENT_FAILED"} => trigger \in PaymentTriggers

SlipTransitioned(ride, to) == [ride EXCEPT !.status = to]

Transitioned(ride, to) ==
  [ride EXCEPT !.status = to, !.stamps = @ \cup ({to} \cap Stamped)]

SlipPassengerMayCancel(ride) == ride.status # "COMPLETED"

(* assessCancellation for a passenger without an approved exception throws *)
(* only for a ride in progress whose assignment time is known.             *)
PassengerMayCancel(ride) ==
  ~ (ride.status = "IN_PROGRESS" /\ "ACCEPTED" \in ride.stamps)
=============================================================================

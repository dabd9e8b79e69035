--------------------------- MODULE RideLifecycle ---------------------------
(***************************************************************************)
(* What the backend promises about a ride, whoever asks and however many   *)
(* requests run at once: its status walks the closed table, a terminal     *)
(* status is final, and its driver is decided at most once.                *)
(*                                                                         *)
(* The handlers of RideOrchestrator implement this specification when they *)
(* share the stored object or when requests on one ride never overlap; the *)
(* runs of MCRideOrchestrator say where they do not.                       *)
(***************************************************************************)
EXTENDS RideMachine

CONSTANTS
  RideId,
  NoRide   \* the ride has not been requested

VARIABLE ride   \* ride[r]: NoRide or [status, driver]

Requested == [status |-> "REQUESTED", driver |-> NoDriver]

(* A ride may be there, requested, before anything else happens.           *)
Init == ride \in [RideId -> {NoRide, Requested}]

Request(r) ==
  /\ ride[r] = NoRide
  /\ ride' = [ride EXCEPT ![r] = Requested]

(* The status moves one edge; the driver stays.                            *)
Advance(r, to) ==
  /\ ride[r] # NoRide
  /\ <<ride[r].status, to>> \in Edge
  /\ ride' = [ride EXCEPT ![r].status = to]

(* The winning driver and ACCEPTED become visible together.                *)
Win(r, d) ==
  /\ ride[r] # NoRide
  /\ ride[r].status = "MATCHING"
  /\ ride[r].driver = NoDriver
  /\ ride' = [ride EXCEPT ![r] = [status |-> "ACCEPTED", driver |-> d]]

(* acceptOffer assigns the driver before it validates the transition, so   *)
(* an acceptance that is refused outside MATCHING still takes the ride's   *)
(* only driver slot.                                                       *)
Claim(r, d) ==
  /\ ride[r] # NoRide
  /\ ride[r].status # "MATCHING"
  /\ ride[r].driver = NoDriver
  /\ ride' = [ride EXCEPT ![r].driver = d]

Next ==
  \E r \in RideId :
    \/ Request(r)
    \/ \E to \in RideStatus : Advance(r, to)
    \/ \E d \in Driver : Win(r, d) \/ Claim(r, d)

Spec == Init /\ [][Next]_ride
=============================================================================

-------------------------- MODULE RideOrchestrator --------------------------
(***************************************************************************)
(* The request handlers of application/ride-orchestrator.ts, split at      *)
(* their awaits, over the two runtimes apps/web/lib/backend.ts builds.     *)
(*                                                                         *)
(* A call is one handler in flight.  It loads a ride, changes the object   *)
(* it holds without yielding, saves it and publishes the event; between    *)
(* two awaits any other call may run.  A slot of Call is reused, so the    *)
(* number of calls over time is unbounded and Call bounds only how many    *)
(* overlap.                                                                *)
(*                                                                         *)
(*   Live = FALSE  the demo runtime: the in-memory repositories hand out   *)
(*                 the stored object itself, so a change is visible before *)
(*                 it is saved; acceptances check the driver's profile.    *)
(*   Live = TRUE   the Supabase runtime: findById returns a fresh copy and *)
(*                 save writes the whole row back, whatever it holds now;  *)
(*                 the orchestrator is built without a driver repository;  *)
(*                 a store call may fail and a process may stop.           *)
(*                                                                         *)
(* Authorisation is left out: the calls are those of authorised actors, on *)
(* rides that exist, and a refused or misdirected call changes nothing.    *)
(* Timestamps, quotes, audit records and event envelopes are data.         *)
(***************************************************************************)
EXTENDS RideMachine, PaymentIntent

CONSTANTS
  RideId,        \* ids newId() hands to requestRide
  PixRide,       \* the rides requested with paymentMethod 'pix'
  Call,          \* slots for concurrent handlers
  AdvanceTarget, \* the statuses and the triggers advanceRide is asked with
  AdvanceTrigger,
  Changing,      \* the drivers whose profile may become able to receive offers
  Live,          \* which runtime (see above)
  Serialised,    \* the environment runs at most one call per ride at a time
  RidesSaved,    \* the rides table takes the row requestRide has written
  IntentsSaved,  \* the payments table takes the row createPixIntent has written
  NoRide, NoJob

ASSUME OrchestratorAssumption ==
  /\ PixRide \subseteq RideId
  /\ AdvanceTarget \subseteq RideStatus /\ AdvanceTrigger \subseteq Trigger
  /\ Changing \subseteq Driver
  /\ Live \in BOOLEAN /\ Serialised \in BOOLEAN
  /\ RidesSaved \in BOOLEAN /\ IntentsSaved \in BOOLEAN
  /\ NoRide \notin RideRecord \cup [status: RideStatus, driver: Driver \cup {NoDriver}]

VARIABLES
  rides,        \* rides[r]: the ride repository, NoRide before the first save
  intents,      \* intents[r]: status of the ride's Pix intent, or "none"
  verified,     \* the drivers whose profile canReceiveOffers()
  tenantActive, \* tenant.status = 'ACTIVE'
  pc,           \* pc[c]: where the call waits
  job,          \* job[c]: the call's arguments
  copy,         \* copy[c]: the Ride the call holds, when it is its own copy
  seen,         \* seen[c]: what startMatching learnt about the Pix intent
  bus,          \* events published so far
  been          \* been[r]: history, every status the repository held for r

vars ==
  <<rides, intents, verified, tenantActive, pc, job, copy, seen, bus, been>>

Op == {"request", "match", "accept", "advance", "cancel"}

(* announced is history: had ride.requested been published when the call   *)
(* began?                                                                  *)
Job ==
  [op: Op, ride: RideId, driver: Driver \cup {NoDriver}, to: RideStatus,
   trigger: Trigger, announced: BOOLEAN]

(* What the handlers publish: STATUS_EVENTS and ride.requested, named by   *)
(* the status they report; only acceptOffer's event carries a driver.      *)
EventStatus == RideStatus \ {"PAYMENT_PENDING", "PAID", "PAYMENT_FAILED"}
Event == [ride: RideId, status: EventStatus, driver: Driver \cup {NoDriver}]

PC == {"idle", "route", "intent", "intents", "reload", "apply", "save", "publish"}

TypeOK ==
  /\ rides \in [RideId -> RideRecord \cup {NoRide}]
  /\ intents \in [RideId -> IntentStatus \cup {"none"}]
  /\ verified \subseteq Driver
  /\ tenantActive \in BOOLEAN
  /\ pc \in [Call -> PC]
  /\ job \in [Call -> Job \cup {NoJob}]
  /\ copy \in [Call -> RideRecord \cup {NoRide}]
  /\ seen \in [Call -> IntentStatus \cup {"none"}]
  /\ bus \subseteq Event
  /\ been \in [RideId -> SUBSET RideStatus]

(* The demo starts empty; the live table may hold a ride nobody has worked *)
(* on yet, put there by other means than requestRide.                      *)
AtFirst == IF Live THEN {NoRide, RequestedRide} ELSE {NoRide}

Init ==
  /\ rides \in [RideId -> AtFirst]
  /\ intents = [r \in RideId |-> "none"]
  /\ verified = {}
  /\ tenantActive = TRUE
  /\ pc = [c \in Call |-> "idle"]
  /\ job = [c \in Call |-> NoJob]
  /\ copy = [c \in Call |-> NoRide]
  /\ seen = [c \in Call |-> "none"]
  /\ bus = {}
  /\ been = [r \in RideId |-> IF rides[r] = NoRide THEN {} ELSE {rides[r].status}]

-----------------------------------------------------------------------------
(* Steps of a call.                                                        *)

Published(r, status) == \E e \in bus : e.ride = r /\ e.status = status

(* No other call works on the ride, when the environment serialises them.  *)
MayBegin(r) ==
  Serialised => \A c \in Call : pc[c] # "idle" => job[c].ride # r

Begin(c, op, r, d, to, trigger, first) ==
  /\ pc[c] = "idle"
  /\ MayBegin(r)
  /\ pc' = [pc EXCEPT ![c] = first]
  /\ job' = [job EXCEPT ![c] =
       [op |-> op, ride |-> r, driver |-> d, to |-> to, trigger |-> trigger,
        announced |-> Published(r, "REQUESTED")]]

Goto(c, from, to) ==
  /\ pc[c] = from
  /\ pc' = [pc EXCEPT ![c] = to]
  /\ UNCHANGED job

(* The handler returns or throws; what it held is garbage.                 *)
End(c) ==
  /\ pc' = [pc EXCEPT ![c] = "idle"]
  /\ job' = [job EXCEPT ![c] = NoJob]
  /\ copy' = [copy EXCEPT ![c] = NoRide]
  /\ seen' = [seen EXCEPT ![c] = "none"]

SlipLoaded(r) == IF Live THEN [rides[r] EXCEPT !.stamps = {}] ELSE NoRide

(* The object findById hands out.                                          *)
Loaded(r) == IF Live THEN rides[r] ELSE NoRide

(* The object in the call's hands.                                         *)
Held(c) == IF Live THEN copy[c] ELSE rides[job[c].ride]

(* The repository's row or object takes a new value.                       *)
Put(r, value) ==
  /\ rides' = [rides EXCEPT ![r] = value]
  /\ been' = [been EXCEPT ![r] = @ \cup {value.status}]

(* Changing the held object: the stored one, or the private copy.          *)
Mutate(c, value) ==
  IF Live
  THEN /\ copy' = [copy EXCEPT ![c] = value]
       /\ UNCHANGED <<rides, been>>
  ELSE /\ Put(job[c].ride, value)
       /\ UNCHANGED copy

-----------------------------------------------------------------------------
(* requestRide.                                                            *)

(* Up to the tenant check; the id is fresh.                                *)
RequestRide(c, r) ==
  /\ tenantActive
  /\ rides[r] = NoRide
  /\ \A o \in Call : pc[o] # "idle" => job[o].ride # r
  /\ Begin(c, "request", r, NoDriver, "REQUESTED", "other", "route")
  /\ UNCHANGED <<rides, intents, verified, tenantActive, copy, seen, bus, been>>

(* The ride is saved before its payment exists.  Its service type is the   *)
(* category asked for, and the live table wants a uuid there: with the     *)
(* repository's own migrations every live request is refused here.         *)
SaveNewRide(c) ==
  LET r == job[c].ride IN
  /\ ~ Live \/ RidesSaved
  /\ Goto(c, "route", IF r \in PixRide THEN "intent" ELSE "publish")
  /\ Put(r, RequestedRide)
  /\ UNCHANGED <<intents, verified, tenantActive, copy, seen, bus>>

(* The live store leaves created_at out of a table that requires it, so an *)
(* intent would be refused as well.                                        *)
SaveIntent(c) ==
  /\ ~ Live \/ IntentsSaved
  /\ Goto(c, "intent", "publish")
  /\ intents' = [intents EXCEPT ![job[c].ride] = "pending"]
  /\ UNCHANGED <<rides, verified, tenantActive, copy, seen, bus, been>>

-----------------------------------------------------------------------------
(* Loading: requireRide of the other handlers.                             *)

StartMatching(c, r) ==
  /\ rides[r] # NoRide
  /\ Begin(c, "match", r, NoDriver, "MATCHING", "other", "intents")
  /\ copy' = [copy EXCEPT ![c] = Loaded(r)]
  /\ UNCHANGED <<rides, intents, verified, tenantActive, seen, bus, been>>

(* findIntentsByRide answers.                                              *)
FindIntents(c) ==
  /\ Goto(c, "intents", "apply")
  /\ seen' = [seen EXCEPT ![c] = intents[job[c].ride]]
  /\ UNCHANGED <<rides, intents, verified, tenantActive, copy, bus, been>>

AcceptOffer(c, r, d) ==
  /\ rides[r] # NoRide
  /\ Begin(c, "accept", r, d, "ACCEPTED", "other", "apply")
  /\ copy' = [copy EXCEPT ![c] = Loaded(r)]
  /\ UNCHANGED <<rides, intents, verified, tenantActive, seen, bus, been>>

AdvanceRide(c, r, to, trigger) ==
  /\ rides[r] # NoRide
  /\ Begin(c, "advance", r, NoDriver, to, trigger, "apply")
  /\ copy' = [copy EXCEPT ![c] = Loaded(r)]
  /\ UNCHANGED <<rides, intents, verified, tenantActive, seen, bus, been>>

(* cancelRideAction assesses the ride it read, then advanceRide reads it   *)
(* again.                                                                  *)
CancelRide(c, r) ==
  /\ rides[r] # NoRide
  /\ PassengerMayCancel(rides[r])
  /\ Begin(c, "cancel", r, NoDriver, "CANCELLED", "other", "reload")
  /\ UNCHANGED <<rides, intents, verified, tenantActive, copy, seen, bus, been>>

Reload(c) ==
  /\ Goto(c, "reload", "apply")
  /\ copy' = [copy EXCEPT ![c] = Loaded(job[c].ride)]
  /\ UNCHANGED <<rides, intents, verified, tenantActive, seen, bus, been>>

-----------------------------------------------------------------------------
(* Changing the held object.                                               *)

(* The intents startMatching filters: the list is the one it was handed,   *)
(* the objects in it are the stored ones when the store is in memory.      *)
SeenIntent(c) ==
  IF Live \/ seen[c] = "none" THEN seen[c] ELSE intents[job[c].ride]

SlipPixGate(c) == SeenIntent(c) # "failed"

(* No Pix intent: taken for a card ride.                                   *)
PixGate(c) == SeenIntent(c) \in {"none", "paid"}

Transition(c) ==
  /\ Goto(c, "apply", "save")
  /\ job[c].op \in {"match", "advance", "cancel"}
  /\ job[c].op = "match" => PixGate(c)
  /\ CanTransition(Held(c), job[c].to, job[c].trigger)
  /\ Mutate(c, Transitioned(Held(c), job[c].to))
  /\ UNCHANGED <<intents, verified, tenantActive, seen, bus>>

(* acceptOffer: the profile check, assignDriver, transitionTo.             *)
MayReceiveOffer(d) == Live \/ d \in verified

SlipAccept(c) ==
  /\ Goto(c, "apply", "save")
  /\ job[c].op = "accept"
  /\ MayReceiveOffer(job[c].driver)
  /\ CanAssign(Held(c))
  /\ CanTransition(Held(c), "ACCEPTED", job[c].trigger)
  /\ Mutate(c, Transitioned(Held(c), "ACCEPTED"))
  /\ UNCHANGED <<intents, verified, tenantActive, seen, bus>>

Accept(c) ==
  /\ Goto(c, "apply", "save")
  /\ job[c].op = "accept"
  /\ MayReceiveOffer(job[c].driver)
  /\ CanAssign(Held(c))
  /\ CanTransition(Held(c), "ACCEPTED", job[c].trigger)
  /\ Mutate(c, Transitioned(Assigned(Held(c), job[c].driver), "ACCEPTED"))
  /\ UNCHANGED <<intents, verified, tenantActive, seen, bus>>

(* assignDriver succeeded and transitionTo threw: nothing is saved, but a  *)
(* shared object keeps the driver.                                         *)
AcceptFailsAfterAssignment(c) ==
  /\ pc[c] = "apply" /\ job[c].op = "accept"
  /\ MayReceiveOffer(job[c].driver)
  /\ CanAssign(Held(c))
  /\ ~ CanTransition(Held(c), "ACCEPTED", job[c].trigger)
  /\ End(c)
  /\ IF Live
     THEN UNCHANGED <<rides, been>>
     ELSE Put(job[c].ride, Assigned(Held(c), job[c].driver))
  /\ UNCHANGED <<intents, verified, tenantActive, bus>>

(* Every other refusal leaves no trace.                                    *)
Refuse(c) ==
  /\ pc[c] = "apply"
  /\ IF job[c].op = "accept"
     THEN ~ (MayReceiveOffer(job[c].driver) /\ CanAssign(Held(c)))
     ELSE ~ (/\ job[c].op = "match" => PixGate(c)
             /\ CanTransition(Held(c), job[c].to, job[c].trigger))
  /\ End(c)
  /\ UNCHANGED <<rides, intents, verified, tenantActive, bus, been>>

-----------------------------------------------------------------------------
(* Saving and publishing.                                                  *)

SlipSave(c) ==
  /\ Goto(c, "save", "publish")
  /\ UNCHANGED <<rides, been, intents, verified, tenantActive, copy, seen, bus>>

(* rides.save: an upsert of the whole row, or storing the object that is   *)
(* already there.                                                          *)
Save(c) ==
  /\ Goto(c, "save", "publish")
  /\ IF Live
     THEN Put(job[c].ride, copy[c])
     ELSE UNCHANGED <<rides, been>>
  /\ UNCHANGED <<intents, verified, tenantActive, copy, seen, bus>>

SlipPublish(c) ==
  /\ pc[c] = "publish"
  /\ bus' = bus \cup {[ride |-> job[c].ride, status |-> job[c].to,
                       driver |-> job[c].driver]}
  /\ End(c)
  /\ UNCHANGED <<rides, intents, verified, tenantActive, been>>

(* emit, and the end of the handler; payment statuses have no event.       *)
Publish(c) ==
  /\ pc[c] = "publish"
  /\ bus' = IF job[c].to \in EventStatus
            THEN bus \cup {[ride |-> job[c].ride, status |-> job[c].to,
                            driver |-> job[c].driver]}
            ELSE bus
  /\ End(c)
  /\ UNCHANGED <<rides, intents, verified, tenantActive, been>>

(* A store or provider call rejects, or the process stops, at any await.   *)
Fail(c) ==
  /\ Live
  /\ pc[c] # "idle"
  /\ End(c)
  /\ UNCHANGED <<rides, intents, verified, tenantActive, bus, been>>

-----------------------------------------------------------------------------
(* The rest of the system, as far as these handlers see it.                *)

(* PaymentService moves an intent along its own edges.                     *)
IntentMoves(r) ==
  /\ \E status \in IntentStatus :
       /\ <<intents[r], status>> \in IntentEdge
       /\ intents' = [intents EXCEPT ![r] = status]
  /\ UNCHANGED <<rides, verified, tenantActive, pc, job, copy, seen, bus, been>>

(* Approval, suspension or setAvailability of a driver's profile.          *)
ProfileChanges(d) ==
  /\ verified' = IF d \in verified THEN verified \ {d} ELSE verified \cup {d}
  /\ UNCHANGED <<rides, intents, tenantActive, pc, job, copy, seen, bus, been>>

(* suspendTenant or cancelTenant; neither status leads back to ACTIVE.     *)
TenantLeavesActive ==
  /\ tenantActive
  /\ tenantActive' = FALSE
  /\ UNCHANGED <<rides, intents, verified, pc, job, copy, seen, bus, been>>

-----------------------------------------------------------------------------
CallBegins(c) ==
  \E r \in RideId :
    \/ RequestRide(c, r) \/ StartMatching(c, r) \/ CancelRide(c, r)
    \/ \E d \in Driver : AcceptOffer(c, r, d)
    \/ \E to \in AdvanceTarget, trigger \in AdvanceTrigger : AdvanceRide(c, r, to, trigger)

CallContinues(c) ==
  \/ SaveNewRide(c) \/ SaveIntent(c)
  \/ FindIntents(c) \/ Reload(c)
  \/ Transition(c) \/ Accept(c) \/ AcceptFailsAfterAssignment(c) \/ Refuse(c)
  \/ Save(c) \/ Publish(c) \/ Fail(c)

Environment ==
  \/ \E r \in RideId : IntentMoves(r)
  \/ \E d \in Changing : ProfileChanges(d)
  \/ TenantLeavesActive

Next ==
  \/ \E c \in Call : CallBegins(c) \/ CallContinues(c)
  \/ Environment

Spec == Init /\ [][Next]_vars

-----------------------------------------------------------------------------
(* Properties.                                                             *)

(* A driver announced as the winner of a ride is the driver the repository *)
(* holds for it from then on: no later or concurrent acceptance, transition*)
(* or save takes the ride away from a driver who was told it is theirs.    *)
WinnerIsPersisted ==
  \A e \in bus : e.driver # NoDriver => rides[e.ride].driver = e.driver

(* Nobody is told of a status the repository never held: every published   *)
(* event follows a save of the status it reports.                          *)
PublishedWasHeld ==
  \A e \in bus : e.status \in been[e.ride]

(* The timestamps a ride carries are exactly those of the statuses it went *)
(* through, so a fee computed from acceptedAt is computed from the truth.  *)
TimestampsMatchHistory ==
  \A r \in RideId :
    rides[r] # NoRide => rides[r].stamps = been[r] \cap Stamped

(* A Pix ride that had been announced when the operator asked for matching *)
(* is dispatched only if the provider confirmed its payment.               *)
AnnouncedPixIsPaid ==
  \A c \in Call :
    /\ pc[c] = "save"
    /\ job[c].op = "match" /\ job[c].announced
    /\ job[c].ride \in PixRide
    => intents[job[c].ride] \in EverPaid

(* A passenger's cancellation never ends a ride that was accepted and is   *)
(* already in progress: that takes an approved exception.                  *)
PassengerCancelObeysPolicy ==
  \A c \in Call :
    pc[c] \in {"save", "publish"} /\ job[c].op = "cancel"
      => ~ {"ACCEPTED", "IN_PROGRESS"} \subseteq Held(c).stamps

(* The repository implements the ride life cycle: closed table, final      *)
(* terminal statuses, one driver for good.                                 *)
StatusAndDriver ==
  [r \in RideId |->
     IF rides[r] = NoRide THEN NoRide
     ELSE [status |-> rides[r].status, driver |-> rides[r].driver]]

Lifecycle == INSTANCE RideLifecycle WITH ride <- StatusAndDriver

ImplementsLifecycle == Lifecycle!Spec

-----------------------------------------------------------------------------
(* What the documentation says and the code does not keep.                 *)

(* At most one driver is ever announced as the winner of a ride.           *)
SingleWinner ==
  \A e, f \in bus :
    e.ride = f.ride /\ e.driver # NoDriver /\ f.driver # NoDriver
      => e.driver = f.driver
=============================================================================

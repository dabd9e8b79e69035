------------------------------ MODULE Tracking ------------------------------
(***************************************************************************)
(* Where a driver is, from the device to the passenger's screen: tick of   *)
(* apps/mobile/src/lib/location-tracker.ts, the freshness rules and the    *)
(* pool of domain/driver-location.ts, and TrackingScreen.                  *)
(*                                                                         *)
(* The app calls tick from a timer and keeps the state tick returns, as    *)
(* its tests do; a tick waits for the device, so ticks overlap when the    *)
(* device is slow.  Positions are data: a fix is the time it is dated.     *)
(***************************************************************************)
EXTENDS Naturals

CONSTANTS
  Tick, NoTick,       \* slots for calls of tick
  NoFix,              \* nothing emitted, or nothing in the pool
  OnRideEvery, IdleEvery, StaleAfter, ExpiredAfter,  \* in one unit of time
  MaxClock            \* bound on the clock

Time == 0 .. MaxClock
TrackerState == [onRide: BOOLEAN, last: Time \cup {NoFix}]
Fix == [at: Time, onRide: BOOLEAN]
TickCall == [state: TrackerState, at: Time]

ASSUME TrackingAssumption ==
  /\ {OnRideEvery, IdleEvery, StaleAfter, ExpiredAfter, MaxClock} \subseteq Nat
  /\ StaleAfter <= ExpiredAfter
  /\ NoFix \notin Nat \cup Fix /\ NoTick \notin TickCall

VARIABLES
  clock,
  onTrip,    \* whether the driver is on a ride, which the app knows
  tracker,   \* the TrackerState the app keeps
  ticks,     \* ticks[c]: the state a tick in flight was given, and its now
  fixes,     \* history: the locations the device emitted
  pool,      \* the last location to arrive that was not pruned
  trackRaced \* history: ticks overlapped, or the mode changed during one

trackVars == <<clock, onTrip, tracker, ticks, fixes, pool, trackRaced>>

TrackTypeOK ==
  /\ clock \in Time /\ onTrip \in BOOLEAN
  /\ tracker \in TrackerState
  /\ ticks \in [Tick -> TickCall \cup {NoTick}]
  /\ fixes \subseteq Fix
  /\ pool \in Fix \cup {NoFix}
  /\ trackRaced \subseteq {"tick", "mode"}

(* createTracker.                                                          *)
TrackInit ==
  /\ clock = 0 /\ onTrip = FALSE
  /\ tracker = [onRide |-> FALSE, last |-> NoFix]
  /\ ticks = [c \in Tick |-> NoTick]
  /\ fixes = {} /\ pool = NoFix /\ trackRaced = {}

-----------------------------------------------------------------------------
(* updateIntervalSeconds.                                                  *)
UpdateInterval(onRide) == IF onRide THEN OnRideEvery ELSE IdleEvery

SlipFreshness(age) ==
  IF age <= ExpiredAfter THEN "fresh" ELSE "expired"

(* classifyFreshness.                                                      *)
Freshness(age) ==
  IF age <= StaleAfter THEN "fresh" ELSE IF age <= ExpiredAfter THEN "stale" ELSE "expired"

SlipIsDue(state) == TRUE

(* The cadence test of tick; a tick that is not due returns at once.       *)
IsDue(state) == state.last # NoFix => clock - state.last >= UpdateInterval(state.onRide)

InFlight == {c \in Tick : ticks[c] # NoTick}

(* tick, up to its wait for the device.                                    *)
StartTick(c) ==
  /\ ticks[c] = NoTick
  /\ IsDue(tracker)
  /\ ticks' = [ticks EXCEPT ![c] = [state |-> tracker, at |-> clock]]
  /\ trackRaced' = IF InFlight = {} THEN trackRaced ELSE trackRaced \cup {"tick"}
  /\ UNCHANGED <<clock, onTrip, tracker, fixes, pool>>

(* What tick returns: the state it was given, dated when it was called.    *)
NextState(call) == [call.state EXCEPT !.last = call.at]

(* The device answers: the location is sent and arrives, the state kept.   *)
FinishTick(c) ==
  LET fix == [at |-> ticks[c].at, onRide |-> ticks[c].state.onRide] IN
  /\ ticks[c] # NoTick
  /\ tracker' = NextState(ticks[c])
  /\ fixes' = fixes \cup {fix}
  /\ pool' = fix
  /\ ticks' = [ticks EXCEPT ![c] = NoTick]
  /\ UNCHANGED <<clock, onTrip, trackRaced>>

(* No position, or one validateCoordinates refuses: tick throws.           *)
FailTick(c) ==
  /\ ticks[c] # NoTick
  /\ ticks' = [ticks EXCEPT ![c] = NoTick]
  /\ UNCHANGED <<clock, onTrip, tracker, fixes, pool, trackRaced>>

(* A ride begins or ends: the app changes the state it keeps.              *)
SwitchMode ==
  /\ onTrip' = ~ onTrip
  /\ tracker' = [tracker EXCEPT !.onRide = onTrip']
  /\ trackRaced' = IF InFlight = {} THEN trackRaced ELSE trackRaced \cup {"mode"}
  /\ UNCHANGED <<clock, ticks, fixes, pool>>

(* prunePool: what is neither fresh nor stale is removed.                  *)
Prune ==
  /\ pool # NoFix
  /\ Freshness(clock - pool.at) = "expired"
  /\ pool' = NoFix
  /\ UNCHANGED <<clock, onTrip, tracker, ticks, fixes, trackRaced>>

TimePasses ==
  /\ clock < MaxClock
  /\ clock' = clock + 1
  /\ UNCHANGED <<onTrip, tracker, ticks, fixes, pool, trackRaced>>

TrackNext ==
  \/ \E c \in Tick : StartTick(c) \/ FinishTick(c) \/ FailTick(c)
  \/ SwitchMode \/ Prune \/ TimePasses

-----------------------------------------------------------------------------
(* TrackingScreen: what a passenger sees of the driver's position.         *)

TripStatus == {"ACCEPTED", "DRIVER_ARRIVING", "DRIVER_ARRIVED", "IN_PROGRESS"}

(* isDriverPositionStale, asked only during a trip.                        *)
StalePosition(status) ==
  status \in TripStatus /\ pool # NoFix /\ Freshness(clock - pool.at) # "fresh"

(* The ETA is drawn, or a warning in its place.                            *)
ShowsEta(status) == pool # NoFix /\ ~ StalePosition(status)

-----------------------------------------------------------------------------
(* Properties.                                                             *)

(* The device keeps its cadence: a location comes at least the interval of *)
(* its own mode after every earlier one, unless ticks overlapped.  And the *)
(* tracker knows whether its driver is on a ride, unless a tick returned   *)
(* the mode it was given and undid a change made while it waited.          *)
CadenceHolds ==
  /\ "tick" \notin trackRaced =>
       \A f, g \in fixes : f.at < g.at => g.at - f.at >= UpdateInterval(g.onRide)
  /\ trackRaced = {} => tracker.onRide = onTrip

(* A passenger on a trip is shown an ETA only while the device emitted a   *)
(* location at most StaleAfter ago, whatever arrived late or was pruned.   *)
(* And pruning takes nobody out of the pool who was heard of in time,      *)
(* unless an older location arrived after a newer one.                     *)
EtaIsCurrent ==
  /\ \A status \in TripStatus :
       ShowsEta(status) => \E f \in fixes : clock - f.at <= StaleAfter
  /\ "tick" \notin trackRaced =>
       \A f \in fixes : clock - f.at <= ExpiredAfter => pool # NoFix
=============================================================================

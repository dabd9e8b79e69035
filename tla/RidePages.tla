----------------------------- MODULE RidePages ------------------------------
(***************************************************************************)
(* The pages of apps/web over a ride: the ride page, the driver's page and *)
(* the operations panel, each open in the browser of some user.            *)
(*                                                                         *)
(* A page is rendered once by the server and then grows old: its buttons   *)
(* are those of the state it was rendered from, and pressing one acts on   *)
(* the state of the moment.  An action loads the ride, does what the       *)
(* button says or fails, and redirects to a page rendered anew, with an    *)
(* error to show or without.  Whole handlers are atomic here; how they     *)
(* interleave is the subject of RideOrchestrator.                          *)
(*                                                                         *)
(* With the live store, each change is broadcast on the channel of its     *)
(* ride.  A panel asks for the channels of the rides it lists after it was *)
(* rendered, hears one from when the server lets it join, and refreshes    *)
(* when a joined channel speaks.                                           *)
(***************************************************************************)
EXTENDS Naturals

CONSTANTS
  User,             \* who has a browser open
  RoleOf,           \* RoleOf[u]: the role of user u
  PageRide,         \* ride ids
  BroadcastFails,   \* whether a broadcast, or a panel's connection, may fail
  Runtimes,         \* the values of live looked at
  RidesSaved,       \* the live table takes the row requestRide has written
  NoOne,            \* driverId = null
  Unrequested       \* no ride under this id

VARIABLES
  live,        \* the live store and its broadcasts, or the demo's
  rides,       \* rides[r]: the stored ride
  onDuty,      \* drivers approved and available (canReceiveOffers)
  tab,         \* tab[u]: the page u looks at
  woken,       \* users whose panel has a broadcast to react to
  missed,      \* users whose panel did not hear of a ride it lists
  dispatched   \* dispatched[r]: ops.manual_dispatch events in the trail

pageVars == <<live, rides, onDuty, tab, woken, missed, dispatched>>

(* PRODUCTION_ROLE_PERMISSIONS, the permissions over rides.                *)
PermissionsOf ==
  [MOVO_PLATFORM_ADMIN |-> {"ride.read", "ride.dispatch", "ride.accept", "ride.cancel"},
   TENANT_ADMIN        |-> {"ride.read", "ride.dispatch"},
   OPERATOR            |-> {"ride.read", "ride.dispatch", "ride.cancel"},
   SUPPORT_AGENT       |-> {"ride.read"},
   DRIVER              |-> {"ride.read", "ride.accept"},
   PASSENGER           |-> {"ride.request", "ride.read", "ride.cancel"}]

Driving == {u \in User : RoleOf[u] = "DRIVER"}

Machine == INSTANCE RideMachine WITH Driver <- Driving, NoDriver <- NoOne

ASSUME PagesAssumption ==
  /\ RoleOf \in [User -> DOMAIN PermissionsOf]
  /\ NoOne \notin User /\ BroadcastFails \in BOOLEAN /\ RidesSaved \in BOOLEAN
  /\ Runtimes \subseteq BOOLEAN
  /\ Unrequested \notin Machine!RideRecord

May(u, permission) == permission \in PermissionsOf[RoleOf[u]]

-----------------------------------------------------------------------------
(* What a page shows.                                                      *)

(* advanceAction: the buttons that move a ride on, by the status each sets.*)
StepFrom == [ACCEPTED        |-> "DRIVER_ARRIVING",
             DRIVER_ARRIVING |-> "DRIVER_ARRIVED",
             DRIVER_ARRIVED  |-> "IN_PROGRESS",
             IN_PROGRESS     |-> "COMPLETED"]

Steps == {StepFrom[s] : s \in DOMAIN StepFrom}

Button == Steps \cup {"match", "cancel", "accept", "dispatch"}

Requested(now) == {r \in PageRide : now[r] # Unrequested}

(* RideStatusPage: the buttons of its forms.                               *)
RideButtons(ride) ==
  LET status == ride.status IN
  (IF status = "REQUESTED" THEN {"match"} ELSE {}) \cup
  (IF status \in DOMAIN StepFrom THEN {StepFrom[status]} ELSE {}) \cup
  (IF status \in {"MATCHING", "ACCEPTED", "DRIVER_ARRIVING", "DRIVER_ARRIVED"} THEN {"cancel"} ELSE {})

(* DriverHomePage: the rides looking for a driver are his offers.          *)
OpenOffers(now) == {r \in Requested(now) : now[r].status = "MATCHING"}

(* OpsPage: the rides of the queue that may be dispatched by hand.         *)
Waiting(now) == {r \in Requested(now) : now[r].status = "REQUESTED"}

(* The forms of a page rendered from the rides now; r is the ride of the   *)
(* ride page.                                                              *)
Forms(page, r, now) ==
  CASE page = "ride"   -> RideButtons(now[r]) \X {r}
    [] page = "driver" -> {"accept"} \X OpenOffers(now)
    [] page = "ops"    -> {"dispatch"} \X Waiting(now)

(* The rides whose channels OpsLiveListener asks for: those listed.        *)
Listed(page, now) == IF page = "ops" /\ live THEN Requested(now) ELSE {}

(* joined: the channels that are SUBSCRIBED; claims: it says "Ao vivo".    *)
Unjoined == [joined |-> {}, claims |-> FALSE]

(* A panel rendered over itself keeps what it claims, and its channels if  *)
(* it lists the same rides in the same order, which the query leaves open; *)
(* otherwise the effect leaves them all and asks again.                    *)
Remounted(u, page, now) ==
  IF page = "ops" /\ tab[u].page = "ops"
  THEN LET same == Listed(page, now) = tab[u].listed IN
       {[joined |-> kept, claims |-> tab[u].claims] :
          kept \in {{}} \cup (IF same THEN {tab[u].joined} ELSE {})}
  ELSE {Unjoined}

Closed == [page |-> "none", forms |-> {}, listed |-> {}, joined |-> {}, claims |-> FALSE,
           notice |-> "none"]

Tab == [page: {"none", "ride", "driver", "ops"}, forms: SUBSET (Button \X PageRide),
        listed: SUBSET PageRide, joined: SUBSET PageRide, claims: BOOLEAN,
        notice: {"none", "failed"}]

PageTypeOK ==
  /\ live \in BOOLEAN
  /\ rides \in [PageRide -> Machine!RideRecord \cup {Unrequested}]
  /\ onDuty \subseteq Driving
  /\ tab \in [User -> Tab]
  /\ woken \subseteq User /\ missed \subseteq User
  /\ dispatched \in [PageRide -> 0 .. 1]

(* The live table may hold rides that were put there by other means.       *)
PageInit ==
  /\ live \in Runtimes
  /\ rides \in [PageRide ->
                  {Unrequested} \cup (IF live THEN {Machine!RequestedRide} ELSE {})]
  /\ onDuty = Driving
  /\ tab = [u \in User |-> Closed]
  /\ woken = {} /\ missed = {}
  /\ dispatched = [r \in PageRide |-> 0]

-----------------------------------------------------------------------------
(* The steps.                                                              *)

(* u's browser goes to a page rendered from the rides now.                 *)
Show(u, page, r, now, notice, panel) ==
  tab' = [tab EXCEPT ![u] =
            [page |-> page, forms |-> Forms(page, r, now), listed |-> Listed(page, now),
             joined |-> panel.joined, claims |-> panel.claims, notice |-> notice]]

(* CollectingPublisher and SupabaseRealtimePublisher: the panels that have *)
(* joined r's channel, but for u's own page, are woken; one that has not   *)
(* joined it yet, or is not reached, misses the broadcast.                 *)
Broadcast(u, r) ==
  LET listing == {v \in User : r \in tab[v].listed}
      joining == {v \in User : r \in tab[v].joined} IN
  \E heard \in IF BroadcastFails THEN SUBSET joining ELSE {joining} :
    /\ woken' = (woken \cup heard) \ {u}
    /\ missed' = (missed \cup (listing \ heard)) \ {u}

Rerendered(u) == woken' = woken \ {u} /\ missed' = missed \ {u}

(* requestRideAction: the ride is stored and the browser goes to its page. *)
(* The live table refuses the row, whose service type is no uuid.          *)
RequestRide(u, r) ==
  /\ May(u, "ride.request")
  /\ ~ live \/ RidesSaved
  /\ rides[r] = Unrequested
  /\ rides' = [rides EXCEPT ![r] = Machine!RequestedRide]
  /\ Broadcast(u, r)
  /\ Show(u, "ride", r, rides', "none", Unjoined)
  /\ UNCHANGED <<live, onDuty, dispatched>>

(* A page is opened or reloaded.  Only a driver has the driver's page, and *)
(* only an actor of a tenant has a panel.                                  *)
Visit(u, page, r) ==
  /\ page = "ride" => r \in Requested(rides)
  /\ page = "driver" => u \in Driving
  /\ page = "ops" => RoleOf[u] # "MOVO_PLATFORM_ADMIN"
  /\ Show(u, page, r, rides, "none", Unjoined)
  /\ Rerendered(u)
  /\ UNCHANGED <<live, rides, onDuty, dispatched>>

(* The server lets u's panel join the channel of r.                        *)
Join(u, r) ==
  /\ r \in tab[u].listed \ tab[u].joined
  /\ tab' = [tab EXCEPT ![u].joined = @ \cup {r}, ![u].claims = TRUE]
  /\ UNCHANGED <<live, rides, onDuty, woken, missed, dispatched>>

(* router.refresh of a panel that heard a broadcast.                       *)
Refresh(u, r) ==
  /\ u \in woken
  /\ \E panel \in Remounted(u, "ops", rides) : Show(u, "ops", r, rides, tab[u].notice, panel)
  /\ Rerendered(u)
  /\ UNCHANGED <<live, rides, onDuty, dispatched>>

(* toggleAvailabilityAction, from a page of either age.                    *)
ToggleAvailability(u) ==
  /\ tab[u].page = "driver"
  /\ \E on \in BOOLEAN : onDuty' = IF on THEN onDuty \cup {u} ELSE onDuty \ {u}
  /\ Show(u, "driver", NoOne, rides, "none", Unjoined)
  /\ Rerendered(u)
  /\ UNCHANGED <<live, rides, dispatched>>

-----------------------------------------------------------------------------
(* Pressing a button.                                                      *)

Permission(b) ==
  CASE b \in {"match", "dispatch"} \cup Steps -> "ride.dispatch"
    [] b = "cancel" -> "ride.cancel"
    [] b = "accept" -> "ride.accept"

Target(b) ==
  CASE b \in {"match", "dispatch"} -> "MATCHING"
    [] b = "cancel" -> "CANCELLED"
    [] b = "accept" -> "ACCEPTED"
    [] OTHER -> b

SlipMayAct(u, b, r) == May(u, Permission(b)) /\ Machine!CanTransition(rides[r], Target(b), "other")

(* What the action checks before it changes the ride: the permission, then *)
(* assessCancellation for a cancellation, the driver's profile in the demo *)
(* and his assignment for an acceptance, and the transition.               *)
MayAct(u, b, r) ==
  /\ May(u, Permission(b))
  /\ b = "cancel" => Machine!PassengerMayCancel(rides[r])
  /\ b = "accept" => (live \/ u \in onDuty) /\ Machine!CanAssign(rides[r])
  /\ Machine!CanTransition(rides[r], Target(b), "other")

Acted(u, b, r) ==
  LET ride == IF b = "accept" THEN Machine!Assigned(rides[r], u) ELSE rides[r] IN
  Machine!Transitioned(ride, Target(b))

PageAfter(b) == IF b = "dispatch" THEN "ops" ELSE IF b = "accept" THEN "driver" ELSE "ride"

(* redirect() throws.  acceptRideAction and cancelRideAction redirect      *)
(* inside the try whose catch reports a failure, so theirs is caught.      *)
Notice(b, done) == IF done /\ b \notin {"accept", "cancel"} THEN "none" ELSE "failed"

SlipAudited(b, r, done) == IF b = "dispatch" THEN [dispatched EXCEPT ![r] = @ + 1] ELSE dispatched

(* manualDispatchAction appends to the trail when startMatching returned.  *)
Audited(b, r, done) ==
  IF b = "dispatch" /\ done THEN [dispatched EXCEPT ![r] = @ + 1] ELSE dispatched

SlipChanges(u, b, r) == rides' = [rides EXCEPT ![r] = Acted(u, b, r)] /\ Rerendered(u)

(* The ride is saved, then the change is broadcast.                        *)
Changes(u, b, r) == rides' = [rides EXCEPT ![r] = Acted(u, b, r)] /\ Broadcast(u, r)

Press(u, b, r) ==
  LET done == MayAct(u, b, r) IN
  /\ <<b, r>> \in tab[u].forms
  /\ \/ done /\ Changes(u, b, r)
     \/ ~ done /\ UNCHANGED rides /\ Rerendered(u)
  /\ dispatched' = Audited(b, r, done)
  /\ \E panel \in Remounted(u, PageAfter(b), rides') :
       Show(u, PageAfter(b), r, rides', Notice(b, done), panel)
  /\ UNCHANGED <<live, onDuty>>

PageNext ==
  \E u \in User :
    \/ \E r \in PageRide :
         \/ RequestRide(u, r) \/ Join(u, r) \/ Refresh(u, r)
         \/ \E page \in {"ride", "driver", "ops"} : Visit(u, page, r)
         \/ \E b \in Button : Press(u, b, r)
    \/ ToggleAvailability(u)

-----------------------------------------------------------------------------
(* Properties.                                                             *)

(* A button pressed on a page gone stale does nothing, unless a page       *)
(* rendered now would show it too; and whoever pressed one in vain is told.*)
StalePressIsHarmless ==
  [][\A u \in User, b \in Button, r \in PageRide :
       Press(u, b, r) =>
         IF rides' = rides THEN tab'[u].notice = "failed"
         ELSE <<b, r>> \in UNION {Forms(page, r, rides) : page \in {"ride", "driver", "ops"}}]_pageVars

(* u's panel shows every ride it lists as it is.                           *)
ShowsRides(u) ==
  \A r \in tab[u].listed : <<"dispatch", r>> \in tab[u].forms <=> r \in Waiting(rides)

(* A panel is current unless it has a broadcast to react to, or one about a*)
(* ride it lists was sent before it had joined the channel or did not reach*)
(* it: no other way leads to an old panel, whoever acts from which page.   *)
PanelIsCurrent ==
  live => \A u \in User \ (woken \cup missed) : ShowsRides(u)

(* What a page says and the code does not keep.                            *)

(* A panel that says it updates itself, and has nothing to react to, is    *)
(* current when no broadcast and no connection fails.                      *)
LivePanelIsCurrent ==
  \A u \in User \ woken : tab[u].claims => ShowsRides(u)

(* An error is shown only for a press that failed.                         *)
NoticeIsTrue ==
  [][rides' # rides => \A u \in User, b \in Button, r \in PageRide :
       Press(u, b, r) => tab'[u].notice = "none"]_pageVars
=============================================================================

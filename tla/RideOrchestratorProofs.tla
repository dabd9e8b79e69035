----------------------- MODULE RideOrchestratorProofs -----------------------
(***************************************************************************)
(* Proofs about RideOrchestrator, for any rides, drivers and number of     *)
(* overlapping calls: its types, its events and the gate of Pix rides.     *)
(***************************************************************************)
EXTENDS RideOrchestrator, TLAPS

(* A call in flight has a job; unless it still waits to save a new ride,   *)
(* its ride is stored; and from its load to its save it holds a ride.      *)
CallShape ==
  \A c \in Call :
    pc[c] # "idle" =>
      /\ job[c] \in Job
      /\ pc[c] # "route" => rides[job[c].ride] # NoRide
      /\ Live /\ pc[c] \in {"intents", "apply", "save"} => copy[c] # NoRide

TypeInv == TypeOK /\ CallShape

(* A ride that is there at first is one somebody just requested.           *)
LEMMA RidesAtFirst ==
  ASSUME Init, NEW r \in RideId, rides[r] # NoRide
  PROVE  /\ rides[r] = RequestedRide /\ been[r] = {"REQUESTED"}
         /\ RequestedRide \in RideRecord /\ RequestedRide.status = "REQUESTED"
         /\ RequestedRide.stamps = {} /\ RequestedRide.driver = NoDriver
  BY DEF Init, AtFirst, RequestedRide, RideRecord, RideStatus

LEMMA InitTypeInv == Init => TypeInv
<1> SUFFICES ASSUME Init PROVE TypeInv
  OBVIOUS
<1>1. /\ rides \in [RideId -> RideRecord \cup {NoRide}]
      /\ been \in [RideId -> SUBSET RideStatus]
  BY RidesAtFirst DEF Init, AtFirst, RideStatus
<1> QED
  BY <1>1 DEF Init, TypeInv, TypeOK, CallShape, PC

(* What one object's operations return is again a ride.                    *)
LEMMA RideOperations ==
  ASSUME NEW ride \in RideRecord, NEW to \in RideStatus,
         NEW d \in Driver \cup {NoDriver}
  PROVE  /\ Assigned(ride, d) \in RideRecord
         /\ Transitioned(ride, to) \in RideRecord
         /\ Transitioned(Assigned(ride, d), to) \in RideRecord
         /\ RequestedRide \in RideRecord
         /\ Assigned(ride, d).status = ride.status
         /\ Transitioned(ride, to).status = to
         /\ Transitioned(Assigned(ride, d), to).status = to
         /\ RequestedRide.status = "REQUESTED"
  BY DEF Assigned, Transitioned, RequestedRide, RideRecord, RideStatus, Stamped

(* A call that begins gets its arguments and its first stop; the others    *)
(* keep theirs.                                                            *)
LEMMA BeginStep ==
  ASSUME TypeOK, NEW c \in Call, NEW op \in Op, NEW r \in RideId,
         NEW d \in Driver \cup {NoDriver}, NEW to \in RideStatus,
         NEW trigger \in Trigger, NEW first \in PC,
         Begin(c, op, r, d, to, trigger, first)
  PROVE  /\ pc' \in [Call -> PC] /\ job' \in [Call -> Job \cup {NoJob}]
         /\ pc[c] = "idle" /\ pc'[c] = first
         /\ job'[c] \in Job
         /\ job'[c].op = op /\ job'[c].ride = r /\ job'[c].driver = d
         /\ job'[c].to = to
         /\ job'[c].announced = Published(r, "REQUESTED")
         /\ \A o \in Call \ {c} : pc'[o] = pc[o] /\ job'[o] = job[o]
<1> DEFINE new == [op |-> op, ride |-> r, driver |-> d, to |-> to,
                   trigger |-> trigger, announced |-> Published(r, "REQUESTED")]
<1>1. Published(r, "REQUESTED") \in BOOLEAN
  BY DEF Published
<1>2. /\ new \in Job
      /\ new.op = op /\ new.ride = r /\ new.driver = d /\ new.to = to
      /\ new.announced = Published(r, "REQUESTED")
  <2> DEFINE flag == Published(r, "REQUESTED")
  <2> HIDE DEF flag
  <2>1. flag \in BOOLEAN
    BY <1>1 DEF flag
  <2>2. [op |-> op, ride |-> r, driver |-> d, to |-> to, trigger |-> trigger,
         announced |-> flag] \in Job
    BY <2>1, Zenon DEF Job
  <2> QED
    BY <2>2, Zenon DEF flag
<1>3. job' = [job EXCEPT ![c] = new] /\ pc' = [pc EXCEPT ![c] = first] /\ pc[c] = "idle"
  BY DEF Begin
<1> HIDE DEF new
<1>4. job \in [Call -> Job \cup {NoJob}] /\ pc \in [Call -> PC]
  BY DEF TypeOK
<1> QED
  BY <1>2, <1>3, <1>4

LEMMA GotoStep ==
  ASSUME TypeOK, NEW c \in Call, NEW from \in PC, NEW to \in PC, Goto(c, from, to)
  PROVE  /\ pc' \in [Call -> PC] /\ job' \in [Call -> Job \cup {NoJob}]
         /\ pc[c] = from /\ pc'[c] = to
         /\ \A o \in Call \ {c} : pc'[o] = pc[o]
  BY DEF TypeOK, Goto

LEMMA EndStep ==
  ASSUME TypeOK, NEW c \in Call, End(c)
  PROVE  /\ pc' \in [Call -> PC] /\ job' \in [Call -> Job \cup {NoJob}]
         /\ copy' \in [Call -> RideRecord \cup {NoRide}]
         /\ seen' \in [Call -> IntentStatus \cup {"none"}]
         /\ pc'[c] = "idle"
         /\ \A o \in Call \ {c} :
              pc'[o] = pc[o] /\ job'[o] = job[o] /\ copy'[o] = copy[o]
  BY DEF TypeOK, End, PC

(* The repository after a save, and the object after a change.             *)
LEMMA PutStep ==
  ASSUME TypeOK, NEW r \in RideId, NEW value \in RideRecord, Put(r, value)
  PROVE  /\ rides' \in [RideId -> RideRecord \cup {NoRide}]
         /\ been' \in [RideId -> SUBSET RideStatus]
         /\ rides'[r] = value /\ been'[r] = been[r] \cup {value.status}
         /\ \A q \in RideId \ {r} : rides'[q] = rides[q] /\ been'[q] = been[q]
<1>1. value.status \in RideStatus
  BY DEF RideRecord
<1>2. rides \in [RideId -> RideRecord \cup {NoRide}] /\ been \in [RideId -> SUBSET RideStatus]
  BY DEF TypeOK
<1> QED
  BY <1>1, <1>2 DEF Put

(* What the five ways of beginning a call have in common, and the two      *)
(* kinds of first stop.                                                    *)
Begun(c, r) ==
  /\ pc' \in [Call -> PC] /\ job' \in [Call -> Job \cup {NoJob}]
  /\ copy' \in [Call -> RideRecord \cup {NoRide}]
  /\ pc[c] = "idle" /\ MayBegin(r)
  /\ job'[c] \in Job /\ job'[c].ride = r
  /\ job'[c].announced = Published(r, "REQUESTED")
  /\ job'[c].op = "accept" => job'[c].to = "ACCEPTED" /\ job'[c].driver \in Driver
  /\ job'[c].op # "accept" => job'[c].driver = NoDriver
  /\ job'[c].op = "cancel" =>
       job'[c].to = "CANCELLED" /\ pc'[c] = "reload" /\ PassengerMayCancel(rides[r])
  /\ \A o \in Call \ {c} : pc'[o] = pc[o] /\ job'[o] = job[o] /\ copy'[o] = copy[o]
  /\ UNCHANGED <<rides, intents, verified, tenantActive, seen, bus, been>>
  /\ \/ /\ pc'[c] = "route" /\ job'[c].op = "request" /\ job'[c].to = "REQUESTED"
        /\ rides[r] = NoRide
        /\ \A o \in Call : pc[o] # "idle" => job[o].ride # r
     \/ /\ pc'[c] \in {"intents", "apply", "reload"} /\ job'[c].op # "request"
        /\ job'[c].op = "match" <=> pc'[c] = "intents"
        /\ rides[r] # NoRide
        /\ pc'[c] # "reload" => copy'[c] = Loaded(r)

LEMMA BeginsStep ==
  ASSUME TypeInv, NEW c \in Call, CallBegins(c)
  PROVE  \E r \in RideId : Begun(c, r)
<1> USE OrchestratorAssumption
<1>1. ASSUME NEW r \in RideId, RequestRide(c, r) PROVE Begun(c, r)
  <2>1. Begin(c, "request", r, NoDriver, "REQUESTED", "other", "route")
    BY <1>1 DEF RequestRide
  <2>2. /\ TypeOK /\ "request" \in Op /\ NoDriver \in Driver \cup {NoDriver}
        /\ "REQUESTED" \in RideStatus /\ "other" \in Trigger /\ "route" \in PC
    BY DEF TypeInv, Op, RideStatus, Trigger, PC
  <2>3. /\ pc' \in [Call -> PC] /\ job' \in [Call -> Job \cup {NoJob}]
        /\ pc[c] = "idle" /\ pc'[c] = "route"
        /\ job'[c] \in Job
        /\ job'[c].op = "request" /\ job'[c].ride = r /\ job'[c].driver = NoDriver
        /\ job'[c].to = "REQUESTED"
        /\ job'[c].announced = Published(r, "REQUESTED")
        /\ \A o \in Call \ {c} : pc'[o] = pc[o] /\ job'[o] = job[o]
    BY <2>1, <2>2, BeginStep
  <2>4. MayBegin(r)
    BY <2>1 DEF Begin
  <2> QED
    BY <1>1, <2>2, <2>3, <2>4 DEF RequestRide, Begun, Loaded, TypeOK
<1>2. ASSUME NEW r \in RideId, StartMatching(c, r) PROVE Begun(c, r)
  <2>1. Begin(c, "match", r, NoDriver, "MATCHING", "other", "intents")
    BY <1>2 DEF StartMatching
  <2>2. /\ TypeOK /\ "match" \in Op /\ NoDriver \in Driver \cup {NoDriver}
        /\ "MATCHING" \in RideStatus /\ "other" \in Trigger /\ "intents" \in PC
    BY DEF TypeInv, Op, RideStatus, Trigger, PC
  <2>3. /\ pc' \in [Call -> PC] /\ job' \in [Call -> Job \cup {NoJob}]
        /\ pc[c] = "idle" /\ pc'[c] = "intents"
        /\ job'[c] \in Job
        /\ job'[c].op = "match" /\ job'[c].ride = r /\ job'[c].driver = NoDriver
        /\ job'[c].to = "MATCHING"
        /\ job'[c].announced = Published(r, "REQUESTED")
        /\ \A o \in Call \ {c} : pc'[o] = pc[o] /\ job'[o] = job[o]
    BY <2>1, <2>2, BeginStep
  <2>4. MayBegin(r)
    BY <2>1 DEF Begin
  <2> QED
    BY <1>2, <2>2, <2>3, <2>4 DEF StartMatching, Begun, Loaded, TypeOK
<1>3. ASSUME NEW r \in RideId, NEW d \in Driver, AcceptOffer(c, r, d) PROVE Begun(c, r)
  <2>1. Begin(c, "accept", r, d, "ACCEPTED", "other", "apply")
    BY <1>3 DEF AcceptOffer
  <2>2. /\ TypeOK /\ "accept" \in Op /\ d \in Driver \cup {NoDriver}
        /\ "ACCEPTED" \in RideStatus /\ "other" \in Trigger /\ "apply" \in PC
    BY DEF TypeInv, Op, RideStatus, Trigger, PC
  <2>3. /\ pc' \in [Call -> PC] /\ job' \in [Call -> Job \cup {NoJob}]
        /\ pc[c] = "idle" /\ pc'[c] = "apply"
        /\ job'[c] \in Job
        /\ job'[c].op = "accept" /\ job'[c].ride = r /\ job'[c].driver = d
        /\ job'[c].to = "ACCEPTED"
        /\ job'[c].announced = Published(r, "REQUESTED")
        /\ \A o \in Call \ {c} : pc'[o] = pc[o] /\ job'[o] = job[o]
    BY <2>1, <2>2, BeginStep
  <2>4. MayBegin(r)
    BY <2>1 DEF Begin
  <2> QED
    BY <1>3, <2>2, <2>3, <2>4 DEF AcceptOffer, Begun, Loaded, TypeOK
<1>4. ASSUME NEW r \in RideId, NEW to \in AdvanceTarget, NEW trigger \in AdvanceTrigger,
             AdvanceRide(c, r, to, trigger)
      PROVE Begun(c, r)
  <2>1. Begin(c, "advance", r, NoDriver, to, trigger, "apply")
    BY <1>4 DEF AdvanceRide
  <2>2. /\ TypeOK /\ "advance" \in Op /\ NoDriver \in Driver \cup {NoDriver}
        /\ to \in RideStatus /\ trigger \in Trigger /\ "apply" \in PC
    BY DEF TypeInv, Op, RideStatus, Trigger, PC
  <2>3. /\ pc' \in [Call -> PC] /\ job' \in [Call -> Job \cup {NoJob}]
        /\ pc[c] = "idle" /\ pc'[c] = "apply"
        /\ job'[c] \in Job
        /\ job'[c].op = "advance" /\ job'[c].ride = r /\ job'[c].driver = NoDriver
        /\ job'[c].to = to
        /\ job'[c].announced = Published(r, "REQUESTED")
        /\ \A o \in Call \ {c} : pc'[o] = pc[o] /\ job'[o] = job[o]
    BY <2>1, <2>2, BeginStep
  <2>4. MayBegin(r)
    BY <2>1 DEF Begin
  <2> QED
    BY <1>4, <2>2, <2>3, <2>4 DEF AdvanceRide, Begun, Loaded, TypeOK
<1>5. ASSUME NEW r \in RideId, CancelRide(c, r) PROVE Begun(c, r)
  <2>1. Begin(c, "cancel", r, NoDriver, "CANCELLED", "other", "reload")
    BY <1>5 DEF CancelRide
  <2>2. /\ TypeOK /\ "cancel" \in Op /\ NoDriver \in Driver \cup {NoDriver}
        /\ "CANCELLED" \in RideStatus /\ "other" \in Trigger /\ "reload" \in PC
    BY DEF TypeInv, Op, RideStatus, Trigger, PC
  <2>3. /\ pc' \in [Call -> PC] /\ job' \in [Call -> Job \cup {NoJob}]
        /\ pc[c] = "idle" /\ pc'[c] = "reload"
        /\ job'[c] \in Job
        /\ job'[c].op = "cancel" /\ job'[c].ride = r /\ job'[c].driver = NoDriver
        /\ job'[c].to = "CANCELLED"
        /\ job'[c].announced = Published(r, "REQUESTED")
        /\ \A o \in Call \ {c} : pc'[o] = pc[o] /\ job'[o] = job[o]
    BY <2>1, <2>2, BeginStep
  <2>4. MayBegin(r)
    BY <2>1 DEF Begin
  <2> QED
    BY <1>5, <2>2, <2>3, <2>4 DEF CancelRide, Begun, Loaded, TypeOK
<1> QED
  BY <1>1, <1>2, <1>3, <1>4, <1>5 DEF CallBegins

LEMMA TypeInvStep == TypeInv /\ [Next]_vars => TypeInv'
<1> SUFFICES ASSUME TypeInv, [Next]_vars PROVE TypeInv'
  OBVIOUS
<1> USE OrchestratorAssumption
<1>1. ASSUME NEW c \in Call, CallBegins(c) PROVE TypeInv'
  <2>1. PICK r \in RideId : Begun(c, r)
    BY <1>1, BeginsStep
  <2> QED
    BY <2>1 DEF Begun, Loaded, TypeInv, TypeOK, CallShape
<1>2. ASSUME NEW c \in Call, SaveNewRide(c) PROVE TypeInv'
  <2>1. /\ pc' \in [Call -> PC] /\ pc[c] = "route" /\ pc'[c] \in {"intent", "publish"}
        /\ \A o \in Call \ {c} : pc'[o] = pc[o]
    BY <1>2, GotoStep DEF SaveNewRide, TypeInv, PC
  <2>2. job[c] \in Job /\ job[c].ride \in RideId
    BY <2>1 DEF TypeInv, CallShape, Job
  <2>3. /\ rides' \in [RideId -> RideRecord \cup {NoRide}]
        /\ been' \in [RideId -> SUBSET RideStatus]
        /\ rides'[job[c].ride] # NoRide
        /\ \A q \in RideId : rides'[q] = rides[q] \/ rides'[q] # NoRide
    <3>1. RequestedRide \in RideRecord
      BY DEF RequestedRide, RideRecord, RideStatus
    <3>2. Put(job[c].ride, RequestedRide)
      BY <1>2 DEF SaveNewRide
    <3>3. TypeOK
      BY DEF TypeInv
    <3> QED
      BY <2>2, <3>1, <3>2, <3>3, PutStep
  <2> QED
    BY <1>2, <2>1, <2>2, <2>3 DEF SaveNewRide, Goto, TypeInv, TypeOK, CallShape, Job
<1>3. ASSUME NEW c \in Call, SaveIntent(c) PROVE TypeInv'
  BY <1>3 DEF SaveIntent, Goto, TypeInv, TypeOK, CallShape, Job, PC, IntentStatus
<1>4. ASSUME NEW c \in Call, FindIntents(c) PROVE TypeInv'
  BY <1>4 DEF FindIntents, Goto, TypeInv, TypeOK, CallShape, Job, PC
<1>5. ASSUME NEW c \in Call, Reload(c) PROVE TypeInv'
  <2>1. /\ pc' \in [Call -> PC] /\ pc[c] = "reload" /\ pc'[c] = "apply"
        /\ \A o \in Call \ {c} : pc'[o] = pc[o]
    BY <1>5, GotoStep DEF Reload, TypeInv, PC
  <2>2. job[c] \in Job /\ job[c].ride \in RideId /\ rides[job[c].ride] # NoRide
    BY <2>1 DEF TypeInv, CallShape, Job
  <2> QED
    BY <1>5, <2>1, <2>2 DEF Reload, Goto, Loaded, TypeInv, TypeOK, CallShape
<1>6. ASSUME NEW c \in Call, Transition(c) PROVE TypeInv'
  <2> DEFINE new == Transitioned(Held(c), job[c].to)
  <2>1. /\ pc' \in [Call -> PC] /\ pc[c] = "apply" /\ pc'[c] = "save"
        /\ \A o \in Call \ {c} : pc'[o] = pc[o]
    BY <1>6, GotoStep DEF Transition, TypeInv, PC
  <2>2. job[c] \in Job /\ job[c].ride \in RideId /\ Held(c) \in RideRecord
    BY <2>1 DEF TypeInv, TypeOK, CallShape, Job, Held
  <2>3. new \in RideRecord
    BY <2>2, RideOperations DEF Job, RideStatus
  <2>4. Mutate(c, new)
    BY <1>6 DEF Transition
  <2> HIDE DEF new
  <2>5. CASE Live
    BY <1>6, <2>1, <2>2, <2>3, <2>4, <2>5
    DEF Transition, Goto, Mutate, TypeInv, TypeOK, CallShape
  <2>6. CASE ~ Live
    <3>1. /\ rides' \in [RideId -> RideRecord \cup {NoRide}]
          /\ been' \in [RideId -> SUBSET RideStatus]
          /\ \A q \in RideId : rides'[q] = rides[q] \/ rides'[q] # NoRide
          /\ copy' = copy
      BY <2>2, <2>3, <2>4, <2>6, PutStep DEF Mutate, TypeInv
    <3> QED
      BY <1>6, <2>1, <2>2, <2>6, <3>1 DEF Transition, Goto, TypeInv, TypeOK, CallShape, Job
  <2> QED
    BY <2>5, <2>6
<1>7. ASSUME NEW c \in Call, Accept(c) PROVE TypeInv'
  <2> DEFINE new == Transitioned(Assigned(Held(c), job[c].driver), "ACCEPTED")
  <2>1. /\ pc' \in [Call -> PC] /\ pc[c] = "apply" /\ pc'[c] = "save"
        /\ \A o \in Call \ {c} : pc'[o] = pc[o]
    BY <1>7, GotoStep DEF Accept, TypeInv, PC
  <2>2. job[c] \in Job /\ job[c].ride \in RideId /\ Held(c) \in RideRecord
    BY <2>1 DEF TypeInv, TypeOK, CallShape, Job, Held
  <2>3. new \in RideRecord
    BY <2>2, RideOperations DEF Job, RideStatus
  <2>4. Mutate(c, new)
    BY <1>7 DEF Accept
  <2> HIDE DEF new
  <2>5. CASE Live
    BY <1>7, <2>1, <2>2, <2>3, <2>4, <2>5
    DEF Accept, Goto, Mutate, TypeInv, TypeOK, CallShape
  <2>6. CASE ~ Live
    <3>1. /\ rides' \in [RideId -> RideRecord \cup {NoRide}]
          /\ been' \in [RideId -> SUBSET RideStatus]
          /\ \A q \in RideId : rides'[q] = rides[q] \/ rides'[q] # NoRide
          /\ copy' = copy
      BY <2>2, <2>3, <2>4, <2>6, PutStep DEF Mutate, TypeInv
    <3> QED
      BY <1>7, <2>1, <2>2, <2>6, <3>1 DEF Accept, Goto, TypeInv, TypeOK, CallShape, Job
  <2> QED
    BY <2>5, <2>6
<1>8. ASSUME NEW c \in Call, AcceptFailsAfterAssignment(c) PROVE TypeInv'
  <2>1. job[c] \in Job /\ job[c].ride \in RideId /\ Held(c) \in RideRecord
    BY <1>8 DEF AcceptFailsAfterAssignment, TypeInv, TypeOK, CallShape, Job, Held
  <2>2. Assigned(Held(c), job[c].driver) \in RideRecord
    BY <2>1, RideOperations DEF Job, RideStatus
  <2>3. /\ rides' \in [RideId -> RideRecord \cup {NoRide}]
        /\ been' \in [RideId -> SUBSET RideStatus]
        /\ \A q \in RideId : rides'[q] = rides[q] \/ rides'[q] # NoRide
    BY <1>8, <2>1, <2>2, PutStep DEF AcceptFailsAfterAssignment, TypeInv, TypeOK
  <2> QED
    BY <1>8, <2>3, EndStep DEF AcceptFailsAfterAssignment, TypeInv, TypeOK, CallShape, Job
<1>9. ASSUME NEW c \in Call, Refuse(c) PROVE TypeInv'
  BY <1>9, EndStep DEF Refuse, TypeInv, TypeOK, CallShape
<1>10. ASSUME NEW c \in Call, Save(c) PROVE TypeInv'
  <2>1. /\ pc' \in [Call -> PC] /\ pc[c] = "save" /\ pc'[c] = "publish"
        /\ \A o \in Call \ {c} : pc'[o] = pc[o]
    BY <1>10, GotoStep DEF Save, TypeInv, PC
  <2>2. job[c] \in Job /\ job[c].ride \in RideId /\ (Live => copy[c] \in RideRecord)
    BY <2>1 DEF TypeInv, TypeOK, CallShape, Job
  <2>3. /\ rides' \in [RideId -> RideRecord \cup {NoRide}]
        /\ been' \in [RideId -> SUBSET RideStatus]
        /\ \A q \in RideId : rides'[q] = rides[q] \/ rides'[q] # NoRide
    BY <1>10, <2>2, PutStep DEF Save, TypeInv, TypeOK
  <2> QED
    BY <1>10, <2>1, <2>2, <2>3 DEF Save, Goto, TypeInv, TypeOK, CallShape, Job
<1>11. ASSUME NEW c \in Call, Publish(c) PROVE TypeInv'
  BY <1>11, EndStep DEF Publish, TypeInv, TypeOK, CallShape, Job, Event
<1>12. ASSUME NEW c \in Call, Fail(c) PROVE TypeInv'
  BY <1>12, EndStep DEF Fail, TypeInv, TypeOK, CallShape
<1>13. ASSUME Environment PROVE TypeInv'
  <2>1. UNCHANGED <<rides, pc, job, copy, seen, bus, been>>
    BY <1>13 DEF Environment, IntentMoves, ProfileChanges, TenantLeavesActive
  <2>2. intents' \in [RideId -> IntentStatus \cup {"none"}]
    BY <1>13 DEF Environment, IntentMoves, ProfileChanges, TenantLeavesActive, TypeInv, TypeOK
  <2>3. verified' \subseteq Driver /\ tenantActive' \in BOOLEAN
    BY <1>13 DEF Environment, IntentMoves, ProfileChanges, TenantLeavesActive, TypeInv, TypeOK
  <2> QED
    BY <2>1, <2>2, <2>3 DEF TypeInv, TypeOK, CallShape
<1>14. CASE UNCHANGED vars
  BY <1>14 DEF vars, TypeInv, TypeOK, CallShape
<1> QED
  BY <1>1, <1>2, <1>3, <1>4, <1>5, <1>6, <1>7, <1>8,
     <1>9, <1>10, <1>11, <1>12, <1>13, <1>14
  DEF Next, CallContinues

LEMMA TypeInvariant == Spec => []TypeInv
  BY InitTypeInv, TypeInvStep, PTL DEF Spec

(* Every state a handler can leave behind is well typed, in both runtimes. *)
THEOREM TypeCorrect == Spec => []TypeOK
<1>1. TypeInv => TypeOK
  BY DEF TypeInv
<1> QED
  BY <1>1, TypeInvariant, PTL

-----------------------------------------------------------------------------
(* Publish after save.                                                     *)

(* What a call is about to publish was saved, or is in the object it is    *)
(* about to save.                                                          *)
AboutToPublish(c) ==
  pc[c] # "idle" =>
    /\ pc[c] \in {"route", "intent"} => job[c].to = "REQUESTED"
    /\ job[c].op = "accept" => job[c].to = "ACCEPTED"
    /\ pc[c] \in {"intent", "publish"} => job[c].to \in been[job[c].ride]
    /\ pc[c] = "save" =>
         IF Live THEN copy[c].status = job[c].to
                 ELSE job[c].to \in been[job[c].ride]

PublishInv == PublishedWasHeld /\ \A c \in Call : AboutToPublish(c)

(* A step that leaves the bus and all calls but c alone, and forgets no    *)
(* history, has only to be checked for c.                                  *)
LEMMA PublishFrame ==
  ASSUME TypeInv, PublishInv, TypeInv', bus' = bus,
         \A q \in RideId : been[q] \subseteq been'[q],
         NEW c \in Call,
         \A o \in Call \ {c} : pc'[o] = pc[o] /\ job'[o] = job[o] /\ copy'[o] = copy[o],
         AboutToPublish(c)'
  PROVE  PublishInv'
<1>1. PublishedWasHeld'
  BY DEF PublishInv, PublishedWasHeld, TypeInv, TypeOK, Event
<1>2. ASSUME NEW o \in Call \ {c} PROVE AboutToPublish(o)'
  BY <1>2 DEF PublishInv, AboutToPublish, TypeInv, CallShape, Job
<1> QED
  BY <1>1, <1>2 DEF PublishInv

LEMMA MutateStep ==
  ASSUME TypeOK, NEW c \in Call, job[c] \in Job, NEW new \in RideRecord, Mutate(c, new)
  PROVE  /\ Live => rides' = rides /\ been' = been /\ copy'[c] = new
         /\ ~ Live => /\ copy' = copy
                      /\ rides'[job[c].ride] = new
                      /\ been'[job[c].ride] = been[job[c].ride] \cup {new.status}
         /\ \A o \in Call \ {c} : copy'[o] = copy[o]
         /\ \A q \in RideId \ {job[c].ride} : rides'[q] = rides[q] /\ been'[q] = been[q]
         /\ \A q \in RideId : been[q] \subseteq been'[q]
<1>1. CASE Live
  BY <1>1 DEF Mutate, TypeOK
<1>2. CASE ~ Live
  BY <1>2, PutStep DEF Mutate, Job
<1> QED
  BY <1>1, <1>2

LEMMA PublishInvStep == TypeInv /\ TypeInv' /\ PublishInv /\ [Next]_vars => PublishInv'
<1> SUFFICES ASSUME TypeInv, TypeInv', PublishInv, [Next]_vars PROVE PublishInv'
  OBVIOUS
<1> USE OrchestratorAssumption
<1>1. ASSUME NEW c \in Call, CallBegins(c) PROVE PublishInv'
  <2>1. PICK r \in RideId : Begun(c, r)
    BY <1>1, BeginsStep
  <2>2. AboutToPublish(c)'
    BY <2>1 DEF Begun, AboutToPublish
  <2> QED
    BY <2>1, <2>2, PublishFrame DEF Begun
<1>2. ASSUME NEW c \in Call, SaveNewRide(c) PROVE PublishInv'
  <2>1. /\ pc[c] = "route" /\ pc'[c] \in {"intent", "publish"} /\ job' = job /\ bus' = bus
        /\ \A o \in Call \ {c} : pc'[o] = pc[o] /\ copy'[o] = copy[o]
    BY <1>2 DEF SaveNewRide, Goto, TypeInv, TypeOK, PC
  <2>2. TypeOK /\ job[c] \in Job /\ job[c].ride \in RideId /\ job[c].to = "REQUESTED"
    BY <2>1 DEF TypeInv, CallShape, Job, PublishInv, AboutToPublish
  <2>3. RequestedRide \in RideRecord /\ RequestedRide.status = "REQUESTED"
    BY DEF RequestedRide, RideRecord, RideStatus
  <2>4. Put(job[c].ride, RequestedRide)
    BY <1>2 DEF SaveNewRide
  <2>5. /\ been'[job[c].ride] = been[job[c].ride] \cup {"REQUESTED"}
        /\ \A q \in RideId : been[q] \subseteq been'[q]
    BY <2>2, <2>3, <2>4, PutStep
  <2>6. AboutToPublish(c)'
    BY <2>1, <2>2, <2>5 DEF PublishInv, AboutToPublish
  <2> QED
    BY <2>1, <2>5, <2>6, PublishFrame
<1>3. ASSUME NEW c \in Call, SaveIntent(c) PROVE PublishInv'
  <2>1. /\ pc[c] = "intent" /\ pc'[c] = "publish" /\ job' = job /\ bus' = bus /\ been' = been
        /\ \A o \in Call \ {c} : pc'[o] = pc[o] /\ copy'[o] = copy[o]
    BY <1>3 DEF SaveIntent, Goto, TypeInv, TypeOK, PC
  <2>2. AboutToPublish(c)'
    BY <2>1 DEF PublishInv, AboutToPublish
  <2> QED
    BY <2>1, <2>2, PublishFrame
<1>4. ASSUME NEW c \in Call, FindIntents(c) PROVE PublishInv'
  <2>1. /\ pc[c] = "intents" /\ pc'[c] = "apply" /\ job' = job /\ bus' = bus /\ been' = been
        /\ \A o \in Call \ {c} : pc'[o] = pc[o] /\ copy'[o] = copy[o]
    BY <1>4 DEF FindIntents, Goto, TypeInv, TypeOK, PC
  <2>2. AboutToPublish(c)'
    BY <2>1 DEF PublishInv, AboutToPublish
  <2> QED
    BY <2>1, <2>2, PublishFrame
<1>5. ASSUME NEW c \in Call, Reload(c) PROVE PublishInv'
  <2>1. /\ pc[c] = "reload" /\ pc'[c] = "apply" /\ job' = job /\ bus' = bus /\ been' = been
        /\ \A o \in Call \ {c} : pc'[o] = pc[o] /\ copy'[o] = copy[o]
    BY <1>5 DEF Reload, Goto, TypeInv, TypeOK, PC
  <2>2. AboutToPublish(c)'
    BY <2>1 DEF PublishInv, AboutToPublish
  <2> QED
    BY <2>1, <2>2, PublishFrame
<1>6. ASSUME NEW c \in Call, Transition(c) PROVE PublishInv'
  <2> DEFINE new == Transitioned(Held(c), job[c].to)
  <2>1. /\ pc[c] = "apply" /\ pc'[c] = "save" /\ job' = job /\ bus' = bus
        /\ \A o \in Call \ {c} : pc'[o] = pc[o]
    BY <1>6 DEF Transition, Goto, TypeInv, TypeOK, PC
  <2>2. TypeOK /\ job[c] \in Job /\ Held(c) \in RideRecord
    BY <2>1 DEF TypeInv, TypeOK, CallShape, Job, Held
  <2>3. new \in RideRecord /\ new.status = job[c].to
    BY <1>6, <2>1, <2>2, RideOperations DEF Transition, Job, RideStatus, PublishInv, AboutToPublish
  <2>4. Mutate(c, new)
    BY <1>6 DEF Transition
  <2> HIDE DEF new
  <2>5. /\ Live => copy'[c] = new
        /\ ~ Live => been'[job[c].ride] = been[job[c].ride] \cup {new.status}
        /\ \A o \in Call \ {c} : copy'[o] = copy[o]
        /\ \A q \in RideId : been[q] \subseteq been'[q]
    BY <2>2, <2>3, <2>4, MutateStep
  <2>6. AboutToPublish(c)'
    BY <2>1, <2>3, <2>5 DEF PublishInv, AboutToPublish
  <2> QED
    BY <2>1, <2>5, <2>6, PublishFrame
<1>7. ASSUME NEW c \in Call, Accept(c) PROVE PublishInv'
  <2> DEFINE new == Transitioned(Assigned(Held(c), job[c].driver), "ACCEPTED")
  <2>1. /\ pc[c] = "apply" /\ pc'[c] = "save" /\ job' = job /\ bus' = bus
        /\ \A o \in Call \ {c} : pc'[o] = pc[o]
    BY <1>7 DEF Accept, Goto, TypeInv, TypeOK, PC
  <2>2. TypeOK /\ job[c] \in Job /\ Held(c) \in RideRecord
    BY <2>1 DEF TypeInv, TypeOK, CallShape, Job, Held
  <2>3. new \in RideRecord /\ new.status = job[c].to
    BY <1>7, <2>1, <2>2, RideOperations DEF Accept, Job, RideStatus, PublishInv, AboutToPublish
  <2>4. Mutate(c, new)
    BY <1>7 DEF Accept
  <2> HIDE DEF new
  <2>5. /\ Live => copy'[c] = new
        /\ ~ Live => been'[job[c].ride] = been[job[c].ride] \cup {new.status}
        /\ \A o \in Call \ {c} : copy'[o] = copy[o]
        /\ \A q \in RideId : been[q] \subseteq been'[q]
    BY <2>2, <2>3, <2>4, MutateStep
  <2>6. AboutToPublish(c)'
    BY <2>1, <2>3, <2>5 DEF PublishInv, AboutToPublish
  <2> QED
    BY <2>1, <2>5, <2>6, PublishFrame
<1>8. ASSUME NEW c \in Call, AcceptFailsAfterAssignment(c) PROVE PublishInv'
  <2>1. /\ pc'[c] = "idle" /\ bus' = bus
        /\ \A o \in Call \ {c} : pc'[o] = pc[o] /\ job'[o] = job[o] /\ copy'[o] = copy[o]
    BY <1>8, EndStep DEF AcceptFailsAfterAssignment, TypeInv
  <2>2. \A q \in RideId : been[q] \subseteq been'[q]
    BY <1>8 DEF AcceptFailsAfterAssignment, Put, TypeInv, TypeOK
  <2> QED
    BY <2>1, <2>2, PublishFrame DEF AboutToPublish
<1>9. ASSUME NEW c \in Call, Refuse(c) PROVE PublishInv'
  <2>1. /\ pc'[c] = "idle" /\ bus' = bus /\ been' = been
        /\ \A o \in Call \ {c} : pc'[o] = pc[o] /\ job'[o] = job[o] /\ copy'[o] = copy[o]
    BY <1>9, EndStep DEF Refuse, TypeInv
  <2> QED
    BY <2>1, PublishFrame DEF AboutToPublish
<1>10. ASSUME NEW c \in Call, Save(c) PROVE PublishInv'
  <2>1. /\ pc[c] = "save" /\ pc'[c] = "publish" /\ job' = job /\ bus' = bus /\ copy' = copy
        /\ \A o \in Call \ {c} : pc'[o] = pc[o]
    BY <1>10 DEF Save, Goto, TypeInv, TypeOK, PC
  <2>2. TypeOK /\ job[c].ride \in RideId /\ (Live => copy[c] \in RideRecord)
    BY <2>1 DEF TypeInv, TypeOK, CallShape, Job
  <2>3. /\ Live => been'[job[c].ride] = been[job[c].ride] \cup {copy[c].status}
        /\ ~ Live => been' = been
        /\ \A q \in RideId : been[q] \subseteq been'[q]
    BY <1>10, <2>2, PutStep DEF Save
  <2>4. AboutToPublish(c)'
    BY <2>1, <2>3 DEF PublishInv, AboutToPublish
  <2> QED
    BY <2>1, <2>3, <2>4, PublishFrame
<1>11. ASSUME NEW c \in Call, Publish(c) PROVE PublishInv'
  <2>1. /\ pc[c] = "publish" /\ pc'[c] = "idle" /\ been' = been
        /\ \A o \in Call \ {c} : pc'[o] = pc[o] /\ job'[o] = job[o] /\ copy'[o] = copy[o]
    BY <1>11, EndStep DEF Publish, TypeInv
  <2>2. \A o \in Call : AboutToPublish(o)'
    BY <2>1 DEF PublishInv, AboutToPublish
  <2>3. PublishedWasHeld'
    BY <1>11, <2>1 DEF Publish, PublishInv, PublishedWasHeld, AboutToPublish
  <2> QED
    BY <2>2, <2>3 DEF PublishInv
<1>12. ASSUME NEW c \in Call, Fail(c) PROVE PublishInv'
  <2>1. /\ pc'[c] = "idle" /\ bus' = bus /\ been' = been
        /\ \A o \in Call \ {c} : pc'[o] = pc[o] /\ job'[o] = job[o] /\ copy'[o] = copy[o]
    BY <1>12, EndStep DEF Fail, TypeInv
  <2> QED
    BY <2>1, PublishFrame DEF AboutToPublish
<1>13. CASE Environment \/ UNCHANGED vars
  <2>1. UNCHANGED <<pc, job, copy, bus, been>>
    BY <1>13 DEF Environment, IntentMoves, ProfileChanges, TenantLeavesActive, vars
  <2> QED
    BY <2>1 DEF PublishInv, PublishedWasHeld, AboutToPublish
<1> QED
  BY <1>1, <1>2, <1>3, <1>4, <1>5, <1>6, <1>7, <1>8,
     <1>9, <1>10, <1>11, <1>12, <1>13
  DEF Next, CallContinues

(* No event reports a status the repository never held, whatever fails and *)
(* however the handlers interleave: every handler saves before it emits,   *)
(* and the status it emits is the one it saved.                            *)
THEOREM PublishedIsHeld == Spec => []PublishedWasHeld
<1>1. Init => PublishInv
  BY DEF Init, PublishInv, PublishedWasHeld, AboutToPublish
<1>2. Spec => []PublishInv
  BY <1>1, PublishInvStep, TypeInvariant, PTL DEF Spec
<1>3. PublishInv => PublishedWasHeld
  BY DEF PublishInv
<1> QED
  BY <1>2, <1>3, PTL

-----------------------------------------------------------------------------
(* The Pix gate.  A ride is saved before its payment intent, so a Pix ride *)
(* without an intent passes the gate of startMatching; but only while      *)
(* ride.requested has not been published.  From then on the intent exists, *)
(* and the ride is dispatched only when it was paid.  This holds in both   *)
(* runtimes, with any overlap of calls and any failure.                    *)

Requesting == {"route", "intent"}

(* At most one call creates a ride's intent, and until it does there is    *)
(* none.                                                                   *)
CreatesIntent(c) ==
  pc[c] \in Requesting =>
    /\ intents[job[c].ride] = "none"
    /\ \A o \in Call \ {c} :
         pc[o] \in Requesting \/ (pc[c] = "route" /\ pc[o] # "idle")
           => job[o].ride # job[c].ride
    /\ pc[c] = "route" => rides[job[c].ride] = NoRide

Announces(c) ==
  /\ pc[c] = "save" => job[c].to # "REQUESTED"
  /\ pc[c] # "idle" /\ job[c].op = "accept" => job[c].to # "REQUESTED"
  /\ pc[c] = "publish" /\ job[c].to = "REQUESTED" /\ job[c].ride \in PixRide
       => intents[job[c].ride] # "none"

(* What a matching call on an announced Pix ride knows.                    *)
Gated(c) ==
  /\ pc[c] = "reload" => job[c].op # "match"
  /\ pc[c] # "idle" /\ job[c].announced /\ job[c].ride \in PixRide =>
       /\ intents[job[c].ride] # "none"
       /\ job[c].op = "match" /\ pc[c] = "apply" =>
            /\ seen[c] # "none"
            /\ seen[c] = "paid" => intents[job[c].ride] \in EverPaid
       /\ job[c].op = "match" /\ pc[c] = "save" => intents[job[c].ride] \in EverPaid

PixRides ==
  /\ \A r \in RideId : rides[r] = NoRide => intents[r] = "none"
  /\ \A r \in PixRide : Published(r, "REQUESTED") => intents[r] # "none"

PixInv == PixRides /\ \A c \in Call : CreatesIntent(c) /\ Announces(c) /\ Gated(c)

(* A call that goes on has only to be checked for itself.                  *)
LEMMA PixFrame ==
  ASSUME TypeInv, PixInv, NEW c \in Call, pc[c] # "idle",
         pc'[c] = "idle" \/ job'[c] = job[c],
         pc'[c] \in Requesting => pc[c] \in Requesting,
         pc'[c] # "route",
         \A o \in Call \ {c} : pc'[o] = pc[o] /\ job'[o] = job[o] /\ seen'[o] = seen[o],
         intents' = intents \/ pc[c] = "intent",
         intents'[job[c].ride] # "none" \/ intents' = intents,
         \A q \in RideId \ {job[c].ride} : intents'[q] = intents[q] /\ rides'[q] = rides[q],
         bus' = bus,
         rides'[job[c].ride] # NoRide \/ (rides' = rides /\ intents' = intents),
         CreatesIntent(c)', Announces(c)', Gated(c)'
  PROVE  PixInv'
<1>1. job[c].ride \in RideId
  BY DEF TypeInv, CallShape, Job
<1>2. \A q \in RideId : intents[q] # "none" => intents'[q] = intents[q]
  BY <1>1 DEF PixInv, CreatesIntent, Requesting
<1>3. PixRides'
  BY <1>1, <1>2, OrchestratorAssumption DEF PixInv, PixRides, Published
<1>4. ASSUME NEW o \in Call \ {c}
      PROVE  CreatesIntent(o)' /\ Announces(o)' /\ Gated(o)'
  <2>1. pc[o] # "idle" => job[o].ride \in RideId
    BY DEF TypeInv, CallShape, Job
  <2>2. CreatesIntent(o)'
    BY <2>1 DEF PixInv, CreatesIntent, Requesting
  <2>3. Announces(o)'
    BY <1>2, <2>1 DEF PixInv, Announces
  <2>4. Gated(o)'
    BY <1>2, <2>1 DEF PixInv, Gated, EverPaid
  <2> QED
    BY <2>2, <2>3, <2>4
<1> QED
  BY <1>3, <1>4 DEF PixInv

LEMMA PixInvStep == TypeInv /\ PixInv /\ [Next]_vars => PixInv'
<1> SUFFICES ASSUME TypeInv, PixInv, [Next]_vars PROVE PixInv'
  OBVIOUS
<1> USE OrchestratorAssumption
<1>1. ASSUME NEW c \in Call, CallBegins(c) PROVE PixInv'
  <2>1. PICK r \in RideId : Begun(c, r)
    BY <1>1, BeginsStep
  <2>2. CreatesIntent(c)' /\ Announces(c)'
    BY <2>1 DEF Begun, PixInv, PixRides, CreatesIntent, Announces, Requesting
  <2>3. Gated(c)'
    BY <2>1 DEF Begun, PixInv, PixRides, Gated
  <2>4. ASSUME NEW o \in Call \ {c}
        PROVE CreatesIntent(o)' /\ Announces(o)' /\ Gated(o)'
    <3>1. CreatesIntent(o)'
      BY <2>1 DEF Begun, PixInv, CreatesIntent, Requesting
    <3>2. Announces(o)' /\ Gated(o)'
      BY <2>1 DEF Begun, PixInv, Announces, Gated
    <3> QED
      BY <3>1, <3>2
  <2>5. PixRides'
    BY <2>1 DEF Begun, PixInv, PixRides, Published
  <2> QED
    BY <2>2, <2>3, <2>4, <2>5 DEF PixInv
<1>2. ASSUME NEW c \in Call, SaveNewRide(c) PROVE PixInv'
  <2>1. /\ pc[c] = "route" /\ job' = job /\ bus' = bus /\ intents' = intents /\ seen' = seen
        /\ pc'[c] = (IF job[c].ride \in PixRide THEN "intent" ELSE "publish")
        /\ \A o \in Call \ {c} : pc'[o] = pc[o]
    BY <1>2 DEF SaveNewRide, Goto, TypeInv, TypeOK
  <2>2. /\ rides'[job[c].ride] # NoRide
        /\ \A q \in RideId \ {job[c].ride} : rides'[q] = rides[q]
    <3>1. TypeOK /\ job[c].ride \in RideId
      BY <2>1 DEF TypeInv, CallShape, Job
    <3>2. RequestedRide \in RideRecord /\ Put(job[c].ride, RequestedRide)
      BY <1>2 DEF SaveNewRide, RequestedRide, RideRecord, RideStatus
    <3> QED
      BY <3>1, <3>2, PutStep
  <2>3. CreatesIntent(c)' /\ Announces(c)' /\ Gated(c)'
    BY <2>1 DEF PixInv, CreatesIntent, Announces, Gated, Requesting
  <2> QED
    BY <2>1, <2>2, <2>3, PixFrame DEF Requesting
<1>3. ASSUME NEW c \in Call, SaveIntent(c) PROVE PixInv'
  <2>1. /\ pc[c] = "intent" /\ pc'[c] = "publish" /\ job' = job /\ bus' = bus /\ seen' = seen
        /\ rides' = rides
        /\ \A o \in Call \ {c} : pc'[o] = pc[o]
    BY <1>3 DEF SaveIntent, Goto, TypeInv, TypeOK
  <2>2. rides[job[c].ride] # NoRide /\ job[c].ride \in RideId
    BY <2>1 DEF TypeInv, CallShape, Job
  <2>3. /\ intents'[job[c].ride] = "pending"
        /\ \A q \in RideId \ {job[c].ride} : intents'[q] = intents[q]
    BY <1>3, <2>2 DEF SaveIntent, TypeInv, TypeOK
  <2>4. CreatesIntent(c)' /\ Announces(c)' /\ Gated(c)'
    BY <2>1, <2>3 DEF PixInv, CreatesIntent, Announces, Gated, Requesting
  <2> QED
    BY <2>1, <2>2, <2>3, <2>4, PixFrame DEF Requesting
<1>4. ASSUME NEW c \in Call, FindIntents(c) PROVE PixInv'
  <2>1. /\ pc[c] = "intents" /\ pc'[c] = "apply" /\ job' = job /\ bus' = bus
        /\ rides' = rides /\ intents' = intents /\ seen'[c] = intents[job[c].ride]
        /\ \A o \in Call \ {c} : pc'[o] = pc[o] /\ seen'[o] = seen[o]
    BY <1>4 DEF FindIntents, Goto, TypeInv, TypeOK
  <2>2. CreatesIntent(c)' /\ Announces(c)' /\ Gated(c)'
    BY <2>1 DEF PixInv, CreatesIntent, Announces, Gated, Requesting, EverPaid
  <2> QED
    BY <2>1, <2>2, PixFrame DEF Requesting
<1>5. ASSUME NEW c \in Call, Reload(c) PROVE PixInv'
  <2>1. /\ pc[c] = "reload" /\ pc'[c] = "apply" /\ job' = job /\ bus' = bus
        /\ rides' = rides /\ intents' = intents /\ seen' = seen
        /\ \A o \in Call \ {c} : pc'[o] = pc[o]
    BY <1>5 DEF Reload, Goto, TypeInv, TypeOK
  <2>2. CreatesIntent(c)' /\ Announces(c)' /\ Gated(c)'
    BY <2>1 DEF PixInv, CreatesIntent, Announces, Gated, Requesting
  <2> QED
    BY <2>1, <2>2, PixFrame DEF Requesting
<1>6. ASSUME NEW c \in Call, Transition(c) \/ Accept(c) PROVE PixInv'
  <2>1. /\ pc[c] = "apply" /\ pc'[c] = "save" /\ job' = job /\ bus' = bus
        /\ intents' = intents /\ seen' = seen
        /\ \A o \in Call \ {c} : pc'[o] = pc[o]
    BY <1>6 DEF Transition, Accept, Goto, TypeInv, TypeOK
  <2>2. TypeOK /\ job[c] \in Job /\ job[c].ride \in RideId /\ Held(c) \in RideRecord
    BY <2>1 DEF TypeInv, TypeOK, CallShape, Job, Held
  <2>3. \E new \in RideRecord : Mutate(c, new)
    <3>1. "ACCEPTED" \in RideStatus /\ job[c].to \in RideStatus
          /\ job[c].driver \in Driver \cup {NoDriver}
      BY <2>2 DEF Job, RideStatus
    <3>2. /\ Transitioned(Held(c), job[c].to) \in RideRecord
          /\ Transitioned(Assigned(Held(c), job[c].driver), "ACCEPTED") \in RideRecord
      BY <2>2, <3>1, RideOperations
    <3> QED
      BY <1>6, <3>2 DEF Transition, Accept
  <2>4. /\ rides'[job[c].ride] # NoRide
        /\ \A q \in RideId \ {job[c].ride} : rides'[q] = rides[q]
    <3>1. rides[job[c].ride] # NoRide
      BY <2>1 DEF TypeInv, CallShape
    <3> QED
      BY <2>2, <2>3, <3>1, MutateStep
  <2>5. job[c].to # "REQUESTED"
    <3>1. <<Held(c).status, job[c].to>> \in Edge \/ job[c].op = "accept"
      BY <1>6 DEF Transition, Accept, CanTransition
    <3>2. \A s : <<s, "REQUESTED">> \notin Edge
      BY DEF Edge
    <3>3. job[c].op = "accept" => job[c].to # "REQUESTED"
      BY <2>1 DEF PixInv, Announces
    <3> QED
      BY <3>1, <3>2, <3>3
  <2>6. CreatesIntent(c)' /\ Announces(c)' /\ Gated(c)'
    <3>1. job[c].op = "match" => SeenIntent(c) \in {"none", "paid"}
      BY <1>6 DEF Transition, Accept, PixGate
    <3>2. SeenIntent(c) = "paid" => seen[c] = "paid" \/ intents[job[c].ride] = "paid"
      BY DEF SeenIntent
    <3>3. seen[c] # "none" => SeenIntent(c) = seen[c] \/ SeenIntent(c) = intents[job[c].ride]
      BY DEF SeenIntent
    <3> QED
      BY <2>1, <2>5, <3>1, <3>2, <3>3
      DEF PixInv, CreatesIntent, Announces, Gated, Requesting, EverPaid
  <2> QED
    BY <2>1, <2>4, <2>6, PixFrame DEF Requesting
<1>7. ASSUME NEW c \in Call, AcceptFailsAfterAssignment(c) PROVE PixInv'
  <2>1. /\ pc[c] = "apply" /\ pc'[c] = "idle" /\ bus' = bus /\ intents' = intents
        /\ \A o \in Call \ {c} : pc'[o] = pc[o] /\ job'[o] = job[o] /\ seen'[o] = seen[o]
    BY <1>7 DEF AcceptFailsAfterAssignment, End, TypeInv, TypeOK
  <2>2. /\ TypeOK /\ job[c] \in Job /\ job[c].ride \in RideId /\ Held(c) \in RideRecord
        /\ rides[job[c].ride] # NoRide
    BY <2>1 DEF TypeInv, TypeOK, CallShape, Job, Held
  <2>3. /\ rides'[job[c].ride] # NoRide
        /\ \A q \in RideId \ {job[c].ride} : rides'[q] = rides[q]
    <3>1. Assigned(Held(c), job[c].driver) \in RideRecord
      BY <2>2 DEF Assigned, RideRecord, Job
    <3> QED
      BY <1>7, <2>2, <3>1, PutStep DEF AcceptFailsAfterAssignment
  <2>4. CreatesIntent(c)' /\ Announces(c)' /\ Gated(c)'
    BY <2>1 DEF CreatesIntent, Announces, Gated, Requesting
  <2> QED
    BY <2>1, <2>3, <2>4, PixFrame DEF Requesting
<1>8. ASSUME NEW c \in Call, Refuse(c) \/ Fail(c) PROVE PixInv'
  <2>1. /\ pc[c] # "idle" /\ pc'[c] = "idle" /\ bus' = bus /\ intents' = intents /\ rides' = rides
        /\ \A o \in Call \ {c} : pc'[o] = pc[o] /\ job'[o] = job[o] /\ seen'[o] = seen[o]
    BY <1>8 DEF Refuse, Fail, End, TypeInv, TypeOK
  <2>2. CreatesIntent(c)' /\ Announces(c)' /\ Gated(c)'
    BY <2>1 DEF CreatesIntent, Announces, Gated, Requesting
  <2> QED
    BY <2>1, <2>2, PixFrame DEF Requesting
<1>9. ASSUME NEW c \in Call, Save(c) PROVE PixInv'
  <2>1. /\ pc[c] = "save" /\ pc'[c] = "publish" /\ job' = job /\ bus' = bus
        /\ intents' = intents /\ seen' = seen
        /\ \A o \in Call \ {c} : pc'[o] = pc[o]
    BY <1>9 DEF Save, Goto, TypeInv, TypeOK
  <2>2. /\ TypeOK /\ job[c].ride \in RideId /\ rides[job[c].ride] # NoRide
        /\ Live => copy[c] \in RideRecord
    BY <2>1 DEF TypeInv, TypeOK, CallShape, Job
  <2>3. /\ rides'[job[c].ride] # NoRide
        /\ \A q \in RideId \ {job[c].ride} : rides'[q] = rides[q]
    BY <1>9, <2>2, PutStep DEF Save
  <2>4. CreatesIntent(c)' /\ Announces(c)' /\ Gated(c)'
    BY <2>1 DEF PixInv, CreatesIntent, Announces, Gated, Requesting
  <2> QED
    BY <2>1, <2>3, <2>4, PixFrame DEF Requesting
<1>10. ASSUME NEW c \in Call, Publish(c) PROVE PixInv'
  <2>1. /\ pc[c] = "publish" /\ pc'[c] = "idle" /\ intents' = intents /\ rides' = rides
        /\ \A o \in Call \ {c} : pc'[o] = pc[o] /\ job'[o] = job[o] /\ seen'[o] = seen[o]
    BY <1>10 DEF Publish, End, TypeInv, TypeOK
  <2>2. \A o \in Call : CreatesIntent(o)' /\ Announces(o)' /\ Gated(o)'
    BY <2>1 DEF PixInv, CreatesIntent, Announces, Gated, Requesting
  <2>3. PixRides'
    BY <1>10, <2>1 DEF Publish, PixInv, PixRides, Published, Announces
  <2> QED
    BY <2>2, <2>3 DEF PixInv
<1>11. ASSUME NEW r \in RideId, IntentMoves(r) PROVE PixInv'
  <2>1. PICK status \in IntentStatus :
          <<intents[r], status>> \in IntentEdge /\ intents' = [intents EXCEPT ![r] = status]
    BY <1>11 DEF IntentMoves
  <2>2. intents[r] # "none" /\ (intents[r] \in EverPaid => status \in EverPaid)
    BY <2>1 DEF IntentEdge, Applies, EverPaid, IntentStatus, ProviderStatus
  <2>3. status # "none"
    BY DEF IntentStatus
  <2>4. /\ \A q \in RideId \ {r} : intents'[q] = intents[q]
        /\ intents'[r] = status
        /\ UNCHANGED <<rides, pc, job, seen, bus>>
    BY <1>11, <2>1 DEF IntentMoves, TypeInv, TypeOK
  <2>5. PixRides'
    BY <2>2, <2>3, <2>4 DEF PixInv, PixRides, Published
  <2>6. ASSUME NEW c \in Call PROVE CreatesIntent(c)' /\ Announces(c)' /\ Gated(c)'
    <3>1. pc[c] # "idle" => job[c].ride \in RideId
      BY DEF TypeInv, CallShape, Job
    <3> QED
      BY <2>2, <2>3, <2>4, <3>1 DEF PixInv, CreatesIntent, Announces, Gated, Requesting
  <2> QED
    BY <2>5, <2>6 DEF PixInv
<1>12. ASSUME UNCHANGED <<rides, intents, pc, job, seen, bus>> PROVE PixInv'
  BY <1>12 DEF PixInv, PixRides, Published, CreatesIntent, Announces, Gated
<1>13. CASE UNCHANGED vars \/ TenantLeavesActive \/ \E d \in Changing : ProfileChanges(d)
  BY <1>12, <1>13 DEF vars, TenantLeavesActive, ProfileChanges
<1> QED
  BY <1>1, <1>2, <1>3, <1>4, <1>5, <1>6, <1>7, <1>8, <1>9, <1>10, <1>11, <1>13
  DEF Next, CallContinues, Environment

(* A Pix ride whose request was announced before the operator asked for    *)
(* matching is dispatched only if the provider confirmed its payment, in   *)
(* both runtimes and whatever overlaps or fails.                           *)
THEOREM AnnouncedIsPaid == Spec => []AnnouncedPixIsPaid
<1>1. Init => PixInv
  BY DEF Init, PixInv, PixRides, Published, CreatesIntent, Announces, Gated, Requesting
<1>2. PixInv => AnnouncedPixIsPaid
  BY DEF PixInv, Gated, AnnouncedPixIsPaid
<1> QED
  BY <1>1, <1>2, PixInvStep, TypeInvariant, PTL DEF Spec
=============================================================================

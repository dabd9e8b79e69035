------------------------ MODULE RideLifecycleProofs ------------------------
(***************************************************************************)
(* Where handlers share the stored ride (Live = FALSE), or where no two    *)
(* calls work on one ride at a time, the repository implements the ride    *)
(* life cycle, and with it one driver per ride and true timestamps; and    *)
(* where calls are serialised, cancellations keep to the policy.           *)
(***************************************************************************)
EXTENDS RideOrchestratorProofs

Safe == ~ Live \/ Serialised

(* A ride's first call has the ride to itself until it is saved.           *)
NewRide(c) ==
  /\ pc[c] \in {"route", "intent"} => job[c].op = "request"
  /\ pc[c] = "route" =>
       /\ rides[job[c].ride] = NoRide
       /\ \A o \in Call \ {c} : pc[o] # "idle" => job[o].ride # job[c].ride

(* Acceptances, and only they, carry a driver.                             *)
CarriesDriver(c) ==
  pc[c] # "idle" =>
    /\ job[c].op = "accept" => job[c].to = "ACCEPTED" /\ job[c].driver \in Driver
    /\ job[c].op # "accept" => job[c].driver = NoDriver

(* When calls are serialised, the call has its ride to itself, and its     *)
(* copy is the row, or a legal successor of it.                            *)
Successor(old, c, new) ==
  /\ CanTransition(old, job[c].to, job[c].trigger)
  /\ IF job[c].op = "accept"
     THEN CanAssign(old) /\ new = Transitioned(Assigned(old, job[c].driver), job[c].to)
     ELSE new = Transitioned(old, job[c].to)

Exclusive(c) ==
  Live /\ Serialised /\ pc[c] # "idle" =>
    \A o \in Call \ {c} : pc[o] # "idle" => job[o].ride # job[c].ride

Fresh(c) ==
  Live /\ Serialised =>
    /\ pc[c] \in {"intents", "apply"} => copy[c] = rides[job[c].ride]
    /\ pc[c] = "save" => Successor(rides[job[c].ride], c, copy[c])

CallInv ==
  \A c \in Call : NewRide(c) /\ CarriesDriver(c) /\ Exclusive(c) /\ Fresh(c)

(***************************************************************************)
(* One step of the whole system, seen at one ride.                         *)
(***************************************************************************)
Becomes(r, value) ==
  rides'[r] = value /\ been'[r] = been[r] \cup {value.status}

RideStep(r) ==
  \/ rides'[r] = rides[r] /\ been'[r] = been[r]
  \/ rides[r] = NoRide /\ Becomes(r, RequestedRide)
  \/ /\ rides[r] # NoRide
     /\ \/ \E to \in RideStatus, trigger \in Trigger :
             /\ CanTransition(rides[r], to, trigger)
             /\ Becomes(r, Transitioned(rides[r], to))
        \/ \E d \in Driver, trigger \in Trigger :
             /\ CanAssign(rides[r])
             /\ CanTransition(rides[r], "ACCEPTED", trigger)
             /\ Becomes(r, Transitioned(Assigned(rides[r], d), "ACCEPTED"))
        \/ \E d \in Driver :
             /\ CanAssign(rides[r]) /\ rides[r].status # "MATCHING"
             /\ Becomes(r, Assigned(rides[r], d))

OneRideSteps ==
  /\ \A r \in RideId : RideStep(r)
  /\ \/ rides' = rides
     \/ \E r \in RideId : \A q \in RideId \ {r} : rides'[q] = rides[q]

-----------------------------------------------------------------------------
(* A call that goes on, or ends, touching no ride but its own, has only to *)
(* be checked for itself.                                                  *)
LEMMA ContinueFrame ==
  ASSUME TypeInv, CallInv, NEW c \in Call, pc[c] # "idle",
         pc'[c] = "idle" \/ job'[c] = job[c],
         \A o \in Call \ {c} : pc'[o] = pc[o] /\ job'[o] = job[o] /\ copy'[o] = copy[o],
         \A q \in RideId \ {job[c].ride} : rides'[q] = rides[q],
         NewRide(c)', Fresh(c)'
  PROVE  CallInv'
<1>1. CarriesDriver(c)' /\ Exclusive(c)'
  BY DEF CallInv, CarriesDriver, Exclusive
<1>2. ASSUME NEW o \in Call \ {c}
      PROVE NewRide(o)' /\ CarriesDriver(o)' /\ Exclusive(o)' /\ Fresh(o)'
  <2>1. pc[o] # "idle" => job[o] \in Job /\ job[o].ride \in RideId
    BY DEF TypeInv, CallShape, Job
  <2>2. NewRide(o)' /\ CarriesDriver(o)' /\ Exclusive(o)'
    BY <2>1 DEF CallInv, NewRide, CarriesDriver, Exclusive
  <2>3. Fresh(o)'
    BY <2>1 DEF CallInv, Exclusive, Fresh, Successor
  <2> QED
    BY <2>2, <2>3
<1> QED
  BY <1>1, <1>2 DEF CallInv

(* Inside one call nothing can go wrong with it: what it checked still     *)
(* holds when it writes.                                                   *)
LEMMA CallInvStep == Safe /\ TypeInv /\ CallInv /\ [Next]_vars => CallInv'
<1> SUFFICES ASSUME Safe, TypeInv, CallInv, [Next]_vars PROVE CallInv'
  OBVIOUS
<1> USE OrchestratorAssumption
<1>1. ASSUME NEW c \in Call, CallBegins(c) PROVE CallInv'
  <2>1. PICK r \in RideId : Begun(c, r)
    BY <1>1, BeginsStep
  <2>2. NewRide(c)' /\ CarriesDriver(c)' /\ Exclusive(c)' /\ Fresh(c)'
    BY <2>1 DEF Begun, MayBegin, Loaded, NewRide, CarriesDriver, Exclusive, Fresh
  <2>3. ASSUME NEW o \in Call \ {c}
        PROVE NewRide(o)' /\ CarriesDriver(o)' /\ Exclusive(o)' /\ Fresh(o)'
    <3>1. CarriesDriver(o)' /\ Fresh(o)'
      BY <2>1 DEF Begun, CallInv, CarriesDriver, Fresh, Successor
    <3>2. NewRide(o)' /\ Exclusive(o)'
      BY <2>1 DEF Begun, MayBegin, CallInv, NewRide, Exclusive
    <3> QED
      BY <3>1, <3>2
  <2> QED
    BY <2>2, <2>3 DEF CallInv
<1>2. ASSUME NEW c \in Call, SaveNewRide(c) PROVE CallInv'
  <2>1. /\ pc[c] = "route" /\ pc'[c] \in {"intent", "publish"} /\ job' = job
        /\ \A o \in Call \ {c} : pc'[o] = pc[o] /\ copy'[o] = copy[o]
    BY <1>2 DEF SaveNewRide, Goto, TypeInv, TypeOK, PC
  <2>2. \A q \in RideId \ {job[c].ride} : rides'[q] = rides[q]
    BY <1>2 DEF SaveNewRide, Put, TypeInv, TypeOK
  <2>3. NewRide(c)' /\ Fresh(c)'
    BY <2>1 DEF CallInv, NewRide, Fresh
  <2> QED
    BY <2>1, <2>2, <2>3, ContinueFrame
<1>3. ASSUME NEW c \in Call, SaveIntent(c) PROVE CallInv'
  <2>1. /\ pc[c] = "intent" /\ pc'[c] = "publish" /\ job' = job /\ rides' = rides
        /\ \A o \in Call \ {c} : pc'[o] = pc[o] /\ copy'[o] = copy[o]
    BY <1>3 DEF SaveIntent, Goto, Loaded, TypeInv, TypeOK, PC
  <2> QED
    BY <2>1, ContinueFrame DEF CallInv, NewRide, Fresh
<1>4. ASSUME NEW c \in Call, FindIntents(c) PROVE CallInv'
  <2>1. /\ pc[c] = "intents" /\ pc'[c] = "apply" /\ job' = job /\ rides' = rides /\ copy' = copy
        /\ \A o \in Call \ {c} : pc'[o] = pc[o] /\ copy'[o] = copy[o]
    BY <1>4 DEF FindIntents, Goto, Loaded, TypeInv, TypeOK, PC
  <2> QED
    BY <2>1, ContinueFrame DEF CallInv, NewRide, Fresh
<1>5. ASSUME NEW c \in Call, Reload(c) PROVE CallInv'
  <2>1. /\ pc[c] = "reload" /\ pc'[c] = "apply" /\ job' = job /\ rides' = rides
        /\ Live => copy'[c] = rides[job[c].ride]
        /\ \A o \in Call \ {c} : pc'[o] = pc[o] /\ copy'[o] = copy[o]
    BY <1>5 DEF Reload, Goto, Loaded, TypeInv, TypeOK, PC
  <2> QED
    BY <2>1, ContinueFrame DEF CallInv, NewRide, Fresh
<1>6. ASSUME NEW c \in Call, Transition(c) PROVE CallInv'
  <2> DEFINE new == Transitioned(Held(c), job[c].to)
  <2>1. /\ pc[c] = "apply" /\ pc'[c] = "save" /\ job' = job
        /\ \A o \in Call \ {c} : pc'[o] = pc[o]
    BY <1>6 DEF Transition, Goto, TypeInv, TypeOK, PC
  <2>2. TypeOK /\ job[c] \in Job /\ Held(c) \in RideRecord
    BY <2>1 DEF TypeInv, TypeOK, CallShape, Job, Held
  <2>3. new \in RideRecord
    BY <2>2, RideOperations DEF Job, RideStatus
  <2>4. Mutate(c, new)
    BY <1>6 DEF Transition
  <2>5. Successor(Held(c), c, new)
    BY <1>6, <2>1 DEF Transition, Successor, CallInv, CarriesDriver
  <2> HIDE DEF new
  <2>6. /\ Live => rides' = rides /\ copy'[c] = new
        /\ \A o \in Call \ {c} : copy'[o] = copy[o]
        /\ \A q \in RideId \ {job[c].ride} : rides'[q] = rides[q]
    BY <2>2, <2>3, <2>4, MutateStep
  <2>7. Fresh(c)'
    BY <2>1, <2>5, <2>6 DEF Fresh, Successor, CallInv, Held
  <2> QED
    BY <2>1, <2>6, <2>7, ContinueFrame DEF NewRide
<1>7. ASSUME NEW c \in Call, Accept(c) PROVE CallInv'
  <2> DEFINE new == Transitioned(Assigned(Held(c), job[c].driver), "ACCEPTED")
  <2>1. /\ pc[c] = "apply" /\ pc'[c] = "save" /\ job' = job
        /\ \A o \in Call \ {c} : pc'[o] = pc[o]
    BY <1>7 DEF Accept, Goto, TypeInv, TypeOK, PC
  <2>2. TypeOK /\ job[c] \in Job /\ Held(c) \in RideRecord
    BY <2>1 DEF TypeInv, TypeOK, CallShape, Job, Held
  <2>3. new \in RideRecord
    BY <2>2, RideOperations DEF Job, RideStatus
  <2>4. Mutate(c, new)
    BY <1>7 DEF Accept
  <2>5. Successor(Held(c), c, new)
    BY <1>7, <2>1 DEF Accept, Successor, CallInv, CarriesDriver
  <2> HIDE DEF new
  <2>6. /\ Live => rides' = rides /\ copy'[c] = new
        /\ \A o \in Call \ {c} : copy'[o] = copy[o]
        /\ \A q \in RideId \ {job[c].ride} : rides'[q] = rides[q]
    BY <2>2, <2>3, <2>4, MutateStep
  <2>7. Fresh(c)'
    BY <2>1, <2>5, <2>6 DEF Fresh, Successor, CallInv, Held
  <2> QED
    BY <2>1, <2>6, <2>7, ContinueFrame DEF NewRide
<1>8. ASSUME NEW c \in Call, AcceptFailsAfterAssignment(c) PROVE CallInv'
  <2>1. /\ pc[c] = "apply" /\ pc'[c] = "idle"
        /\ \A o \in Call \ {c} : pc'[o] = pc[o] /\ job'[o] = job[o] /\ copy'[o] = copy[o]
    BY <1>8, EndStep DEF AcceptFailsAfterAssignment, TypeInv
  <2>2. \A q \in RideId \ {job[c].ride} : rides'[q] = rides[q]
    BY <1>8 DEF AcceptFailsAfterAssignment, Put, TypeInv, TypeOK
  <2> QED
    BY <2>1, <2>2, ContinueFrame DEF NewRide, Fresh
<1>9. ASSUME NEW c \in Call, Refuse(c) PROVE CallInv'
  <2>1. /\ pc[c] # "idle" /\ pc'[c] = "idle" /\ rides' = rides
        /\ \A o \in Call \ {c} : pc'[o] = pc[o] /\ job'[o] = job[o] /\ copy'[o] = copy[o]
    BY <1>9, EndStep DEF Refuse, TypeInv
  <2> QED
    BY <2>1, ContinueFrame DEF NewRide, Fresh
<1>10. ASSUME NEW c \in Call, Save(c) PROVE CallInv'
  <2>1. /\ pc[c] = "save" /\ pc'[c] = "publish" /\ job' = job /\ copy' = copy
        /\ \A o \in Call \ {c} : pc'[o] = pc[o]
    BY <1>10 DEF Save, Goto, TypeInv, TypeOK, PC
  <2>2. \A q \in RideId \ {job[c].ride} : rides'[q] = rides[q]
    BY <1>10 DEF Save, Put, TypeInv, TypeOK
  <2> QED
    BY <2>1, <2>2, ContinueFrame DEF NewRide, Fresh
<1>11. ASSUME NEW c \in Call, Publish(c) PROVE CallInv'
  <2>1. /\ pc[c] # "idle" /\ pc'[c] = "idle" /\ rides' = rides
        /\ \A o \in Call \ {c} : pc'[o] = pc[o] /\ job'[o] = job[o] /\ copy'[o] = copy[o]
    BY <1>11, EndStep DEF Publish, TypeInv
  <2> QED
    BY <2>1, ContinueFrame DEF NewRide, Fresh
<1>12. ASSUME NEW c \in Call, Fail(c) PROVE CallInv'
  <2>1. /\ pc[c] # "idle" /\ pc'[c] = "idle" /\ rides' = rides
        /\ \A o \in Call \ {c} : pc'[o] = pc[o] /\ job'[o] = job[o] /\ copy'[o] = copy[o]
    BY <1>12, EndStep DEF Fail, TypeInv
  <2> QED
    BY <2>1, ContinueFrame DEF NewRide, Fresh
<1>13. CASE Environment \/ UNCHANGED vars
  <2>1. UNCHANGED <<rides, pc, job, copy>>
    BY <1>13 DEF Environment, IntentMoves, ProfileChanges, TenantLeavesActive, vars
  <2> QED
    BY <2>1 DEF CallInv, NewRide, CarriesDriver, Exclusive, Fresh, Successor
<1> QED
  BY <1>1, <1>2, <1>3, <1>4, <1>5, <1>6, <1>7, <1>8, <1>9, <1>10, <1>11, <1>12, <1>13
  DEF Next, CallContinues

LEMMA CallInvariant == ASSUME Safe PROVE Spec => []CallInv
<1>1. Init => CallInv
  BY DEF Init, CallInv, NewRide, CarriesDriver, Exclusive, Fresh
<1>2. TypeInv /\ CallInv /\ [Next]_vars => CallInv'
  BY CallInvStep
<1> QED
  BY <1>1, <1>2, TypeInvariant, PTL DEF Spec

-----------------------------------------------------------------------------
(* Every step of the handlers is a step of each ride.                      *)
LEMMA PutIsRideStep ==
  ASSUME TypeOK, NEW r \in RideId, NEW value \in RideRecord, Put(r, value),
         Becomes(r, value) => RideStep(r)
  PROVE  OneRideSteps
<1>1. Becomes(r, value) /\ \A q \in RideId \ {r} : rides'[q] = rides[q] /\ been'[q] = been[q]
  BY PutStep DEF Becomes
<1> QED
  BY <1>1 DEF OneRideSteps, RideStep

(* A legal successor of the stored ride is a ride step away from it.       *)
LEMMA SuccessorIsRideStep ==
  ASSUME TypeInv, CallInv, NEW c \in Call, pc[c] \notin {"idle", "route"},
         NEW new \in RideRecord, Successor(rides[job[c].ride], c, new),
         Becomes(job[c].ride, new)
  PROVE  RideStep(job[c].ride)
<1>1. /\ job[c] \in Job /\ job[c].ride \in RideId /\ rides[job[c].ride] # NoRide
      /\ job[c].to \in RideStatus /\ job[c].trigger \in Trigger
  BY DEF TypeInv, CallShape, Job
<1>2. CASE job[c].op = "accept"
  <2>1. job[c].to = "ACCEPTED" /\ job[c].driver \in Driver
    BY <1>2 DEF CallInv, CarriesDriver
  <2>2. /\ CanAssign(rides[job[c].ride])
        /\ CanTransition(rides[job[c].ride], "ACCEPTED", job[c].trigger)
        /\ Becomes(job[c].ride,
                   Transitioned(Assigned(rides[job[c].ride], job[c].driver), "ACCEPTED"))
    BY <1>2, <2>1 DEF Successor
  <2> QED
    BY <1>1, <2>1, <2>2 DEF RideStep
<1>3. CASE job[c].op # "accept"
  <2>1. /\ CanTransition(rides[job[c].ride], job[c].to, job[c].trigger)
        /\ Becomes(job[c].ride, Transitioned(rides[job[c].ride], job[c].to))
    BY <1>3 DEF Successor
  <2> QED
    BY <1>1, <2>1 DEF RideStep
<1> QED
  BY <1>2, <1>3

LEMMA StepsAreRideSteps == Safe /\ TypeInv /\ CallInv /\ [Next]_vars => OneRideSteps
<1> SUFFICES ASSUME Safe, TypeInv, CallInv, [Next]_vars PROVE OneRideSteps
  OBVIOUS
<1>1. ASSUME UNCHANGED <<rides, been>> PROVE OneRideSteps
  BY <1>1 DEF OneRideSteps, RideStep
<1>2. ASSUME NEW c \in Call, CallBegins(c) PROVE OneRideSteps
  BY <1>1, <1>2, BeginsStep DEF Begun
<1>3. ASSUME NEW c \in Call, SaveNewRide(c) PROVE OneRideSteps
  <2>1. TypeOK /\ pc[c] = "route" /\ job[c].ride \in RideId /\ rides[job[c].ride] = NoRide
    BY <1>3 DEF SaveNewRide, Goto, TypeInv, CallShape, Job, CallInv, NewRide
  <2>2. Put(job[c].ride, RequestedRide) /\ RequestedRide \in RideRecord
    BY <1>3 DEF SaveNewRide, RequestedRide, RideRecord, RideStatus
  <2>3. Becomes(job[c].ride, RequestedRide) => RideStep(job[c].ride)
    BY <2>1 DEF RideStep
  <2> QED
    BY <2>1, <2>2, <2>3, PutIsRideStep
<1>4. ASSUME NEW c \in Call, NEW new, Mutate(c, new), Successor(Held(c), c, new),
             pc[c] = "apply", new \in RideRecord
      PROVE OneRideSteps
  <2>1. CASE Live
    BY <1>1, <1>4, <2>1 DEF Mutate
  <2>2. CASE ~ Live
    <3>1. TypeOK /\ job[c].ride \in RideId /\ Put(job[c].ride, new) /\ Held(c) = rides[job[c].ride]
      BY <1>4, <2>2 DEF TypeInv, CallShape, Job, Mutate, Held
    <3>2. Becomes(job[c].ride, new) => RideStep(job[c].ride)
      BY <1>4, <3>1, SuccessorIsRideStep
    <3> QED
      BY <1>4, <3>1, <3>2, PutIsRideStep
  <2> QED
    BY <2>1, <2>2
<1>5. ASSUME NEW c \in Call, Transition(c) \/ Accept(c) PROVE OneRideSteps
  <2>1. pc[c] = "apply" /\ job[c] \in Job /\ Held(c) \in RideRecord
    BY <1>5 DEF Transition, Accept, Goto, TypeInv, TypeOK, CallShape, Job, Held
  <2>2. CASE Transition(c)
    <3>1. Transitioned(Held(c), job[c].to) \in RideRecord
      BY <2>1, RideOperations DEF Job, RideStatus
    <3>2. /\ Mutate(c, Transitioned(Held(c), job[c].to))
          /\ Successor(Held(c), c, Transitioned(Held(c), job[c].to))
      BY <2>2 DEF Transition, Successor
    <3> QED
      BY <1>4, <2>1, <3>1, <3>2
  <2>3. CASE Accept(c)
    <3> DEFINE new == Transitioned(Assigned(Held(c), job[c].driver), "ACCEPTED")
    <3>1. new \in RideRecord
      BY <2>1, RideOperations DEF Job, RideStatus
    <3>2. Mutate(c, new)
      BY <2>3 DEF Accept
    <3>3. Successor(Held(c), c, new)
      BY <2>1, <2>3 DEF Accept, Successor, CallInv, CarriesDriver
    <3> HIDE DEF new
    <3> QED
      BY <1>4, <2>1, <3>1, <3>2, <3>3
  <2> QED
    BY <1>5, <2>2, <2>3
<1>6. ASSUME NEW c \in Call, AcceptFailsAfterAssignment(c) PROVE OneRideSteps
  <2>1. CASE Live
    BY <1>1, <1>6, <2>1 DEF AcceptFailsAfterAssignment
  <2>2. CASE ~ Live
    <3> DEFINE new == Assigned(rides[job[c].ride], job[c].driver)
    <3>1. /\ TypeOK /\ job[c] \in Job /\ job[c].ride \in RideId
          /\ rides[job[c].ride] \in RideRecord /\ rides[job[c].ride] # NoRide
          /\ job[c].driver \in Driver
      BY <1>6 DEF AcceptFailsAfterAssignment, TypeInv, TypeOK, CallShape, Job, CallInv, CarriesDriver
    <3>2. new \in RideRecord
      BY <3>1 DEF Assigned, RideRecord
    <3>3. CanAssign(rides[job[c].ride]) /\ rides[job[c].ride].status # "MATCHING"
      <4>1. /\ Held(c) = rides[job[c].ride] /\ CanAssign(Held(c))
            /\ ~ CanTransition(Held(c), "ACCEPTED", job[c].trigger)
        BY <1>6, <2>2 DEF AcceptFailsAfterAssignment, Held
      <4>2. ~ (<<Held(c).status, "ACCEPTED">> \in Edge)
        BY <4>1 DEF CanTransition
      <4>3. <<"MATCHING", "ACCEPTED">> \in Edge
        BY DEF Edge
      <4> QED
        BY <4>1, <4>2, <4>3
    <3>4. Put(job[c].ride, new)
      BY <1>6, <2>2 DEF AcceptFailsAfterAssignment, Held
    <3>5. Becomes(job[c].ride, new) => RideStep(job[c].ride)
      BY <3>1, <3>3 DEF RideStep
    <3> HIDE DEF new
    <3> QED
      BY <3>1, <3>2, <3>4, <3>5, PutIsRideStep
  <2> QED
    BY <2>1, <2>2
<1>7. ASSUME NEW c \in Call, Save(c) PROVE OneRideSteps
  <2>1. CASE ~ Live
    BY <1>1, <1>7, <2>1 DEF Save
  <2>2. CASE Live
    <3>1. /\ TypeOK /\ pc[c] = "save" /\ job[c].ride \in RideId /\ copy[c] \in RideRecord
          /\ Put(job[c].ride, copy[c])
      BY <1>7, <2>2 DEF Save, Goto, TypeInv, TypeOK, CallShape, Job
    <3>2. Successor(rides[job[c].ride], c, copy[c])
      BY <2>2, <3>1 DEF Safe, CallInv, Fresh
    <3>3. Becomes(job[c].ride, copy[c]) => RideStep(job[c].ride)
      BY <3>1, <3>2, SuccessorIsRideStep
    <3> QED
      BY <3>1, <3>3, PutIsRideStep
  <2> QED
    BY <2>1, <2>2
<1>8. ASSUME NEW c \in Call,
             SaveIntent(c) \/ FindIntents(c) \/ Reload(c) \/ Refuse(c) \/ Publish(c) \/ Fail(c)
      PROVE OneRideSteps
  BY <1>1, <1>8 DEF SaveIntent, FindIntents, Reload, Refuse, Publish, Fail
<1>9. CASE Environment \/ UNCHANGED vars
  BY <1>1, <1>9 DEF Environment, IntentMoves, ProfileChanges, TenantLeavesActive, vars
<1> QED
  BY <1>2, <1>3, <1>5, <1>6, <1>7, <1>8, <1>9 DEF Next, CallContinues

-----------------------------------------------------------------------------
(* Timestamps.                                                             *)

HistoryInv ==
  \A r \in RideId :
    IF rides[r] = NoRide
    THEN been[r] = {}
    ELSE rides[r].status \in been[r] /\ rides[r].stamps = been[r] \cap Stamped

LEMMA HistoryInvStep == TypeOK /\ HistoryInv /\ OneRideSteps => HistoryInv'
<1> SUFFICES ASSUME TypeOK, HistoryInv, OneRideSteps, NEW r \in RideId
             PROVE  (IF rides[r] = NoRide
                     THEN been[r] = {}
                     ELSE rides[r].status \in been[r] /\ rides[r].stamps = been[r] \cap Stamped)'
  BY DEF HistoryInv
<1>1. RideStep(r)
  BY DEF OneRideSteps
<1>2. rides[r] \in RideRecord \cup {NoRide} /\ been[r] \subseteq RideStatus
  BY DEF TypeOK
<1>3. CASE rides'[r] = rides[r] /\ been'[r] = been[r]
  BY <1>3 DEF HistoryInv
<1>4. ASSUME NEW value \in RideRecord, Becomes(r, value),
             value.stamps = (been[r] \cup {value.status}) \cap Stamped
      PROVE  (IF rides[r] = NoRide
              THEN been[r] = {}
              ELSE rides[r].status \in been[r] /\ rides[r].stamps = been[r] \cap Stamped)'
  BY <1>4, OrchestratorAssumption DEF Becomes
<1>5. CASE rides[r] = NoRide /\ Becomes(r, RequestedRide)
  <2>1. /\ RequestedRide \in RideRecord
        /\ RequestedRide.stamps = (been[r] \cup {RequestedRide.status}) \cap Stamped
    BY <1>5 DEF HistoryInv, RequestedRide, RideRecord, RideStatus, Stamped
  <2> QED
    BY <1>4, <1>5, <2>1
<1>6. ASSUME rides[r] # NoRide, NEW to \in RideStatus, Becomes(r, Transitioned(rides[r], to))
      PROVE  (IF rides[r] = NoRide
              THEN been[r] = {}
              ELSE rides[r].status \in been[r] /\ rides[r].stamps = been[r] \cap Stamped)'
  <2>1. /\ Transitioned(rides[r], to) \in RideRecord
        /\ Transitioned(rides[r], to).status = to
    BY <1>2, <1>6, RideOperations
  <2>2. Transitioned(rides[r], to).stamps = (been[r] \cup {to}) \cap Stamped
    BY <1>2, <1>6 DEF HistoryInv, Transitioned, RideRecord
  <2> QED
    BY <1>4, <1>6, <2>1, <2>2
<1>7. ASSUME rides[r] # NoRide, NEW d \in Driver,
             Becomes(r, Transitioned(Assigned(rides[r], d), "ACCEPTED"))
      PROVE  (IF rides[r] = NoRide
              THEN been[r] = {}
              ELSE rides[r].status \in been[r] /\ rides[r].stamps = been[r] \cap Stamped)'
  <2> DEFINE new == Transitioned(Assigned(rides[r], d), "ACCEPTED")
  <2>1. new \in RideRecord /\ new.status = "ACCEPTED"
    <3>1. /\ rides[r] \in RideRecord /\ d \in Driver \cup {NoDriver}
          /\ "ACCEPTED" \in RideStatus
      BY <1>2, <1>7 DEF RideStatus
    <3> QED
      BY <3>1, RideOperations
  <2>2. new.stamps = (been[r] \cup {"ACCEPTED"}) \cap Stamped
    <3>1. /\ Assigned(rides[r], d) \in RideRecord
          /\ Assigned(rides[r], d).stamps = been[r] \cap Stamped
      BY <1>2, <1>7 DEF HistoryInv, Assigned, RideRecord
    <3>2. ASSUME NEW ride \in RideRecord
          PROVE  Transitioned(ride, "ACCEPTED").stamps = ride.stamps \cup ({"ACCEPTED"} \cap Stamped)
      BY DEF Transitioned, RideRecord
    <3> QED
      BY <3>1, <3>2
  <2> HIDE DEF new
  <2>3. Becomes(r, new)
    BY <1>7 DEF new
  <2> QED
    BY <1>4, <2>1, <2>2, <2>3
<1>8. ASSUME rides[r] # NoRide, NEW d \in Driver, Becomes(r, Assigned(rides[r], d))
      PROVE  (IF rides[r] = NoRide
              THEN been[r] = {}
              ELSE rides[r].status \in been[r] /\ rides[r].stamps = been[r] \cap Stamped)'
  <2>1. /\ Assigned(rides[r], d) \in RideRecord
        /\ Assigned(rides[r], d).status = rides[r].status
        /\ Assigned(rides[r], d).stamps = rides[r].stamps
    BY <1>2, <1>8 DEF Assigned, RideRecord
  <2>2. Assigned(rides[r], d).stamps = (been[r] \cup {Assigned(rides[r], d).status}) \cap Stamped
    BY <1>8, <2>1 DEF HistoryInv
  <2> QED
    BY <1>4, <1>8, <2>1, <2>2
<1> QED
  BY <1>1, <1>3, <1>5, <1>6, <1>7, <1>8 DEF RideStep

(* In both safe arrangements a ride's timestamps are those of the statuses *)
(* it went through: none is lost to a save of an older copy.               *)
THEOREM TimestampsAreTrue == ASSUME Safe PROVE Spec => []TimestampsMatchHistory
<1>1. Init => HistoryInv
  BY RidesAtFirst DEF Init, HistoryInv, Stamped
<1>2. TypeInv /\ CallInv /\ HistoryInv /\ [Next]_vars => HistoryInv'
  BY StepsAreRideSteps, HistoryInvStep DEF TypeInv
<1>3. HistoryInv => TimestampsMatchHistory
  BY DEF HistoryInv, TimestampsMatchHistory
<1> QED
  BY <1>1, <1>2, <1>3, TypeInvariant, CallInvariant, PTL DEF Spec

-----------------------------------------------------------------------------
(* The winner.                                                             *)

Winner(c) ==
  /\ pc[c] = "publish" \/ (pc[c] = "save" /\ ~ Live)
  /\ job[c].op = "accept"
  => rides[job[c].ride].driver = job[c].driver

WinnerInv ==
  /\ \A e \in bus :
       e.driver # NoDriver => rides[e.ride] # NoRide /\ rides[e.ride].driver = e.driver
  /\ \A c \in Call : Winner(c)

(* No ride disappears, and none changes a driver it has.                   *)
LEMMA DriverStays ==
  ASSUME TypeOK, OneRideSteps, NEW r \in RideId, rides[r] # NoRide
  PROVE  /\ rides'[r] # NoRide
         /\ rides[r].driver # NoDriver => rides'[r].driver = rides[r].driver
<1>1. RideStep(r) /\ rides[r] \in RideRecord
  BY DEF OneRideSteps, TypeOK
<1>2. CASE rides'[r] = rides[r]
  BY <1>2
<1>3. ASSUME NEW to \in RideStatus, Becomes(r, Transitioned(rides[r], to))
      PROVE  rides'[r] \in RideRecord /\ rides'[r].driver = rides[r].driver
  BY <1>1, <1>3 DEF Becomes, Transitioned, RideRecord, Stamped
<1>4. ASSUME NEW d \in Driver, CanAssign(rides[r]), NEW new \in RideRecord, Becomes(r, new)
      PROVE  rides'[r] \in RideRecord /\ rides[r].driver = NoDriver
  BY <1>4 DEF Becomes, CanAssign
<1>5. ASSUME NEW d \in Driver
      PROVE  /\ Assigned(rides[r], d) \in RideRecord
             /\ Transitioned(Assigned(rides[r], d), "ACCEPTED") \in RideRecord
  <2>1. "ACCEPTED" \in RideStatus
    BY DEF RideStatus
  <2> QED
    BY <1>1, <2>1, RideOperations
<1> QED
  BY <1>1, <1>2, <1>3, <1>4, <1>5, OrchestratorAssumption DEF RideStep

LEMMA WinnerFrame ==
  ASSUME TypeInv, CallInv, WinnerInv, OneRideSteps, bus' = bus, NEW c \in Call,
         \A o \in Call \ {c} : pc'[o] = pc[o] /\ job'[o] = job[o], Winner(c)'
  PROVE  WinnerInv'
<1>1. ASSUME NEW e \in bus, e.driver # NoDriver
      PROVE  rides'[e.ride] # NoRide /\ rides'[e.ride].driver = e.driver
  <2>1. e.ride \in RideId /\ rides[e.ride] # NoRide /\ rides[e.ride].driver = e.driver
    BY <1>1 DEF TypeInv, TypeOK, Event, WinnerInv
  <2> QED
    BY <1>1, <2>1, DriverStays DEF TypeInv
<1>2. ASSUME NEW o \in Call \ {c} PROVE Winner(o)'
  <2>1. SUFFICES ASSUME pc[o] = "publish" \/ (pc[o] = "save" /\ ~ Live), job[o].op = "accept"
                 PROVE  rides'[job[o].ride].driver = job[o].driver
    BY DEF Winner
  <2>2. /\ job[o].ride \in RideId /\ rides[job[o].ride] # NoRide
        /\ job[o].driver # NoDriver /\ rides[job[o].ride].driver = job[o].driver
    BY <2>1, DriverAssumption
    DEF TypeInv, CallShape, Job, CallInv, CarriesDriver, WinnerInv, Winner
  <2> QED
    BY <2>2, DriverStays DEF TypeInv
<1> QED
  BY <1>1, <1>2 DEF WinnerInv

LEMMA WinnerInvStep ==
  Safe /\ TypeInv /\ TypeInv' /\ CallInv /\ WinnerInv /\ [Next]_vars => WinnerInv'
<1> SUFFICES ASSUME Safe, TypeInv, TypeInv', CallInv, WinnerInv, [Next]_vars PROVE WinnerInv'
  OBVIOUS
<1>1. OneRideSteps
  BY StepsAreRideSteps
<1>2. ASSUME NEW c \in Call, CallBegins(c) PROVE WinnerInv'
  <2>1. PICK r \in RideId : Begun(c, r)
    BY <1>2, BeginsStep
  <2>2. Winner(c)'
    BY <2>1 DEF Begun, Winner
  <2> QED
    BY <1>1, <2>1, <2>2, WinnerFrame DEF Begun
<1>3. ASSUME NEW c \in Call, Accept(c) PROVE WinnerInv'
  <2> DEFINE new == Transitioned(Assigned(Held(c), job[c].driver), "ACCEPTED")
  <2>1. /\ pc[c] = "apply" /\ pc'[c] = "save" /\ job' = job /\ bus' = bus
        /\ \A o \in Call \ {c} : pc'[o] = pc[o]
    BY <1>3 DEF Accept, Goto, TypeInv, TypeOK, PC
  <2>2. /\ TypeOK /\ job[c] \in Job /\ Held(c) \in RideRecord
        /\ job[c].driver \in Driver \cup {NoDriver} /\ "ACCEPTED" \in RideStatus
    BY <2>1 DEF TypeInv, TypeOK, CallShape, Job, Held, RideStatus
  <2>3. Mutate(c, new)
    BY <1>3 DEF Accept
  <2>4. new \in RideRecord
    BY <2>2, RideOperations
  <2>5. new.driver = job[c].driver
    <3>1. /\ Assigned(Held(c), job[c].driver) \in RideRecord
          /\ Assigned(Held(c), job[c].driver).driver = job[c].driver
      BY <2>2 DEF Assigned, RideRecord
    <3>2. ASSUME NEW ride \in RideRecord
          PROVE  Transitioned(ride, "ACCEPTED").driver = ride.driver
      BY DEF Transitioned, RideRecord
    <3> QED
      BY <3>1, <3>2
  <2> HIDE DEF new
  <2>6. Winner(c)'
    BY <2>1, <2>2, <2>3, <2>4, <2>5, MutateStep DEF Winner
  <2> QED
    BY <1>1, <2>1, <2>6, WinnerFrame
<1>4. ASSUME NEW c \in Call, Transition(c) PROVE WinnerInv'
  <2>1. /\ job[c].op # "accept" /\ job' = job /\ bus' = bus
        /\ \A o \in Call \ {c} : pc'[o] = pc[o]
    BY <1>4 DEF Transition, Goto, TypeInv, TypeOK
  <2> QED
    BY <1>1, <2>1, WinnerFrame DEF Winner
<1>5. ASSUME NEW c \in Call, Save(c) PROVE WinnerInv'
  <2>1. /\ pc[c] = "save" /\ pc'[c] = "publish" /\ job' = job /\ bus' = bus
        /\ \A o \in Call \ {c} : pc'[o] = pc[o]
    BY <1>5 DEF Save, Goto, TypeInv, TypeOK, PC
  <2>2. /\ TypeOK /\ job[c] \in Job /\ job[c].ride \in RideId /\ rides[job[c].ride] \in RideRecord
    BY <2>1 DEF TypeInv, TypeOK, CallShape, Job
  <2>3. Winner(c)'
    <3>1. CASE ~ Live
      BY <1>5, <2>1, <3>1 DEF Save, Winner, WinnerInv
    <3>2. CASE Live /\ job[c].op = "accept"
      <4>1. copy[c] \in RideRecord /\ Put(job[c].ride, copy[c])
        BY <1>5, <2>1, <3>2 DEF Save, TypeInv, TypeOK, CallShape
      <4>2. rides'[job[c].ride] = copy[c]
        BY <2>2, <4>1, PutStep
      <4>3. /\ job[c].to = "ACCEPTED" /\ job[c].driver \in Driver
            /\ copy[c] = Transitioned(Assigned(rides[job[c].ride], job[c].driver), "ACCEPTED")
        BY <2>1, <3>2 DEF Safe, CallInv, CarriesDriver, Fresh, Successor
      <4>4. copy[c].driver = job[c].driver
        <5>1. /\ Assigned(rides[job[c].ride], job[c].driver) \in RideRecord
              /\ Assigned(rides[job[c].ride], job[c].driver).driver = job[c].driver
          BY <2>2, <4>3 DEF Assigned, RideRecord
        <5>2. ASSUME NEW ride \in RideRecord
              PROVE  Transitioned(ride, "ACCEPTED").driver = ride.driver
          BY DEF Transitioned, RideRecord
        <5> QED
          BY <4>3, <5>1, <5>2
      <4> QED
        BY <2>1, <4>2, <4>4 DEF Winner
    <3>3. CASE job[c].op # "accept"
      BY <2>1, <3>3 DEF Winner
    <3> QED
      BY <3>1, <3>2, <3>3
  <2> QED
    BY <1>1, <2>1, <2>3, WinnerFrame
<1>6. ASSUME NEW c \in Call, Publish(c) PROVE WinnerInv'
  <2>1. /\ pc[c] = "publish" /\ pc'[c] = "idle" /\ rides' = rides
        /\ \A o \in Call \ {c} : pc'[o] = pc[o] /\ job'[o] = job[o]
    BY <1>6, EndStep DEF Publish, TypeInv
  <2>2. \A o \in Call : Winner(o)'
    BY <2>1 DEF WinnerInv, Winner
  <2>3. rides[job[c].ride] # NoRide /\ (job[c].driver # NoDriver => job[c].op = "accept")
    BY <2>1 DEF TypeInv, CallShape, CallInv, CarriesDriver
  <2>4. ASSUME NEW e \in bus', e.driver # NoDriver
        PROVE  rides'[e.ride] # NoRide /\ rides'[e.ride].driver = e.driver
    <3>1. e \in bus \/ e = [ride |-> job[c].ride, status |-> job[c].to, driver |-> job[c].driver]
      BY <1>6 DEF Publish
    <3>2. CASE e \in bus
      BY <2>1, <2>4, <3>2 DEF WinnerInv
    <3>3. CASE e = [ride |-> job[c].ride, status |-> job[c].to, driver |-> job[c].driver]
      BY <2>1, <2>3, <2>4, <3>3 DEF WinnerInv, Winner
    <3> QED
      BY <3>1, <3>2, <3>3
  <2> QED
    BY <2>2, <2>4 DEF WinnerInv
<1>7. ASSUME NEW c \in Call,
             SaveNewRide(c) \/ SaveIntent(c) \/ FindIntents(c) \/ Reload(c)
      PROVE  WinnerInv'
  <2>1. /\ pc[c] \in {"route", "intent", "intents", "reload"} /\ job' = job /\ bus' = bus
        /\ pc'[c] \in {"intent", "apply"} \/ (pc'[c] = "publish" /\ pc[c] \in {"route", "intent"})
        /\ \A o \in Call \ {c} : pc'[o] = pc[o]
    BY <1>7 DEF SaveNewRide, SaveIntent, FindIntents, Reload, Goto, TypeInv, TypeOK, PC
  <2>2. Winner(c)'
    BY <2>1 DEF Winner, CallInv, NewRide
  <2> QED
    BY <1>1, <2>1, <2>2, WinnerFrame
<1>8. ASSUME NEW c \in Call, AcceptFailsAfterAssignment(c) \/ Refuse(c) \/ Fail(c)
      PROVE  WinnerInv'
  <2>1. /\ pc'[c] = "idle" /\ bus' = bus
        /\ \A o \in Call \ {c} : pc'[o] = pc[o] /\ job'[o] = job[o]
    BY <1>8, EndStep DEF AcceptFailsAfterAssignment, Refuse, Fail, TypeInv
  <2> QED
    BY <1>1, <2>1, WinnerFrame DEF Winner
<1>9. CASE Environment \/ UNCHANGED vars
  <2>1. UNCHANGED <<rides, pc, job, bus>>
    BY <1>9 DEF Environment, IntentMoves, ProfileChanges, TenantLeavesActive, vars
  <2> QED
    BY <2>1 DEF WinnerInv, Winner
<1> QED
  BY <1>2, <1>3, <1>4, <1>5, <1>6, <1>7, <1>8, <1>9 DEF Next, CallContinues

(* A driver announced as the winner of a ride is its driver for good: in   *)
(* both safe arrangements no later or concurrent call takes the ride away. *)
THEOREM WinnerStays == ASSUME Safe PROVE Spec => []WinnerIsPersisted
<1>1. Init => WinnerInv
  BY DEF Init, WinnerInv, Winner
<1>2. TypeInv /\ TypeInv' /\ CallInv /\ WinnerInv /\ [Next]_vars => WinnerInv'
  BY WinnerInvStep
<1>3. WinnerInv => WinnerIsPersisted
  BY DEF WinnerInv, WinnerIsPersisted
<1> QED
  BY <1>1, <1>2, <1>3, TypeInvariant, CallInvariant, PTL DEF Spec

-----------------------------------------------------------------------------
(* Refinement.                                                             *)

(* What the life cycle sees of one ride.                                   *)
Seen(r) == [status |-> rides[r].status, driver |-> rides[r].driver]

LEMMA MapIsFunction ==
  ASSUME NEW r \in RideId
  PROVE  /\ StatusAndDriver[r] = IF rides[r] = NoRide THEN NoRide ELSE Seen(r)
         /\ StatusAndDriver'[r] = IF rides'[r] = NoRide THEN NoRide ELSE Seen(r)'
  BY DEF StatusAndDriver, Seen

(* A step of one ride is a step of the life cycle.                         *)
LEMMA RideStepMaps ==
  ASSUME TypeInv, TypeInv', NEW r \in RideId, RideStep(r), rides'[r] # rides[r],
         \A q \in RideId \ {r} : rides'[q] = rides[q]
  PROVE  Lifecycle!Next
<1> DEFINE m == StatusAndDriver
           mr == StatusAndDriver'[r]
<1>1. StatusAndDriver' = [StatusAndDriver EXCEPT ![r] = mr]
  <2>1. ASSUME NEW q \in RideId \ {r} PROVE StatusAndDriver'[q] = StatusAndDriver[q]
    <3>1. rides'[q] = rides[q]
      BY <2>1
    <3> QED
      BY <3>1, MapIsFunction DEF Seen
  <2>2. /\ StatusAndDriver = [q \in RideId |-> StatusAndDriver[q]]
        /\ StatusAndDriver' = [q \in RideId |-> StatusAndDriver'[q]]
    BY Zenon DEF StatusAndDriver
  <2> QED
    BY <2>1, <2>2
<1>2. /\ rides[r] = NoRide => m[r] = NoRide
      /\ rides[r] # NoRide => /\ rides[r] \in RideRecord /\ m[r] = Seen(r) /\ m[r] # NoRide
                              /\ m[r].status = rides[r].status /\ m[r].driver = rides[r].driver
      /\ rides'[r] # NoRide => rides'[r] \in RideRecord /\ mr = Seen(r)'
  <2>1. /\ rides[r] # NoRide => rides[r] \in RideRecord
        /\ rides'[r] # NoRide => rides'[r] \in RideRecord
    BY DEF TypeInv, TypeOK
  <2>2. rides[r] # NoRide => Seen(r) \in [status : RideStatus, driver : Driver \cup {NoDriver}]
    BY <2>1 DEF Seen, RideRecord
  <2>3. Seen(r).status = rides[r].status /\ Seen(r).driver = rides[r].driver
    BY DEF Seen
  <2>4. rides[r] # NoRide => Seen(r) # NoRide
    BY <2>2, OrchestratorAssumption
  <2> QED
    BY <2>1, <2>3, <2>4, MapIsFunction
<1> HIDE DEF m, mr
<1>3. CASE rides[r] = NoRide /\ Becomes(r, RequestedRide)
  <2>1. rides'[r] # NoRide /\ rides'[r].status = "REQUESTED" /\ rides'[r].driver = NoDriver
    <3>1. RequestedRide \in RideRecord /\ rides'[r] = RequestedRide
      BY <1>3 DEF Becomes, RequestedRide, RideRecord, RideStatus
    <3> QED
      BY <3>1, OrchestratorAssumption DEF RequestedRide
  <2>2. mr = [status |-> "REQUESTED", driver |-> NoDriver]
    BY <1>2, <2>1 DEF Seen
  <2> QED
    BY <1>1, <1>2, <1>3, <2>2 DEF m, Lifecycle!Next, Lifecycle!Request, Lifecycle!Requested
<1>4. ASSUME rides[r] # NoRide, NEW to \in RideStatus, NEW trigger \in Trigger,
             CanTransition(rides[r], to, trigger), Becomes(r, Transitioned(rides[r], to))
      PROVE  Lifecycle!Next
  <2>1. /\ rides'[r] \in RideRecord /\ rides'[r].status = to
        /\ rides'[r].driver = rides[r].driver
    BY <1>2, <1>4 DEF Becomes, Transitioned, RideRecord, Stamped
  <2>2. mr = [m[r] EXCEPT !.status = to]
    BY <1>2, <1>4, <2>1, OrchestratorAssumption DEF Seen
  <2>3. <<m[r].status, to>> \in Lifecycle!Edge
    BY <1>2, <1>4 DEF CanTransition, Edge, Lifecycle!Edge
  <2>4. Lifecycle!Advance(r, to)
    BY <1>1, <1>2, <1>4, <2>2, <2>3 DEF m, Lifecycle!Advance
  <2> QED
    BY <2>4 DEF Lifecycle!Next, Lifecycle!RideStatus, RideStatus
<1>5. ASSUME rides[r] # NoRide, NEW d \in Driver, NEW trigger \in Trigger,
             CanAssign(rides[r]), CanTransition(rides[r], "ACCEPTED", trigger),
             Becomes(r, Transitioned(Assigned(rides[r], d), "ACCEPTED"))
      PROVE  Lifecycle!Next
  <2>1. Assigned(rides[r], d) \in RideRecord /\ Assigned(rides[r], d).driver = d
    BY <1>2, <1>5 DEF Assigned, RideRecord
  <2>2. ASSUME NEW ride \in RideRecord
        PROVE  /\ Transitioned(ride, "ACCEPTED") \in RideRecord
               /\ Transitioned(ride, "ACCEPTED").status = "ACCEPTED"
               /\ Transitioned(ride, "ACCEPTED").driver = ride.driver
    BY DEF Transitioned, RideRecord, RideStatus, Stamped
  <2>3. rides'[r] \in RideRecord /\ rides'[r].status = "ACCEPTED" /\ rides'[r].driver = d
    BY <1>5, <2>1, <2>2 DEF Becomes
  <2>4. mr = [status |-> "ACCEPTED", driver |-> d]
    BY <1>2, <2>3, OrchestratorAssumption DEF Seen
  <2>5. m[r].status = "MATCHING" /\ m[r].driver = NoDriver
    BY <1>2, <1>5 DEF CanTransition, Edge, CanAssign
  <2>6. Lifecycle!Win(r, d)
    BY <1>1, <1>2, <1>5, <2>4, <2>5 DEF m, Lifecycle!Win
  <2> QED
    BY <2>6 DEF Lifecycle!Next
<1>6. ASSUME rides[r] # NoRide, NEW d \in Driver, CanAssign(rides[r]),
             rides[r].status # "MATCHING", Becomes(r, Assigned(rides[r], d))
      PROVE  Lifecycle!Next
  <2>1. /\ rides'[r] \in RideRecord /\ rides'[r].status = rides[r].status
        /\ rides'[r].driver = d
    BY <1>2, <1>6 DEF Becomes, Assigned, RideRecord
  <2>2. mr = [m[r] EXCEPT !.driver = d]
    BY <1>2, <1>6, <2>1, OrchestratorAssumption DEF Seen
  <2>3. Lifecycle!Claim(r, d)
    BY <1>1, <1>2, <1>6, <2>2 DEF m, CanAssign, Lifecycle!Claim
  <2> QED
    BY <2>3 DEF Lifecycle!Next
<1> QED
  BY <1>3, <1>4, <1>5, <1>6 DEF RideStep

(* The handlers implement the ride life cycle in both safe arrangements:   *)
(* whatever calls overlap, a reader of the repository sees each ride walk  *)
(* the closed table, with final terminal statuses and one driver for good. *)
THEOREM HandlersImplementLifecycle == ASSUME Safe PROVE Spec => ImplementsLifecycle
<1>1. Init => Lifecycle!Init
  BY RidesAtFirst DEF Init, Lifecycle!Init, Lifecycle!Requested, StatusAndDriver
<1>2. TypeInv /\ TypeInv' /\ CallInv /\ [Next]_vars => [Lifecycle!Next]_StatusAndDriver
  <2> SUFFICES ASSUME TypeInv, TypeInv', CallInv, [Next]_vars
               PROVE  Lifecycle!Next \/ StatusAndDriver' = StatusAndDriver
    OBVIOUS
  <2>1. OneRideSteps
    BY StepsAreRideSteps
  <2>2. CASE rides' = rides
    BY <2>2 DEF StatusAndDriver
  <2>3. CASE rides' # rides
    <3>1. PICK r \in RideId : \A q \in RideId \ {r} : rides'[q] = rides[q]
      BY <2>1, <2>3 DEF OneRideSteps
    <3>2. rides'[r] # rides[r]
      BY <2>3, <3>1 DEF TypeInv, TypeOK
    <3> QED
      BY <2>1, <3>1, <3>2, RideStepMaps DEF OneRideSteps
  <2> QED
    BY <2>2, <2>3
<1> QED
  BY <1>1, <1>2, TypeInvariant, CallInvariant, PTL DEF Spec, ImplementsLifecycle, Lifecycle!Spec

-----------------------------------------------------------------------------
(* Cancellations by the passenger, where no two calls work on one ride.    *)

(* A ride that was in progress is nowhere before that.                     *)
Ordered(ride) ==
  "IN_PROGRESS" \in ride.stamps =>
    ride.status \notin {"REQUESTED", "MATCHING", "ACCEPTED", "DRIVER_ARRIVING", "DRIVER_ARRIVED"}

Alone(c) ==
  pc[c] # "idle" => \A o \in Call \ {c} : pc[o] # "idle" => job[o].ride # job[c].ride

(* What the policy allowed when the call read the ride still holds of the  *)
(* object it changes.                                                      *)
Permitted(c) ==
  pc[c] # "idle" /\ job[c].op = "cancel" =>
    /\ job[c].to = "CANCELLED" /\ pc[c] \in {"reload", "apply", "save", "publish"}
    /\ pc[c] = "reload" => PassengerMayCancel(rides[job[c].ride])
    /\ pc[c] = "apply" => PassengerMayCancel(Held(c))
    /\ pc[c] \in {"save", "publish"} => ~ {"ACCEPTED", "IN_PROGRESS"} \subseteq Held(c).stamps

CancelInv ==
  /\ \A r \in RideId : rides[r] # NoRide => Ordered(rides[r])
  /\ \A c \in Call : copy[c] # NoRide => Ordered(copy[c])
  /\ \A c \in Call : Alone(c) /\ Permitted(c)

(* The operations of a ride keep the order.                                *)
LEMMA OrderedOperations ==
  /\ Ordered(RequestedRide)
  /\ \A ride \in RideRecord, d \in Driver \cup {NoDriver} :
       Ordered(ride) => Ordered(Assigned(ride, d))
  /\ \A ride \in RideRecord, to \in RideStatus : \A trigger :
       Ordered(ride) /\ CanTransition(ride, to, trigger) => Ordered(Transitioned(ride, to))
<1>1. Ordered(RequestedRide)
  BY DEF Ordered, RequestedRide
<1>2. ASSUME NEW ride \in RideRecord, NEW d \in Driver \cup {NoDriver}, Ordered(ride)
      PROVE  Ordered(Assigned(ride, d))
  BY <1>2 DEF Ordered, Assigned, RideRecord
<1>3. ASSUME NEW ride \in RideRecord, NEW to \in RideStatus, NEW trigger, Ordered(ride),
             CanTransition(ride, to, trigger)
      PROVE  Ordered(Transitioned(ride, to))
  <2>1. /\ Transitioned(ride, to).status = to
        /\ Transitioned(ride, to).stamps = ride.stamps \cup ({to} \cap Stamped)
    BY DEF Transitioned, RideRecord
  <2>2. <<ride.status, to>> \in Edge
    BY <1>3 DEF CanTransition
  <2> QED
    BY <1>3, <2>1, <2>2 DEF Ordered, Edge, Stamped
<1> QED
  BY <1>1, <1>2, <1>3

(* A cancellation within the policy ends no ride in progress.              *)
LEMMA CancelKeepsPolicy ==
  ASSUME NEW ride \in RideRecord, Ordered(ride), PassengerMayCancel(ride), NEW trigger,
         CanTransition(ride, "CANCELLED", trigger)
  PROVE  ~ {"ACCEPTED", "IN_PROGRESS"} \subseteq Transitioned(ride, "CANCELLED").stamps
<1>1. Transitioned(ride, "CANCELLED").stamps = ride.stamps \cup {"CANCELLED"}
  BY DEF Transitioned, RideRecord, Stamped
<1>2. <<ride.status, "CANCELLED">> \in Edge
  BY DEF CanTransition
<1>3. ride.status # "IN_PROGRESS" => "IN_PROGRESS" \notin ride.stamps
  BY <1>2 DEF Ordered, Edge
<1> QED
  BY <1>1, <1>3 DEF PassengerMayCancel

(* What a call that goes on has to show: its own ride and copy in order    *)
(* and its own cancellation permitted.                                     *)
LEMMA CancelFrame ==
  ASSUME TypeInv, CancelInv, NEW c \in Call, pc[c] # "idle", pc'[c] = "idle" \/ job'[c] = job[c],
         \A o \in Call \ {c} : pc'[o] = pc[o] /\ job'[o] = job[o] /\ copy'[o] = copy[o],
         \A q \in RideId \ {job[c].ride} : rides'[q] = rides[q],
         rides'[job[c].ride] # NoRide => Ordered(rides'[job[c].ride]),
         copy'[c] # NoRide => Ordered(copy'[c]),
         Permitted(c)'
  PROVE  CancelInv'
<1>1. \A r \in RideId : rides'[r] # NoRide => Ordered(rides'[r])
  BY DEF CancelInv
<1>2. \A o \in Call : copy'[o] # NoRide => Ordered(copy'[o])
  BY DEF CancelInv
<1>3. Alone(c)'
  BY DEF CancelInv, Alone
<1>4. ASSUME NEW o \in Call \ {c} PROVE Alone(o)' /\ Permitted(o)'
  <2>1. Alone(o)'
    BY DEF CancelInv, Alone
  <2>2. pc[o] # "idle" => job[o].ride \in RideId /\ job[o].ride # job[c].ride
    BY DEF TypeInv, CallShape, Job, CancelInv, Alone
  <2>3. pc[o] # "idle" => Held(o)' = Held(o) /\ rides'[job[o].ride] = rides[job[o].ride]
    BY <2>2 DEF Held
  <2>4. Permitted(o)'
    BY <2>3 DEF CancelInv, Permitted
  <2> QED
    BY <2>1, <2>4
<1> QED
  BY <1>1, <1>2, <1>3, <1>4 DEF CancelInv, Ordered

(* Only a call on the ride can change what the policy was asked about.     *)
LEMMA CancelInvStep == Serialised /\ TypeInv /\ CancelInv /\ [Next]_vars => CancelInv'
<1> SUFFICES ASSUME Serialised, TypeInv, CancelInv, [Next]_vars PROVE CancelInv'
  OBVIOUS
<1> USE OrchestratorAssumption
<1>t. TypeOK
  BY DEF TypeInv
<1>h. ASSUME NEW c \in Call, pc[c] # "idle"
      PROVE  /\ job[c] \in Job /\ job[c].ride \in RideId /\ job[c].to \in RideStatus
             /\ job[c].driver \in Driver \cup {NoDriver}
             /\ rides[job[c].ride] # NoRide => Ordered(rides[job[c].ride])
             /\ copy[c] # NoRide => Ordered(copy[c])
  BY <1>h DEF TypeInv, CallShape, Job, CancelInv
<1>a. ASSUME NEW c \in Call, pc[c] = "apply" PROVE Held(c) \in RideRecord /\ Ordered(Held(c))
  <2>1. /\ job[c].ride \in RideId /\ rides[job[c].ride] # NoRide /\ Ordered(rides[job[c].ride])
        /\ Live => copy[c] # NoRide /\ Ordered(copy[c])
    BY <1>a, <1>h DEF TypeInv, CallShape
  <2> QED
    BY <1>t, <2>1 DEF Held, TypeOK
<1>e. ASSUME NEW c \in Call, pc[c] # "idle", End(c), rides' = rides PROVE CancelInv'
  <2>1. /\ pc'[c] = "idle" /\ copy'[c] = NoRide
        /\ \A o \in Call \ {c} : pc'[o] = pc[o] /\ job'[o] = job[o] /\ copy'[o] = copy[o]
    BY <1>e, <1>t, EndStep DEF End, TypeOK
  <2>2. Permitted(c)'
    BY <2>1 DEF Permitted
  <2> QED
    BY <1>e, <1>h, <2>1, <2>2, CancelFrame
<1>1. ASSUME NEW c \in Call, CallBegins(c) PROVE CancelInv'
  <2>1. PICK r \in RideId : Begun(c, r)
    BY <1>1, BeginsStep
  <2>2. /\ pc[c] = "idle" /\ rides' = rides /\ job'[c].ride = r
        /\ \A o \in Call : pc[o] # "idle" => job[o].ride # r
        /\ \A o \in Call \ {c} : pc'[o] = pc[o] /\ job'[o] = job[o] /\ copy'[o] = copy[o]
    BY <2>1 DEF Begun, MayBegin
  <2>3. copy'[c] # NoRide => Ordered(copy'[c])
    <3>1. \E q \in RideId : copy' = copy \/ copy' = [copy EXCEPT ![c] = Loaded(q)]
      BY <1>1 DEF CallBegins, RequestRide, StartMatching, CancelRide, AcceptOffer, AdvanceRide
    <3>2. \E q \in RideId : copy'[c] = copy[c] \/ copy'[c] = Loaded(q)
      BY <1>t, <3>1 DEF TypeOK
    <3> QED
      BY <3>2 DEF CancelInv, Loaded
  <2>4. \A o \in Call : Alone(o)'
    BY <2>2 DEF CancelInv, Alone
  <2>5. Permitted(c)'
    BY <2>1 DEF Begun, Permitted
  <2>6. ASSUME NEW o \in Call \ {c} PROVE Permitted(o)'
    BY <2>2 DEF CancelInv, Permitted, Held
  <2>7. /\ \A q \in RideId : rides'[q] # NoRide => Ordered(rides'[q])
        /\ \A o \in Call : copy'[o] # NoRide => Ordered(copy'[o])
    BY <2>2, <2>3 DEF CancelInv
  <2> QED
    BY <2>4, <2>5, <2>6, <2>7 DEF CancelInv, Ordered
<1>2. ASSUME NEW c \in Call, SaveNewRide(c) PROVE CancelInv'
  <2>1. /\ pc[c] = "route" /\ pc'[c] \in {"intent", "publish"} /\ job' = job /\ copy' = copy
        /\ \A o \in Call \ {c} : pc'[o] = pc[o] /\ copy'[o] = copy[o]
    BY <1>2 DEF SaveNewRide, Goto, TypeInv, TypeOK, PC
  <2>2. /\ \A q \in RideId \ {job[c].ride} : rides'[q] = rides[q]
        /\ rides'[job[c].ride] = RequestedRide
    BY <1>2, <1>h, <2>1 DEF SaveNewRide, Put, TypeInv, TypeOK
  <2>3. Permitted(c)'
    BY <2>1 DEF CancelInv, Permitted
  <2> QED
    BY <1>h, <2>1, <2>2, <2>3, CancelFrame, OrderedOperations
<1>3. ASSUME NEW c \in Call, SaveIntent(c) \/ FindIntents(c) PROVE CancelInv'
  <2>1. /\ pc[c] \in {"intent", "intents"} /\ job' = job /\ rides' = rides /\ copy' = copy
        /\ \A o \in Call \ {c} : pc'[o] = pc[o] /\ copy'[o] = copy[o]
    BY <1>3 DEF SaveIntent, FindIntents, Goto, TypeInv, TypeOK, PC
  <2>2. Permitted(c)'
    BY <2>1 DEF CancelInv, Permitted
  <2> QED
    BY <1>h, <2>1, <2>2, CancelFrame
<1>4. ASSUME NEW c \in Call, Reload(c) PROVE CancelInv'
  <2>1. /\ pc[c] = "reload" /\ pc'[c] = "apply" /\ job' = job /\ rides' = rides
        /\ copy'[c] = Loaded(job[c].ride)
        /\ \A o \in Call \ {c} : pc'[o] = pc[o] /\ copy'[o] = copy[o]
    BY <1>4 DEF Reload, Goto, TypeInv, TypeOK, PC
  <2>2. Permitted(c)'
    BY <2>1 DEF CancelInv, Permitted, Held, Loaded
  <2>3. copy'[c] # NoRide => Ordered(copy'[c])
    BY <1>h, <2>1 DEF Loaded
  <2> QED
    BY <1>h, <2>1, <2>2, <2>3, CancelFrame
(* The object a call holds takes a new value, at once or at its save.      *)
<1>m. ASSUME NEW c \in Call, NEW new \in RideRecord, pc[c] = "apply", pc'[c] = "save", job' = job,
             \A o \in Call \ {c} : pc'[o] = pc[o], Mutate(c, new), Ordered(new),
             job[c].op = "cancel" => ~ {"ACCEPTED", "IN_PROGRESS"} \subseteq new.stamps
      PROVE  CancelInv'
  <2>1. /\ job[c].ride \in RideId
        /\ IF Live THEN copy'[c] = new /\ rides' = rides
           ELSE rides'[job[c].ride] = new /\ copy' = copy
        /\ \A o \in Call \ {c} : copy'[o] = copy[o]
        /\ \A q \in RideId \ {job[c].ride} : rides'[q] = rides[q]
    BY <1>m, <1>h, <1>t DEF Mutate, Put, TypeOK
  <2>2. Held(c)' = new
    BY <1>m, <2>1 DEF Held
  <2>3. Permitted(c)'
    BY <1>m, <2>2 DEF CancelInv, Permitted
  <2> QED
    BY <1>m, <1>h, <2>1, <2>3, CancelFrame
<1>6. ASSUME NEW c \in Call, Transition(c) PROVE CancelInv'
  <2> DEFINE new == Transitioned(Held(c), job[c].to)
  <2>1. /\ pc[c] = "apply" /\ pc'[c] = "save" /\ job' = job
        /\ \A o \in Call \ {c} : pc'[o] = pc[o]
    BY <1>6 DEF Transition, Goto, TypeInv, TypeOK, PC
  <2>2. /\ Mutate(c, new) /\ CanTransition(Held(c), job[c].to, job[c].trigger)
        /\ Held(c) \in RideRecord /\ Ordered(Held(c)) /\ job[c].to \in RideStatus
    BY <1>6, <1>a, <1>h, <2>1 DEF Transition
  <2>3. new \in RideRecord /\ Ordered(new)
    BY <2>2, RideOperations, OrderedOperations
  <2>4. job[c].op = "cancel" => ~ {"ACCEPTED", "IN_PROGRESS"} \subseteq new.stamps
    <3> SUFFICES ASSUME job[c].op = "cancel"
                 PROVE  ~ {"ACCEPTED", "IN_PROGRESS"} \subseteq new.stamps
      OBVIOUS
    <3>1. job[c].to = "CANCELLED" /\ PassengerMayCancel(Held(c))
      BY <2>1 DEF CancelInv, Permitted
    <3> QED
      BY <2>2, <3>1, CancelKeepsPolicy
  <2> HIDE DEF new
  <2> QED
    BY <1>m, <2>1, <2>2, <2>3, <2>4
<1>7. ASSUME NEW c \in Call, Accept(c) PROVE CancelInv'
  <2> DEFINE old == Assigned(Held(c), job[c].driver)
             new == Transitioned(old, "ACCEPTED")
  <2>1. /\ pc[c] = "apply" /\ pc'[c] = "save" /\ job' = job /\ job[c].op = "accept"
        /\ \A o \in Call \ {c} : pc'[o] = pc[o]
    BY <1>7 DEF Accept, Goto, TypeInv, TypeOK, PC
  <2>2. /\ Mutate(c, new) /\ CanTransition(Held(c), "ACCEPTED", job[c].trigger)
        /\ Held(c) \in RideRecord /\ Ordered(Held(c)) /\ "ACCEPTED" \in RideStatus
        /\ job[c].driver \in Driver \cup {NoDriver}
    BY <1>7, <1>a, <1>h, <2>1 DEF Accept, RideStatus
  <2>3. old \in RideRecord /\ Ordered(old) /\ old.status = Held(c).status
    BY <2>2, RideOperations, OrderedOperations
  <2>4. CanTransition(old, "ACCEPTED", job[c].trigger)
    BY <2>2, <2>3 DEF CanTransition
  <2>5. new \in RideRecord /\ Ordered(new)
    BY <2>2, <2>3, <2>4, RideOperations, OrderedOperations
  <2> HIDE DEF new
  <2> QED
    BY <1>m, <2>1, <2>2, <2>5
<1>8. ASSUME NEW c \in Call, AcceptFailsAfterAssignment(c) PROVE CancelInv'
  <2>1. CASE Live
    BY <1>8, <1>e, <2>1 DEF AcceptFailsAfterAssignment
  <2>2. CASE ~ Live
    <3>1. /\ pc[c] = "apply" /\ pc'[c] = "idle" /\ copy'[c] = NoRide
          /\ \A o \in Call \ {c} : pc'[o] = pc[o] /\ job'[o] = job[o] /\ copy'[o] = copy[o]
      BY <1>8, <1>t, EndStep DEF AcceptFailsAfterAssignment, End, TypeOK
    <3>2. /\ rides'[job[c].ride] = Assigned(Held(c), job[c].driver)
          /\ \A q \in RideId \ {job[c].ride} : rides'[q] = rides[q]
      BY <1>8, <1>h, <1>t, <2>2, <3>1 DEF AcceptFailsAfterAssignment, Put, TypeOK
    <3>3. Ordered(rides'[job[c].ride])
      BY <1>a, <1>h, <3>1, <3>2, OrderedOperations
    <3>4. Permitted(c)'
      BY <3>1 DEF Permitted
    <3> QED
      BY <3>1, <3>2, <3>3, <3>4, CancelFrame
  <2> QED
    BY <2>1, <2>2
<1>9. ASSUME NEW c \in Call, Refuse(c) \/ Publish(c) \/ Fail(c) PROVE CancelInv'
  BY <1>9, <1>e DEF Refuse, Publish, Fail
<1>10. ASSUME NEW c \in Call, Save(c) PROVE CancelInv'
  <2>1. /\ pc[c] = "save" /\ pc'[c] = "publish" /\ job' = job /\ copy' = copy
        /\ \A o \in Call \ {c} : pc'[o] = pc[o]
    BY <1>10 DEF Save, Goto, TypeInv, TypeOK, PC
  <2>2. /\ \A q \in RideId \ {job[c].ride} : rides'[q] = rides[q]
        /\ rides'[job[c].ride] = IF Live THEN copy[c] ELSE rides[job[c].ride]
    BY <1>10, <1>h, <2>1 DEF Save, Put, TypeInv, TypeOK
  <2>3. Held(c)' = Held(c)
    BY <2>1, <2>2 DEF Held
  <2>4. Permitted(c)'
    BY <2>1, <2>3 DEF CancelInv, Permitted
  <2> QED
    BY <1>h, <2>1, <2>2, <2>4, CancelFrame
<1>13. CASE Environment \/ UNCHANGED vars
  <2>1. UNCHANGED <<rides, pc, job, copy>>
    BY <1>13 DEF Environment, IntentMoves, ProfileChanges, TenantLeavesActive, vars
  <2> QED
    BY <2>1 DEF CancelInv, Ordered, Alone, Permitted, Held
<1> QED
  BY <1>1, <1>2, <1>3, <1>4, <1>6, <1>7, <1>8, <1>9, <1>10, <1>13 DEF Next, CallContinues

(* A passenger's cancellation never ends a ride that was accepted and is   *)
(* in progress, in either runtime, as long as no two calls work on one     *)
(* ride at a time.                                                         *)
THEOREM CancelStaysInPolicy == ASSUME Serialised PROVE Spec => []PassengerCancelObeysPolicy
<1>1. Init => CancelInv
  BY RidesAtFirst DEF Init, CancelInv, Alone, Permitted, Ordered
<1>2. TypeInv /\ CancelInv /\ [Next]_vars => CancelInv'
  BY CancelInvStep
<1>3. CancelInv => PassengerCancelObeysPolicy
  BY DEF CancelInv, Permitted, PassengerCancelObeysPolicy
<1> QED
  BY <1>1, <1>2, <1>3, TypeInvariant, PTL DEF Spec
=============================================================================

--------------------------- MODULE DispatchWaves ----------------------------
(***************************************************************************)
(* Finding a driver: the policy of domain/dispatch.ts, with the functions  *)
(* called in the order its comments and tests call them.                   *)
(*                                                                         *)
(* The runtime that delivers offers and times them is not in the           *)
(* repository: it plans the waves of a ride in turn, a driver may answer   *)
(* an offer at any time, and after the last wave it decides to close and   *)
(* then closes.  Several rides look for drivers at once.  The five         *)
(* criteria a candidate meets or not by its record are one, fit.           *)
(***************************************************************************)
EXTENDS Naturals, Sequences, FiniteSets, SequencesExt

CONSTANTS
  OpenRide,    \* the rides that look for a driver
  Driver,      \* driver ids, in the order of the ids
  Facts,       \* what may be known of a driver when a wave is planned
  MaxOffers,   \* MAX_OFFERS_PER_WAVE
  Nobody

ASSUME DispatchAssumption ==
  /\ Driver \subseteq Nat /\ IsFiniteSet(Driver) /\ Nobody \notin Driver
  /\ MaxOffers \in Nat
  /\ Facts \subseteq [fit: BOOLEAN, age: Nat, distance: Nat, eta: Nat, stamp: Nat, idle: Nat]

VARIABLES
  wave,        \* wave[r]: how many waves were planned
  offered,     \* offered[r]: alreadyOffered
  assignment,  \* assignment[r]: status and winner
  closing,     \* the rides whose runtime decided to close them
  log,         \* history: offers made and acceptances, in order
  plan,        \* history: the last plan, with what it was made from
  overruled    \* history: rides accepted after closing was decided

dispatchVars == <<wave, offered, assignment, closing, log, plan, overruled>>

(* WAVES: the radius of each.                                              *)
Radius == <<2, 4, 7>>

Assignment == [status: {"OPEN", "ASSIGNED", "NO_DRIVER_AVAILABLE"}, winner: Driver \cup {Nobody}]

Entry == [what: {"offer", "win"}, ride: OpenRide, driver: Driver]

DispatchTypeOK ==
  /\ wave \in [OpenRide -> 0 .. Len(Radius)]
  /\ offered \in [OpenRide -> SUBSET Driver]
  /\ assignment \in [OpenRide -> Assignment]
  /\ closing \subseteq OpenRide /\ overruled \subseteq OpenRide
  /\ log \in Seq(Entry)

DispatchInit ==
  /\ wave = [r \in OpenRide |-> 0]
  /\ offered = [r \in OpenRide |-> {}]
  /\ assignment = [r \in OpenRide |-> [status |-> "OPEN", winner |-> Nobody]]
  /\ closing = {} /\ overruled = {}
  /\ log = <<>>
  /\ plan = <<>>

-----------------------------------------------------------------------------
(* The policy.                                                             *)

(* removeExpiredCandidates and isEligible.                                 *)
Eligible(facts, busy) ==
  {d \in Driver : facts[d].age <= 60 /\ facts[d].fit /\ facts[d].age <= 20 /\ d \notin busy}

(* The comparison of rankCandidates.                                       *)
RanksBefore(facts, d, e) ==
  LET f == facts[d]
      g == facts[e] IN
  IF f.eta # g.eta THEN f.eta < g.eta
  ELSE IF f.stamp # g.stamp THEN f.stamp > g.stamp
  ELSE IF f.idle # g.idle THEN f.idle > g.idle
  ELSE d < e

SlipRankCandidates(facts, drivers) ==
  [i \in 1 .. Cardinality(drivers) |->
     CHOOSE d \in drivers : Cardinality({e \in drivers : RanksBefore(facts, d, e)}) = i - 1]

(* rankCandidates: the position of a driver is the number ranked before.   *)
RankCandidates(facts, drivers) ==
  [i \in 1 .. Cardinality(drivers) |->
     CHOOSE d \in drivers : Cardinality({e \in drivers : RanksBefore(facts, e, d)}) = i - 1]

(* planWaveOffers: the ranked in turn, those in the radius that had no     *)
(* offer yet, until the wave is full.                                      *)
PlanWaveOffers(facts, ranked, w, already) ==
  LET driverIds[i \in 0 .. Len(ranked)] ==
        IF i = 0 THEN <<>>
        ELSE IF /\ Len(driverIds[i - 1]) < MaxOffers
                /\ facts[ranked[i]].distance <= Radius[w] /\ ranked[i] \notin already
             THEN Append(driverIds[i - 1], ranked[i])
             ELSE driverIds[i - 1] IN
  driverIds[Len(ranked)]

(* The drivers assigned to a ride.                                         *)
Busy == {assignment[r].winner : r \in OpenRide} \ {Nobody}

-----------------------------------------------------------------------------
Offers(r, drivers) == [i \in DOMAIN drivers |-> [what |-> "offer", ride |-> r, driver |-> drivers[i]]]

(* The next wave of a ride that has no driver yet.                         *)
StartWave(r, facts) ==
  LET w == wave[r] + 1
      ranked == RankCandidates(facts, Eligible(facts, Busy))
      drivers == PlanWaveOffers(facts, ranked, w, offered[r]) IN
  /\ wave[r] < Len(Radius)
  /\ assignment[r].status = "OPEN"
  /\ wave' = [wave EXCEPT ![r] = w]
  /\ offered' = [offered EXCEPT ![r] = @ \cup ToSet(drivers)]
  /\ log' = log \o Offers(r, drivers)
  /\ plan' = [wave |-> w, facts |-> facts, busy |-> Busy, before |-> offered[r], drivers |-> drivers]
  /\ UNCHANGED <<assignment, closing, overruled>>

SlipAcceptRide(r, d) ==
  [status |-> "ASSIGNED", winner |-> d]

(* acceptRide of an open ride; any other answer is a conflict.             *)
AcceptRide(r, d) ==
  IF assignment[r].status = "OPEN" THEN [status |-> "ASSIGNED", winner |-> d] ELSE assignment[r]

(* A driver accepts an offer, however late.                                *)
Accept(r, d) ==
  /\ d \in offered[r]
  /\ AcceptRide(r, d) # assignment[r]
  /\ assignment' = [assignment EXCEPT ![r] = AcceptRide(r, d)]
  /\ log' = Append(log, [what |-> "win", ride |-> r, driver |-> d])
  /\ overruled' = IF r \in closing THEN overruled \cup {r} ELSE overruled
  /\ UNCHANGED <<wave, offered, closing, plan>>

(* After the last wave nobody has accepted: the runtime means to close.    *)
DecideToClose(r) ==
  /\ wave[r] = Len(Radius) /\ assignment[r].status = "OPEN"
  /\ closing' = closing \cup {r}
  /\ UNCHANGED <<wave, offered, assignment, log, plan, overruled>>

(* closeWithoutDriver takes no assignment to look at: it makes a new one.  *)
CloseWithoutDriver(r) ==
  /\ r \in closing
  /\ assignment' = [assignment EXCEPT ![r] = [status |-> "NO_DRIVER_AVAILABLE", winner |-> Nobody]]
  /\ closing' = closing \ {r}
  /\ UNCHANGED <<wave, offered, log, plan, overruled>>

DispatchNext ==
  \E r \in OpenRide :
    \/ \E facts \in [Driver -> Facts] : StartWave(r, facts)
    \/ \E d \in Driver : Accept(r, d)
    \/ DecideToClose(r) \/ CloseWithoutDriver(r)

-----------------------------------------------------------------------------
(* Properties.                                                             *)

(* A ride has one winner, the first to accept an offer made to him, and    *)
(* keeps him, unless closing it had been decided before he did.  And a     *)
(* driver wins two rides only if both were offered before he accepted      *)
(* either: who is assigned gets no new offer.                              *)
OneWinner ==
  \A i \in DOMAIN log : log[i].what = "win" =>
    LET r == log[i].ride IN
    /\ \A j \in DOMAIN log : log[j].what = "win" /\ log[j].ride = r => j = i
    /\ assignment[r] = [status |-> "ASSIGNED", winner |-> log[i].driver] \/ r \in overruled
    /\ \E j \in 1 .. (i - 1) : log[j] = [what |-> "offer", ride |-> r, driver |-> log[i].driver]
    /\ \A j \in i .. Len(log) :
         log[j].what = "offer" /\ log[j].driver = log[i].driver => r \in overruled

(* Nobody is offered a ride twice, and offers go to the best: who is left  *)
(* out of a wave although he could have been offered ranks behind          *)
(* everybody who was, and the wave is full.                                *)
BestFirst ==
  /\ \A i, j \in DOMAIN log : log[i].what = "offer" /\ log[i] = log[j] => i = j
  /\ plan # <<>> =>
       LET could == {d \in Eligible(plan.facts, plan.busy) \ plan.before :
                       plan.facts[d].distance <= Radius[plan.wave]}
           drivers == ToSet(plan.drivers) IN
       /\ drivers \subseteq could
       /\ \A d \in could \ drivers :
            /\ Len(plan.drivers) = MaxOffers
            /\ \A e \in drivers : RanksBefore(plan.facts, e, d)
=============================================================================

---------------------------- MODULE FieldProofs -----------------------------
(***************************************************************************)
(* The cadence of positions, the waves of offers, the pages over a ride    *)
(* and the fares, for any number of devices' ticks, drivers, rides, users  *)
(* and pages, and any thresholds, candidates and amounts.                  *)
(***************************************************************************)
EXTENDS Field, FiniteProofs, SequenceTheorems, TLAPS

-----------------------------------------------------------------------------
(* Tracking.                                                               *)

(* While ticks do not overlap, one is in flight at most; the tracker holds *)
(* the time of the newest location and so does the pool, and the tick in   *)
(* flight was due when it began.                                           *)
Alone ==
  /\ \A c, d \in InFlight : c = d
  /\ \A c \in InFlight :
       tracker.last # NoFix =>
         ticks[c].at - tracker.last >= UpdateInterval(ticks[c].state.onRide)
  /\ \A f \in fixes : tracker.last # NoFix /\ f.at <= tracker.last
  /\ pool # NoFix => \A f \in fixes : f.at <= pool.at
  /\ pool = NoFix => \A f \in fixes : clock - f.at > ExpiredAfter

(* While the mode did not change under a tick either, a tick in flight has *)
(* the mode of the tracker.                                                *)
SameMode ==
  /\ tracker.onRide = onTrip
  /\ \A c \in InFlight : ticks[c].state.onRide = tracker.onRide

(* Times do not come from the future, and the pool holds what was sent.    *)
InThePast ==
  /\ tracker.last # NoFix => tracker.last <= clock
  /\ \A c \in InFlight : ticks[c].at <= clock
  /\ \A f \in fixes : f.at <= clock
  /\ pool # NoFix => pool \in fixes

Cadence == \A f, g \in fixes : f.at < g.at => g.at - f.at >= UpdateInterval(g.onRide)

TrackInv ==
  /\ TrackTypeOK /\ InThePast
  /\ "tick" \notin trackRaced => Alone /\ Cadence
  /\ trackRaced = {} => SameMode

LEMMA StartTickStep ==
  ASSUME TrackInv, NEW c \in Tick, StartTick(c)
  PROVE  TrackInv'
<1> USE TrackingAssumption DEF TrackInv, TrackTypeOK, StartTick
<1> PICK call \in TickCall : call = [state |-> tracker, at |-> clock]
  BY DEF TickCall
<1>1. /\ ticks'[c] = call /\ \A d \in Tick \ {c} : ticks'[d] = ticks[d]
      /\ ticks' \in [Tick -> TickCall \cup {NoTick}] /\ call # NoTick
      /\ UNCHANGED <<clock, onTrip, tracker, fixes, pool>>
      /\ trackRaced \subseteq trackRaced' /\ trackRaced' \subseteq {"tick", "mode"}
      /\ call.state = tracker /\ call.at = clock
  OBVIOUS
<1>2. InFlight' = InFlight \cup {c} /\ c \notin InFlight
  BY <1>1 DEF InFlight
<1>3. InThePast'
  <2>1. \A d \in InFlight' : ticks'[d].at <= clock
    BY <1>1, <1>2 DEF InThePast, InFlight, Time
  <2> QED
    BY <1>1, <2>1 DEF InThePast
<1>4. ASSUME "tick" \notin trackRaced' PROVE Alone' /\ Cadence'
  <2>1. Alone /\ Cadence /\ InFlight = {}
    BY <1>4
  <2>2. tracker.last # NoFix => call.at - tracker.last >= UpdateInterval(call.state.onRide)
    BY <1>1 DEF IsDue
  <2> QED
    BY <1>1, <1>2, <2>1, <2>2 DEF Alone, Cadence
<1>5. ASSUME trackRaced' = {} PROVE SameMode'
  <2>1. SameMode /\ InFlight = {}
    BY <1>5
  <2> QED
    BY <1>1, <1>2, <2>1 DEF SameMode
<1> QED
  BY <1>1, <1>3, <1>4, <1>5

LEMMA FinishTickStep ==
  ASSUME TrackInv, NEW c \in Tick, FinishTick(c)
  PROVE  TrackInv'
<1> USE TrackingAssumption DEF TrackInv, TrackTypeOK, FinishTick
<1> PICK call \in TickCall : call = ticks[c]
  OBVIOUS
<1>0. call.at \in Time /\ call.state \in TrackerState /\ call.state.onRide \in BOOLEAN
  BY DEF TickCall, TrackerState
<1> PICK fix \in Fix : fix = [at |-> call.at, onRide |-> call.state.onRide]
  BY <1>0 DEF Fix
<1> PICK next \in TrackerState : next = [call.state EXCEPT !.last = call.at]
  BY <1>0 DEF TrackerState
<1>1. /\ ticks'[c] = NoTick /\ \A d \in Tick \ {c} : ticks'[d] = ticks[d]
      /\ ticks' \in [Tick -> TickCall \cup {NoTick}]
      /\ tracker' = next /\ pool' = fix /\ fixes' = fixes \cup {fix} /\ fix # NoFix
      /\ UNCHANGED <<clock, onTrip, trackRaced>>
  BY DEF NextState
<1>2. fix.at = call.at /\ fix.onRide = call.state.onRide /\ fix.at \in Nat
      /\ next.last = call.at /\ next.onRide = call.state.onRide /\ next.last # NoFix
  BY <1>0 DEF TrackerState, Time
<1>3. InFlight' = InFlight \ {c} /\ c \in InFlight
  BY <1>1 DEF InFlight
<1>4. InThePast'
  <2>1. call.at <= clock
    BY <1>3 DEF InThePast
  <2> QED
    BY <1>1, <1>2, <1>3, <2>1 DEF InThePast, InFlight
<1>5. ASSUME "tick" \notin trackRaced' PROVE Alone' /\ Cadence'
  <2>1. Alone /\ Cadence
    BY <1>1, <1>5
  <2>2. InFlight' = {}
    BY <1>3, <2>1 DEF Alone
  <2>3. \A f \in fixes : f.at \in Nat /\ f.at <= tracker.last /\ tracker.last \in Nat
    BY <2>1 DEF Alone, Fix, TrackerState, Time
  <2>4. \A f \in fixes : fix.at - f.at >= UpdateInterval(fix.onRide) /\ UpdateInterval(fix.onRide) \in Nat
    BY <1>0, <1>2, <1>3, <2>1, <2>3 DEF Alone, UpdateInterval
  <2>5. \A f \in fixes : f.at <= fix.at
    BY <1>2, <2>3, <2>4
  <2>6. Alone'
    BY <1>1, <1>2, <2>2, <2>5 DEF Alone
  <2>7. Cadence'
    BY <1>1, <1>2, <2>1, <2>3, <2>4, <2>5 DEF Cadence, UpdateInterval
  <2> QED
    BY <2>6, <2>7
<1>6. ASSUME trackRaced' = {} PROVE SameMode'
  <2>1. SameMode /\ Alone
    BY <1>1, <1>6
  <2> QED
    BY <1>1, <1>2, <1>3, <2>1 DEF SameMode, InFlight
<1> QED
  BY <1>1, <1>4, <1>5, <1>6

(* No location came: a tick failed, the mode changed, or the pool pruned.  *)
LEMMA QuietTrackStep ==
  ASSUME TrackInv, (\E c \in Tick : FailTick(c)) \/ SwitchMode \/ Prune
  PROVE  TrackInv'
<1> USE TrackingAssumption DEF TrackInv, TrackTypeOK
<1>1. ASSUME NEW c \in Tick, FailTick(c) PROVE TrackInv'
  <2>1. /\ InFlight' = InFlight \ {c} /\ \A d \in InFlight' : ticks'[d] = ticks[d]
        /\ ticks' \in [Tick -> TickCall \cup {NoTick}]
        /\ UNCHANGED <<clock, onTrip, tracker, fixes, pool, trackRaced>>
    BY <1>1 DEF FailTick, InFlight
  <2>2. InThePast'
    BY <2>1 DEF InThePast
  <2>3. "tick" \notin trackRaced' => Alone' /\ Cadence'
    BY <2>1 DEF Alone, Cadence
  <2>4. trackRaced' = {} => SameMode'
    BY <2>1 DEF SameMode
  <2> QED
    BY <2>1, <2>2, <2>3, <2>4
<1>2. CASE SwitchMode
  <2>1. /\ tracker' \in TrackerState /\ tracker'.last = tracker.last /\ tracker'.onRide = onTrip'
        /\ onTrip' \in BOOLEAN /\ UNCHANGED <<clock, ticks, fixes, pool>> /\ InFlight' = InFlight
        /\ trackRaced' \subseteq {"tick", "mode"} /\ ("tick" \in trackRaced => "tick" \in trackRaced')
        /\ (trackRaced' = {} => InFlight = {})
    BY <1>2 DEF SwitchMode, TrackerState, InFlight
  <2>2. InThePast'
    BY <2>1 DEF InThePast
  <2>3. "tick" \notin trackRaced' => Alone' /\ Cadence'
    BY <2>1 DEF Alone, Cadence
  <2>4. trackRaced' = {} => SameMode'
    BY <2>1 DEF SameMode
  <2> QED
    BY <2>1, <2>2, <2>3, <2>4
<1>3. CASE Prune
  <2>1. /\ pool' = NoFix /\ pool # NoFix /\ UNCHANGED <<clock, onTrip, tracker, ticks, fixes, trackRaced>>
        /\ InFlight' = InFlight
    BY <1>3 DEF Prune, InFlight
  <2>2. clock - pool.at > ExpiredAfter /\ pool.at \in Nat /\ clock \in Nat
    BY <1>3 DEF Prune, Freshness, Fix, Time
  <2>3. \A f \in fixes : f.at \in Nat
    BY DEF Fix, Time
  <2>4. InThePast'
    BY <2>1 DEF InThePast
  <2>5. "tick" \notin trackRaced' => Alone' /\ Cadence'
    BY <2>1, <2>2, <2>3 DEF Alone, Cadence
  <2>6. trackRaced' = {} => SameMode'
    BY <2>1 DEF SameMode
  <2> QED
    BY <2>1, <2>4, <2>5, <2>6
<1> QED
  BY <1>1, <1>2, <1>3

LEMMA TrackInvStep == TrackInv /\ [Next]_fieldVars => TrackInv'
<1> SUFFICES ASSUME TrackInv, [Next]_fieldVars
             PROVE  TrackInv'
  OBVIOUS
<1>1. CASE TimePasses
  <2> USE TrackingAssumption, <1>1 DEF TrackInv, TrackTypeOK, TimePasses
  <2>1. clock' \in Time /\ clock' = clock + 1 /\ clock \in Nat
    BY DEF Time
  <2>2. /\ \A f \in fixes : f.at \in Nat
        /\ \A c \in InFlight : ticks[c].at \in Nat
        /\ tracker.last # NoFix => tracker.last \in Nat
    BY DEF Fix, Time, InFlight, TickCall, TrackerState
  <2>3. InThePast'
    BY <2>1, <2>2 DEF InThePast, InFlight
  <2>4. "tick" \notin trackRaced' => Alone' /\ Cadence'
    BY <2>1, <2>2 DEF Alone, Cadence, InFlight
  <2>5. trackRaced' = {} => SameMode'
    BY DEF SameMode, InFlight
  <2> QED
    BY <2>1, <2>3, <2>4, <2>5
<1>2. CASE UNCHANGED trackVars
  BY <1>2 DEF trackVars, TrackInv, TrackTypeOK, InThePast, Alone, Cadence, SameMode, InFlight
<1>3. CASE TrackNext
  BY <1>1, <1>3, StartTickStep, FinishTickStep, QuietTrackStep DEF TrackNext
<1> QED
  BY <1>2, <1>3 DEF Next, fieldVars

LEMMA TrackInvHolds == Spec => []TrackInv
<1>1. Init => TrackInv
  <2> SUFFICES ASSUME TrackInit PROVE TrackInv
    BY DEF Init
  <2>1. 0 \in Time /\ [onRide |-> FALSE, last |-> NoFix] \in TrackerState
    BY TrackingAssumption DEF Time, TrackerState
  <2>2. TrackTypeOK
    BY <2>1 DEF TrackInit, TrackTypeOK
  <2>3. InFlight = {}
    BY DEF TrackInit, InFlight
  <2> QED
    BY <2>2, <2>3 DEF TrackInit, TrackInv, InThePast, Alone, Cadence, SameMode
<1> QED
  BY <1>1, TrackInvStep, PTL DEF Spec

(* The device keeps its cadence while its ticks do not overlap, and knows  *)
(* its mode while none was changed under a tick (location-tracker.ts).     *)
THEOREM CadenceIsKept == Spec => []CadenceHolds
<1>1. TrackInv => CadenceHolds
  BY DEF TrackInv, CadenceHolds, Cadence, SameMode
<1> QED
  BY <1>1, TrackInvHolds, PTL

(* An ETA on a trip stands on a location no older than the freshness       *)
(* threshold, and prunePool drops nobody heard of in time.                 *)
THEOREM EtaStandsOnAFix == Spec => []EtaIsCurrent
<1>1. TrackInv => EtaIsCurrent
  <2> SUFFICES ASSUME TrackInv PROVE EtaIsCurrent
    OBVIOUS
  <2> USE TrackingAssumption DEF TrackInv, TrackTypeOK
  <2>1. ASSUME NEW status \in TripStatus, ShowsEta(status)
        PROVE  \E f \in fixes : clock - f.at <= StaleAfter
    <3>1. pool \in fixes /\ Freshness(clock - pool.at) = "fresh"
      BY <2>1 DEF ShowsEta, StalePosition, InThePast
    <3>2. clock - pool.at <= StaleAfter
      BY <3>1 DEF Freshness
    <3> QED
      BY <3>1, <3>2
  <2>2. ASSUME "tick" \notin trackRaced, NEW f \in fixes, clock - f.at <= ExpiredAfter
        PROVE  pool # NoFix
    <3>1. f.at \in Nat /\ clock \in Nat
      BY DEF Fix, Time
    <3> QED
      BY <2>2, <3>1 DEF Alone
  <2> QED
    BY <2>1, <2>2 DEF EtaIsCurrent
<1> QED
  BY <1>1, TrackInvHolds, PTL

-----------------------------------------------------------------------------
(* Dispatch.                                                               *)

(* The ranking is a strict order of the drivers: their ids settle it.      *)
LEMMA RankingIsStrict ==
  ASSUME NEW facts \in [Driver -> Facts]
  PROVE  /\ \A d \in Driver : ~ RanksBefore(facts, d, d)
         /\ \A d, e, f \in Driver :
              RanksBefore(facts, d, e) /\ RanksBefore(facts, e, f) => RanksBefore(facts, d, f)
         /\ \A d, e \in Driver : d = e \/ RanksBefore(facts, d, e) \/ RanksBefore(facts, e, d)
<1>1. \A d \in Driver : d \in Nat /\ facts[d].eta \in Nat /\ facts[d].stamp \in Nat /\ facts[d].idle \in Nat
  BY DispatchAssumption
<1>2. ASSUME NEW d \in Driver PROVE ~ RanksBefore(facts, d, d)
  BY <1>1 DEF RanksBefore
<1>3. ASSUME NEW d \in Driver, NEW e \in Driver, NEW f \in Driver,
             RanksBefore(facts, d, e), RanksBefore(facts, e, f)
      PROVE  RanksBefore(facts, d, f)
  BY <1>1, <1>3 DEF RanksBefore
<1>4. ASSUME NEW d \in Driver, NEW e \in Driver
      PROVE  d = e \/ RanksBefore(facts, d, e) \/ RanksBefore(facts, e, d)
  BY <1>1 DEF RanksBefore
<1> QED
  BY <1>2, <1>3, <1>4

Sorted(facts, ranked) ==
  \A i, j \in 1 .. Len(ranked) : i < j => RanksBefore(facts, ranked[i], ranked[j])

(* rankCandidates lists every candidate, the better before the worse.      *)
LEMMA RankingIsSorted ==
  ASSUME NEW facts \in [Driver -> Facts], NEW S \in SUBSET Driver, NEW ranked,
         ranked = RankCandidates(facts, S)
  PROVE  /\ ranked \in Seq(S)
         /\ Sorted(facts, ranked)
         /\ \A d \in S : \E i \in 1 .. Len(ranked) : ranked[i] = d
<1> DEFINE B == {p \in S \X S : RanksBefore(facts, p[1], p[2])}
           n == Cardinality(S)
<1>1. \A d, e \in S : <<d, e>> \in B <=> RanksBefore(facts, d, e)
  OBVIOUS
<1>2. IsFiniteSet(S)
  BY DispatchAssumption, FS_Subset
<1>3. /\ \A d \in S : <<d, d>> \notin B
      /\ \A d, e, f \in S : <<d, e>> \in B /\ <<e, f>> \in B => <<d, f>> \in B
      /\ \A d, e \in S : d = e \/ <<d, e>> \in B \/ <<e, d>> \in B
  <2> HIDE DEF B
  <2> QED BY <1>1, RankingIsStrict
<1>4. /\ n \in Nat
      /\ \A d \in S : Place(S, B, d) \in 0 .. (n - 1)
      /\ \A d, e \in S : <<d, e>> \in B <=> Place(S, B, d) < Place(S, B, e)
      /\ \A i \in 0 .. (n - 1) : \E d \in S : Place(S, B, d) = i
  <2> HIDE DEF B
  <2> QED BY <1>2, <1>3, PlacesFollowOrder
<1>5. \A d \in S : Cardinality({e \in S : RanksBefore(facts, e, d)}) = Place(S, B, d)
  <2> TAKE d \in S
  <2>1. {e \in S : RanksBefore(facts, e, d)} = {e \in S : <<e, d>> \in B}
    OBVIOUS
  <2> QED
    BY <2>1 DEF Place
<1> HIDE DEF B, n
<1>6. ranked = [i \in 1 .. n |->
                  CHOOSE d \in S : Cardinality({e \in S : RanksBefore(facts, e, d)}) = i - 1]
  BY DEF RankCandidates, n
<1>7. ASSUME NEW i \in 1 .. n PROVE ranked[i] \in S /\ Place(S, B, ranked[i]) = i - 1
  <2>1. i - 1 \in 0 .. (n - 1)
    BY <1>4
  <2>2. \E d \in S : Cardinality({e \in S : RanksBefore(facts, e, d)}) = i - 1
    BY <2>1, <1>4, <1>5
  <2>3. ranked[i] = CHOOSE d \in S : Cardinality({e \in S : RanksBefore(facts, e, d)}) = i - 1
    BY <1>6
  <2>4. ranked[i] \in S /\ Cardinality({e \in S : RanksBefore(facts, e, ranked[i])}) = i - 1
    BY <2>2, <2>3
  <2> QED
    BY <2>4, <1>5
<1>8. ranked \in Seq(S) /\ Len(ranked) = n
  <2>1. ranked \in [1 .. n -> S]
    BY <1>6, <1>7
  <2> QED
    BY <2>1, <1>4
<1>9. ASSUME NEW i \in 1 .. n, NEW j \in 1 .. n, i < j PROVE RanksBefore(facts, ranked[i], ranked[j])
  <2>1. Place(S, B, ranked[i]) < Place(S, B, ranked[j])
    BY <1>4, <1>7, <1>9
  <2> QED
    BY <2>1, <1>1, <1>4, <1>7
<1>10. ASSUME NEW d \in S PROVE \E i \in 1 .. n : ranked[i] = d
  <2>1. PICK i \in 1 .. n : Place(S, B, d) = i - 1
    <3>1. Place(S, B, d) + 1 \in 1 .. n /\ Place(S, B, d) = (Place(S, B, d) + 1) - 1
      BY <1>4
    <3> QED BY <3>1
  <2>2. Place(S, B, ranked[i]) = Place(S, B, d) /\ ranked[i] \in S
    BY <2>1, <1>7
  <2>3. ~ (<<d, ranked[i]>> \in B) /\ ~ (<<ranked[i], d>> \in B)
    BY <2>2, <1>4
  <2> QED
    BY <2>2, <2>3, <1>3
<1> QED
  BY <1>8, <1>9, <1>10 DEF Sorted

(* The loop of planWaveOffers: what is offered after i candidates.         *)
WaveStep(facts, ranked, w, already, g, i) ==
  IF i = 0 THEN <<>>
  ELSE IF /\ Len(g[i - 1]) < MaxOffers
          /\ facts[ranked[i]].distance <= Radius[w] /\ ranked[i] \notin already
       THEN Append(g[i - 1], ranked[i])
       ELSE g[i - 1]

WaveLoop(facts, ranked, w, already, g) ==
  g = [i \in 0 .. Len(ranked) |-> WaveStep(facts, ranked, w, already, g, i)]

(* The loop runs to its end, and its last value is the plan.               *)
LEMMA PlanIsLoop ==
  ASSUME NEW facts, NEW S, NEW ranked \in Seq(S), NEW w, NEW already
  PROVE  \E g : /\ WaveLoop(facts, ranked, w, already, g)
                /\ PlanWaveOffers(facts, ranked, w, already) = g[Len(ranked)]
<1> DEFINE L == Len(ranked)
           Step(g, i) == WaveStep(facts, ranked, w, already, g, i)
           Upto(g, n) == \A i \in 0 .. L : i <= n => g[i] = Step(g, i)
           T == {n \in 0 .. L : \E g : g = [i \in 0 .. L |-> g[i]] /\ Upto(g, n)}
<1>0. L \in Nat
  OBVIOUS
<1>1. 0 \in T
  <2> DEFINE g == [i \in 0 .. L |-> <<>>]
  <2>1. Upto(g, 0)
    BY <1>0 DEF WaveStep
  <2> QED
    BY <2>1, <1>0
<1>2. ASSUME NEW n \in 1 .. L, n - 1 \in T PROVE n \in T
  <2>1. PICK g : g = [i \in 0 .. L |-> g[i]] /\ Upto(g, n - 1)
    BY <1>2
  <2> DEFINE h == [i \in 0 .. L |-> Step(g, i)]
  <2>2. ASSUME NEW i \in 0 .. L, i <= n PROVE h[i] = Step(h, i)
    <3>1. CASE i = 0
      BY <3>1 DEF WaveStep
    <3>2. CASE i # 0
      <4>1. i - 1 \in 0 .. L /\ i - 1 <= n - 1
        BY <3>2, <2>2, <1>0
      <4>2. h[i - 1] = g[i - 1]
        BY <4>1, <2>1
      <4>3. Step(h, i) = Step(g, i)
        <5> HIDE DEF h
        <5> QED BY <3>2, <4>2 DEF WaveStep
      <4> QED BY <4>3
    <3> QED BY <3>1, <3>2
  <2>3. h = [i \in 0 .. L |-> h[i]] /\ Upto(h, n)
    <3> h = [i \in 0 .. L |-> h[i]]
      OBVIOUS
    <3> HIDE DEF h
    <3> QED BY <2>2
  <2>4. n \in 0 .. L
    BY <1>0
  <2> HIDE DEF h, Upto
  <2> QED
    BY <2>3, <2>4
<1>3. L \in T
  <2> HIDE DEF T, L
  <2>1. 0 .. L \subseteq T
    BY <1>0, <1>1, <1>2, CountUp
  <2> QED
    BY <2>1, <1>0
<1>4. PICK g : g = [i \in 0 .. L |-> g[i]] /\ Upto(g, L)
  BY <1>3
<1>5. \A i \in 0 .. L : g[i] = Step(g, i)
  BY <1>4, <1>0
<1>6. WaveLoop(facts, ranked, w, already, g)
  BY <1>4, <1>5 DEF WaveLoop
<1>7. PlanWaveOffers(facts, ranked, w, already) = (CHOOSE x : WaveLoop(facts, ranked, w, already, x))[L]
  BY DEF PlanWaveOffers, WaveLoop, WaveStep
<1>8. WaveLoop(facts, ranked, w, already, CHOOSE x : WaveLoop(facts, ranked, w, already, x))
  BY <1>6
<1> QED
  BY <1>7, <1>8

(* What a wave offers: to whom it may, nobody twice, and if it passes one  *)
(* over it is full and offers only to drivers ranked before.               *)
BestOffers(facts, S, ranked, w, already, offers) ==
  /\ offers \in Seq(S) /\ Len(offers) <= MaxOffers
  /\ \A a \in 1 .. Len(offers) :
       facts[offers[a]].distance <= Radius[w] /\ offers[a] \notin already
  /\ \A a, b \in 1 .. Len(offers) : offers[a] = offers[b] => a = b
  /\ \A k \in 1 .. Len(ranked) :
       \/ ~ (facts[ranked[k]].distance <= Radius[w]) \/ ranked[k] \in already
       \/ \E a \in 1 .. Len(offers) : offers[a] = ranked[k]
       \/ /\ Len(offers) = MaxOffers
          /\ \A a \in 1 .. Len(offers) : RanksBefore(facts, offers[a], ranked[k])

(* The loop collects the best of the ranked it has looked at.              *)
LEMMA PlanIsBest ==
  ASSUME NEW facts \in [Driver -> Facts], NEW S \in SUBSET Driver, NEW ranked \in Seq(S),
         Sorted(facts, ranked), NEW w, NEW already, NEW offers,
         offers = PlanWaveOffers(facts, ranked, w, already)
  PROVE  BestOffers(facts, S, ranked, w, already, offers)
<1> DEFINE L == Len(ranked)
           Near(d) == facts[d].distance <= Radius[w] /\ d \notin already
<1>0. L \in Nat /\ MaxOffers \in Nat /\ \A k \in 1 .. L : ranked[k] \in S
  BY DispatchAssumption
<1>1. \A d \in S : ~ RanksBefore(facts, d, d)
  BY RankingIsStrict
<1>2. PICK g : WaveLoop(facts, ranked, w, already, g) /\ offers = g[L]
  BY PlanIsLoop
<1>3. /\ g[0] = <<>>
      /\ \A i \in 1 .. L :
           g[i] = IF Len(g[i - 1]) < MaxOffers /\ Near(ranked[i])
                  THEN Append(g[i - 1], ranked[i]) ELSE g[i - 1]
  <2>1. \A i \in 0 .. L : g[i] = WaveStep(facts, ranked, w, already, g, i)
    BY <1>2 DEF WaveLoop
  <2>2. 0 \in 0 .. L /\ \A i \in 1 .. L : i \in 0 .. L /\ i # 0
    BY <1>0
  <2> QED
    BY <2>1, <2>2 DEF WaveStep
<1> DEFINE Good(s, i) ==
      /\ s \in Seq(S) /\ Len(s) <= MaxOffers
      /\ \A a \in 1 .. Len(s) : Near(s[a]) /\ \E k \in 1 .. i : s[a] = ranked[k]
      /\ \A a, b \in 1 .. Len(s) : s[a] = s[b] => a = b
      /\ \A k \in 1 .. i :
           \/ ~ Near(ranked[k])
           \/ \E a \in 1 .. Len(s) : s[a] = ranked[k]
           \/ Len(s) = MaxOffers /\ \A a \in 1 .. Len(s) : RanksBefore(facts, s[a], ranked[k])
<1> HIDE DEF L, Near
<1>4. Good(g[0], 0)
  BY <1>0, <1>3
<1>5. ASSUME NEW i \in 1 .. L, Good(g[i - 1], i - 1)
      PROVE  Good(g[i], i)
  <2> PICK s \in Seq(S) : s = g[i - 1]
    BY <1>5
  <2> PICK d \in S : d = ranked[i]
    BY <1>0
  <2>0. Len(s) \in Nat /\ i \in Nat /\ Len(s) <= MaxOffers /\ \A a \in 1 .. Len(s) : s[a] \in S
    BY <1>5
  <2>1. /\ \A a \in 1 .. Len(s) : Near(s[a]) /\ \E k \in 1 .. (i - 1) : s[a] = ranked[k]
        /\ \A a, b \in 1 .. Len(s) : s[a] = s[b] => a = b
        /\ \A k \in 1 .. (i - 1) :
             \/ ~ Near(ranked[k])
             \/ \E a \in 1 .. Len(s) : s[a] = ranked[k]
             \/ Len(s) = MaxOffers /\ \A a \in 1 .. Len(s) : RanksBefore(facts, s[a], ranked[k])
    BY <1>5
  <2>2. \A a \in 1 .. Len(s) : RanksBefore(facts, s[a], d)
    <3> TAKE a \in 1 .. Len(s)
    <3>1. PICK k \in 1 .. (i - 1) : s[a] = ranked[k]
      BY <2>1
    <3>2. k \in 1 .. L /\ k < i
      BY <1>0
    <3> QED
      BY <3>1, <3>2 DEF L, Sorted
  <2>3. \A k \in 1 .. i : k \in 1 .. (i - 1) \/ (k = i /\ ranked[k] = d)
    BY <2>0
  <2>4. \A k \in 1 .. (i - 1) : k \in 1 .. i
    BY <2>0
  <2>5. CASE Len(s) < MaxOffers /\ Near(d)
    <3>1. g[i] = Append(s, d)
      BY <1>3, <2>5
    <3> PICK t \in Seq(S) : t = Append(s, d)
      BY AppendProperties
    <3>2. /\ Len(t) = Len(s) + 1 /\ t[Len(s) + 1] = d
          /\ \A a \in 1 .. Len(s) : t[a] = s[a]
          /\ \A a \in 1 .. Len(t) : a \in 1 .. Len(s) \/ (a = Len(s) + 1 /\ t[a] = d)
      BY <2>0, AppendProperties
    <3>3. \A a \in 1 .. Len(t) : Near(t[a]) /\ \E k \in 1 .. i : t[a] = ranked[k]
      BY <2>0, <2>1, <2>4, <2>5, <3>2
    <3>4. \A a, b \in 1 .. Len(t) : t[a] = t[b] => a = b
      BY <2>1, <2>2, <3>2, <1>1
    <3>5. \A a \in 1 .. Len(s) : a \in 1 .. Len(t)
      BY <2>0, <3>2
    <3>6. Len(s) + 1 \in 1 .. Len(t)
      BY <2>0, <3>2
    <3>7. \A k \in 1 .. i : ~ Near(ranked[k]) \/ \E a \in 1 .. Len(t) : t[a] = ranked[k]
      <4> TAKE k \in 1 .. i
      <4>1. CASE k = i
        BY <4>1, <3>2, <3>6
      <4>2. CASE k \in 1 .. (i - 1)
        <5>1. ~ Near(ranked[k]) \/ \E a \in 1 .. Len(s) : s[a] = ranked[k]
          BY <4>2, <2>0, <2>1, <2>5
        <5> QED
          BY <5>1, <3>2, <3>5
      <4> QED
        BY <4>1, <4>2, <2>3
    <3>8. Len(t) <= MaxOffers
      BY <2>0, <2>5, <3>2, <1>0
    <3>9. Good(t, i)
      BY <3>3, <3>4, <3>7, <3>8
    <3>10. g[i] = t
      BY <3>1
    <3> HIDE DEF Good
    <3> QED
      BY <3>9, <3>10
  <2>6. CASE ~ (Len(s) < MaxOffers /\ Near(d))
    <3>1. g[i] = s
      BY <1>3, <2>6
    <3>2. ~ Near(d) \/ (Len(s) = MaxOffers /\ \A a \in 1 .. Len(s) : RanksBefore(facts, s[a], d))
      BY <2>0, <2>2, <2>6, <1>0
    <3>3. \A a \in 1 .. Len(s) : Near(s[a]) /\ \E k \in 1 .. i : s[a] = ranked[k]
      BY <2>1, <2>4
    <3>4. \A k \in 1 .. i :
            \/ ~ Near(ranked[k])
            \/ \E a \in 1 .. Len(s) : s[a] = ranked[k]
            \/ Len(s) = MaxOffers /\ \A a \in 1 .. Len(s) : RanksBefore(facts, s[a], ranked[k])
      BY <2>1, <2>3, <3>2
    <3> QED
      BY <2>0, <2>1, <3>1, <3>3, <3>4
  <2> QED
    BY <2>5, <2>6
<1>6. Good(g[L], L)
  <2> DEFINE T == {i \in 0 .. L : Good(g[i], i)}
  <2>1. 0 \in T
    BY <1>0, <1>4
  <2>2. \A i \in 1 .. L : i - 1 \in T => i \in T
    <3> HIDE DEF Good
    <3> QED BY <1>0, <1>5
  <2>3. 0 .. L \subseteq T
    <3> HIDE DEF T
    <3> QED BY <1>0, <2>1, <2>2, CountUp
  <2> QED
    BY <2>3, <1>0
<1> QED
  BY <1>2, <1>6 DEF L, Near, BestOffers

(* Who was offered a ride is who the log has an offer to, once.            *)
OffersLogged ==
  /\ \A r \in OpenRide, d \in Driver :
       d \in offered[r] <=>
         \E i \in 1 .. Len(log) : log[i] = [what |-> "offer", ride |-> r, driver |-> d]
  /\ \A i, j \in 1 .. Len(log) : log[i].what = "offer" /\ log[i] = log[j] => i = j

(* A ride that somebody won is not open, and is his or was overruled; it   *)
(* closes only if it was overruled.                                        *)
WonIsTaken ==
  \A i \in 1 .. Len(log) : log[i].what = "win" =>
    LET r == log[i].ride IN
    /\ assignment[r].status # "OPEN"
    /\ assignment[r] = [status |-> "ASSIGNED", winner |-> log[i].driver] \/ r \in overruled
    /\ r \in closing => r \in overruled
    /\ \A j \in 1 .. Len(log) : log[j].what = "win" /\ log[j].ride = r => j = i
    /\ \E j \in 1 .. (i - 1) : log[j] = [what |-> "offer", ride |-> r, driver |-> log[i].driver]
    /\ \A j \in i .. Len(log) :
         log[j].what = "offer" /\ log[j].driver = log[i].driver => r \in overruled

PlanIsBestOf(p) ==
  LET could == {d \in Eligible(p.facts, p.busy) \ p.before : p.facts[d].distance <= Radius[p.wave]}
      drivers == ToSet(p.drivers) IN
  /\ drivers \subseteq could
  /\ \A d \in could \ drivers :
       /\ Len(p.drivers) = MaxOffers
       /\ \A e \in drivers : RanksBefore(p.facts, e, d)

DispatchInv ==
  /\ DispatchTypeOK /\ OffersLogged /\ WonIsTaken
  /\ plan # <<>> => PlanIsBestOf(plan)

(* The offers of a wave go into the log after the others.                  *)
LEMMA OffersAreAppended ==
  ASSUME log \in Seq(Entry), NEW r \in OpenRide, NEW drivers \in Seq(Driver), log' = log \o Offers(r, drivers)
  PROVE  /\ log' \in Seq(Entry) /\ Len(log') = Len(log) + Len(drivers) /\ Len(log) \in Nat
         /\ \A i \in 1 .. Len(log) : i \in 1 .. Len(log') /\ log'[i] = log[i] /\ log[i] \in Entry
         /\ \A i \in 1 .. Len(log') : i \in 1 .. Len(log) \/
              /\ i - Len(log) \in 1 .. Len(drivers) /\ i > Len(log)
              /\ log'[i] = [what |-> "offer", ride |-> r, driver |-> drivers[i - Len(log)]]
         /\ \A a \in 1 .. Len(drivers) :
              /\ Len(log) + a \in 1 .. Len(log')
              /\ log'[Len(log) + a] = [what |-> "offer", ride |-> r, driver |-> drivers[a]]
<1> DEFINE more == Offers(r, drivers)
<1>1. more \in Seq(Entry) /\ Len(more) = Len(drivers) /\ Len(drivers) \in Nat /\ Len(log) \in Nat
  <2>1. DOMAIN drivers = 1 .. Len(drivers) /\ Len(drivers) \in Nat /\ \A a \in 1 .. Len(drivers) : drivers[a] \in Driver
    OBVIOUS
  <2> PICK n \in Nat : n = Len(drivers)
    BY <2>1
  <2>2. more \in [1 .. n -> Entry]
    BY <2>1 DEF Offers, Entry
  <2> HIDE DEF more
  <2>3. more \in Seq(Entry) /\ Len(more) = n
    BY <2>2
  <2> QED
    BY <2>3
<1>2. \A a \in 1 .. Len(drivers) : more[a] = [what |-> "offer", ride |-> r, driver |-> drivers[a]]
  BY DEF Offers
<1> HIDE DEF more
<1>3. /\ log' \in Seq(Entry) /\ Len(log') = Len(log) + Len(more)
      /\ \A i \in 1 .. Len(log) + Len(more) :
           log'[i] = IF i <= Len(log) THEN log[i] ELSE more[i - Len(log)]
  BY <1>1, ConcatProperties DEF more
<1>4. \A i \in 1 .. Len(log) : i \in 1 .. Len(log') /\ log'[i] = log[i] /\ log[i] \in Entry
  BY <1>1, <1>3
<1>5. ASSUME NEW i \in 1 .. Len(log'), i \notin 1 .. Len(log)
      PROVE  /\ i - Len(log) \in 1 .. Len(drivers) /\ i > Len(log)
             /\ log'[i] = [what |-> "offer", ride |-> r, driver |-> drivers[i - Len(log)]]
  BY <1>1, <1>2, <1>3, <1>5
<1>6. ASSUME NEW a \in 1 .. Len(drivers)
      PROVE  /\ Len(log) + a \in 1 .. Len(log')
             /\ log'[Len(log) + a] = [what |-> "offer", ride |-> r, driver |-> drivers[a]]
  <2>1. Len(log) + a \in 1 .. Len(log') /\ ~ (Len(log) + a <= Len(log)) /\ (Len(log) + a) - Len(log) = a
    BY <1>1, <1>3
  <2> QED
    BY <2>1, <1>1, <1>2, <1>3
<1> QED
  BY <1>1, <1>3, <1>4, <1>5, <1>6

(* A wave offers the ride to the best that had no offer yet.               *)
LEMMA StartWaveStep ==
  ASSUME DispatchInv, NEW r \in OpenRide, NEW facts \in [Driver -> Facts], StartWave(r, facts)
  PROVE  DispatchInv'
<1> DEFINE w == wave[r] + 1
           S == Eligible(facts, Busy)
<1>0. /\ S \in SUBSET Driver /\ w \in 1 .. Len(Radius) /\ assignment[r].status = "OPEN"
      /\ wave' = [wave EXCEPT ![r] = w]
      /\ UNCHANGED <<assignment, closing, overruled>>
  <2>1. Len(Radius) = 3
    BY DEF Radius
  <2>2. wave[r] \in 0 .. 3 /\ wave[r] < 3
    BY <2>1 DEF StartWave, DispatchInv, DispatchTypeOK
  <2> QED
    BY <2>1, <2>2 DEF StartWave, Eligible
<1> PICK ranked : ranked = RankCandidates(facts, S)
  OBVIOUS
<1> PICK drivers : drivers = PlanWaveOffers(facts, ranked, w, offered[r])
  OBVIOUS
<1>1. /\ offered' = [offered EXCEPT ![r] = @ \cup ToSet(drivers)]
      /\ log' = log \o Offers(r, drivers)
      /\ plan' = [wave |-> w, facts |-> facts, busy |-> Busy, before |-> offered[r], drivers |-> drivers]
  BY DEF StartWave
<1> HIDE DEF w, S
<1>2. /\ ranked \in Seq(S)
      /\ Sorted(facts, ranked)
      /\ \A d \in S : \E i \in 1 .. Len(ranked) : ranked[i] = d
  <2>1. S \in SUBSET Driver
    BY <1>0
  <2> QED
    BY <2>1, RankingIsSorted
<1>3. /\ drivers \in Seq(S) /\ Len(drivers) <= MaxOffers
      /\ \A a \in 1 .. Len(drivers) : facts[drivers[a]].distance <= Radius[w] /\ drivers[a] \notin offered[r]
      /\ \A a, b \in 1 .. Len(drivers) : drivers[a] = drivers[b] => a = b
      /\ \A k \in 1 .. Len(ranked) :
           \/ ~ (facts[ranked[k]].distance <= Radius[w]) \/ ranked[k] \in offered[r]
           \/ \E a \in 1 .. Len(drivers) : drivers[a] = ranked[k]
           \/ /\ Len(drivers) = MaxOffers
              /\ \A a \in 1 .. Len(drivers) : RanksBefore(facts, drivers[a], ranked[k])
  <2>1. S \in SUBSET Driver
    BY <1>0
  <2>2. BestOffers(facts, S, ranked, w, offered[r], drivers)
    BY <2>1, <1>2, PlanIsBest
  <2> QED
    BY <2>2 DEF BestOffers
<1>4. /\ ToSet(drivers) = {drivers[a] : a \in 1 .. Len(drivers)}
      /\ ToSet(drivers) \subseteq S /\ drivers \in Seq(Driver) /\ Len(drivers) \in Nat
  BY <1>0, <1>3 DEF ToSet
<1>5. PlanIsBestOf(plan')
  <2> DEFINE could == {d \in S \ offered[r] : facts[d].distance <= Radius[w]}
  <2>1. ToSet(drivers) \subseteq could
    BY <1>3, <1>4
  <2>2. ASSUME NEW d \in could, d \notin ToSet(drivers)
        PROVE  Len(drivers) = MaxOffers /\ \A e \in ToSet(drivers) : RanksBefore(facts, e, d)
    <3>1. PICK k \in 1 .. Len(ranked) : ranked[k] = d
      BY <1>2
    <3> QED
      BY <3>1, <2>2, <1>3, <1>4
  <2>3. could = {d \in Eligible(plan'.facts, plan'.busy) \ plan'.before : plan'.facts[d].distance <= Radius[plan'.wave]}
    BY <1>1 DEF S
  <2>4. plan'.drivers = drivers /\ plan'.facts = facts
    BY <1>1
  <2> HIDE DEF could
  <2> QED
    BY <2>1, <2>2, <2>3, <2>4 DEF PlanIsBestOf
<1>6. /\ log' \in Seq(Entry) /\ Len(log') = Len(log) + Len(drivers) /\ Len(log) \in Nat
      /\ \A i \in 1 .. Len(log) : i \in 1 .. Len(log') /\ log'[i] = log[i] /\ log[i] \in Entry
      /\ \A i \in 1 .. Len(log') : i \in 1 .. Len(log) \/
           /\ i - Len(log) \in 1 .. Len(drivers) /\ i > Len(log)
           /\ log'[i] = [what |-> "offer", ride |-> r, driver |-> drivers[i - Len(log)]]
      /\ \A a \in 1 .. Len(drivers) :
           /\ Len(log) + a \in 1 .. Len(log')
           /\ log'[Len(log) + a] = [what |-> "offer", ride |-> r, driver |-> drivers[a]]
  BY <1>1, <1>4, OffersAreAppended DEF DispatchInv, DispatchTypeOK
<1>7. DispatchTypeOK'
  BY <1>0, <1>1, <1>4, <1>6 DEF DispatchInv, DispatchTypeOK
<1>8. OffersLogged'
  <2>1. /\ \A q \in OpenRide, d \in Driver :
             d \in offered[q] <=>
               \E i \in 1 .. Len(log) : log[i] = [what |-> "offer", ride |-> q, driver |-> d]
        /\ \A i, j \in 1 .. Len(log) : log[i].what = "offer" /\ log[i] = log[j] => i = j
    BY DEF DispatchInv, OffersLogged
  <2>2. ASSUME NEW q \in OpenRide, NEW d \in Driver, d \in offered'[q]
        PROVE  \E i \in 1 .. Len(log') : log'[i] = [what |-> "offer", ride |-> q, driver |-> d]
    <3>1. d \in offered[q] \/ (q = r /\ d \in ToSet(drivers))
      BY <1>1, <2>2 DEF DispatchInv, DispatchTypeOK
    <3>2. CASE d \in offered[q]
      BY <3>2, <2>1, <1>6
    <3>3. CASE q = r /\ d \in ToSet(drivers)
      <4>1. PICK a \in 1 .. Len(drivers) : drivers[a] = d
        BY <3>3, <1>4
      <4> QED
        BY <4>1, <3>3, <1>6
    <3> QED
      BY <3>1, <3>2, <3>3
  <2>3. ASSUME NEW q \in OpenRide, NEW d \in Driver, NEW i \in 1 .. Len(log'),
               log'[i] = [what |-> "offer", ride |-> q, driver |-> d]
        PROVE  d \in offered'[q]
    <3>1. offered[q] \subseteq offered'[q] /\ ToSet(drivers) \subseteq offered'[r]
      BY <1>1 DEF DispatchInv, DispatchTypeOK
    <3>2. CASE i \in 1 .. Len(log)
      BY <3>1, <3>2, <2>1, <2>3, <1>6
    <3>3. CASE i \notin 1 .. Len(log)
      BY <3>1, <3>3, <2>3, <1>4, <1>6
    <3> QED
      BY <3>2, <3>3
  <2>4. ASSUME NEW i \in 1 .. Len(log'), NEW j \in 1 .. Len(log'), log'[i].what = "offer", log'[i] = log'[j]
        PROVE  i = j
    <3>1. ASSUME NEW k \in 1 .. Len(log), NEW l \in 1 .. Len(log'), l \notin 1 .. Len(log)
          PROVE  log'[k] # log'[l]
      <4>1. drivers[l - Len(log)] \notin offered[r] /\ drivers[l - Len(log)] \in Driver
        BY <3>1, <1>3, <1>4, <1>6
      <4> QED
        BY <4>1, <3>1, <2>1, <1>6
    <3>2. CASE i \in 1 .. Len(log) /\ j \in 1 .. Len(log)
      BY <3>2, <2>1, <2>4, <1>6
    <3>3. CASE i \notin 1 .. Len(log) /\ j \notin 1 .. Len(log)
      <4>1. i - Len(log) = j - Len(log)
        BY <3>3, <2>4, <1>3, <1>6
      <4> QED
        BY <4>1, <1>6
    <3> QED
      BY <3>1, <3>2, <3>3, <2>4
  <2> QED
    BY <2>2, <2>3, <2>4 DEF OffersLogged
<1>9. WonIsTaken'
  <2> SUFFICES ASSUME NEW i \in 1 .. Len(log'), log'[i].what = "win"
               PROVE  LET q == log'[i].ride IN
                      /\ assignment[q].status # "OPEN"
                      /\ assignment[q] = [status |-> "ASSIGNED", winner |-> log'[i].driver] \/ q \in overruled
                      /\ q \in closing => q \in overruled
                      /\ \A j \in 1 .. Len(log') : log'[j].what = "win" /\ log'[j].ride = q => j = i
                      /\ \E j \in 1 .. (i - 1) : log'[j] = [what |-> "offer", ride |-> q, driver |-> log'[i].driver]
                      /\ \A j \in i .. Len(log') :
                           log'[j].what = "offer" /\ log'[j].driver = log'[i].driver => q \in overruled
    BY <1>0 DEF WonIsTaken
  <2>1. i \in 1 .. Len(log) /\ log'[i] = log[i] /\ log[i] \in Entry /\ i \in Nat
    BY <1>6
  <2> PICK q \in OpenRide, d \in Driver : q = log[i].ride /\ d = log[i].driver
    BY <2>1 DEF Entry
  <2>2. /\ assignment[q].status # "OPEN"
        /\ assignment[q] = [status |-> "ASSIGNED", winner |-> d] \/ q \in overruled
        /\ q \in closing => q \in overruled
        /\ \A j \in 1 .. Len(log) : log[j].what = "win" /\ log[j].ride = q => j = i
        /\ \E j \in 1 .. (i - 1) : log[j] = [what |-> "offer", ride |-> q, driver |-> d]
        /\ \A j \in i .. Len(log) : log[j].what = "offer" /\ log[j].driver = d => q \in overruled
    BY <2>1 DEF DispatchInv, WonIsTaken
  <2>3. \A j \in 1 .. Len(log') : log'[j].what = "win" /\ log'[j].ride = q => j = i
    BY <2>2, <1>6
  <2>4. \E j \in 1 .. (i - 1) : log'[j] = [what |-> "offer", ride |-> q, driver |-> d]
    <3>1. PICK j \in 1 .. (i - 1) : log[j] = [what |-> "offer", ride |-> q, driver |-> d]
      BY <2>2
    <3>2. j \in 1 .. Len(log)
      BY <2>1, <1>6
    <3> QED
      BY <3>1, <3>2, <1>6
  <2>5. ASSUME NEW j \in i .. Len(log'), log'[j].what = "offer", log'[j].driver = d, q \notin overruled
        PROVE  FALSE
    <3>1. d \in Busy
      <4>1. assignment[q].winner = d /\ d # Nobody
        BY <2>2, <2>5, DispatchAssumption
      <4> QED
        BY <4>1 DEF Busy
    <3>2. d \notin S
      BY <3>1 DEF S, Eligible
    <3>3. j \in 1 .. Len(log') /\ (j \in 1 .. Len(log) => j \in i .. Len(log))
      BY <2>1, <1>6
    <3>4. CASE j \in 1 .. Len(log)
      BY <3>3, <3>4, <2>2, <2>5, <1>6
    <3>5. CASE j \notin 1 .. Len(log)
      BY <3>2, <3>3, <3>5, <2>5, <1>3, <1>6
    <3> QED
      BY <3>4, <3>5
  <2> QED
    BY <2>1, <2>2, <2>3, <2>4, <2>5
<1> QED
  BY <1>5, <1>7, <1>8, <1>9 DEF DispatchInv

(* An acceptance counts only while the ride is open, so it is the first.   *)
LEMMA AcceptStep ==
  ASSUME DispatchInv, NEW r \in OpenRide, NEW d \in Driver, Accept(r, d)
  PROVE  DispatchInv'
<1> PICK win \in Entry : win = [what |-> "win", ride |-> r, driver |-> d]
  BY DEF Entry
<1>1. /\ assignment[r].status = "OPEN" /\ d \in offered[r]
      /\ assignment' = [assignment EXCEPT ![r] = [status |-> "ASSIGNED", winner |-> d]]
      /\ log' = Append(log, win)
      /\ overruled' = (IF r \in closing THEN overruled \cup {r} ELSE overruled)
      /\ UNCHANGED <<wave, offered, closing, plan>>
  BY DEF Accept, AcceptRide
<1>2. /\ log' \in Seq(Entry) /\ Len(log) \in Nat /\ Len(log') = Len(log) + 1
      /\ log'[Len(log) + 1] = win
      /\ \A i \in 1 .. Len(log) : i \in 1 .. Len(log') /\ log'[i] = log[i] /\ log[i] \in Entry
  <2>1. log \in Seq(Entry)
    BY DEF DispatchInv, DispatchTypeOK
  <2> QED
    BY <2>1, <1>1, AppendProperties
<1>3. \A i \in 1 .. Len(log') : i \in 1 .. Len(log) \/ (i = Len(log) + 1 /\ log'[i] = win)
  BY <1>2
<1>4. DispatchTypeOK'
  BY <1>1, <1>2 DEF DispatchInv, DispatchTypeOK, Assignment
<1>5. OffersLogged'
  <2>1. \A i \in 1 .. Len(log') : log'[i].what = "offer" => i \in 1 .. Len(log) /\ log'[i] = log[i]
    BY <1>2, <1>3
  <2> QED
    BY <2>1, <1>1, <1>2 DEF DispatchInv, OffersLogged
<1>6. WonIsTaken'
  <2>1. ASSUME NEW i \in 1 .. Len(log), log[i].what = "win" PROVE log[i].ride # r
    BY <2>1, <1>1 DEF DispatchInv, WonIsTaken
  <2> SUFFICES ASSUME NEW i \in 1 .. Len(log'), log'[i].what = "win"
               PROVE  LET q == log'[i].ride IN
                      /\ assignment'[q].status # "OPEN"
                      /\ assignment'[q] = [status |-> "ASSIGNED", winner |-> log'[i].driver] \/ q \in overruled'
                      /\ q \in closing' => q \in overruled'
                      /\ \A j \in 1 .. Len(log') : log'[j].what = "win" /\ log'[j].ride = q => j = i
                      /\ \E j \in 1 .. (i - 1) : log'[j] = [what |-> "offer", ride |-> q, driver |-> log'[i].driver]
                      /\ \A j \in i .. Len(log') :
                           log'[j].what = "offer" /\ log'[j].driver = log'[i].driver => q \in overruled'
    BY DEF WonIsTaken
  <2>2. CASE i \in 1 .. Len(log)
    <3>1. log'[i] = log[i] /\ log[i] \in Entry /\ log[i].ride # r /\ i \in Nat
      BY <2>1, <2>2, <1>2
    <3> PICK q \in OpenRide, e \in Driver : q = log[i].ride /\ e = log[i].driver
      BY <3>1 DEF Entry
    <3>2. /\ assignment[q].status # "OPEN"
          /\ assignment[q] = [status |-> "ASSIGNED", winner |-> e] \/ q \in overruled
          /\ q \in closing => q \in overruled
          /\ \A j \in 1 .. Len(log) : log[j].what = "win" /\ log[j].ride = q => j = i
          /\ \E j \in 1 .. (i - 1) : log[j] = [what |-> "offer", ride |-> q, driver |-> e]
          /\ \A j \in i .. Len(log) : log[j].what = "offer" /\ log[j].driver = e => q \in overruled
      BY <2>2, <3>1 DEF DispatchInv, WonIsTaken
    <3>3. assignment'[q] = assignment[q] /\ overruled \subseteq overruled'
      BY <1>1, <3>1 DEF DispatchInv, DispatchTypeOK
    <3>4. \A j \in 1 .. Len(log') : log'[j].what = "win" /\ log'[j].ride = q => j = i
      BY <1>2, <1>3, <3>1, <3>2
    <3>5. \E j \in 1 .. (i - 1) : log'[j] = [what |-> "offer", ride |-> q, driver |-> e]
      <4>1. PICK j \in 1 .. (i - 1) : log[j] = [what |-> "offer", ride |-> q, driver |-> e]
        BY <3>2
      <4>2. j \in 1 .. Len(log)
        BY <2>2, <1>2
      <4> QED
        BY <4>1, <4>2, <1>2
    <3>6. ASSUME NEW j \in i .. Len(log'), log'[j].what = "offer", log'[j].driver = e
          PROVE  q \in overruled
      <4>1. j \in 1 .. Len(log')
        BY <2>2, <1>2
      <4>2. j \in i .. Len(log) /\ log'[j] = log[j]
        BY <4>1, <3>6, <1>2, <1>3
      <4> QED
        BY <4>2, <3>2, <3>6
    <3> QED
      BY <1>1, <3>1, <3>2, <3>3, <3>4, <3>5, <3>6
  <2>3. CASE i = Len(log) + 1
    <3>1. log'[i] = win /\ i \in Nat /\ i - 1 = Len(log)
      BY <2>3, <1>2
    <3>2. assignment'[r] = [status |-> "ASSIGNED", winner |-> d]
      BY <1>1 DEF DispatchInv, DispatchTypeOK
    <3>3. \A j \in 1 .. Len(log') : log'[j].what = "win" /\ log'[j].ride = r => j = i
      BY <2>1, <2>3, <1>2, <1>3
    <3>4. \E j \in 1 .. Len(log) : log'[j] = [what |-> "offer", ride |-> r, driver |-> d]
      BY <1>1, <1>2 DEF DispatchInv, OffersLogged
    <3>5. \A j \in i .. Len(log') : log'[j].what = "win"
      BY <2>3, <1>2, <3>1
    <3>6. r \in closing => r \in overruled'
      BY <1>1
    <3> QED
      BY <1>1, <3>1, <3>2, <3>3, <3>4, <3>5, <3>6
  <2> QED
    BY <2>2, <2>3, <1>3
<1> QED
  BY <1>1, <1>4, <1>5, <1>6 DEF DispatchInv

(* Closing touches a ride that nobody won, or one that is overruled.       *)
LEMMA CloseStep ==
  ASSUME DispatchInv, NEW r \in OpenRide, DecideToClose(r) \/ CloseWithoutDriver(r)
  PROVE  DispatchInv'
<1>1. /\ UNCHANGED <<wave, offered, log, plan, overruled>>
      /\ DispatchTypeOK'
  <2>1. CASE DecideToClose(r)
    BY <2>1 DEF DecideToClose, DispatchInv, DispatchTypeOK
  <2>2. CASE CloseWithoutDriver(r)
    BY <2>2 DEF CloseWithoutDriver, DispatchInv, DispatchTypeOK, Assignment
  <2> QED
    BY <2>1, <2>2
<1>2. OffersLogged'
  BY <1>1 DEF DispatchInv, OffersLogged
<1>3. WonIsTaken'
  <2> SUFFICES ASSUME NEW i \in 1 .. Len(log), log[i].what = "win"
               PROVE  LET q == log[i].ride IN
                      /\ assignment'[q].status # "OPEN"
                      /\ assignment'[q] = [status |-> "ASSIGNED", winner |-> log[i].driver] \/ q \in overruled
                      /\ q \in closing' => q \in overruled
    BY <1>1 DEF DispatchInv, WonIsTaken
  <2>0. log[i] \in Entry
    BY DEF DispatchInv, DispatchTypeOK
  <2> PICK q \in OpenRide, d \in Driver : q = log[i].ride /\ d = log[i].driver
    BY <2>0 DEF Entry
  <2>1. /\ assignment[q].status # "OPEN"
        /\ assignment[q] = [status |-> "ASSIGNED", winner |-> d] \/ q \in overruled
        /\ q \in closing => q \in overruled
    BY DEF DispatchInv, WonIsTaken
  <2>2. CASE DecideToClose(r)
    BY <2>1, <2>2 DEF DecideToClose
  <2>3. CASE CloseWithoutDriver(r)
    BY <2>1, <2>3 DEF CloseWithoutDriver, DispatchInv, DispatchTypeOK
  <2> QED
    BY <2>2, <2>3
<1> QED
  BY <1>1, <1>2, <1>3 DEF DispatchInv

(* So offers, winners and plans always agree.                              *)
LEMMA DispatchInvHolds == Spec => []DispatchInv
<1>1. Init => DispatchInv
  <2> SUFFICES ASSUME DispatchInit PROVE DispatchInv
    BY DEF Init
  <2>1. Len(Radius) = 3
    BY DEF Radius
  <2>2. DispatchTypeOK
    BY <2>1 DEF DispatchInit, DispatchTypeOK, Assignment
  <2>3. Len(log) = 0 /\ plan = <<>>
    BY DEF DispatchInit
  <2>4. OffersLogged /\ WonIsTaken
    BY <2>3 DEF DispatchInit, OffersLogged, WonIsTaken
  <2> QED
    BY <2>2, <2>3, <2>4 DEF DispatchInv
<1>2. DispatchInv /\ [Next]_fieldVars => DispatchInv'
  <2> SUFFICES ASSUME DispatchInv, [Next]_fieldVars
               PROVE  DispatchInv'
    OBVIOUS
  <2>1. CASE UNCHANGED dispatchVars
    BY <2>1 DEF dispatchVars, DispatchInv, DispatchTypeOK, OffersLogged, WonIsTaken
  <2>2. CASE DispatchNext
    BY <2>2, StartWaveStep, AcceptStep, CloseStep DEF DispatchNext
  <2> QED
    BY <2>1, <2>2 DEF Next, fieldVars
<1> QED
  BY <1>1, <1>2, PTL DEF Spec

(* A ride has one winner and keeps him unless it was overruled, and who is *)
(* assigned gets no new offer (acceptRide, isEligible).                    *)
THEOREM WinnersAreKept == Spec => []OneWinner
<1>1. DispatchInv => OneWinner
  <2> SUFFICES ASSUME DispatchInv PROVE OneWinner
    OBVIOUS
  <2>1. DOMAIN log = 1 .. Len(log)
    BY DEF DispatchInv, DispatchTypeOK
  <2> QED
    BY <2>1 DEF DispatchInv, WonIsTaken, OneWinner
<1> QED
  BY <1>1, DispatchInvHolds, PTL

(* Nobody is offered a ride twice, and a wave passes over no better driver *)
(* than those it offers to (rankCandidates, planWaveOffers).               *)
THEOREM OffersGoToTheBest == Spec => []BestFirst
<1>1. DispatchInv => BestFirst
  <2> SUFFICES ASSUME DispatchInv PROVE BestFirst
    OBVIOUS
  <2>1. DOMAIN log = 1 .. Len(log)
    BY DEF DispatchInv, DispatchTypeOK
  <2> QED
    BY <2>1 DEF DispatchInv, OffersLogged, PlanIsBestOf, BestFirst
<1> QED
  BY <1>1, DispatchInvHolds, PTL

-----------------------------------------------------------------------------
(* The pages.                                                              *)

(* A button stands for a ride that exists, a driver's for a driver, and no *)
(* cancel button for a ride that waits to be matched: rides do not go back.*)
ButtonsStand ==
  \A u \in User :
    /\ tab[u].page = "driver" => u \in Driving
    /\ \A b \in Button, r \in PageRide :
         <<b, r>> \in tab[u].forms =>
           /\ rides[r] # Unrequested /\ (b = "cancel" => rides[r].status # "REQUESTED")
           /\ b = "accept" => u \in Driving

(* A ride past its acceptance has the stamp the policy looks for.          *)
Underway == {"ACCEPTED", "DRIVER_ARRIVING", "DRIVER_ARRIVED", "IN_PROGRESS"}

WasAccepted(ride) == ride.status \in Underway => "ACCEPTED" \in ride.stamps

RidesKept ==
  \A r \in PageRide :
    /\ rides[r] # Unrequested => WasAccepted(rides[r])
    /\ dispatched[r] # 0 => rides[r] # Unrequested /\ rides[r].status # "REQUESTED"

PageInv == PageTypeOK /\ ButtonsStand /\ RidesKept /\ PanelIsCurrent

(* What a panel may have joined and claim, mounted anew or not.            *)
Panel == [joined: SUBSET PageRide, claims: BOOLEAN]

LEMMA PanelsAreTyped ==
  ASSUME PageTypeOK, NEW u \in User, NEW page, NEW now, NEW panel,
         panel = Unjoined \/ panel \in Remounted(u, page, now)
  PROVE  panel \in Panel
<1>1. tab[u].joined \subseteq PageRide /\ tab[u].claims \in BOOLEAN
  BY DEF PageTypeOK, Tab
<1>2. Unjoined \in Panel
  BY DEF Unjoined, Panel
<1>3. ASSUME NEW kept \in {{}, tab[u].joined} PROVE [joined |-> kept, claims |-> tab[u].claims] \in Panel
  BY <1>1 DEF Panel
<1>4. CASE panel \in Remounted(u, page, now)
  <2>1. panel = Unjoined \/ \E kept \in {{}, tab[u].joined} :
                              panel = [joined |-> kept, claims |-> tab[u].claims]
    BY <1>4 DEF Remounted
  <2> QED
    BY <1>2, <1>3, <2>1
<1> QED
  BY <1>2, <1>4

(* A page is shown, with whatever its panel has joined and claims.         *)
Shown(u, page, r, now, notice) == \E panel \in Panel : Show(u, page, r, now, notice, panel)

(* What a page rendered for u shows of the rides of its moment.            *)
LEMMA RenderedTab ==
  ASSUME PageTypeOK, NEW u \in User, NEW page \in {"ride", "driver", "ops"}, NEW r,
         NEW now \in [PageRide -> Machine!RideRecord \cup {Unrequested}],
         NEW notice \in {"none", "failed"},
         page = "ride" => r \in PageRide /\ now[r] # Unrequested, page = "driver" => u \in Driving,
         Shown(u, page, r, now, notice)
  PROVE  /\ tab' \in [User -> Tab]
         /\ \A v \in User \ {u} : tab'[v] = tab[v]
         /\ tab'[u].notice = notice /\ tab'[u].page = page
         /\ \A b \in Button, o \in PageRide :
              <<b, o>> \in tab'[u].forms =>
                /\ now[o] # Unrequested /\ (b = "cancel" => now[o].status # "REQUESTED")
                /\ b = "accept" => u \in Driving
         /\ \A o \in tab'[u].listed :
              o \in PageRide /\ (<<"dispatch", o>> \in tab'[u].forms <=> o \in Waiting(now))
<1> PICK panel \in Panel : Show(u, page, r, now, notice, panel)
  BY DEF Shown
<1> DEFINE forms == Forms(page, r, now)
           listed == Listed(page, now)
<1>1. forms \subseteq Button \X PageRide
  BY DEF Forms, RideButtons, OpenOffers, Waiting, Requested, Button, Steps, StepFrom
<1>2. listed \subseteq PageRide
  BY DEF Listed, Requested
<1>3. \A b \in Button, o \in PageRide :
        <<b, o>> \in forms =>
          /\ now[o] # Unrequested /\ (b = "cancel" => now[o].status # "REQUESTED")
          /\ b = "accept" => u \in Driving
  <2>1. CASE page = "ride"
    <3>1. /\ "cancel" \in RideButtons(now[r]) => now[r].status # "REQUESTED"
          /\ "accept" \notin RideButtons(now[r])
      BY DEF RideButtons, StepFrom
    <3> QED
      BY <2>1, <3>1 DEF Forms
  <2>2. CASE page = "driver"
    BY <2>2 DEF Forms, OpenOffers, Requested
  <2>3. CASE page = "ops"
    BY <2>3 DEF Forms, Waiting, Requested
  <2> QED
    BY <2>1, <2>2, <2>3
<1>4. \A o \in listed : <<"dispatch", o>> \in forms <=> o \in Waiting(now)
  BY DEF Listed, Forms
<1> HIDE DEF forms, listed
<1> DEFINE new == [page |-> page, forms |-> forms, listed |-> listed, joined |-> panel.joined,
                   claims |-> panel.claims, notice |-> notice]
<1>5. tab' = [tab EXCEPT ![u] = new]
  BY DEF Show, forms, listed
<1>6. new \in Tab /\ new.page = page /\ new.forms = forms /\ new.listed = listed /\ new.notice = notice
  BY <1>1, <1>2 DEF Tab, Panel
<1> HIDE DEF new
<1> QED
  BY <1>2, <1>3, <1>4, <1>5, <1>6 DEF PageTypeOK

(* A step in which u's page is rendered anew, from rides that only moved   *)
(* forward, and whoever listed one that moved was woken or missed it.      *)
LEMMA RenderedStep ==
  ASSUME PageInv, NEW u \in User, NEW page \in {"ride", "driver", "ops"}, NEW r,
         NEW notice \in {"none", "failed"},
         rides' \in [PageRide -> Machine!RideRecord \cup {Unrequested}],
         page = "ride" => r \in PageRide /\ rides'[r] # Unrequested, page = "driver" => u \in Driving,
         Shown(u, page, r, rides', notice),
         live' = live, onDuty' \subseteq Driving, dispatched' \in [PageRide -> 0 .. 1], RidesKept',
         \A o \in PageRide : rides[o] # Unrequested =>
           rides'[o] # Unrequested /\ (rides'[o].status = "REQUESTED" => rides[o].status = "REQUESTED"),
         woken' \subseteq User, missed' \subseteq User,
         (woken \cup missed) \ {u} \subseteq woken' \cup missed',
         \A v \in User \ ({u} \cup woken' \cup missed') :
           \A o \in tab[v].listed : rides'[o] = rides[o]
  PROVE  PageInv'
<1>1. /\ tab' \in [User -> Tab] /\ tab'[u].page = page
      /\ \A v \in User \ {u} : tab'[v] = tab[v]
      /\ \A b \in Button, o \in PageRide :
           <<b, o>> \in tab'[u].forms =>
             /\ rides'[o] # Unrequested /\ (b = "cancel" => rides'[o].status # "REQUESTED")
             /\ b = "accept" => u \in Driving
      /\ \A o \in tab'[u].listed :
           o \in PageRide /\ (<<"dispatch", o>> \in tab'[u].forms <=> o \in Waiting(rides'))
  BY RenderedTab DEF PageInv
<1>2. PageTypeOK'
  BY <1>1 DEF PageInv, PageTypeOK
<1>3. ButtonsStand'
  BY <1>1 DEF PageInv, ButtonsStand
<1>4. PanelIsCurrent'
  <2> SUFFICES ASSUME live, NEW v \in User \ (woken' \cup missed'), NEW o \in tab'[v].listed
               PROVE  <<"dispatch", o>> \in tab'[v].forms <=> o \in Waiting(rides')
    BY DEF PanelIsCurrent, ShowsRides, Waiting, Requested
  <2>1. CASE v = u
    BY <1>1, <2>1
  <2>2. CASE v # u
    <3>1. tab'[v] = tab[v] /\ v \notin woken \cup missed /\ rides'[o] = rides[o]
      BY <1>1, <2>2
    <3>2. <<"dispatch", o>> \in tab[v].forms <=> o \in Waiting(rides)
      BY <3>1 DEF PageInv, PanelIsCurrent, ShowsRides
    <3> QED
      BY <3>1, <3>2 DEF Waiting, Requested
  <2> QED
    BY <2>1, <2>2
<1> QED
  BY <1>2, <1>3, <1>4 DEF PageInv

(* Whoever lists r hears a broadcast about it or misses it, but for u.     *)
LEMMA BroadcastReaches ==
  ASSUME PageTypeOK, NEW u \in User, NEW r, Broadcast(u, r)
  PROVE  /\ woken' \subseteq User /\ missed' \subseteq User
         /\ (woken \cup missed) \ {u} \subseteq woken' \cup missed'
         /\ \A v \in User \ ({u} \cup woken' \cup missed') : r \notin tab[v].listed
<1> DEFINE listing == {v \in User : r \in tab[v].listed}
<1>1. PICK heard \in SUBSET User :
        woken' = (woken \cup heard) \ {u} /\ missed' = (missed \cup (listing \ heard)) \ {u}
  BY DEF Broadcast
<1> QED
  BY <1>1 DEF PageTypeOK

(* What pressing a button may do to a ride, and that a page rendered now   *)
(* would offer it.                                                         *)
LEMMA ActedRide ==
  ASSUME PageInv, NEW u \in User, NEW b \in Button, NEW r \in PageRide,
         <<b, r>> \in tab[u].forms, MayAct(u, b, r)
  PROVE  /\ rides[r] # Unrequested
         /\ Acted(u, b, r) \in Machine!RideRecord
         /\ Acted(u, b, r).status # "REQUESTED" /\ Acted(u, b, r).status # rides[r].status
         /\ WasAccepted(Acted(u, b, r))
         /\ b = "dispatch" => rides[r].status = "REQUESTED"
         /\ <<b, r>> \in UNION {Forms(page, r, rides) : page \in {"ride", "driver", "ops"}}
<1> DEFINE ride == rides[r]
<1>1. /\ ride \in Machine!RideRecord /\ ride # Unrequested /\ WasAccepted(ride)
      /\ b = "cancel" => ride.status # "REQUESTED"
  BY DEF PageInv, PageTypeOK, ButtonsStand, RidesKept
<1>2. <<ride.status, Target(b)>> \in Machine!Edge
  BY DEF MayAct, Machine!CanTransition
<1> HIDE DEF ride
<1>3. /\ b \in {"match", "dispatch"} => ride.status = "REQUESTED"
      /\ b = "accept" => ride.status = "MATCHING"
      /\ b \in Steps => ride.status \in DOMAIN StepFrom /\ StepFrom[ride.status] = b
      /\ b = "cancel" => ride.status \in {"MATCHING", "ACCEPTED", "DRIVER_ARRIVING", "DRIVER_ARRIVED", "IN_PROGRESS"}
      /\ Target(b) \in Machine!RideStatus /\ Target(b) # "REQUESTED" /\ Target(b) # ride.status
      /\ Target(b) \in Underway => Target(b) = "ACCEPTED" \/ ride.status \in Underway
  BY <1>1, <1>2 DEF Target, Machine!Edge, Button, Steps, StepFrom, Machine!RideStatus, Underway
<1>4. b = "cancel" => ride.status # "IN_PROGRESS"
  BY <1>1, <1>3 DEF MayAct, Machine!PassengerMayCancel, WasAccepted, Underway, ride
<1>5. <<b, r>> \in Forms("ride", r, rides) \cup Forms("driver", r, rides) \cup Forms("ops", r, rides)
  <2>1. CASE b \in {"match", "cancel"} \cup Steps
    <3>1. b \in RideButtons(ride)
      BY <1>3, <1>4, <2>1 DEF RideButtons
    <3> QED
      BY <3>1 DEF Forms, ride
  <2>2. CASE b = "accept"
    BY <1>1, <1>3, <2>2 DEF Forms, OpenOffers, Requested, ride
  <2>3. CASE b = "dispatch"
    BY <1>1, <1>3, <2>3 DEF Forms, Waiting, Requested, ride
  <2> QED
    BY <2>1, <2>2, <2>3 DEF Button
<1>6. b = "accept" => u \in Driving
  BY DEF PageInv, ButtonsStand
<1>7. /\ Acted(u, b, r) \in Machine!RideRecord /\ Acted(u, b, r).status = Target(b)
      /\ ride.stamps \subseteq Acted(u, b, r).stamps
      /\ Target(b) = "ACCEPTED" => "ACCEPTED" \in Acted(u, b, r).stamps
  BY <1>1, <1>3, <1>6
     DEF Acted, Machine!Assigned, Machine!Transitioned, Machine!RideRecord, Machine!Stamped, ride
<1>8. WasAccepted(Acted(u, b, r))
  BY <1>1, <1>3, <1>7 DEF WasAccepted
<1> QED
  BY <1>1, <1>3, <1>5, <1>7, <1>8 DEF ride

LEMMA RequestRideStep ==
  ASSUME PageInv, NEW u \in User, NEW r \in PageRide, RequestRide(u, r)
  PROVE  PageInv'
<1> USE PagesAssumption
<1> PICK new \in Machine!RideRecord : new = Machine!RequestedRide
  BY DEF Machine!RideRecord, Machine!RequestedRide, Machine!RideStatus, Machine!Stamped
<1>1. /\ rides' = [rides EXCEPT ![r] = new] /\ rides[r] = Unrequested
      /\ rides'[r] = new /\ new # Unrequested /\ \A o \in PageRide \ {r} : rides'[o] = rides[o]
      /\ rides' \in [PageRide -> Machine!RideRecord \cup {Unrequested}]
      /\ UNCHANGED <<live, onDuty, dispatched>> /\ Show(u, "ride", r, rides', "none", Unjoined)
      /\ onDuty \subseteq Driving /\ dispatched \in [PageRide -> 0 .. 1]
  BY DEF RequestRide, PageInv, PageTypeOK
<1>6. Shown(u, "ride", r, rides', "none")
  BY <1>1, PanelsAreTyped DEF Shown, PageInv
<1>2. RidesKept'
  <2>1. WasAccepted(new)
    BY DEF WasAccepted, Underway, Machine!RequestedRide
  <2> QED
    BY <1>1, <2>1 DEF PageInv, RidesKept
<1>3. /\ woken' \subseteq User /\ missed' \subseteq User
      /\ (woken \cup missed) \ {u} \subseteq woken' \cup missed'
      /\ \A v \in User \ ({u} \cup woken' \cup missed') : r \notin tab[v].listed
  BY BroadcastReaches DEF RequestRide, PageInv
<1>4. \A v \in User \ ({u} \cup woken' \cup missed') : \A o \in tab[v].listed : rides'[o] = rides[o]
  BY <1>1, <1>3 DEF PageInv, PageTypeOK, Tab
<1>5. \A o \in PageRide : rides[o] # Unrequested =>
        rides'[o] # Unrequested /\ (rides'[o].status = "REQUESTED" => rides[o].status = "REQUESTED")
  BY <1>1
<1> QED
  BY <1>1, <1>2, <1>3, <1>4, <1>5, <1>6, RenderedStep

(* A page rendered anew of rides that did not change.                      *)
LEMMA LookStep ==
  ASSUME PageInv, NEW u \in User, NEW page \in {"ride", "driver", "ops"}, NEW r,
         NEW notice \in {"none", "failed"},
         page = "ride" => r \in PageRide /\ rides[r] # Unrequested, page = "driver" => u \in Driving,
         Shown(u, page, r, rides, notice), Rerendered(u),
         UNCHANGED <<live, rides, dispatched>>, onDuty' \subseteq Driving
  PROVE  PageInv'
<1>1. Shown(u, page, r, rides', notice)
  BY DEF Shown, Show
<1>2. RidesKept' /\ rides' \in [PageRide -> Machine!RideRecord \cup {Unrequested}]
      /\ dispatched' \in [PageRide -> 0 .. 1]
  BY DEF PageInv, PageTypeOK, RidesKept
<1>3. /\ woken' \subseteq User /\ missed' \subseteq User
      /\ (woken \cup missed) \ {u} \subseteq woken' \cup missed'
  BY DEF Rerendered, PageInv, PageTypeOK
<1> QED
  BY <1>1, <1>2, <1>3, RenderedStep

LEMMA PressStep ==
  ASSUME PageInv, NEW u \in User, NEW b \in Button, NEW r \in PageRide, Press(u, b, r)
  PROVE  PageInv'
<1> USE PagesAssumption
<1>0. /\ <<b, r>> \in tab[u].forms /\ UNCHANGED <<live, onDuty>>
      /\ rides[r] # Unrequested /\ (b = "accept" => u \in Driving)
      /\ live' = live /\ onDuty' \subseteq Driving
  BY DEF Press, PageInv, PageTypeOK, ButtonsStand
<1> PICK page \in {"ride", "driver", "ops"} : page = PageAfter(b) /\ (page = "driver" => u \in Driving)
  BY <1>0 DEF PageAfter
<1>3. Shown(u, page, r, rides', Notice(b, MayAct(u, b, r)))
  BY PanelsAreTyped DEF Shown, Press, PageInv
<1>1. CASE MayAct(u, b, r)
  <2> PICK ride \in Machine!RideRecord :
        /\ ride = Acted(u, b, r) /\ ride.status # "REQUESTED" /\ WasAccepted(ride)
        /\ b = "dispatch" => rides[r].status = "REQUESTED"
    BY <1>0, <1>1, ActedRide
  <2> PICK notice \in {"none", "failed"} : notice = Notice(b, TRUE)
    BY DEF Notice
  <2>1. /\ rides' = [rides EXCEPT ![r] = ride] /\ Broadcast(u, r)
        /\ dispatched' = IF b = "dispatch" THEN [dispatched EXCEPT ![r] = @ + 1] ELSE dispatched
        /\ Shown(u, page, r, rides', notice)
    BY <1>1, <1>3 DEF Press, Changes, Audited, Notice
  <2>2. /\ rides'[r] = ride /\ ride # Unrequested /\ \A o \in PageRide \ {r} : rides'[o] = rides[o]
        /\ rides' \in [PageRide -> Machine!RideRecord \cup {Unrequested}]
    BY <2>1 DEF PageInv, PageTypeOK
  <2>3. /\ dispatched' \in [PageRide -> 0 .. 1]
        /\ \A o \in PageRide \ {r} : dispatched'[o] = dispatched[o]
    <3>1. b = "dispatch" => dispatched[r] = 0
      BY DEF PageInv, RidesKept
    <3> QED
      BY <2>1, <3>1 DEF PageInv, PageTypeOK
  <2>4. RidesKept'
    BY <2>2, <2>3 DEF PageInv, RidesKept
  <2>5. /\ woken' \subseteq User /\ missed' \subseteq User
        /\ (woken \cup missed) \ {u} \subseteq woken' \cup missed'
        /\ \A v \in User \ ({u} \cup woken' \cup missed') : r \notin tab[v].listed
    BY <2>1, BroadcastReaches DEF PageInv
  <2>6. \A v \in User \ ({u} \cup woken' \cup missed') : \A o \in tab[v].listed : rides'[o] = rides[o]
    BY <2>2, <2>5 DEF PageInv, PageTypeOK, Tab
  <2>7. \A o \in PageRide : rides[o] # Unrequested =>
          rides'[o] # Unrequested /\ (rides'[o].status = "REQUESTED" => rides[o].status = "REQUESTED")
    BY <2>2
  <2>8. page = "ride" => r \in PageRide /\ rides'[r] # Unrequested
    BY <2>2
  <2>9. PageInv /\ live' = live /\ onDuty' \subseteq Driving /\ (page = "driver" => u \in Driving)
    BY <1>0
  <2>10. Shown(u, page, r, rides', notice)
    BY <2>1
  <2>11. rides' \in [PageRide -> Machine!RideRecord \cup {Unrequested}]
    BY <2>2
  <2>12. dispatched' \in [PageRide -> 0 .. 1] /\ woken' \subseteq User /\ missed' \subseteq User
         /\ (woken \cup missed) \ {u} \subseteq woken' \cup missed'
    BY <2>3, <2>5
  <2> HIDE PagesAssumption
  <2> QED
    BY <2>4, <2>6, <2>7, <2>8, <2>9, <2>10, <2>11, <2>12, RenderedStep
<1>2. CASE ~ MayAct(u, b, r)
  <2> PICK notice \in {"none", "failed"} : notice = Notice(b, FALSE)
    BY DEF Notice
  <2>1. /\ rides' = rides /\ Rerendered(u) /\ dispatched' = dispatched
        /\ Shown(u, page, r, rides, notice)
    BY <1>2, <1>3 DEF Press, Audited, Notice, Shown, Show
  <2> QED
    BY <1>0, <2>1, LookStep
<1> QED
  BY <1>1, <1>2

(* Joining a channel changes nothing that is shown.                        *)
LEMMA JoinStep ==
  ASSUME PageInv, NEW u \in User, NEW r \in PageRide, Join(u, r)
  PROVE  PageInv'
<1> DEFINE new == [tab[u] EXCEPT !.joined = @ \cup {r}, !.claims = TRUE]
<1>1. /\ tab' = [tab EXCEPT ![u] = new]
      /\ UNCHANGED <<live, rides, onDuty, woken, missed, dispatched>>
  BY DEF Join
<1>2. /\ new \in Tab /\ new.page = tab[u].page /\ new.forms = tab[u].forms
      /\ new.listed = tab[u].listed
  BY DEF PageInv, PageTypeOK, Tab
<1> HIDE DEF new
<1>3. /\ tab' \in [User -> Tab]
      /\ \A v \in User : /\ tab'[v].page = tab[v].page /\ tab'[v].forms = tab[v].forms
                          /\ tab'[v].listed = tab[v].listed
  BY <1>1, <1>2 DEF PageInv, PageTypeOK
<1>4. PageTypeOK' /\ RidesKept'
  BY <1>1, <1>3 DEF PageInv, PageTypeOK, RidesKept
<1>5. ButtonsStand'
  BY <1>1, <1>3 DEF PageInv, ButtonsStand
<1>6. PanelIsCurrent'
  BY <1>1, <1>3 DEF PageInv, PanelIsCurrent, ShowsRides, Waiting, Requested
<1> QED
  BY <1>4, <1>5, <1>6 DEF PageInv

LEMMA PageInvStep == PageInv /\ [Next]_fieldVars => PageInv'
<1> SUFFICES ASSUME PageInv, [Next]_fieldVars
             PROVE  PageInv'
  OBVIOUS
<1>1. ASSUME NEW u \in User, NEW r \in PageRide, RequestRide(u, r) PROVE PageInv'
  BY <1>1, RequestRideStep
<1>2. ASSUME NEW u \in User, NEW r \in PageRide, NEW page \in {"ride", "driver", "ops"}, Visit(u, page, r)
      PROVE  PageInv'
  <2>1. Shown(u, page, r, rides, "none")
    BY <1>2, PanelsAreTyped DEF Visit, Shown, PageInv
  <2> QED
    BY <1>2, <2>1, LookStep DEF Visit, Requested, PageInv, PageTypeOK
<1>3. ASSUME NEW u \in User, NEW r \in PageRide, Refresh(u, r) PROVE PageInv'
  <2> PICK notice \in {"none", "failed"} : notice = tab[u].notice
    BY DEF PageInv, PageTypeOK, Tab
  <2>1. /\ Shown(u, "ops", r, rides, notice) /\ Rerendered(u)
        /\ UNCHANGED <<live, rides, dispatched>> /\ onDuty' \subseteq Driving
    BY <1>3, PanelsAreTyped DEF Shown, Refresh, PageInv, PageTypeOK
  <2> QED
    BY <2>1, LookStep
<1>4. ASSUME NEW u \in User, NEW r \in PageRide, NEW b \in Button, Press(u, b, r) PROVE PageInv'
  BY <1>4, PressStep
<1>5. ASSUME NEW u \in User, ToggleAvailability(u) PROVE PageInv'
  <2>1. u \in Driving
    BY <1>5 DEF ToggleAvailability, PageInv, ButtonsStand
  <2>2. onDuty' \subseteq Driving
    BY <1>5, <2>1 DEF ToggleAvailability, PageInv, PageTypeOK
  <2>3. /\ Shown(u, "driver", NoOne, rides, "none") /\ Rerendered(u)
        /\ UNCHANGED <<live, rides, dispatched>>
    BY <1>5, PanelsAreTyped DEF ToggleAvailability, Shown, PageInv
  <2> QED
    BY <2>1, <2>2, <2>3, LookStep
<1>6. CASE UNCHANGED pageVars
  BY <1>6 DEF pageVars, PageInv, PageTypeOK, ButtonsStand, RidesKept, PanelIsCurrent, ShowsRides,
              Waiting, Requested
<1>7. ASSUME NEW u \in User, NEW r \in PageRide, Join(u, r) PROVE PageInv'
  BY <1>7, JoinStep
<1> QED
  BY <1>1, <1>2, <1>3, <1>4, <1>5, <1>6, <1>7 DEF Next, PageNext, fieldVars

LEMMA PageInvHolds == Spec => []PageInv
<1>1. Init => PageInv
  <2> SUFFICES ASSUME PageInit PROVE PageInv
    BY DEF Init
  <2>1. Closed \in Tab /\ Closed.forms = {} /\ Closed.listed = {} /\ Closed.page = "none"
    BY DEF Closed, Tab
  <2>2. Machine!RequestedRide \in Machine!RideRecord /\ WasAccepted(Machine!RequestedRide)
    BY DEF Machine!RequestedRide, Machine!RideRecord, Machine!RideStatus, WasAccepted, Underway
  <2>3. live \in BOOLEAN
    BY PagesAssumption DEF PageInit
  <2>4. /\ rides \in [PageRide -> Machine!RideRecord \cup {Unrequested}]
        /\ \A r \in PageRide : rides[r] # Unrequested => WasAccepted(rides[r])
    BY <2>2 DEF PageInit
  <2>5. PageTypeOK
    BY <2>1, <2>3, <2>4 DEF PageInit, PageTypeOK
  <2> QED
    BY <2>1, <2>4, <2>5 DEF PageInit, PageInv, ButtonsStand, RidesKept, PanelIsCurrent, ShowsRides
<1> QED
  BY <1>1, PageInvStep, PTL DEF Spec

(* A panel shows the rides it lists as they are, unless it has a broadcast *)
(* to react to or missed one, unjoined or unreached (OpsLiveListener over  *)
(* the realtime publisher): for any rides, users and order of the joins.   *)
THEOREM PanelsAreCurrent == Spec => []PanelIsCurrent
<1>1. PageInv => PanelIsCurrent
  BY DEF PageInv
<1> QED
  BY <1>1, PageInvHolds, PTL

(* A button of a stale page does only what a page rendered now would offer *)
(* and tells whoever pressed it in vain (the actions of apps/web).         *)
THEOREM StalePressesAreHarmless == Spec => StalePressIsHarmless
<1>1. ASSUME PageInv, NEW u \in User, NEW b \in Button, NEW r \in PageRide, Press(u, b, r)
      PROVE  IF rides' = rides THEN tab'[u].notice = "failed"
             ELSE <<b, r>> \in UNION {Forms(page, r, rides) : page \in {"ride", "driver", "ops"}}
  <2>1. <<b, r>> \in tab[u].forms
    BY <1>1 DEF Press
  <2>2. CASE MayAct(u, b, r)
    <3>1. rides'[r] = Acted(u, b, r) /\ rides'[r].status # rides[r].status
      BY <1>1, <2>1, <2>2, ActedRide DEF Press, Changes, PageInv, PageTypeOK
    <3> QED
      BY <1>1, <2>1, <2>2, <3>1, ActedRide
  <2>3. CASE ~ MayAct(u, b, r)
    BY <1>1, <2>3 DEF Press, Show, Notice, PageInv, PageTypeOK
  <2> QED
    BY <2>2, <2>3
<1>2. PageInv /\ [Next]_fieldVars =>
        [\A u \in User, b \in Button, r \in PageRide :
           Press(u, b, r) =>
             IF rides' = rides THEN tab'[u].notice = "failed"
             ELSE <<b, r>> \in UNION {Forms(page, r, rides) : page \in {"ride", "driver", "ops"}}]_pageVars
  BY <1>1
<1> QED
  BY <1>2, PageInvHolds, PTL DEF Spec, StalePressIsHarmless

-----------------------------------------------------------------------------
(* Fares.                                                                  *)

(* Rounding half up: the whole part of the quotient, or one more.          *)
LEMMA RoundHalfUp ==
  ASSUME NEW x \in Int, NEW s \in {1000, SCALE}
  PROVE  /\ RoundDiv(x, s) \in Int
         /\ 2 * x - s < 2 * s * RoundDiv(x, s) /\ 2 * s * RoundDiv(x, s) <= 2 * x + s
<1>1. CASE s = 1000
  BY <1>1 DEF RoundDiv
<1>2. CASE s = SCALE
  BY <1>2 DEF RoundDiv, SCALE
<1> QED
  BY <1>1, <1>2

(* What is metered, and what is added and taken off, is counted.           *)
LEMMA TermsCount ==
  ASSUME NEW input \in QuoteInput
  PROVE  /\ Metered(input) \in Nat /\ WaitingOf(input) \in Nat /\ DiscountOf(input) \in Nat
         /\ input.tolls \in Nat /\ input.surge \in Nat
<1>1. /\ input.category \in {"car", "motorcycle"} /\ input.trip.distance \in Nat
      /\ input.trip.duration \in Nat
      /\ input.surge \in Nat /\ input.tolls \in Nat /\ input.waiting \in Nat
      /\ input.coupon \in Nat /\ input.promotion \in Nat
  BY PricingAssumption DEF QuoteInput, Catalog
<1>2. DiscountOf(input) \in Nat
  BY <1>1 DEF DiscountOf, SCALE
<1>3. CASE input.category = "car"
  BY <1>1, <1>2, <1>3 DEF Metered, WaitingOf, Greater, SCALE, Catalog
<1>4. CASE input.category = "motorcycle"
  BY <1>1, <1>2, <1>4 DEF Metered, WaitingOf, Greater, SCALE, Catalog
<1> QED
  BY <1>1, <1>2, <1>3, <1>4

(* The product with the multiplier is at most one above its whole part,    *)
(* and it is exact without a surge.                                        *)
WholeProduct(n, surge) == (n \div 1000) * surge + ((n % 1000) * surge) \div 1000

(* The surge and its rounding stay within half a centavo of the exact      *)
(* product.                                                                *)
LEMMA SurgedIsNear ==
  ASSUME NEW n \in Nat, NEW surge \in Nat
  PROVE  /\ WholeProduct(n, surge) \in Nat
         /\ Surged(n, surge) - WholeProduct(n, surge) \in {0, 1}
         /\ surge = SURGE_MIN => Surged(n, surge) = WholeProduct(n, surge)
<1> DEFINE q == n \div 1000
           r == n % 1000
           x == r * surge
<1>1. q \in Nat /\ r \in Nat
  OBVIOUS
<1>2. x \in Nat /\ q * surge \in Nat
  BY <1>1
<1>3. surge = SURGE_MIN => x = r * 1000
  BY DEF SURGE_MIN
<1> HIDE DEF x, r
<1>4. x \div 1000 \in Nat /\ RoundDiv(x, 1000) - x \div 1000 \in {0, 1}
  BY <1>2 DEF RoundDiv
<1>5. surge = SURGE_MIN => RoundDiv(x, 1000) = x \div 1000
  BY <1>1, <1>3 DEF RoundDiv
<1> DEFINE p == q * surge
<1> HIDE DEF p, q
<1> DEFINE low == x \div 1000
           up == RoundDiv(x, 1000)
<1>6. Surged(n, surge) = p + up /\ WholeProduct(n, surge) = p + low
  BY DEF Surged, WholeProduct, p, q, x, r
<1>7. p \in Nat /\ low \in Nat /\ up - low \in {0, 1} /\ up \in Int /\ (surge = SURGE_MIN => up = low)
  BY <1>2, <1>4, <1>5 DEF p, RoundDiv
<1> HIDE DEF low, up
<1> QED
  BY <1>6, <1>7

(* The total is the exact one, but for the centavo a surge may add.        *)
LEMMA TotalIsNear ==
  ASSUME NEW whole \in Nat, NEW more \in {0, 1}, NEW tolls \in Nat, NEW wait \in Nat, NEW off \in Nat
  PROVE  LET pre == whole + tolls * SCALE + wait IN
         RoundDiv((pre + more) - Lesser(off, pre + more), SCALE)
           - Greater(0, pre - off + SCALE \div 2) \div SCALE \in 0 .. more
<1> DEFINE pre == whole + tolls * SCALE + wait
<1>1. pre \in Nat
  BY DEF SCALE
<1> HIDE DEF pre
<1>2. CASE off < pre + more
  BY <1>1, <1>2 DEF RoundDiv, Lesser, Greater, SCALE
<1>3. CASE ~ (off < pre + more)
  BY <1>1, <1>3 DEF RoundDiv, Lesser, Greater, SCALE
<1> QED
  BY <1>2, <1>3 DEF pre

(* The lines of the receipt and the total are rounded apart.               *)
LEMMA LinesAddUp ==
  ASSUME NEW surged \in Nat, NEW tolls \in Nat, NEW wait \in Nat, NEW off \in Nat
  PROVE  RoundDiv(surged, SCALE) + tolls + RoundDiv(wait, SCALE) - RoundDiv(off, SCALE)
           - RoundDiv((surged + tolls * SCALE + wait) - off, SCALE) \in -1 .. 1
<1> DEFINE a == RoundDiv(surged, SCALE)
           w == RoundDiv(wait, SCALE)
           d == RoundDiv(off, SCALE)
           rest == (surged + tolls * SCALE + wait) - off
           t == RoundDiv(rest, SCALE)
<1>1. rest \in Int
  BY DEF SCALE
<1> HIDE DEF rest
<1>2. /\ a \in Int /\ w \in Int /\ d \in Int /\ t \in Int
      /\ 2 * surged - SCALE < 2 * SCALE * a /\ 2 * SCALE * a <= 2 * surged + SCALE
      /\ 2 * wait - SCALE < 2 * SCALE * w /\ 2 * SCALE * w <= 2 * wait + SCALE
      /\ 2 * off - SCALE < 2 * SCALE * d /\ 2 * SCALE * d <= 2 * off + SCALE
      /\ 2 * rest - SCALE < 2 * SCALE * t /\ 2 * SCALE * t <= 2 * rest + SCALE
  BY <1>1, RoundHalfUp
<1> HIDE DEF a, w, d, t
<1>3. a + tolls + w - d - t \in -1 .. 1
  BY <1>1, <1>2 DEF SCALE, rest
<1> QED
  BY <1>3 DEF a, w, d, t, rest

(* What was quoted is what quoteFare makes of what was asked for.          *)
FareIsQuoted ==
  quoted = NoQuote \/ \E input \in QuoteInput : quoted = [input |-> input, fare |-> FareOf(input)]

(* A fare on record is the quote of its inputs.                            *)
LEMMA FareIsQuotedHolds == Spec => []FareIsQuoted
<1>1. Init => FareIsQuoted
  BY DEF Init, PricingInit, FareIsQuoted
<1>2. FareIsQuoted /\ [Next]_fieldVars => FareIsQuoted'
  BY DEF Next, PricingNext, QuoteFare, fieldVars, FareIsQuoted
<1> QED
  BY <1>1, <1>2, PTL DEF Spec

(* What a fare costs: the exact total, or with a surge at most a centavo   *)
(* more; and the lines add up to the total but for a centavo.              *)
LEMMA FareIsNear ==
  ASSUME NEW input \in QuoteInput
  PROVE  LET fare == FareOf(input)
             over == fare.total - ExactTotal(input) IN
         /\ fare.total \in Int /\ ExactTotal(input) \in Int
         /\ over \in (IF input.surge = SURGE_MIN THEN {0} ELSE {0, 1})
         /\ fare.subtotal + fare.tolls + fare.waiting - fare.discounts - fare.total \in -1 .. 1
<1> DEFINE n == Metered(input)
           s == Surged(n, input.surge)
           whole == WholeProduct(n, input.surge)
           wait == WaitingOf(input)
           off == DiscountOf(input)
           tolls == input.tolls
           pre == s + tolls * SCALE + wait
           cap == Lesser(off, pre)
           fare == FareOf(input)
<1>1. n \in Nat /\ wait \in Nat /\ off \in Nat /\ tolls \in Nat /\ input.surge \in Nat
  BY TermsCount
<1>2. whole \in Nat /\ s - whole \in {0, 1} /\ (input.surge = SURGE_MIN => s = whole)
  BY <1>1, SurgedIsNear
<1>3. /\ fare.subtotal = RoundDiv(s, SCALE) /\ fare.tolls = tolls
      /\ fare.waiting = RoundDiv(wait, SCALE) /\ fare.discounts = RoundDiv(cap, SCALE)
      /\ fare.total = RoundDiv(pre - cap, SCALE)
  BY DEF FareOf, Total
<1>4. ExactTotal(input) = Greater(0, (whole + tolls * SCALE + wait) - off + SCALE \div 2) \div SCALE
  BY DEF ExactTotal, WholeProduct
<1> HIDE DEF n, s, whole, wait, off, tolls, fare
<1>5. PICK more \in {0, 1} : s = whole + more /\ (input.surge = SURGE_MIN => more = 0)
  <2>1. s \in Int
    BY <1>1 DEF s, Surged, RoundDiv
  <2> QED
    BY <1>2, <2>1
<1>6. pre = (whole + tolls * SCALE + wait) + more /\ pre \in Nat /\ s \in Nat
  BY <1>1, <1>2, <1>5 DEF SCALE
<1>7. fare.total - ExactTotal(input) \in 0 .. more
  BY <1>1, <1>2, <1>3, <1>4, <1>5, <1>6, TotalIsNear
<1>8. cap \in Nat
  BY <1>1, <1>6 DEF Lesser
<1> HIDE DEF cap
<1>9. fare.subtotal + fare.tolls + fare.waiting - fare.discounts - fare.total \in -1 .. 1
  <2>1. RoundDiv(s, SCALE) + tolls + RoundDiv(wait, SCALE) - RoundDiv(cap, SCALE)
          - RoundDiv((s + tolls * SCALE + wait) - cap, SCALE) \in -1 .. 1
    BY <1>1, <1>6, <1>8, LinesAddUp
  <2> QED
    BY <1>3, <2>1 DEF pre
<1>10. fare.total - ExactTotal(input) \in (IF input.surge = SURGE_MIN THEN {0} ELSE {0, 1})
  BY <1>5, <1>7
<1>11. fare.total \in Int /\ ExactTotal(input) \in Int
  BY <1>1, <1>2, <1>3, <1>4, <1>6, <1>8 DEF RoundDiv, Greater, SCALE
<1> QED
  BY <1>9, <1>10, <1>11 DEF fare

(* Without a surge the passenger pays the exact fare rounded once, and on  *)
(* every receipt the lines add up to the total but for a centavo           *)
(* (quoteFare), for any route, toll, wait and discount.                    *)
THEOREM FaresAreExact == Spec => []FareIsExact
<1>1. ASSUME NEW input \in QuoteInput, quoted = [input |-> input, fare |-> FareOf(input)]
      PROVE  FareIsExact
  <2>1. quoted.input = input /\ quoted.fare = FareOf(input)
    BY <1>1
  <2>2. /\ FareOf(input).total \in Int /\ ExactTotal(input) \in Int
        /\ input.surge = SURGE_MIN => FareOf(input).total - ExactTotal(input) = 0
    BY FareIsNear
  <2> QED
    BY <2>1, <2>2, FareIsNear DEF FareIsExact
<1>2. FareIsQuoted => FareIsExact
  BY <1>1 DEF FareIsQuoted, FareIsExact
<1> QED
  BY <1>2, FareIsQuotedHolds, PTL

(* The second rounding of quoteFare, of the product with the surge, never  *)
(* costs the passenger more than a centavo, and never favours him.         *)
THEOREM SurgeErrsByACentavo ==
  Spec => [](quoted # NoQuote => quoted.fare.total - ExactTotal(quoted.input) \in {0, 1})
<1>1. ASSUME NEW input \in QuoteInput, quoted = [input |-> input, fare |-> FareOf(input)]
      PROVE  quoted.fare.total - ExactTotal(quoted.input) \in {0, 1}
  <2>1. quoted.input = input /\ quoted.fare = FareOf(input)
    BY <1>1
  <2> QED
    BY <2>1, FareIsNear
<1>2. FareIsQuoted => (quoted # NoQuote => quoted.fare.total - ExactTotal(quoted.input) \in {0, 1})
  BY <1>1 DEF FareIsQuoted
<1> QED
  BY <1>2, FareIsQuotedHolds, PTL

-----------------------------------------------------------------------------
(* A fare is counted in whole centavos: no term of it is negative.         *)
LEMMA FareIsTyped ==
  ASSUME NEW input \in QuoteInput
  PROVE  FareOf(input) \in Fare
<1> DEFINE n == Metered(input)
           s == Surged(n, input.surge)
           wait == WaitingOf(input)
           off == DiscountOf(input)
           pre == s + input.tolls * SCALE + wait
           cap == Lesser(off, pre)
<1>1. n \in Nat /\ wait \in Nat /\ off \in Nat /\ input.tolls \in Nat /\ input.surge \in Nat
  BY TermsCount
<1>2. s \in Nat
  <2> HIDE DEF n
  <2>1. s \in Int
    BY <1>1 DEF Surged, RoundDiv
  <2> PICK whole \in Nat : s - whole \in {0, 1}
    BY <1>1, SurgedIsNear
  <2> HIDE DEF s
  <2> QED
    BY <2>1
<1>3. FareOf(input) =
        [subtotal |-> RoundDiv(s, SCALE), tolls |-> input.tolls, waiting |-> RoundDiv(wait, SCALE),
         discounts |-> RoundDiv(cap, SCALE), total |-> RoundDiv(pre - cap, SCALE)]
  BY DEF FareOf, Total
<1> HIDE DEF n, s, wait, off
<1>4. pre \in Nat
  BY <1>1, <1>2 DEF SCALE
<1> HIDE DEF pre
<1>5. cap \in Nat /\ pre - cap \in Nat
  BY <1>1, <1>4 DEF Lesser
<1> HIDE DEF cap
<1>6. \A x \in Nat : RoundDiv(x, SCALE) \in Nat
  BY DEF RoundDiv, SCALE
<1> QED
  BY <1>1, <1>2, <1>3, <1>4, <1>5, <1>6 DEF Fare

(* The state of positions, waves, pages and fares is of its type.          *)
THEOREM FieldTypes == Spec => []TypeOK
<1>1. FareIsQuoted => PricingTypeOK
  BY FareIsTyped DEF FareIsQuoted, PricingTypeOK
<1>2. TrackInv /\ DispatchInv /\ PageInv /\ FareIsQuoted => TypeOK
  BY <1>1 DEF TrackInv, DispatchInv, PageInv, TypeOK
<1> QED
  BY <1>2, TrackInvHolds, DispatchInvHolds, PageInvHolds, FareIsQuotedHolds, PTL
=============================================================================

------------------------ MODULE CommunicationProofs -------------------------
(***************************************************************************)
(* The outbox, the notifications of a ride and what is said of it, for any *)
(* number of overlapping handlers, events, rides, messages and ratings.    *)
(***************************************************************************)
EXTENDS Communication, FiniteProofs, SequenceTheorems, TLAPS

-----------------------------------------------------------------------------
(* The outbox.                                                             *)

(* What DeliveredOnce needs to know of the types: of the batches no more   *)
(* than that the calls keep them in a record.                              *)
OutShape ==
  /\ outStatus \in [OutEvent -> OutStatus] /\ attempts \in [OutEvent -> Nat]
  /\ handled \in [OutEvent -> Nat]
  /\ DOMAIN outCalls = Call
  /\ \A c \in Call : outCalls[c] # NoCall =>
       outCalls[c] = [left |-> outCalls[c].left, at |-> outCalls[c].at]
  /\ outCalls = [c \in Call |-> outCalls[c]]

Handling(c, e) == outCalls[c] # NoCall /\ outCalls[c].at = "handle" /\ Head(outCalls[c].left) = e

(* An event that one dispatch alone handed over was accepted by nobody     *)
(* yet, and no event without a consumer is handed over.                    *)
HandledAlone ==
  \A c \in Call, e \in OutEvent : Handling(c, e) =>
    /\ e \notin Orphan
    /\ e \notin outRaced => handled[e] = 0 /\ \A d \in Call \ {c} : ~ Handling(d, e)

(* Only events that are never retired otherwise count attempts, and what   *)
(* was accepted had a consumer that works.                                 *)
Counted ==
  \A e \in OutEvent :
    /\ attempts[e] > 0 => e \in Orphan \/ (e \in Poison /\ MaxAttempts <= 1)
    /\ handled[e] > 0 => e \notin Poison \cup Orphan

OutInv == OutShape /\ HandledAlone /\ Counted /\ DeliveredOnce

LEMMA AppendStep ==
  ASSUME OutInv, NEW e \in OutEvent, AppendEvent(e)
  PROVE  OutInv'
<1>1. /\ outStatus' = [outStatus EXCEPT ![e] = "pending"] /\ outStatus[e] = "absent"
      /\ UNCHANGED <<attempts, delivered, outCalls, handled, outRaced>>
  BY DEF AppendEvent
<1>2. OutShape' /\ HandledAlone' /\ Counted'
  BY <1>1 DEF OutInv, OutShape, OutStatus, HandledAlone, Handling, Counted
<1>3. DeliveredOnce'
  BY <1>1 DEF OutInv, OutShape, DeliveredOnce
<1> QED
  BY <1>2, <1>3 DEF OutInv

(* A call that lists its batch or is through with an event handles none.   *)
LEMMA AtNext ==
  ASSUME OutShape, NEW c \in Call, NEW next,
         next = NoCall \/ \E left : next = [left |-> left, at |-> "next"],
         outCalls' = [outCalls EXCEPT ![c] = next]
  PROVE  /\ DOMAIN outCalls' = Call /\ outCalls' = [d \in Call |-> outCalls'[d]]
         /\ \A d \in Call : outCalls'[d] # NoCall =>
              outCalls'[d] = [left |-> outCalls'[d].left, at |-> outCalls'[d].at]
         /\ \A e : ~ Handling(c, e)'
         /\ \A d \in Call \ {c}, e \in OutEvent : Handling(d, e)' <=> Handling(d, e)
  BY DEF OutShape, Handling

LEMMA DispatchStep ==
  ASSUME OutInv, NEW c \in Call, Dispatch(c)
  PROVE  OutInv'
<1> PICK next : next = [left |-> ListPending(BatchSize), at |-> "next"]
  OBVIOUS
<1>1. /\ outCalls' = [outCalls EXCEPT ![c] = next]
      /\ UNCHANGED <<outStatus, attempts, delivered, handled, outRaced>>
  BY DEF Dispatch
<1>2. \E left : next = [left |-> left, at |-> "next"]
  OBVIOUS
<1>3. /\ DOMAIN outCalls' = Call /\ outCalls' = [d \in Call |-> outCalls'[d]]
      /\ \A d \in Call : outCalls'[d] # NoCall =>
           outCalls'[d] = [left |-> outCalls'[d].left, at |-> outCalls'[d].at]
      /\ \A e : ~ Handling(c, e)'
      /\ \A d \in Call \ {c}, e \in OutEvent : Handling(d, e)' <=> Handling(d, e)
  BY <1>1, <1>2, AtNext DEF OutInv
<1>4. OutShape'
  BY <1>1, <1>3 DEF OutInv, OutShape
<1>5. HandledAlone' /\ Counted' /\ DeliveredOnce'
  BY <1>1, <1>3 DEF OutInv, HandledAlone, Counted, DeliveredOnce
<1> QED
  BY <1>4, <1>5 DEF OutInv

(* An update at a place that is not known to be in the domain.             *)
LEMMA UpdateSomewhere ==
  ASSUME NEW S, NEW T, NEW f \in [S -> T], NEW e, NEW v, e \in S => v \in T
  PROVE  /\ [f EXCEPT ![e] = v] \in [S -> T]
         /\ \A x \in S \ {e} : [f EXCEPT ![e] = v][x] = f[x]
         /\ e \in S => [f EXCEPT ![e] = v][e] = v
<1>1. CASE e \in S
  BY <1>1
<1>2. CASE e \notin S
  <2>1. [f EXCEPT ![e] = v] = f
    BY <1>2
  <2> QED
    BY <1>2, <2>1
<1> QED
  BY <1>1, <1>2

LEMMA Marked ==
  ASSUME OutShape, NEW e
  PROVE  /\ MarkDispatched(e) =>
              /\ outStatus' \in [OutEvent -> OutStatus] /\ attempts' = attempts
              /\ \A f \in OutEvent \ {e} : outStatus'[f] = outStatus[f]
              /\ e \in OutEvent => outStatus'[e] = "dispatched"
         /\ MarkFailed(e) =>
              /\ outStatus' \in [OutEvent -> OutStatus] /\ attempts' \in [OutEvent -> Nat]
              /\ \A f \in OutEvent \ {e} : outStatus'[f] = outStatus[f] /\ attempts'[f] = attempts[f]
              /\ e \in OutEvent => outStatus'[e] = "failed"
<1>1. ASSUME MarkDispatched(e)
      PROVE  /\ outStatus' \in [OutEvent -> OutStatus] /\ attempts' = attempts
             /\ \A f \in OutEvent \ {e} : outStatus'[f] = outStatus[f]
             /\ e \in OutEvent => outStatus'[e] = "dispatched"
  BY <1>1, UpdateSomewhere DEF MarkDispatched, OutStatus, OutShape
<1>2. ASSUME MarkFailed(e)
      PROVE  /\ outStatus' \in [OutEvent -> OutStatus]
             /\ \A f \in OutEvent \ {e} : outStatus'[f] = outStatus[f]
             /\ e \in OutEvent => outStatus'[e] = "failed"
  BY <1>2, UpdateSomewhere DEF MarkFailed, OutStatus, OutShape
<1>3. ASSUME MarkFailed(e)
      PROVE  attempts' \in [OutEvent -> Nat] /\ \A f \in OutEvent \ {e} : attempts'[f] = attempts[f]
  <2>1. PICK v : v = attempts[e] + 1 /\ (e \in OutEvent => v \in Nat)
    BY DEF OutShape
  <2>2. attempts' = [attempts EXCEPT ![e] = v]
    BY <1>3, <2>1 DEF MarkFailed
  <2> QED
    BY <2>1, <2>2, UpdateSomewhere DEF OutShape
<1> QED
  BY <1>1, <1>2, <1>3

(* A call that goes on to its next event disturbs no other.                *)
LEMMA AloneAfterwards ==
  ASSUME HandledAlone, NEW c \in Call, UNCHANGED outRaced,
         \A f \in OutEvent : ~ Handling(c, f)',
         \A d \in Call \ {c}, f \in OutEvent : Handling(d, f)' <=> Handling(d, f),
         \A f \in OutEvent : handled'[f] = handled[f] \/ Handling(c, f)
  PROVE  HandledAlone'
<1> SUFFICES ASSUME NEW d \in Call, NEW f \in OutEvent, Handling(d, f)'
             PROVE  /\ f \notin Orphan
                    /\ f \notin outRaced => handled'[f] = 0 /\ \A g \in Call \ {d} : ~ Handling(g, f)'
  BY DEF HandledAlone
<1>1. d # c /\ Handling(d, f)
  OBVIOUS
<1>2. f \notin Orphan /\ (f \notin outRaced => handled[f] = 0 /\ \A g \in Call \ {d} : ~ Handling(g, f))
  BY <1>1 DEF HandledAlone
<1> QED
  BY <1>1, <1>2

LEMMA OutboxStepKeeps ==
  ASSUME OutInv, NEW c \in Call, OutboxStep(c)
  PROVE  OutInv'
<1> USE DEF OutInv, OutShape
<1> PICK e : e = Head(outCalls[c].left)
  OBVIOUS
<1>1. outCalls[c] # NoCall
  BY DEF OutboxStep, TakeNext, ConsumerHandles, ConsumerThrows
<1> PICK next : next = IF Len(outCalls[c].left) = 1 THEN NoCall
                       ELSE [left |-> Tail(outCalls[c].left), at |-> "next"]
  OBVIOUS
<1>2. ASSUME Advance(c)
      PROVE  /\ DOMAIN outCalls' = Call /\ outCalls' = [d \in Call |-> outCalls'[d]]
             /\ \A d \in Call : outCalls'[d] # NoCall =>
                  outCalls'[d] = [left |-> outCalls'[d].left, at |-> outCalls'[d].at]
             /\ \A f : ~ Handling(c, f)'
             /\ \A d \in Call \ {c}, f \in OutEvent : Handling(d, f)' <=> Handling(d, f)
  <2>1. next = NoCall \/ \E left : next = [left |-> left, at |-> "next"]
    OBVIOUS
  <2>2. outCalls' = [outCalls EXCEPT ![c] = next]
    BY <1>2 DEF Advance
  <2> QED
    BY <2>1, <2>2, AtNext
<1>3. CASE TakeNext(c) /\ SeenBefore(e)
  <2>1. MarkDispatched(e) /\ Advance(c) /\ UNCHANGED <<delivered, handled, outRaced>>
    BY <1>3 DEF TakeNext
  <2>2. e \in OutEvent => handled[e] > 0 /\ outStatus[e] = "dispatched"
    BY <1>3 DEF SeenBefore, DeliveredOnce
  <2>3. outStatus' = outStatus /\ attempts' = attempts
    BY <2>1, <2>2 DEF MarkDispatched
  <2>4. OutShape'
    BY <1>2, <2>1, <2>3
  <2>5. HandledAlone' /\ Counted' /\ DeliveredOnce'
    BY <1>2, <2>1, <2>3 DEF HandledAlone, Counted, DeliveredOnce
  <2> QED
    BY <2>4, <2>5
<1>4. CASE TakeNext(c) /\ ~ SeenBefore(e) /\ e \in Orphan
  <2>1. MarkFailed(e) /\ Advance(c) /\ UNCHANGED <<delivered, handled, outRaced>>
    BY <1>4 DEF TakeNext
  <2>2. handled[e] > 0 => e \notin OutEvent
    BY <1>4 DEF SeenBefore, DeliveredOnce
  <2>3. /\ outStatus' \in [OutEvent -> OutStatus] /\ attempts' \in [OutEvent -> Nat]
        /\ \A f \in OutEvent \ {e} : outStatus'[f] = outStatus[f] /\ attempts'[f] = attempts[f]
        /\ e \in OutEvent => outStatus'[e] = "failed"
    BY <2>1, Marked
  <2>4. OutShape'
    BY <1>2, <2>1, <2>3
  <2>5. HandledAlone' /\ Counted'
    <3>1. HandledAlone'
      BY <1>2, <2>1, AloneAfterwards
    <3>2. Counted'
      BY <1>4, <2>1, <2>3 DEF Counted
    <3> QED
      BY <3>1, <3>2
  <2>6. DeliveredOnce'
    BY <1>4, <2>1, <2>2, <2>3 DEF DeliveredOnce
  <2> QED
    BY <2>4, <2>5, <2>6
<1>5. CASE TakeNext(c) /\ ~ SeenBefore(e) /\ e \notin Orphan
  <2>1. /\ outCalls' = [outCalls EXCEPT ![c].at = "handle"]
        /\ outRaced' = IF HandedOver(e) THEN outRaced \cup {e} ELSE outRaced
        /\ UNCHANGED <<outStatus, attempts, delivered, handled>>
        /\ outCalls[c].at = "next"
    BY <1>5 DEF TakeNext
  <2>2. /\ outCalls'[c] = [left |-> outCalls[c].left, at |-> "handle"]
        /\ \A d \in Call \ {c} : outCalls'[d] = outCalls[d]
        /\ DOMAIN outCalls' = Call /\ outCalls' = [d \in Call |-> outCalls'[d]]
    BY <1>1, <2>1
  <2>3. /\ \A f : Handling(c, f)' => f = e
        /\ \A d \in Call \ {c}, f \in OutEvent : Handling(d, f)' <=> Handling(d, f)
        /\ \A f : ~ Handling(c, f)
    BY <2>1, <2>2 DEF Handling
  <2>4. e \in OutEvent => handled[e] = 0
    BY <1>5 DEF SeenBefore, DeliveredOnce
  <2>5. e \notin outRaced' => \A d \in Call : ~ Handling(d, e)
    BY <2>1 DEF HandedOver, Handling
  <2>6. OutShape'
    BY <2>1, <2>2
  <2>7. HandledAlone'
    <3> SUFFICES ASSUME NEW d \in Call, NEW f \in OutEvent, Handling(d, f)'
                 PROVE  /\ f \notin Orphan
                        /\ f \notin outRaced' => handled'[f] = 0 /\ \A g \in Call \ {d} : ~ Handling(g, f)'
      BY DEF HandledAlone
    <3>1. CASE f = e
      <4>1. \A g \in Call \ {c} : Handling(g, e)' <=> Handling(g, e)
        BY <2>3, <3>1
      <4>2. e \notin outRaced' => d = c /\ \A g \in Call \ {c} : ~ Handling(g, e)'
        BY <2>5, <3>1, <4>1
      <4> QED
        BY <1>5, <2>1, <2>4, <3>1, <4>2
    <3>2. CASE f # e
      <4>1. d # c /\ Handling(d, f) /\ (f \notin outRaced' => f \notin outRaced)
        BY <2>1, <2>3, <3>2
      <4>2. f \notin Orphan /\ (f \notin outRaced => handled[f] = 0 /\ \A g \in Call \ {d} : ~ Handling(g, f))
        BY <4>1 DEF HandledAlone
      <4>3. \A g \in Call : Handling(g, f)' => Handling(g, f)
        BY <2>3, <3>2
      <4> QED
        BY <2>1, <4>1, <4>2, <4>3
    <3> QED
      BY <3>1, <3>2
  <2>8. Counted' /\ DeliveredOnce'
    BY <2>1 DEF Counted, DeliveredOnce
  <2> QED
    BY <2>6, <2>7, <2>8
<1>6. CASE ConsumerHandles(c)
  <2>1. /\ Handling(c, e) /\ e \notin Poison /\ handled' = [handled EXCEPT ![e] = @ + 1]
        /\ delivered' = delivered \cup {e} /\ MarkDispatched(e) /\ Advance(c) /\ UNCHANGED outRaced
    BY <1>6 DEF ConsumerHandles, Handling
  <2>2. /\ outStatus' \in [OutEvent -> OutStatus] /\ handled' \in [OutEvent -> Nat] /\ attempts' = attempts
        /\ \A f \in OutEvent \ {e} : outStatus'[f] = outStatus[f] /\ handled'[f] = handled[f]
        /\ e \in OutEvent => outStatus'[e] = "dispatched" /\ handled'[e] = handled[e] + 1
    <3>1. PICK v : v = handled[e] + 1 /\ (e \in OutEvent => v \in Nat)
      OBVIOUS
    <3>2. handled' = [handled EXCEPT ![e] = v]
      BY <2>1, <3>1
    <3> QED
      BY <2>1, <3>1, <3>2, Marked, UpdateSomewhere
  <2>3. e \in OutEvent => e \notin Orphan /\ (e \notin outRaced => handled[e] = 0)
    BY <2>1 DEF HandledAlone
  <2>4. OutShape'
    BY <1>2, <2>1, <2>2
  <2>5. HandledAlone'
    BY <1>2, <2>1, <2>2, AloneAfterwards
  <2>6. Counted'
    BY <2>1, <2>2, <2>3 DEF Counted
  <2>7. DeliveredOnce'
    BY <2>1, <2>2, <2>3 DEF DeliveredOnce
  <2> QED
    BY <2>4, <2>5, <2>6, <2>7
<1>7. CASE ConsumerThrows(c)
  <2>1. /\ Handling(c, e) /\ e \in Poison /\ Advance(c) /\ UNCHANGED <<delivered, handled, outRaced>>
        /\ IF attempts[e] + 1 >= MaxAttempts THEN MarkFailed(e) ELSE UNCHANGED <<outStatus, attempts>>
    BY <1>7 DEF ConsumerThrows, Handling
  <2>2. e \in OutEvent => e \notin Orphan /\ handled[e] = 0
    BY <2>1 DEF HandledAlone, Counted
  <2>3. /\ outStatus' \in [OutEvent -> OutStatus] /\ attempts' \in [OutEvent -> Nat]
        /\ \A f \in OutEvent \ {e} : outStatus'[f] = outStatus[f] /\ attempts'[f] = attempts[f]
        /\ e \in OutEvent =>
             \/ outStatus'[e] = outStatus[e] /\ attempts'[e] = attempts[e]
             \/ outStatus'[e] = "failed" /\ attempts[e] + 1 >= MaxAttempts
    BY <2>1, Marked
  <2>4. e \in OutEvent /\ attempts[e] + 1 >= MaxAttempts => MaxAttempts <= 1
    BY <2>2, OutboxAssumption DEF Counted
  <2>5. OutShape'
    BY <1>2, <2>1, <2>3
  <2>6. HandledAlone' /\ Counted'
    <3>1. HandledAlone'
      BY <1>2, <2>1, AloneAfterwards
    <3>2. Counted'
      BY <2>1, <2>3, <2>4 DEF Counted
    <3> QED
      BY <3>1, <3>2
  <2>7. DeliveredOnce'
    BY <2>1, <2>2, <2>3, <2>4 DEF DeliveredOnce
  <2> QED
    BY <2>5, <2>6, <2>7
<1> QED
  BY <1>3, <1>4, <1>5, <1>6, <1>7 DEF OutboxStep

LEMMA OutInvHolds == Spec => []OutInv
<1>1. Init => OutInv
  BY DEF Init, OutboxInit, OutInv, OutShape, OutStatus, HandledAlone, Handling, Counted, DeliveredOnce
<1>2. OutInv /\ [Next]_communicationVars => OutInv'
  <2> SUFFICES ASSUME OutInv, [Next]_communicationVars
               PROVE  OutInv'
    OBVIOUS
  <2>1. CASE OutboxNext
    BY <2>1, AppendStep, DispatchStep, OutboxStepKeeps DEF OutboxNext
  <2>2. CASE UNCHANGED outboxVars
    BY <2>2 DEF outboxVars, OutInv, OutShape, HandledAlone, Handling, Counted, DeliveredOnce
  <2> QED
    BY <2>1, <2>2 DEF Next, communicationVars
<1> QED
  BY <1>1, <1>2, PTL DEF Spec

(* An event reaches its consumer once and none is lost or retired by       *)
(* mistake, unless two dispatches handed it over at once (domain/outbox.ts).*)
THEOREM EventsAreDeliveredOnce == Spec => []DeliveredOnce
<1>1. OutInv => DeliveredOnce
  BY DEF OutInv
<1> QED
  BY <1>1, OutInvHolds, PTL

(* What is listed are events of the store.                                 *)
LEMMA ListedAreEvents ==
  ASSUME OutboxTypeOK, NEW limit \in Nat
  PROVE  ListPending(limit) \in Seq(OutEvent)
<1> DEFINE pending == {i \in DOMAIN outbox : outStatus[outbox[i]] = "pending"}
           listed == IF Cardinality(pending) < limit THEN Cardinality(pending) ELSE limit
           At(k) == CHOOSE i \in pending : Cardinality({j \in pending : j < i}) = k - 1
<1>1. Len(outbox) \in Nat /\ DOMAIN outbox = 1 .. Len(outbox) /\ \A i \in DOMAIN outbox : outbox[i] \in OutEvent
  BY DEF OutboxTypeOK
<1>2. pending \subseteq 1 .. Len(outbox)
  BY <1>1
<1>3. /\ Cardinality(pending) \in Nat
      /\ \A k \in 0 .. (Cardinality(pending) - 1) :
           \E i \in pending : Cardinality({j \in pending : j < i}) = k
  <2>1. pending \in SUBSET (1 .. Len(outbox)) /\ Len(outbox) \in Nat
    BY <1>1, <1>2
  <2> HIDE DEF pending
  <2> QED BY <2>1, PlacesOfNumbers
<1>4. listed \in Nat /\ listed <= Cardinality(pending)
  BY <1>3
<1>5. ASSUME NEW k \in 1 .. listed PROVE outbox[At(k)] \in OutEvent
  <2>1. k - 1 \in 0 .. (Cardinality(pending) - 1)
    BY <1>3, <1>4
  <2>2. At(k) \in pending
    <3> HIDE DEF pending
    <3> QED BY <1>3, <2>1
  <2> QED BY <1>1, <1>2, <2>2
<1>6. ListPending(limit) = [k \in 1 .. listed |-> outbox[At(k)]]
  BY DEF ListPending
<1> HIDE DEF listed, At
<1> QED
  BY <1>4, <1>5, <1>6

(* A batch that is still worked on is not through.                         *)
OutTyped ==
  /\ OutboxTypeOK
  /\ \A c \in Call : outCalls[c] # NoCall => outCalls[c] \in OutCall /\ outCalls[c].left # <<>>

(* What is left of a batch after its first event.                          *)
LEMMA BatchShrinks ==
  ASSUME NEW left \in Seq(OutEvent), left # <<>>
  PROVE  /\ Head(left) \in OutEvent /\ Tail(left) \in Seq(OutEvent)
         /\ Len(left) # 1 => Tail(left) # <<>>
<1>1. /\ Head(left) \in OutEvent /\ Tail(left) \in Seq(OutEvent) /\ Len(Tail(left)) = Len(left) - 1
  BY HeadTailProperties
<1>2. Len(left) \in Nat
  OBVIOUS
<1>3. Tail(left) = <<>> => Len(Tail(left)) = 0
  <2> PICK rest : rest = Tail(left)
    OBVIOUS
  <2>1. rest = <<>> => Len(rest) = 0
    OBVIOUS
  <2> QED BY <2>1
<1> QED
  BY <1>1, <1>2, <1>3

(* The slot c changes to a call of the dispatcher, or is freed.            *)
LEMMA SlotTyped ==
  ASSUME OutTyped, NEW c \in Call, NEW next \in OutCall \cup {NoCall},
         next # NoCall => next.left # <<>>,
         outCalls' = [outCalls EXCEPT ![c] = next]
  PROVE  /\ outCalls' \in [Call -> OutCall \cup {NoCall}]
         /\ \A d \in Call : outCalls'[d] # NoCall => outCalls'[d] \in OutCall /\ outCalls'[d].left # <<>>
<1>1. outCalls' \in [Call -> OutCall \cup {NoCall}]
  BY DEF OutTyped, OutboxTypeOK
<1>2. outCalls'[c] = next /\ \A d \in Call \ {c} : outCalls'[d] = outCalls[d]
  BY DEF OutTyped, OutboxTypeOK
<1> QED
  BY <1>1, <1>2 DEF OutTyped

(* Each step of the outbox keeps the types, and each batch in work         *)
(* non-empty.                                                              *)
LEMMA OutTypedStep == OutTyped /\ [Next]_communicationVars => OutTyped'
<1> SUFFICES ASSUME OutTyped, [Next]_communicationVars
             PROVE  OutTyped'
  OBVIOUS
<1>1. ASSUME NEW e \in OutEvent, AppendEvent(e) PROVE OutTyped'
  <2>1. outbox' \in Seq(OutEvent) /\ outStatus' \in [OutEvent -> OutStatus]
        /\ UNCHANGED <<attempts, delivered, outCalls, handled, outRaced>>
    BY <1>1, AppendProperties DEF AppendEvent, OutTyped, OutboxTypeOK, OutStatus
  <2> QED BY <2>1 DEF OutTyped, OutboxTypeOK
<1>2. ASSUME NEW c \in Call, Dispatch(c) PROVE OutTyped'
  <2> PICK batch \in Seq(OutEvent) : batch = ListPending(BatchSize)
    BY ListedAreEvents, OutboxAssumption DEF OutTyped
  <2> PICK next \in OutCall : next = [left |-> batch, at |-> "next"]
    BY DEF OutCall
  <2>1. batch # <<>> /\ outCalls' = [outCalls EXCEPT ![c] = next] /\ next.left = batch
        /\ UNCHANGED <<outbox, outStatus, attempts, delivered, handled, outRaced>>
    BY <1>2 DEF Dispatch
  <2>2. /\ outCalls' \in [Call -> OutCall \cup {NoCall}]
        /\ \A d \in Call : outCalls'[d] # NoCall => outCalls'[d] \in OutCall /\ outCalls'[d].left # <<>>
    BY <2>1, SlotTyped
  <2> QED BY <2>1, <2>2 DEF OutTyped, OutboxTypeOK
<1>3. ASSUME NEW c \in Call, OutboxStep(c) PROVE OutTyped'
  <2> PICK call : call = outCalls[c]
    OBVIOUS
  <2>1. call \in OutCall /\ call.left \in Seq(OutEvent) /\ call.left # <<>> /\ call # NoCall
    BY <1>3 DEF OutboxStep, TakeNext, ConsumerHandles, ConsumerThrows, OutTyped, OutCall
  <2> PICK e \in OutEvent : e = Head(outCalls[c].left)
    BY <2>1, BatchShrinks
  <2>2. ASSUME Advance(c)
        PROVE  /\ outCalls' \in [Call -> OutCall \cup {NoCall}]
               /\ \A d \in Call : outCalls'[d] # NoCall => outCalls'[d] \in OutCall /\ outCalls'[d].left # <<>>
    <3> PICK next : next = IF Len(call.left) = 1 THEN NoCall ELSE [left |-> Tail(call.left), at |-> "next"]
      OBVIOUS
    <3>1. next \in OutCall \cup {NoCall} /\ (next # NoCall => next.left # <<>>)
      BY <2>1, BatchShrinks DEF OutCall
    <3>2. outCalls' = [outCalls EXCEPT ![c] = next]
      BY <2>2 DEF Advance
    <3> QED BY <3>1, <3>2, SlotTyped
  <2>3. ASSUME MarkDispatched(e)
        PROVE  outStatus' \in [OutEvent -> OutStatus] /\ attempts' = attempts
    BY <2>3 DEF MarkDispatched, OutTyped, OutboxTypeOK, OutStatus
  <2>4. ASSUME MarkFailed(e)
        PROVE  outStatus' \in [OutEvent -> OutStatus] /\ attempts' \in [OutEvent -> Nat]
    BY <2>4 DEF MarkFailed, OutTyped, OutboxTypeOK, OutStatus
  <2>5. CASE TakeNext(c)
    <3>1. UNCHANGED <<outbox, delivered, handled>>
      BY <2>5 DEF TakeNext
    <3>2. CASE SeenBefore(e) \/ e \in Orphan
      <4>1. (MarkDispatched(e) \/ MarkFailed(e)) /\ Advance(c) /\ UNCHANGED outRaced
        BY <2>5, <3>2 DEF TakeNext
      <4> QED BY <2>2, <2>3, <2>4, <3>1, <4>1 DEF OutTyped, OutboxTypeOK
    <3>3. CASE ~ SeenBefore(e) /\ e \notin Orphan
      <4>1. /\ outCalls' = [outCalls EXCEPT ![c].at = "handle"]
            /\ outRaced' = IF HandedOver(e) THEN outRaced \cup {e} ELSE outRaced
            /\ UNCHANGED <<outStatus, attempts>>
        BY <2>5, <3>3 DEF TakeNext
      <4> PICK next : next = [call EXCEPT !.at = "handle"]
        OBVIOUS
      <4>0. next \in OutCall /\ next.left = call.left
        BY <2>1 DEF OutCall
      <4>2. outCalls' = [outCalls EXCEPT ![c] = next]
        BY <4>1
      <4>3. /\ outCalls' \in [Call -> OutCall \cup {NoCall}]
            /\ \A d \in Call : outCalls'[d] # NoCall => outCalls'[d] \in OutCall /\ outCalls'[d].left # <<>>
        BY <2>1, <4>0, <4>2, SlotTyped
      <4> QED BY <3>1, <4>1, <4>3 DEF OutTyped, OutboxTypeOK
    <3> QED BY <3>2, <3>3
  <2>6. CASE ConsumerHandles(c)
    <3>1. /\ handled' = [handled EXCEPT ![e] = @ + 1] /\ delivered' = delivered \cup {e}
          /\ MarkDispatched(e) /\ Advance(c) /\ UNCHANGED <<outbox, outRaced>>
      BY <2>6 DEF ConsumerHandles
    <3>2. handled' \in [OutEvent -> Nat] /\ delivered' \subseteq OutEvent
      BY <3>1 DEF OutTyped, OutboxTypeOK
    <3> QED BY <2>2, <2>3, <3>1, <3>2 DEF OutTyped, OutboxTypeOK
  <2>7. CASE ConsumerThrows(c)
    <3>1. /\ IF attempts[e] + 1 >= MaxAttempts THEN MarkFailed(e) ELSE UNCHANGED <<outStatus, attempts>>
          /\ Advance(c) /\ UNCHANGED <<outbox, delivered, handled, outRaced>>
      BY <2>7 DEF ConsumerThrows
    <3> QED BY <2>2, <2>4, <3>1 DEF OutTyped, OutboxTypeOK
  <2> QED BY <1>3, <2>5, <2>6, <2>7 DEF OutboxStep
<1>4. CASE UNCHANGED outboxVars
  BY <1>4 DEF outboxVars, OutTyped, OutboxTypeOK
<1> QED
  BY <1>1, <1>2, <1>3, <1>4 DEF Next, communicationVars, OutboxNext

(* So the types of the outbox always hold.                                 *)
LEMMA OutTypedHolds == Spec => []OutTyped
<1>1. Init => OutTyped
  <2>1. <<>> \in Seq(OutEvent)
    OBVIOUS
  <2> QED
    BY <2>1 DEF Init, OutboxInit, OutTyped, OutboxTypeOK, OutStatus
<1> QED
  BY <1>1, OutTypedStep, PTL DEF Spec

-----------------------------------------------------------------------------
(* Notifications.                                                          *)

LEMMA CatalogueFacts ==
  /\ Len(Catalogue) = 6
  /\ \A d \in 1 .. 6 :
       /\ Catalogue[d].retries \in {3, 5} /\ Len(Catalogue[d].order) \in {1, 2}
       /\ \A n \in 1 .. Len(Catalogue[d].order) : Catalogue[d].order[n] \in {"push", "in_app"}
       /\ Len(Catalogue[d].order) = 2 => Catalogue[d].order[2] # Catalogue[d].order[1]
       /\ 1 \in 1 .. Len(Catalogue[d].order) /\ 1 \in 1 .. Catalogue[d].retries
<1>1. Len(Catalogue) = 6
  BY DEF Catalogue
<1>2. ASSUME NEW d \in 1 .. 6
      PROVE  /\ Catalogue[d].retries \in {3, 5} /\ Len(Catalogue[d].order) \in {1, 2}
             /\ \A n \in 1 .. Len(Catalogue[d].order) : Catalogue[d].order[n] \in {"push", "in_app"}
             /\ Len(Catalogue[d].order) = 2 => Catalogue[d].order[2] # Catalogue[d].order[1]
             /\ 1 \in 1 .. Len(Catalogue[d].order) /\ 1 \in 1 .. Catalogue[d].retries
  <2>1. d \in {1, 2, 3, 4, 5, 6}
    OBVIOUS
  <2>2. \/ Catalogue[d].order = <<"push", "in_app">> /\ Catalogue[d].retries = 3
        \/ Catalogue[d].order = <<"in_app">> /\ Catalogue[d].retries \in {3, 5}
    BY <2>1 DEF Catalogue, Definition
  <2> PICK order : order = Catalogue[d].order
    OBVIOUS
  <2>3. order = <<"push", "in_app">> =>
          Len(order) = 2 /\ 1 \in 1 .. Len(order) /\ order[1] = "push" /\ order[2] = "in_app" /\ \A n \in 1 .. Len(order) : n \in {1, 2}
    OBVIOUS
  <2>4. order = <<"in_app">> => Len(order) = 1 /\ 1 \in 1 .. Len(order) /\ order[1] = "in_app" /\ \A n \in 1 .. Len(order) : n = 1
    OBVIOUS
  <2>5. \A n \in 1 .. Len(order) : order[n] \in {"push", "in_app"}
    BY <2>2, <2>3, <2>4
  <2> QED
    BY <2>2, <2>3, <2>4, <2>5
<1> QED
  BY <1>1, <1>2

(* The attempts a call was at: those on the first channel come first.      *)
Tried(call) ==
  IF call.channel = 1 THEN call.attempt ELSE Catalogue[call.def].retries + call.attempt

(* A call counts its attempts, and gives up after the last on the last     *)
(* channel.                                                                *)
Counts(call) ==
  LET def == Catalogue[call.def] IN
  /\ call.channel \in 1 .. Len(def.order) /\ call.attempt \in 1 .. def.retries
  /\ call.at \in {"lookup", "send"} <=> call.status = "pending"
  /\ call.attempts = IF call.status = "pending" THEN Tried(call) - 1 ELSE Tried(call)
  /\ call.status = "failed" => call.channel = Len(def.order) /\ call.attempt = def.retries

Holds(c, k) == noteCalls[c] # NoCall /\ KeyOf(noteCalls[c]) = k /\ noteCalls[c].at # "lookup"

(* Whoever dispatches a key alone knows that it is not stored, and whether *)
(* it was sent.                                                            *)
KeyKept(k) ==
  k \notin noteRaced =>
    /\ \A c \in Call : Holds(c, k) =>
         /\ ~ Known(k)
         /\ sends[k] = IF noteCalls[c].status = "sent" THEN 1 ELSE 0
         /\ \A d \in Call : Holds(d, k) => d = c
    /\ sends[k] <= 1
    /\ \A i, j \in DOMAIN notes : notes[i].key = k /\ notes[j].key = k => i = j
    /\ ~ Dispatching(k) =>
         (sends[k] > 0 <=> \E i \in DOMAIN notes : notes[i].key = k /\ notes[i].status = "sent")

NoteInv ==
  /\ NoteTypeOK
  /\ \A c \in Call : noteCalls[c] # NoCall => Counts(noteCalls[c])
  /\ \A k \in Key : KeyKept(k)
  /\ FallbackIsLast

LEMMA StartFacts ==
  ASSUME NEW ride \in NoteRide, NEW d \in 1 .. 6
  PROVE  /\ StartOf(ride, d) \in NoteCall /\ StartOf(ride, d) # NoCall
         /\ StartOf(ride, d).at = "lookup" /\ Counts(StartOf(ride, d))
<1>1. StartOf(ride, d) \in NoteCall
  BY CatalogueFacts DEF StartOf, NoteCall
<1>2. Counts(StartOf(ride, d))
  <2>1. Catalogue[d].retries \in {3, 5} /\ Len(Catalogue[d].order) \in {1, 2}
    BY CatalogueFacts
  <2> PICK call : call = StartOf(ride, d)
    OBVIOUS
  <2>2. /\ call.channel = 1 /\ call.attempt = 1 /\ call.attempts = 0
        /\ call.status = "pending" /\ call.def = d /\ call.at = "lookup"
    BY DEF StartOf
  <2>3. call.channel \in 1 .. Len(Catalogue[call.def].order) /\ call.attempt \in 1 .. Catalogue[call.def].retries
    BY <2>2, CatalogueFacts
  <2>4. Tried(call) - 1 = 0
    BY <2>2 DEF Tried
  <2> QED
    BY <2>2, <2>3, <2>4 DEF Counts
<1> QED
  BY <1>1, <1>2, NoteAssumption DEF StartOf

(* The call of a slot, when the slot is not free.                          *)
LEMMA CallFacts ==
  ASSUME NoteInv, NEW c \in Call, noteCalls[c] # NoCall
  PROVE  /\ noteCalls[c] \in NoteCall /\ Counts(noteCalls[c])
         /\ KeyOf(noteCalls[c]) \in Key /\ noteCalls[c].def \in 1 .. 6 /\ noteCalls[c].ride \in NoteRide
  BY CatalogueFacts DEF NoteInv, NoteTypeOK, NoteCall, KeyOf, Key

(* On to the next definition: the call has let go of its key.              *)
LEMMA NextFacts ==
  ASSUME NEW c \in Call, NEW call \in NoteCall, NextOrEnd(c, call)
  PROVE  \E next \in NoteCall \cup {NoCall} :
           /\ noteCalls' = [noteCalls EXCEPT ![c] = next]
           /\ next # NoCall => next.at = "lookup" /\ Counts(next)
<1> DEFINE later == NextDefinition(Catalogue[call.def].trigger, call.def + 1)
<1>1. call.def \in 1 .. 6 /\ call.ride \in NoteRide
  BY CatalogueFacts DEF NoteCall
<1>2. later \subseteq 1 .. 6
  <2>1. later \subseteq (call.def + 1) .. Len(Catalogue)
    BY Zenon DEF NextDefinition
  <2>2. Len(Catalogue) = 6
    BY CatalogueFacts
  <2> HIDE DEF later
  <2> QED
    BY <1>1, <2>1, <2>2
<1>3. CASE later = {}
  BY <1>3 DEF NextOrEnd, Continue
<1>4. CASE later # {}
  <2> PICK d \in later : d = CHOOSE x \in later : TRUE
    BY <1>4
  <2>1. noteCalls' = [noteCalls EXCEPT ![c] = StartOf(call.ride, d)]
    BY <1>4 DEF NextOrEnd, Continue
  <2>2. d \in 1 .. 6
    BY <1>2
  <2> HIDE DEF later
  <2> QED
    BY <1>1, <2>1, <2>2, StartFacts
<1> QED
  BY <1>3, <1>4

(* A step of a call leaves the keys alone that it does not hold.           *)
LEMMA OtherKeys ==
  ASSUME NoteInv, NEW c \in Call, NEW next \in NoteCall \cup {NoCall},
         noteCalls' = [noteCalls EXCEPT ![c] = next],
         NEW k \in Key, ~ Holds(c, k), ~ Holds(c, k)',
         sends'[k] = sends[k], k \in noteRaced' <=> k \in noteRaced,
         notes' = notes \/ \E n : n.key # k /\ notes' = Append(notes, n)
  PROVE  KeyKept(k)'
<1>1. \A d \in Call \ {c} : noteCalls'[d] = noteCalls[d] /\ (Holds(d, k)' <=> Holds(d, k))
  BY DEF NoteInv, NoteTypeOK, Holds
<1>2. Dispatching(k)' <=> Dispatching(k)
  BY <1>1 DEF Dispatching, Holds
<1>3. /\ DOMAIN notes \subseteq DOMAIN notes'
      /\ \A i \in DOMAIN notes : notes'[i] = notes[i]
      /\ \A i \in DOMAIN notes' \ DOMAIN notes : notes'[i].key # k
  BY DEF NoteInv, NoteTypeOK
<1>4. Known(k)' <=> Known(k)
  BY <1>3 DEF Known
<1> QED
  BY <1>1, <1>2, <1>3, <1>4 DEF NoteInv, KeyKept

LEMMA HandleStep ==
  ASSUME NoteInv, NEW c \in Call, NEW ride \in NoteRide, NEW trigger, HandleRideEvent(c, ride, trigger)
  PROVE  NoteInv'
<1> PICK d \in NextDefinition(trigger, 1) : Continue(c, StartOf(ride, d))
  BY DEF HandleRideEvent
<1>1. d \in 1 .. 6
  BY CatalogueFacts DEF NextDefinition
<1> PICK next \in NoteCall : next = StartOf(ride, d) /\ next.at = "lookup" /\ Counts(next)
  BY <1>1, StartFacts
<1>2. /\ noteCalls' = [noteCalls EXCEPT ![c] = next] /\ noteCalls[c] = NoCall
      /\ UNCHANGED <<driven, notes, sends, noteRaced>>
  BY DEF HandleRideEvent, Continue
<1>3. /\ noteCalls'[c] = next /\ \A o \in Call \ {c} : noteCalls'[o] = noteCalls[o]
      /\ NoteTypeOK' /\ FallbackIsLast'
  BY <1>2 DEF NoteInv, NoteTypeOK, FallbackIsLast
<1>4. \A o \in Call : noteCalls'[o] # NoCall => Counts(noteCalls'[o])
  BY <1>3 DEF NoteInv
<1>5. ASSUME NEW k \in Key PROVE KeyKept(k)'
  <2>1. ~ Holds(c, k) /\ ~ Holds(c, k)'
    BY <1>2, <1>3 DEF Holds
  <2> QED
    BY <1>2, <2>1, OtherKeys
<1> QED
  BY <1>3, <1>4, <1>5 DEF NoteInv, Counts, Tried

(* A step in which the call of c becomes next and the store is not touched.*)
LEMMA CallStep ==
  ASSUME NoteInv, NEW c \in Call, noteCalls[c] # NoCall, NEW next \in NoteCall \cup {NoCall},
         NEW key \in Key, key = KeyOf(noteCalls[c]),
         noteCalls' = [noteCalls EXCEPT ![c] = next],
         next # NoCall => Counts(next),
         next # NoCall /\ next.at # "lookup" => KeyOf(next) = key,
         UNCHANGED notes, driven' \subseteq NoteRide, sends' \in [Key -> Nat], noteRaced' \subseteq Key,
         \A k \in Key \ {key} : sends'[k] = sends[k] /\ (k \in noteRaced' <=> k \in noteRaced),
         KeyKept(key)'
  PROVE  NoteInv'
<1>1. /\ noteCalls'[c] = next /\ \A o \in Call \ {c} : noteCalls'[o] = noteCalls[o]
      /\ NoteTypeOK' /\ FallbackIsLast'
  BY DEF NoteInv, NoteTypeOK, FallbackIsLast
<1>2. ASSUME NEW o \in Call, noteCalls'[o] # NoCall PROVE Counts(noteCalls'[o])
  BY <1>1, <1>2 DEF NoteInv
<1>3. ASSUME NEW k \in Key PROVE KeyKept(k)'
  <2>1. CASE k = key
    BY <2>1
  <2>2. CASE k # key
    <3>1. ~ Holds(c, k) /\ ~ Holds(c, k)'
      BY <1>1, <2>2 DEF Holds
    <3> QED
      BY <2>2, <3>1, OtherKeys
  <2> QED
    BY <2>1, <2>2
<1>4. \A o \in Call : noteCalls'[o] # NoCall => Counts(noteCalls[o])'
  BY <1>2 DEF Counts, Tried
<1> QED
  BY <1>1, <1>3, <1>4 DEF NoteInv

(* A call lets go of a key whose state did not change.                     *)
LEMMA LetGo ==
  ASSUME NoteInv, NEW c \in Call, NEW call \in NoteCall, call = noteCalls[c], call # NoCall,
         NextOrEnd(c, call), UNCHANGED <<driven, notes, sends, noteRaced>>,
         call.at # "lookup" => KeyOf(call) \in noteRaced
  PROVE  NoteInv'
<1> PICK next \in NoteCall \cup {NoCall} :
      /\ noteCalls' = [noteCalls EXCEPT ![c] = next]
      /\ next # NoCall => next.at = "lookup" /\ Counts(next)
  BY NextFacts
<1>1. noteCalls'[c] = next
  BY DEF NoteInv, NoteTypeOK
<1> PICK k \in Key : k = KeyOf(call)
  BY CallFacts
<1>2. KeyKept(k)'
  <2>1. CASE call.at = "lookup"
    <3>1. ~ Holds(c, k) /\ ~ Holds(c, k)'
      BY <1>1, <2>1 DEF Holds
    <3> QED
      BY <3>1, OtherKeys
  <2>2. CASE call.at # "lookup"
    BY <2>2 DEF KeyKept
  <2> QED
    BY <2>1, <2>2
<1> QED
  BY <1>2, CallStep DEF NoteInv, NoteTypeOK

LEMMA LookUpStep ==
  ASSUME NoteInv, NEW c \in Call, LookUp(c)
  PROVE  NoteInv'
<1> PICK call \in NoteCall : call = noteCalls[c] /\ call # NoCall /\ call.at = "lookup" /\ Counts(call)
  BY CallFacts DEF LookUp
<1> PICK key \in Key : key = KeyOf(call)
  BY CallFacts
<1>1. CASE HasRecipient(call) /\ ~ Known(key)
  <2> PICK next \in NoteCall : next = [call EXCEPT !.at = "send"]
    BY DEF NoteCall
  <2>1. /\ noteCalls' = [noteCalls EXCEPT ![c] = next]
        /\ noteRaced' = noteRaced \cup (IF Dispatching(key) THEN {key} ELSE {})
        /\ UNCHANGED <<driven, notes, sends>>
    BY <1>1 DEF LookUp, Continue
  <2>2. Counts(next) /\ KeyOf(next) = key /\ next.status = "pending" /\ next.at = "send"
    BY DEF Counts, Tried, KeyOf, NoteCall
  <2>3. noteCalls'[c] = next /\ \A d \in Call \ {c} : noteCalls'[d] = noteCalls[d]
    BY <2>1 DEF NoteInv, NoteTypeOK
  <2>4. KeyKept(key)'
    <3> SUFFICES ASSUME key \notin noteRaced, ~ Dispatching(key)
                 PROVE  KeyKept(key)'
      BY <2>1 DEF KeyKept
    <3>1. \A d \in Call : Holds(d, key)' => d = c
      BY <2>3 DEF Dispatching, Holds
    <3>2. Dispatching(key)'
      BY <2>2, <2>3, NoteAssumption DEF Dispatching
    <3>3. sends[key] = 0
      BY <1>1 DEF NoteInv, NoteTypeOK, KeyKept, Known
    <3>4. ~ Known(key)'
      BY <1>1, <2>1 DEF Known
    <3>5. \A i, j \in DOMAIN notes : notes[i].key = key /\ notes[j].key = key => i = j
      BY DEF NoteInv, KeyKept
    <3> QED
      BY <2>1, <2>2, <2>3, <3>1, <3>2, <3>3, <3>4, <3>5 DEF KeyKept
  <2>5. /\ driven' \subseteq NoteRide /\ sends' \in [Key -> Nat] /\ noteRaced' \subseteq Key
        /\ \A k \in Key \ {key} : sends'[k] = sends[k] /\ (k \in noteRaced' <=> k \in noteRaced)
    BY <2>1 DEF NoteInv, NoteTypeOK
  <2> QED
    BY <2>1, <2>2, <2>4, <2>5, CallStep
<1>2. CASE ~ (HasRecipient(call) /\ ~ Known(key))
  BY <1>2, LetGo DEF LookUp
<1> QED
  BY <1>1, <1>2

LEMMA SendStep ==
  ASSUME NoteInv, NEW c \in Call, SendSucceeds(c)
  PROVE  NoteInv'
<1> PICK call \in NoteCall : call = noteCalls[c] /\ call # NoCall /\ call.at = "send" /\ Counts(call)
  BY CallFacts DEF SendSucceeds
<1> PICK key \in Key : key = KeyOf(call)
  BY CallFacts
<1> PICK more \in Nat : more = call.attempts + 1
  BY DEF NoteCall
<1> PICK next \in NoteCall : next = [call EXCEPT !.at = "save", !.attempts = more, !.status = "sent"]
  BY DEF NoteCall
<1>1. /\ noteCalls' = [noteCalls EXCEPT ![c] = next] /\ sends' = [sends EXCEPT ![key] = @ + 1]
      /\ UNCHANGED <<driven, notes, noteRaced>>
  <2>1. [call EXCEPT !.at = "save", !.attempts = @ + 1, !.status = "sent"] = next
    OBVIOUS
  <2> QED
    BY <2>1 DEF SendSucceeds, Continue
<1>2. Counts(next) /\ KeyOf(next) = key /\ next.status = "sent" /\ next.at = "save"
  <2>1. /\ next.channel = call.channel /\ next.attempt = call.attempt /\ next.def = call.def
        /\ next.attempts = call.attempts + 1 /\ next.status = "sent" /\ next.at = "save" /\ next.ride = call.ride
    BY DEF NoteCall
  <2>2. PICK retries \in {3, 5} : retries = Catalogue[call.def].retries
    BY CallFacts, CatalogueFacts
  <2>3. call.attempt \in 1 .. retries /\ call.attempts = Tried(call) - 1
    BY <2>2 DEF Counts
  <2>4. Tried(call) \in Nat /\ Tried(next) = Tried(call)
    BY <2>1, <2>2, <2>3 DEF Tried
  <2>5. next.attempts = Tried(next)
    BY <2>1, <2>3, <2>4
  <2> QED
    BY <2>1, <2>5 DEF Counts, KeyOf
<1>3. noteCalls'[c] = next /\ \A d \in Call \ {c} : noteCalls'[d] = noteCalls[d]
  BY <1>1 DEF NoteInv, NoteTypeOK
<1>4. /\ driven' \subseteq NoteRide /\ sends' \in [Key -> Nat] /\ noteRaced' \subseteq Key
      /\ \A k \in Key \ {key} : sends'[k] = sends[k] /\ (k \in noteRaced' <=> k \in noteRaced)
      /\ sends'[key] = sends[key] + 1
  BY <1>1 DEF NoteInv, NoteTypeOK
<1>5. KeyKept(key)'
  <2> SUFFICES ASSUME key \notin noteRaced
               PROVE  KeyKept(key)'
    BY <1>1 DEF KeyKept
  <2>1. Holds(c, key) /\ call.status = "pending"
    BY DEF Holds, Counts
  <2>2. sends[key] = 0 /\ ~ Known(key) /\ \A d \in Call : Holds(d, key) => d = c
    BY <2>1 DEF NoteInv, KeyKept
  <2>3. \A d \in Call : Holds(d, key)' => d = c
    BY <1>3, <2>2 DEF Holds
  <2>4. Dispatching(key)' /\ ~ Known(key)'
    BY <1>1, <1>2, <1>3, <2>2, NoteAssumption DEF Dispatching, Known
  <2>5. \A i, j \in DOMAIN notes : notes[i].key = key /\ notes[j].key = key => i = j
    BY DEF NoteInv, KeyKept
  <2>6. sends'[key] = 1 /\ noteCalls'[c].status = "sent"
    BY <1>2, <1>3, <1>4, <2>2
  <2> QED
    BY <1>1, <2>3, <2>4, <2>5, <2>6 DEF KeyKept
<1> QED
  BY <1>1, <1>2, <1>4, <1>5, CallStep

(* A step of a call that keeps its key and what it knows of it.            *)
LEMMA KeepsKey ==
  ASSUME NoteInv, NEW c \in Call, NEW call \in NoteCall, call = noteCalls[c], call # NoCall,
         call.at # "lookup", NEW next \in NoteCall, next.at # "lookup", Counts(next),
         next.ride = call.ride, next.def = call.def, (next.status = "sent") = (call.status = "sent"),
         noteCalls' = [noteCalls EXCEPT ![c] = next], UNCHANGED <<driven, notes, sends, noteRaced>>
  PROVE  NoteInv'
<1> PICK key \in Key : key = KeyOf(call) /\ key = KeyOf(next)
  BY CallFacts DEF KeyOf
<1>1. noteCalls'[c] = next /\ next # NoCall /\ \A d \in Call \ {c} : noteCalls'[d] = noteCalls[d]
  <2>1. noteCalls'[c] = next /\ \A d \in Call \ {c} : noteCalls'[d] = noteCalls[d]
    BY DEF NoteInv, NoteTypeOK
  <2>2. next # NoCall
    BY NoteAssumption
  <2> QED
    BY <2>1, <2>2
<1>2. /\ \A d \in Call : Holds(d, key)' <=> Holds(d, key)
      /\ \A d \in Call : (noteCalls'[d].status = "sent") = (noteCalls[d].status = "sent")
  BY <1>1 DEF Holds
<1>3. Dispatching(key)' <=> Dispatching(key)
  BY <1>2 DEF Dispatching, Holds
<1>4. KeyKept(key)'
  BY <1>2, <1>3 DEF NoteInv, KeyKept, Known
<1> QED
  BY <1>4, CallStep DEF NoteInv, NoteTypeOK

(* What is left to try after a failed attempt, and how many were made.     *)
LEMMA TryAgain ==
  ASSUME NEW retries \in {3, 5}, NEW channels \in {1, 2}, NEW channel \in 1 .. channels,
         NEW attempt \in 1 .. retries, NEW tries \in Nat,
         tries = (IF channel = 1 THEN attempt ELSE retries + attempt) - 1
  PROVE  /\ tries + 1 \in Nat
         /\ attempt < retries =>
              /\ attempt + 1 \in 1 .. retries /\ attempt + 1 \in Nat
              /\ tries + 1 = (IF channel = 1 THEN attempt + 1 ELSE retries + (attempt + 1)) - 1
         /\ ~ (attempt < retries) /\ channel < channels =>
              /\ channel + 1 \in 1 .. channels /\ channel + 1 \in 1 .. 2 /\ 1 \in 1 .. retries
              /\ channel + 1 # 1 /\ tries + 1 = (retries + 1) - 1
         /\ ~ (attempt < retries) /\ ~ (channel < channels) =>
              /\ channel = channels /\ attempt = retries
              /\ tries + 1 = (IF channel = 1 THEN attempt ELSE retries + attempt)
  OBVIOUS

LEMMA FailStep ==
  ASSUME NoteInv, NEW c \in Call, SendFails(c)
  PROVE  NoteInv'
<1> PICK call \in NoteCall : call = noteCalls[c] /\ call # NoCall /\ call.at = "send" /\ Counts(call)
  BY CallFacts DEF SendFails
<1>1. PICK retries \in {3, 5}, channels \in {1, 2} :
        retries = Catalogue[call.def].retries /\ channels = Len(Catalogue[call.def].order)
  <2>1. call.def \in 1 .. 6
    BY CatalogueFacts DEF NoteCall
  <2> QED
    BY <2>1, CatalogueFacts
<1>2. PICK channel \in 1 .. channels, attempt \in 1 .. retries, attempts0 \in Nat :
        /\ channel = call.channel /\ attempt = call.attempt /\ attempts0 = call.attempts
        /\ attempts0 = (IF channel = 1 THEN attempt ELSE retries + attempt) - 1
        /\ call.status = "pending"
  BY <1>1 DEF Counts, Tried, NoteCall
<1>3. PICK next : next = AfterFailure(call)
  OBVIOUS
<1>4. PICK more \in Nat : more = attempts0 + 1
  BY TryAgain, <1>2
<1> PICK tried \in NoteCall : tried = [call EXCEPT !.attempts = more]
  BY DEF NoteCall
<1>5. /\ tried.ride = call.ride /\ tried.def = call.def /\ tried.at = "send" /\ tried.channel = channel
      /\ tried.attempt = attempt /\ tried.status = "pending" /\ tried.attempts = more
  BY <1>2 DEF NoteCall
<1>6. next = IF attempt < retries THEN [tried EXCEPT !.attempt = @ + 1]
             ELSE IF channel < channels THEN [tried EXCEPT !.channel = @ + 1, !.attempt = 1]
             ELSE [tried EXCEPT !.at = "save", !.status = "failed"]
  <2>1. [call EXCEPT !.attempts = @ + 1] = tried
    BY <1>2, <1>4, <1>5
  <2>2. AfterFailure(call) =
          IF call.attempt < Catalogue[call.def].retries THEN [tried EXCEPT !.attempt = @ + 1]
          ELSE IF call.channel < Len(Catalogue[call.def].order)
          THEN [tried EXCEPT !.channel = @ + 1, !.attempt = 1]
          ELSE [tried EXCEPT !.at = "save", !.status = "failed"]
    <3> DEFINE After(t) ==
          IF call.attempt < Catalogue[call.def].retries THEN [t EXCEPT !.attempt = @ + 1]
          ELSE IF call.channel < Len(Catalogue[call.def].order)
          THEN [t EXCEPT !.channel = @ + 1, !.attempt = 1]
          ELSE [t EXCEPT !.at = "save", !.status = "failed"]
    <3>1. AfterFailure(call) = After([call EXCEPT !.attempts = @ + 1])
      BY DEF AfterFailure
    <3>2. After([call EXCEPT !.attempts = @ + 1]) = After(tried)
      <4> HIDE DEF After
      <4> QED
        BY <2>1
    <3> QED
      BY <3>1, <3>2
  <2> QED
    BY <1>1, <1>2, <1>3, <2>2, Zenon
<1>7. /\ next \in NoteCall /\ next.at # "lookup" /\ Counts(next) /\ next.ride = call.ride
      /\ next.def = call.def /\ next.status # "sent"
  <2>1. CASE attempt < retries
    <3>1. PICK n \in 1 .. retries : n = attempt + 1 /\ more = (IF channel = 1 THEN n ELSE retries + n) - 1
      BY <1>2, <1>4, <2>1, TryAgain
    <3>2. n \in Nat
      OBVIOUS
    <3>3. next = [tried EXCEPT !.attempt = n]
      BY <1>5, <1>6, <2>1, <3>1
    <3>4. /\ next \in NoteCall /\ next.at = "send" /\ next.ride = call.ride /\ next.def = call.def
          /\ next.status = "pending" /\ next.channel = channel /\ next.attempt = n /\ next.attempts = more
      BY <1>5, <3>2, <3>3 DEF NoteCall
    <3>5. Tried(next) = IF channel = 1 THEN n ELSE retries + n
      BY <1>1, <3>4 DEF Tried
    <3> QED
      BY <1>1, <3>1, <3>4, <3>5 DEF Counts
  <2>2. CASE ~ (attempt < retries) /\ channel < channels
    <3>1. PICK n \in 1 .. channels :
            /\ n = channel + 1 /\ n \in 1 .. 2 /\ n # 1 /\ 1 \in 1 .. retries /\ more = (retries + 1) - 1
      BY <1>2, <1>4, <2>2, TryAgain
    <3>2. next = [tried EXCEPT !.channel = n, !.attempt = 1]
      BY <1>5, <1>6, <2>2, <3>1
    <3>3. /\ next \in NoteCall /\ next.at = "send" /\ next.ride = call.ride /\ next.def = call.def
          /\ next.status = "pending" /\ next.channel = n /\ next.attempt = 1 /\ next.attempts = more
      <4>1. n \in 1 .. 2 /\ 1 \in Nat
        BY <3>1
      <4>2. next \in NoteCall
        BY <3>2, <4>1 DEF NoteCall
      <4>3. /\ next.at = tried.at /\ next.ride = tried.ride /\ next.def = tried.def
            /\ next.status = tried.status /\ next.channel = n /\ next.attempt = 1
            /\ next.attempts = tried.attempts
        BY <3>2 DEF NoteCall
      <4> QED
        BY <1>5, <4>2, <4>3
    <3>4. Tried(next) = retries + 1
      BY <1>1, <3>1, <3>3 DEF Tried
    <3> QED
      BY <1>1, <3>1, <3>3, <3>4 DEF Counts
  <2>3. CASE ~ (attempt < retries) /\ ~ (channel < channels)
    <3>1. channel = channels /\ attempt = retries /\ more = IF channel = 1 THEN attempt ELSE retries + attempt
      BY <1>2, <1>4, <2>3, TryAgain
    <3>2. next = [tried EXCEPT !.at = "save", !.status = "failed"]
      BY <1>6, <2>3
    <3>3. /\ next \in NoteCall /\ next.at = "save" /\ next.ride = call.ride /\ next.def = call.def
          /\ next.status = "failed" /\ next.channel = channel /\ next.attempt = attempt /\ next.attempts = more
      BY <1>5, <3>2 DEF NoteCall
    <3>4. Tried(next) = IF channel = 1 THEN attempt ELSE retries + attempt
      BY <1>1, <3>3 DEF Tried
    <3> QED
      BY <1>1, <3>1, <3>3, <3>4 DEF Counts
  <2> QED
    BY <2>1, <2>2, <2>3
<1>8. noteCalls' = [noteCalls EXCEPT ![c] = next] /\ UNCHANGED <<driven, notes, sends, noteRaced>>
  BY <1>3 DEF SendFails, Continue
<1>9. (next.status = "sent") = (call.status = "sent") /\ call.at # "lookup"
  BY <1>2, <1>7
<1> QED
  BY <1>7, <1>8, <1>9, KeepsKey

LEMMA SaveNoteStep ==
  ASSUME NoteInv, NEW c \in Call, SaveNote(c)
  PROVE  NoteInv'
<1> PICK call \in NoteCall : call = noteCalls[c] /\ call # NoCall /\ call.at = "save" /\ Counts(call)
  BY CallFacts DEF SaveNote
<1> PICK key \in Key : key = KeyOf(call)
  BY CallFacts
<1>1. CASE Known(key)
  <2>1. key \in noteRaced
    BY <1>1 DEF NoteInv, KeyKept, Holds
  <2> QED
    BY <1>1, <2>1, LetGo DEF SaveNote
<1>2. CASE ~ Known(key)
  <2> PICK next \in NoteCall : next = [call EXCEPT !.at = "push"]
    BY DEF NoteCall
  <2>1. noteCalls' = [noteCalls EXCEPT ![c] = next] /\ UNCHANGED <<driven, notes, sends, noteRaced>>
    BY <1>2 DEF SaveNote, Continue
  <2>2. Counts(next) /\ next.ride = call.ride /\ next.def = call.def /\ next.status = call.status
        /\ next.at = "push"
    BY DEF Counts, Tried, NoteCall
  <2>3. (next.status = "sent") = (call.status = "sent") /\ next.at # "lookup" /\ call.at # "lookup"
    BY <2>2
  <2> QED
    BY <2>1, <2>2, <2>3, KeepsKey
<1> QED
  BY <1>1, <1>2

(* Stored: the call lets go of a key that now says what happened to it.    *)
LEMMA PushNoteStep ==
  ASSUME NoteInv, NEW c \in Call, PushNote(c)
  PROVE  NoteInv'
<1> PICK call \in NoteCall : call = noteCalls[c] /\ call # NoCall /\ call.at = "push" /\ Counts(call)
  BY CallFacts DEF PushNote
<1> PICK key \in Key : key = KeyOf(call)
  BY CallFacts
<1>1. call.def \in 1 .. 6 /\ key[1] = call.def
  BY CatalogueFacts DEF NoteCall, KeyOf
<1> PICK next \in NoteCall \cup {NoCall} :
      /\ noteCalls' = [noteCalls EXCEPT ![c] = next]
      /\ next # NoCall => next.at = "lookup" /\ Counts(next)
  BY NextFacts DEF PushNote
<1>2. PICK note : note = [key |-> key, channel |-> Catalogue[call.def].order[call.channel],
                          attempts |-> call.attempts, status |-> call.status]
  OBVIOUS
<1>3. notes' = Append(notes, note) /\ UNCHANGED <<driven, sends, noteRaced>>
  BY <1>2 DEF PushNote
<1>4. /\ note.key = key /\ note.channel = Catalogue[call.def].order[call.channel]
      /\ note.attempts = call.attempts /\ note.status = call.status
  BY <1>2
<1>5. call.status \in {"sent", "failed"}
  BY DEF Counts, NoteCall
<1>6. note \in Note
  <2>1. call.channel \in 1 .. Len(Catalogue[call.def].order)
    BY DEF Counts
  <2>2. Catalogue[call.def].order[call.channel] \in {"push", "in_app"}
    BY <1>1, <2>1, CatalogueFacts
  <2>3. call.attempts \in Nat
    BY DEF NoteCall
  <2> QED
    BY <1>2, <1>5, <2>2, <2>3 DEF Note
<1>7. /\ noteCalls'[c] = next /\ \A o \in Call \ {c} : noteCalls'[o] = noteCalls[o]
      /\ NoteTypeOK'
  BY <1>3, <1>6 DEF NoteInv, NoteTypeOK
<1>8. ASSUME NEW o \in Call, noteCalls'[o] # NoCall PROVE Counts(noteCalls'[o])
  BY <1>7, <1>8 DEF NoteInv
<1>9. /\ Len(notes') = Len(notes) + 1 /\ notes'[Len(notes')] = note /\ Len(notes) \in Nat
      /\ \A i \in DOMAIN notes : notes'[i] = notes[i]
      /\ DOMAIN notes = 1 .. Len(notes) /\ DOMAIN notes' = 1 .. Len(notes')
  BY <1>3 DEF NoteInv, NoteTypeOK
<1>10. KeyKept(key)'
  <2> SUFFICES ASSUME key \notin noteRaced
               PROVE  KeyKept(key)'
    BY <1>3 DEF KeyKept
  <2>1. Holds(c, key)
    BY DEF Holds
  <2>2. /\ ~ Known(key) /\ sends[key] = IF call.status = "sent" THEN 1 ELSE 0
        /\ \A d \in Call : Holds(d, key) => d = c
    BY <2>1 DEF NoteInv, KeyKept
  <2>3. \A d \in Call : ~ Holds(d, key)'
    BY <1>7, <2>2 DEF Holds
  <2>4. \A i \in DOMAIN notes' : notes'[i].key = key <=> i = Len(notes')
    BY <1>4, <1>9, <2>2 DEF Known
  <2>5. sends'[key] > 0 <=> note.status = "sent"
    BY <1>3, <1>4, <2>2
  <2>6. Len(notes') \in DOMAIN notes'
    BY <1>9
  <2>7. sends'[key] > 0 <=> \E i \in DOMAIN notes' : notes'[i].key = key /\ notes'[i].status = "sent"
    BY <1>9, <2>4, <2>5, <2>6
  <2>8. sends'[key] <= 1
    BY <1>3, <2>2
  <2> QED
    BY <2>3, <2>4, <2>7, <2>8 DEF KeyKept
<1>11. ASSUME NEW k \in Key PROVE KeyKept(k)'
  <2>1. CASE k = key
    BY <1>10, <2>1
  <2>2. CASE k # key
    <3>1. ~ Holds(c, k) /\ ~ Holds(c, k)'
      BY <1>7, <2>2 DEF Holds
    <3>2. sends'[k] = sends[k] /\ (k \in noteRaced' <=> k \in noteRaced)
      BY <1>3
    <3>3. \E n : n.key # k /\ notes' = Append(notes, n)
      BY <1>3, <1>4, <2>2
    <3> QED
      BY <3>1, <3>2, <3>3, OtherKeys
  <2> QED
    BY <2>1, <2>2
<1>12. FallbackIsLast'
  <2> DEFINE LastResort(n) ==
        LET def == Catalogue[n.key[1]] IN
        /\ n.channel # def.order[1] => n.attempts > def.retries
        /\ n.status = "failed" => n.attempts = Len(def.order) * def.retries
        /\ n.attempts <= Len(def.order) * def.retries
  <2>1. \A i \in DOMAIN notes : LastResort(notes[i])
    BY DEF NoteInv, FallbackIsLast
  <2>2. LastResort(note)
    <3>1. PICK retries \in {3, 5}, channels \in {1, 2} :
            retries = Catalogue[call.def].retries /\ channels = Len(Catalogue[call.def].order)
      BY <1>1, CatalogueFacts
    <3>2. PICK channel \in 1 .. channels, attempt \in 1 .. retries, attempts0 \in Nat :
            /\ channel = call.channel /\ attempt = call.attempt /\ attempts0 = call.attempts
            /\ attempts0 = (IF channel = 1 THEN attempt ELSE retries + attempt)
            /\ call.status = "failed" => channel = channels /\ attempt = retries
      BY <1>5, <3>1 DEF Counts, Tried, NoteCall
    <3>3. channels * retries = IF channels = 1 THEN retries ELSE retries + retries
      OBVIOUS
    <3>4. /\ channel # 1 => attempts0 > retries
          /\ call.status = "failed" => attempts0 = channels * retries
          /\ attempts0 <= channels * retries
      BY <3>2, <3>3
    <3>5. note.channel # Catalogue[call.def].order[1] => channel # 1
      BY <1>4, <3>2
    <3> QED
      BY <1>1, <1>4, <3>1, <3>2, <3>4, <3>5
  <2>3. \A i \in DOMAIN notes' : LastResort(notes'[i])
    <3> HIDE DEF LastResort
    <3> QED
      BY <1>9, <2>1, <2>2
  <2> QED
    BY <2>3 DEF FallbackIsLast
<1>13. \A o \in Call : noteCalls'[o] # NoCall => Counts(noteCalls[o])'
  BY <1>8 DEF Counts, Tried
<1> QED
  BY <1>7, <1>11, <1>12, <1>13 DEF NoteInv

LEMMA NoteInvHolds == Spec => []NoteInv
<1>1. Init => NoteInv
  <2> SUFFICES ASSUME NoteInit
               PROVE  NoteInv
    BY DEF Init
  <2>1. NoteTypeOK
    BY DEF NoteInit, NoteTypeOK
  <2>2. DOMAIN notes = {}
    BY DEF NoteInit
  <2>3. \A c \in Call : noteCalls[c] = NoCall
    BY DEF NoteInit
  <2>4. \A k \in Key : KeyKept(k)
    BY <2>2, <2>3 DEF NoteInit, KeyKept, Holds
  <2>5. FallbackIsLast
    BY <2>2, Zenon DEF FallbackIsLast
  <2> QED
    BY <2>1, <2>3, <2>4, <2>5 DEF NoteInv
<1>2. NoteInv /\ [Next]_communicationVars => NoteInv'
  <2> SUFFICES ASSUME NoteInv, [Next]_communicationVars
               PROVE  NoteInv'
    OBVIOUS
  <2>1. CASE NoteNext
    <3>1. ASSUME NEW ride \in NoteRide, DriverAssigned(ride)
          PROVE  NoteInv'
      BY <3>1 DEF DriverAssigned, NoteInv, NoteTypeOK, KeyKept, Known, Dispatching, Holds, KeyOf,
                  Counts, Tried, FallbackIsLast
    <3>2. ASSUME NEW c \in Call, NoteStep(c)
          PROVE  NoteInv'
      BY <3>2, LookUpStep, SendStep, FailStep, SaveNoteStep, PushNoteStep DEF NoteStep
    <3> QED
      BY <2>1, <3>1, <3>2, HandleStep DEF NoteNext
  <2>2. CASE UNCHANGED noteVars
    BY <2>2 DEF noteVars, NoteInv, NoteTypeOK, KeyKept, Known, Dispatching, Holds, KeyOf,
                Counts, Tried, FallbackIsLast
  <2> QED
    BY <2>1, <2>2 DEF Next, communicationVars
<1> QED
  BY <1>1, <1>2, PTL DEF Spec

(* A message is sent and stored once, and the record of it is true, unless *)
(* two calls dispatched it at once (application/notification-service.ts).  *)
THEOREM NobodyIsToldTwice == Spec => []ToldOnce
<1>1. NoteInv => ToldOnce
  BY DEF NoteInv, KeyKept, ToldOnce
<1> QED
  BY <1>1, NoteInvHolds, PTL

(* The fallback channel is used, and the message given up, only after      *)
(* every attempt before it (deliver's loop over channels and retries).     *)
THEOREM FallbackComesLast == Spec => []FallbackIsLast
<1>1. NoteInv => FallbackIsLast
  BY DEF NoteInv
<1> QED
  BY <1>1, NoteInvHolds, PTL

-----------------------------------------------------------------------------
(* Conversations and ratings.                                              *)

(* The handlers that have passed a check and not yet saved.                *)
Opening(c) == chatCalls[c] # NoCall /\ chatCalls[c].op = "open" /\ chatCalls[c].at = "save"

Claims(c) == chatCalls[c] # NoCall /\ chatCalls[c].op = "send" /\ chatCalls[c].at \in {"number", "save"}

Pushing(c) == chatCalls[c] # NoCall /\ chatCalls[c].op = "rate" /\ chatCalls[c].at = "push"

CallShape(call) ==
  /\ call.op = "send" =>
       call = [op |-> "send", conv |-> call.conv, client |-> call.client, sequence |-> call.sequence,
               at |-> call.at]
  /\ call.op = "rate" => call = [op |-> "rate", rater |-> call.rater, at |-> call.at]

MessageShape(m) ==
  m = [conv |-> m.conv, client |-> m.client, sequence |-> m.sequence, reported |-> m.reported]

(* What SaidOnce needs to know of the types: of the numbers nothing.       *)
ChatShape ==
  /\ DOMAIN chatCalls = Call
  /\ \A c \in Call : chatCalls[c] # NoCall => CallShape(chatCalls[c])
  /\ \E M : messages \in Seq(M)
  /\ \A i \in DOMAIN messages : MessageShape(messages[i])
  /\ ratings \in Seq(Participant)

(* Whoever is about to open a conversation alone finds none opened.        *)
OpenInv ==
  /\ convOf = NoConv => opened = {}
  /\ convOf # NoConv => convOf \in opened
  /\ \A c \in Call : chatCalls[c] # NoCall /\ chatCalls[c].op = "send" => chatCalls[c].conv \in opened
  /\ \A i \in DOMAIN messages : messages[i].conv \in opened
  /\ "open" \notin chatRaced =>
       /\ opened \subseteq {convOf}
       /\ \A c \in Call : Opening(c) => opened = {} /\ \A d \in Call : Opening(d) => d = c

SameForm(m, n) == m.conv = n.conv /\ m.client = n.client

(* Whoever is about to store a form's message alone finds it not stored.   *)
SendInv ==
  /\ \A i, j \in DOMAIN messages :
       SameForm(messages[i], messages[j]) /\ messages[i].client \notin chatRaced => i = j
  /\ \A c \in Call : Claims(c) /\ chatCalls[c].client \notin chatRaced =>
       /\ \A i \in DOMAIN messages : ~ SameForm(messages[i], chatCalls[c])
       /\ \A d \in Call : Claims(d) /\ SameForm(chatCalls[d], chatCalls[c]) => d = c

(* Whoever is about to store a rating alone finds none of that rater.      *)
RateInv ==
  /\ \A i, j \in DOMAIN ratings : ratings[i] = ratings[j] /\ i # j => ratings[i] \in chatRaced
  /\ \A c \in Call : Pushing(c) /\ chatCalls[c].rater \notin chatRaced =>
       /\ Unrated(chatCalls[c].rater)
       /\ \A d \in Call : Pushing(d) /\ chatCalls[d].rater = chatCalls[c].rater => d = c
  /\ \A c \in Call : chatCalls[c] # NoCall /\ chatCalls[c].op = "rate" =>
       stage \in {"COMPLETED", "past"} /\ chatCalls[c].rater \in Participant
  /\ ratings # <<>> => stage \in {"COMPLETED", "past"}

ChatInv == ChatShape /\ OpenInv /\ SendInv /\ RateInv

(* The slot c changes, and no other.                                       *)
LEMMA Moves ==
  ASSUME ChatShape, NEW c \in Call, NEW next, chatCalls' = [chatCalls EXCEPT ![c] = next]
  PROVE  /\ chatCalls'[c] = next /\ \A d \in Call \ {c} : chatCalls'[d] = chatCalls[d]
         /\ DOMAIN chatCalls' = Call
         /\ \A d \in Call \ {c} : /\ Opening(d)' <=> Opening(d)
                                  /\ Claims(d)' <=> Claims(d)
                                  /\ Pushing(d)' <=> Pushing(d)
<1>1. chatCalls'[c] = next /\ (\A d \in Call \ {c} : chatCalls'[d] = chatCalls[d]) /\ DOMAIN chatCalls' = Call
  BY DEF ChatShape
<1> QED
  BY <1>1 DEF Opening, Claims, Pushing

(* Records of races only grow.                                             *)
LEMMA RacesGrow ==
  ASSUME NEW others, NEW check, Races(others, check)
  PROVE  chatRaced \subseteq chatRaced' /\ (check \notin chatRaced' => others = {})
  BY DEF Races

(* A slot that is about to open, store or push nothing disturbs nobody.    *)
LEMMA HarmlessCall ==
  ASSUME ChatInv, NEW c \in Call, NEW next, chatCalls' = [chatCalls EXCEPT ![c] = next],
         UNCHANGED <<stage, convOf, opened, messages, ratings>>, chatRaced \subseteq chatRaced',
         next # NoCall => /\ CallShape(next)
                          /\ next.op = "send" => next.conv \in opened
                          /\ next.op = "rate" => stage \in {"COMPLETED", "past"} /\ next.rater \in Participant,
         Opening(c)' => "open" \in chatRaced' \/ Opening(c)
                        \/ (opened = {} /\ \A d \in Call \ {c} : ~ Opening(d)),
         Claims(c)' => \/ next.client \in chatRaced'
                       \/ Claims(c) /\ SameForm(next, chatCalls[c]) /\ next.client = chatCalls[c].client
                       \/ /\ \A i \in DOMAIN messages : ~ SameForm(messages[i], next)
                          /\ \A d \in Call \ {c} : Claims(d) => ~ SameForm(chatCalls[d], next),
         Pushing(c)' => \/ next.rater \in chatRaced'
                        \/ /\ Unrated(next.rater)
                           /\ \A d \in Call \ {c} : Pushing(d) => chatCalls[d].rater # next.rater
  PROVE  ChatInv'
<1>1. /\ chatCalls'[c] = next /\ \A d \in Call \ {c} : chatCalls'[d] = chatCalls[d]
      /\ DOMAIN chatCalls' = Call
      /\ \A d \in Call \ {c} : /\ Opening(d)' <=> Opening(d)
                               /\ Claims(d)' <=> Claims(d)
                               /\ Pushing(d)' <=> Pushing(d)
  BY Moves DEF ChatInv
<1>2. ChatShape'
  <2>1. \A d \in Call : chatCalls'[d] # NoCall => CallShape(chatCalls'[d])
    BY <1>1 DEF ChatInv, ChatShape
  <2> QED
    BY <1>1, <2>1 DEF ChatInv, ChatShape, CallShape, MessageShape
<1>3. OpenInv'
  <2>1. \A d \in Call : chatCalls'[d] # NoCall /\ chatCalls'[d].op = "send" => chatCalls'[d].conv \in opened
    BY <1>1 DEF ChatInv, OpenInv
  <2>2. "open" \notin chatRaced' =>
          /\ opened \subseteq {convOf}
          /\ \A d \in Call : Opening(d)' => opened = {} /\ \A e \in Call : Opening(e)' => e = d
    BY <1>1 DEF ChatInv, OpenInv
  <2> QED
    BY <2>1, <2>2 DEF ChatInv, OpenInv
<1>4. SendInv'
  <2>1. ASSUME NEW d \in Call, Claims(d)', chatCalls'[d].client \notin chatRaced'
        PROVE  /\ \A i \in DOMAIN messages : ~ SameForm(messages[i], chatCalls'[d])
               /\ \A e \in Call : Claims(e)' /\ SameForm(chatCalls'[e], chatCalls'[d]) => e = d
    <3>1. CASE d = c
      BY <1>1, <2>1, <3>1 DEF ChatInv, SendInv, SameForm
    <3>2. CASE d # c
      BY <1>1, <2>1, <3>2 DEF ChatInv, SendInv, SameForm
    <3> QED
      BY <3>1, <3>2
  <2> QED
    BY <2>1 DEF ChatInv, SendInv, SameForm
<1>5. RateInv'
  <2>1. ASSUME NEW d \in Call, Pushing(d)', chatCalls'[d].rater \notin chatRaced'
        PROVE  /\ \A i \in DOMAIN ratings : ratings[i] # chatCalls'[d].rater
               /\ \A e \in Call : Pushing(e)' /\ chatCalls'[e].rater = chatCalls'[d].rater => e = d
    BY <1>1, <2>1 DEF ChatInv, RateInv, Unrated
  <2>2. \A d \in Call : chatCalls'[d] # NoCall /\ chatCalls'[d].op = "rate" =>
          stage \in {"COMPLETED", "past"} /\ chatCalls'[d].rater \in Participant
    BY <1>1 DEF ChatInv, RateInv
  <2> QED
    BY <2>1, <2>2 DEF ChatInv, RateInv, Unrated
<1> QED
  BY <1>2, <1>3, <1>4, <1>5 DEF ChatInv

LEMMA StageStep ==
  ASSUME ChatInv, RideGetsDriver \/ RideMovesOn
  PROVE  ChatInv'
<1>1. /\ UNCHANGED <<convOf, opened, messages, ratings, chatCalls, chatRaced>>
      /\ stage \in {"COMPLETED", "past"} => stage' \in {"COMPLETED", "past"}
  BY DEF RideGetsDriver, RideMovesOn
<1>2. ChatShape' /\ OpenInv' /\ SendInv'
  BY <1>1 DEF ChatInv, ChatShape, CallShape, MessageShape, OpenInv, SendInv, SameForm, Opening, Claims
<1>3. RateInv'
  BY <1>1 DEF ChatInv, RateInv, Pushing, Unrated
<1> QED
  BY <1>2, <1>3 DEF ChatInv

LEMMA OpenStep ==
  ASSUME ChatInv, NEW c \in Call, OpenForRide(c)
  PROVE  ChatInv'
<1> PICK next : next = [op |-> "open", at |-> "save"]
  OBVIOUS
<1>1. /\ chatCalls' = [chatCalls EXCEPT ![c] = next] /\ convOf = NoConv /\ chatCalls[c] = NoCall
      /\ Races(ChatAt("open", "save"), "open") /\ UNCHANGED <<stage, convOf, opened, messages, ratings>>
  BY DEF OpenForRide, LooksUnopened, ChatMoves
<1>2. chatRaced \subseteq chatRaced' /\ ("open" \notin chatRaced' => \A d \in Call : ~ Opening(d))
  BY <1>1, RacesGrow DEF ChatAt, Opening
<1>3. opened = {} /\ CallShape(next) /\ next.op = "open"
  BY <1>1 DEF ChatInv, OpenInv, CallShape
<1>4. chatCalls'[c] = next
  BY <1>1 DEF ChatInv, ChatShape
<1>5. ~ Claims(c)' /\ ~ Pushing(c)'
  BY <1>3, <1>4 DEF Claims, Pushing
<1> QED
  BY <1>1, <1>2, <1>3, <1>5, HarmlessCall

LEMMA SaveConversationStep ==
  ASSUME ChatInv, NEW c \in Call, SaveConversation(c)
  PROVE  ChatInv'
<1>1. /\ chatCalls' = [chatCalls EXCEPT ![c] = NoCall] /\ UNCHANGED <<stage, messages, ratings, chatRaced>>
      /\ Opening(c)
  BY DEF SaveConversation, ChatMoves, ChatAt, Opening
<1>2. /\ chatCalls'[c] = NoCall /\ \A d \in Call \ {c} : chatCalls'[d] = chatCalls[d]
      /\ DOMAIN chatCalls' = Call
      /\ \A d \in Call \ {c} : /\ Opening(d)' <=> Opening(d)
                               /\ Claims(d)' <=> Claims(d)
                               /\ Pushing(d)' <=> Pushing(d)
  BY <1>1, Moves DEF ChatInv
<1>3. ~ Opening(c)' /\ ~ Claims(c)' /\ ~ Pushing(c)'
  BY <1>2 DEF Opening, Claims, Pushing
<1>4. CASE stage = "unassigned"
  <2>1. UNCHANGED <<convOf, opened>>
    BY <1>4 DEF SaveConversation
  <2> QED
    BY <1>1, <1>3, <2>1, HarmlessCall
<1>5. CASE stage # "unassigned"
  <2> PICK k \in ConvId \ opened : convOf' = k /\ opened' = opened \cup {k}
    BY <1>5 DEF SaveConversation
  <2>1. OpenInv'
    <3>1. "open" \notin chatRaced =>
            /\ opened' \subseteq {convOf'}
            /\ \A d \in Call : ~ Opening(d)'
      BY <1>1, <1>2, <1>3 DEF ChatInv, OpenInv
    <3>2. \A d \in Call : chatCalls'[d] # NoCall => chatCalls'[d] = chatCalls[d]
      BY <1>2
    <3> QED
      BY <1>1, <3>1, <3>2, ChatAssumption DEF ChatInv, OpenInv
  <2>2. ChatShape'
    BY <1>1, <1>2 DEF ChatInv, ChatShape, CallShape, MessageShape
  <2>3. SendInv'
    BY <1>1, <1>2, <1>3 DEF ChatInv, SendInv, SameForm
  <2>4. RateInv'
    BY <1>1, <1>2, <1>3 DEF ChatInv, RateInv, Unrated
  <2> QED
    BY <2>1, <2>2, <2>3, <2>4 DEF ChatInv
<1> QED
  BY <1>4, <1>5

LEMMA SendMessageStep ==
  ASSUME ChatInv, NEW c \in Call, NEW client, SendMessage(c, client)
  PROVE  ChatInv'
<1> PICK next : next = [op |-> "send", conv |-> convOf, client |-> client, sequence |-> 0, at |-> "find"]
  OBVIOUS
<1>1. /\ chatCalls' = [chatCalls EXCEPT ![c] = next] /\ convOf # NoConv
      /\ UNCHANGED <<stage, convOf, opened, messages, ratings, chatRaced>>
  BY DEF SendMessage, ChatMoves
<1>2. next.op = "send" /\ next.at = "find" /\ next.conv \in opened /\ CallShape(next)
  BY <1>1 DEF ChatInv, OpenInv, CallShape
<1>3. chatCalls'[c] = next
  BY <1>1 DEF ChatInv, ChatShape
<1>4. ~ Opening(c)' /\ ~ Claims(c)' /\ ~ Pushing(c)'
  BY <1>2, <1>3 DEF Opening, Claims, Pushing
<1> QED
  BY <1>1, <1>2, <1>4, HarmlessCall

LEMMA FindConversationStep ==
  ASSUME ChatInv, NEW c \in Call, FindConversation(c)
  PROVE  ChatInv'
<1> PICK call : call = chatCalls[c]
  OBVIOUS
<1> PICK next : next = IF convOf = call.conv THEN [call EXCEPT !.at = "dedupe"] ELSE NoCall
  OBVIOUS
<1>1. /\ chatCalls' = [chatCalls EXCEPT ![c] = next] /\ call # NoCall /\ call.op = "send"
      /\ UNCHANGED <<stage, convOf, opened, messages, ratings, chatRaced>>
  BY DEF FindConversation, ChatMoves, ChatAt
<1>2. CallShape(call) /\ call.conv \in opened
  BY <1>1 DEF ChatInv, ChatShape, OpenInv
<1>3. next # NoCall =>
        next = [op |-> "send", conv |-> call.conv, client |-> call.client, sequence |-> call.sequence, at |-> "dedupe"]
  BY <1>1, <1>2 DEF CallShape
<1>4. next # NoCall => next.op = "send" /\ next.at = "dedupe" /\ next.conv \in opened /\ CallShape(next)
  BY <1>2, <1>3 DEF CallShape
<1>5. chatCalls'[c] = next
  BY <1>1 DEF ChatInv, ChatShape
<1>6. ~ Opening(c)' /\ ~ Claims(c)' /\ ~ Pushing(c)'
  BY <1>4, <1>5 DEF Opening, Claims, Pushing
<1> QED
  BY <1>1, <1>4, <1>6, HarmlessCall

LEMMA DeduplicateStep ==
  ASSUME ChatInv, NEW c \in Call, Deduplicate(c)
  PROVE  ChatInv'
<1> PICK call : call = chatCalls[c]
  OBVIOUS
<1>1. /\ call # NoCall /\ call.op = "send" /\ UNCHANGED <<stage, convOf, opened, messages, ratings>>
  BY DEF Deduplicate, ChatAt
<1>2. CallShape(call) /\ call.conv \in opened
  BY <1>1 DEF ChatInv, ChatShape, OpenInv
<1>3. CASE FindByClientId(call.conv, call.client) = {}
  <2> PICK next : next = [call EXCEPT !.at = "number"]
    OBVIOUS
  <2>1. next = [op |-> "send", conv |-> call.conv, client |-> call.client, sequence |-> call.sequence, at |-> "number"]
    BY <1>1, <1>2 DEF CallShape
  <2>2. /\ next # NoCall => next.op = "send" /\ next.conv = call.conv /\ next.client = call.client /\ CallShape(next)
        /\ next.op = "send" /\ next.at = "number" /\ next.conv = call.conv /\ next.client = call.client
    BY <2>1 DEF CallShape
  <2> PICK others : others = {d \in ChatAt("send", "number") \cup ChatAt("send", "save") :
                                chatCalls[d].conv = call.conv /\ chatCalls[d].client = call.client}
    OBVIOUS
  <2>3. chatCalls' = [chatCalls EXCEPT ![c] = next] /\ Races(others, call.client)
    BY <1>3 DEF Deduplicate, ChatMoves
  <2>4. chatRaced \subseteq chatRaced' /\ (call.client \notin chatRaced' => others = {})
    BY <2>3, RacesGrow
  <2>5. \A i \in DOMAIN messages : ~ SameForm(messages[i], next)
    BY <1>3, <2>2 DEF FindByClientId, MessagesOf, SameForm
  <2>6. ASSUME NEW d \in Call \ {c}, Claims(d), SameForm(chatCalls[d], next)
        PROVE  d \in others
    BY <2>2, <2>6 DEF Claims, SameForm, ChatAt
  <2>7. chatCalls'[c] = next
    BY <2>3 DEF ChatInv, ChatShape
  <2>8. ~ Opening(c)' /\ ~ Pushing(c)'
    BY <2>2, <2>7 DEF Opening, Pushing
  <2> QED
    BY <1>1, <1>2, <2>2, <2>3, <2>4, <2>5, <2>6, <2>8, HarmlessCall
<1>4. CASE FindByClientId(call.conv, call.client) # {}
  <2>1. chatCalls' = [chatCalls EXCEPT ![c] = NoCall] /\ UNCHANGED chatRaced
    BY <1>4 DEF Deduplicate, ChatMoves
  <2>2. ~ Opening(c)' /\ ~ Claims(c)' /\ ~ Pushing(c)'
    BY <2>1 DEF ChatInv, ChatShape, Opening, Claims, Pushing
  <2> QED
    BY <1>1, <2>1, <2>2, HarmlessCall
<1> QED
  BY <1>3, <1>4

LEMMA NumberStep ==
  ASSUME ChatInv, NEW c \in Call, Number(c)
  PROVE  ChatInv'
<1> PICK call : call = chatCalls[c]
  OBVIOUS
<1>n. PICK n : n = NextSequence(call.conv)
  OBVIOUS
<1>x. PICK next : next = [call EXCEPT !.sequence = n, !.at = "save"]
  OBVIOUS
<1>1. /\ call # NoCall /\ call.op = "send" /\ call.at = "number"
      /\ chatCalls' = [chatCalls EXCEPT ![c] = next]
      /\ UNCHANGED <<stage, convOf, opened, messages, ratings>>
      /\ \E others : Races(others, "number")
  BY <1>n, <1>x DEF Number, ChatAt, ChatMoves
<1>2. CallShape(call) /\ call.conv \in opened /\ Claims(c)
  BY <1>1 DEF ChatInv, ChatShape, OpenInv, Claims
<1>3. next = [op |-> "send", conv |-> call.conv, client |-> call.client, sequence |-> n, at |-> "save"]
  BY <1>1, <1>2, <1>x DEF CallShape
<1>4. next.op = "send" /\ next.at = "save" /\ next.conv = call.conv /\ next.client = call.client /\ CallShape(next)
  <2>1. next.op = "send" /\ next.at = "save" /\ next.conv = call.conv /\ next.client = call.client
        /\ next.sequence = n
    BY <1>3
  <2>2. CallShape(next)
    BY <1>3, <2>1, Zenon DEF CallShape
  <2> QED
    BY <2>1, <2>2
<1>5. chatRaced \subseteq chatRaced'
  BY <1>1, RacesGrow
<1>6. chatCalls'[c] = next
  BY <1>1 DEF ChatInv, ChatShape
<1>7. ~ Opening(c)' /\ ~ Pushing(c)' /\ SameForm(next, chatCalls[c]) /\ next.client = chatCalls[c].client
  BY <1>4, <1>6 DEF Opening, Pushing, SameForm
<1> QED
  BY <1>1, <1>2, <1>4, <1>5, <1>7, HarmlessCall

(* A slot lets go after a save.                                            *)
LEMMA SlotFreed ==
  ASSUME ChatInv, NEW c \in Call, chatCalls' = [chatCalls EXCEPT ![c] = NoCall]
  PROVE  /\ ~ Opening(c)' /\ ~ Claims(c)' /\ ~ Pushing(c)'
         /\ \A d \in Call : chatCalls'[d] # NoCall => d # c /\ chatCalls'[d] = chatCalls[d]
         /\ DOMAIN chatCalls' = Call
         /\ \A d \in Call \ {c} : /\ Opening(d)' <=> Opening(d)
                                  /\ Claims(d)' <=> Claims(d)
                                  /\ Pushing(d)' <=> Pushing(d)
<1>1. /\ chatCalls'[c] = NoCall /\ \A d \in Call \ {c} : chatCalls'[d] = chatCalls[d]
      /\ DOMAIN chatCalls' = Call
      /\ \A d \in Call \ {c} : /\ Opening(d)' <=> Opening(d)
                               /\ Claims(d)' <=> Claims(d)
                               /\ Pushing(d)' <=> Pushing(d)
  BY Moves DEF ChatInv
<1> QED
  BY <1>1 DEF Opening, Claims, Pushing

(* What Append does to a sequence of whatever elements.                    *)
LEMMA Appended ==
  ASSUME NEW M, NEW s \in Seq(M), NEW m
  PROVE  /\ Append(s, m) \in Seq(M \cup {m})
         /\ \A i \in DOMAIN Append(s, m) : (i \in DOMAIN s /\ Append(s, m)[i] = s[i])
                                           \/ (i = Len(s) + 1 /\ Append(s, m)[i] = m)
         /\ Len(s) + 1 \notin DOMAIN s
<1> PICK All : All = M \cup {m}
  OBVIOUS
<1>1. s \in Seq(All) /\ m \in All
  OBVIOUS
<1>2. Append(s, m) \in Seq(All)
  BY <1>1
<1>3. /\ Len(s) \in Nat /\ DOMAIN s = 1 .. Len(s) /\ DOMAIN Append(s, m) = 1 .. Len(s) + 1
      /\ Append(s, m)[Len(s) + 1] = m /\ \A i \in 1 .. Len(s) : Append(s, m)[i] = s[i]
  BY <1>1
<1>4. ASSUME NEW i \in DOMAIN Append(s, m)
      PROVE  (i \in DOMAIN s /\ Append(s, m)[i] = s[i]) \/ (i = Len(s) + 1 /\ Append(s, m)[i] = m)
  <2>1. i \in 1 .. Len(s) \/ i = Len(s) + 1
    BY <1>3
  <2> QED
    BY <1>3, <2>1
<1>5. Len(s) + 1 \notin DOMAIN s
  BY <1>3
<1> QED
  BY <1>2, <1>4, <1>5

LEMMA SaveMessageStep ==
  ASSUME ChatInv, NEW c \in Call, SaveMessage(c)
  PROVE  ChatInv'
<1> PICK call : call = chatCalls[c]
  OBVIOUS
<1> PICK m : m = [conv |-> call.conv, client |-> call.client, sequence |-> call.sequence, reported |-> FALSE]
  OBVIOUS
<1>1. /\ call # NoCall /\ call.op = "send" /\ messages' = Append(messages, m)
      /\ chatCalls' = [chatCalls EXCEPT ![c] = NoCall]
      /\ UNCHANGED <<stage, convOf, opened, ratings, chatRaced>> /\ Claims(c)
  BY DEF SaveMessage, ChatAt, ChatMoves, Claims
<1>2. call.conv \in opened /\ MessageShape(m) /\ m.conv = call.conv /\ m.client = call.client
  BY <1>1 DEF ChatInv, OpenInv, MessageShape
<1>3. /\ ~ Opening(c)' /\ ~ Claims(c)' /\ ~ Pushing(c)'
      /\ \A d \in Call : chatCalls'[d] # NoCall => d # c /\ chatCalls'[d] = chatCalls[d]
      /\ DOMAIN chatCalls' = Call
      /\ \A d \in Call \ {c} : /\ Opening(d)' <=> Opening(d)
                               /\ Claims(d)' <=> Claims(d)
                               /\ Pushing(d)' <=> Pushing(d)
  BY <1>1, SlotFreed
<1>4. /\ \E M : messages' \in Seq(M)
      /\ \A i \in DOMAIN messages' : (i \in DOMAIN messages /\ messages'[i] = messages[i])
                                     \/ (i = Len(messages) + 1 /\ messages'[i] = m)
  <2> PICK M : messages \in Seq(M)
    BY DEF ChatInv, ChatShape
  <2>1. messages' \in Seq(M \cup {m})
    BY <1>1, Appended
  <2>2. \A i \in DOMAIN messages' : (i \in DOMAIN messages /\ messages'[i] = messages[i])
                                   \/ (i = Len(messages) + 1 /\ messages'[i] = m)
    BY <1>1, Appended
  <2> QED
    BY <2>1, <2>2
<1>5. ChatShape'
  <2>1. \A i \in DOMAIN messages' : MessageShape(messages'[i])
    BY <1>2, <1>4 DEF ChatInv, ChatShape
  <2>2. \A d \in Call : chatCalls'[d] # NoCall => CallShape(chatCalls'[d])
    BY <1>3 DEF ChatInv, ChatShape
  <2> QED
    BY <1>1, <1>3, <1>4, <2>1, <2>2 DEF ChatInv, ChatShape, CallShape, MessageShape
<1>6. OpenInv'
  <2>1. \A i \in DOMAIN messages' : messages'[i].conv \in opened
    BY <1>2, <1>4 DEF ChatInv, OpenInv
  <2>2. \A d \in Call : chatCalls'[d] # NoCall /\ chatCalls'[d].op = "send" => chatCalls'[d].conv \in opened
    BY <1>3 DEF ChatInv, OpenInv
  <2>3. "open" \notin chatRaced =>
          /\ opened \subseteq {convOf}
          /\ \A d \in Call : Opening(d)' => opened = {} /\ \A e \in Call : Opening(e)' => e = d
    BY <1>3 DEF ChatInv, OpenInv
  <2> QED
    BY <1>1, <2>1, <2>2, <2>3 DEF ChatInv, OpenInv
<1>7. SendInv'
  <2>1. call.client \notin chatRaced =>
          /\ \A i \in DOMAIN messages : ~ SameForm(messages[i], m) /\ ~ SameForm(m, messages[i])
          /\ \A d \in Call : Claims(d)' => ~ SameForm(m, chatCalls[d])
    BY <1>1, <1>2, <1>3 DEF ChatInv, SendInv, SameForm
  <2>2. ASSUME NEW i \in DOMAIN messages', NEW j \in DOMAIN messages',
               SameForm(messages'[i], messages'[j]), messages'[i].client \notin chatRaced
        PROVE  i = j
    <3>1. CASE i \in DOMAIN messages /\ messages'[i] = messages[i]
      <4>1. CASE j \in DOMAIN messages /\ messages'[j] = messages[j]
        BY <2>2, <3>1, <4>1 DEF ChatInv, SendInv
      <4>2. CASE messages'[j] = m
        BY <1>2, <2>1, <2>2, <3>1, <4>2 DEF SameForm
      <4> QED
        BY <1>4, <4>1, <4>2
    <3>2. CASE i = Len(messages) + 1 /\ messages'[i] = m
      <4>1. CASE j \in DOMAIN messages /\ messages'[j] = messages[j]
        BY <1>2, <2>1, <2>2, <3>2, <4>1
      <4> QED
        BY <1>4, <3>2, <4>1
    <3> QED
      BY <1>4, <3>1, <3>2
  <2>3. ASSUME NEW d \in Call, Claims(d)', chatCalls'[d].client \notin chatRaced
        PROVE  /\ \A i \in DOMAIN messages' : ~ SameForm(messages'[i], chatCalls'[d])
               /\ \A e \in Call : Claims(e)' /\ SameForm(chatCalls'[e], chatCalls'[d]) => e = d
    <3>1. d # c /\ chatCalls'[d] = chatCalls[d] /\ Claims(d)
      BY <1>3, <2>3 DEF Claims
    <3>2. /\ \A i \in DOMAIN messages : ~ SameForm(messages[i], chatCalls[d])
          /\ \A e \in Call : Claims(e) /\ SameForm(chatCalls[e], chatCalls[d]) => e = d
      BY <2>3, <3>1 DEF ChatInv, SendInv
    <3>3. ~ SameForm(m, chatCalls[d])
      BY <1>1, <1>2, <3>1, <3>2 DEF SameForm
    <3>4. \A e \in Call : Claims(e)' => Claims(e) /\ chatCalls'[e] = chatCalls[e]
      BY <1>3 DEF Claims
    <3> QED
      BY <1>4, <3>1, <3>2, <3>3, <3>4
  <2> QED
    BY <1>1, <2>2, <2>3 DEF SendInv, SameForm
<1>8. RateInv'
  BY <1>1, <1>3 DEF ChatInv, RateInv, Unrated
<1> QED
  BY <1>5, <1>6, <1>7, <1>8 DEF ChatInv

LEMMA ReportStep ==
  ASSUME ChatInv, NEW i \in DOMAIN messages, ReportMessage(i)
  PROVE  ChatInv'
<1> PICK m : m = [messages[i] EXCEPT !.reported = TRUE]
  OBVIOUS
<1>1. /\ messages' = [messages EXCEPT ![i] = m]
      /\ UNCHANGED <<stage, convOf, opened, ratings, chatCalls, chatRaced>>
  BY DEF ReportMessage
<1>2. m = [conv |-> messages[i].conv, client |-> messages[i].client, sequence |-> messages[i].sequence, reported |-> TRUE]
  <2> PICK old : old = messages[i]
    OBVIOUS
  <2>1. old = [conv |-> old.conv, client |-> old.client, sequence |-> old.sequence, reported |-> old.reported]
    BY DEF ChatInv, ChatShape, MessageShape
  <2>2. m = [old EXCEPT !.reported = TRUE]
    OBVIOUS
  <2>3. m = [conv |-> old.conv, client |-> old.client, sequence |-> old.sequence, reported |-> TRUE]
    BY <2>1, <2>2
  <2> QED
    BY <2>3
<1>3. MessageShape(m) /\ m.conv = messages[i].conv /\ m.client = messages[i].client
  BY <1>2 DEF MessageShape
<1>4. /\ DOMAIN messages' = DOMAIN messages
      /\ \A j \in DOMAIN messages : j # i => messages'[j] = messages[j]
      /\ messages'[i] = m /\ \E M : messages' \in Seq(M)
  <2> PICK M : messages \in Seq(M)
    BY DEF ChatInv, ChatShape
  <2>1. messages \in Seq(M \cup {m})
    OBVIOUS
  <2> QED
    BY <1>1, <2>1
<1>5. \A j \in DOMAIN messages : /\ messages'[j].conv = messages[j].conv /\ messages'[j].client = messages[j].client
                               /\ MessageShape(messages'[j])
  BY <1>3, <1>4 DEF ChatInv, ChatShape
<1>6. ChatShape'
  BY <1>1, <1>4, <1>5 DEF ChatInv, ChatShape, CallShape, MessageShape
<1>7. OpenInv'
  BY <1>1, <1>4, <1>5 DEF ChatInv, OpenInv, Opening
<1>8. SendInv'
  BY <1>1, <1>4, <1>5 DEF ChatInv, SendInv, SameForm, Claims
<1>9. RateInv'
  BY <1>1 DEF ChatInv, RateInv, Unrated, Pushing
<1> QED
  BY <1>6, <1>7, <1>8, <1>9 DEF ChatInv

LEMMA SubmitStep ==
  ASSUME ChatInv, NEW c \in Call, NEW rater \in Participant, SubmitRating(c, rater)
  PROVE  ChatInv'
<1> PICK next : next = [op |-> "rate", rater |-> rater, at |-> "check"]
  OBVIOUS
<1>1. /\ chatCalls' = [chatCalls EXCEPT ![c] = next] /\ stage = "COMPLETED"
      /\ UNCHANGED <<stage, convOf, opened, messages, ratings, chatRaced>>
  BY DEF SubmitRating, ChatMoves
<1>2. next.op = "rate" /\ next.at = "check" /\ next.rater = rater /\ CallShape(next)
  BY DEF CallShape
<1>3. chatCalls'[c] = next
  BY <1>1 DEF ChatInv, ChatShape
<1>4. ~ Opening(c)' /\ ~ Claims(c)' /\ ~ Pushing(c)'
  BY <1>2, <1>3 DEF Opening, Claims, Pushing
<1> QED
  BY <1>1, <1>2, <1>4, HarmlessCall

LEMMA CheckStep ==
  ASSUME ChatInv, NEW c \in Call, CheckRating(c)
  PROVE  ChatInv'
<1> PICK call : call = chatCalls[c]
  OBVIOUS
<1>1. /\ call # NoCall /\ call.op = "rate" /\ UNCHANGED <<stage, convOf, opened, messages, ratings>>
  BY DEF CheckRating, ChatAt
<1>2. CallShape(call) /\ call.rater \in Participant /\ stage \in {"COMPLETED", "past"}
  BY <1>1 DEF ChatInv, ChatShape, RateInv
<1>3. CASE Unrated(call.rater)
  <2> PICK at : at = IF call.at = "check" THEN "recheck" ELSE "push"
    OBVIOUS
  <2> PICK next : next = [call EXCEPT !.at = at]
    OBVIOUS
  <2> PICK others : others = {d \in ChatAt("rate", "push") : chatCalls[d].rater = call.rater}
    OBVIOUS
  <2>1. /\ chatCalls' = [chatCalls EXCEPT ![c] = next]
        /\ Races(IF at = "push" THEN others ELSE {}, call.rater)
    BY <1>3 DEF CheckRating, ChatMoves
  <2>2. next = [op |-> "rate", rater |-> call.rater, at |-> at]
    BY <1>1, <1>2 DEF CallShape
  <2>3. next.op = "rate" /\ next.at = at /\ next.rater = call.rater /\ CallShape(next)
    BY <2>2 DEF CallShape
  <2>4. chatRaced \subseteq chatRaced' /\ (call.rater \notin chatRaced' /\ at = "push" => others = {})
    BY <2>1, RacesGrow
  <2>5. chatCalls'[c] = next
    BY <2>1 DEF ChatInv, ChatShape
  <2>6. ~ Opening(c)' /\ ~ Claims(c)' /\ (Pushing(c)' => at = "push")
    BY <2>3, <2>5 DEF Opening, Claims, Pushing
  <2>7. ASSUME NEW d \in Call, Pushing(d), chatCalls[d].rater = call.rater
        PROVE  d \in others
    BY <2>7 DEF Pushing, ChatAt
  <2> QED
    BY <1>1, <1>2, <1>3, <2>1, <2>3, <2>4, <2>6, <2>7, HarmlessCall
<1>4. CASE ~ Unrated(call.rater)
  <2>1. chatCalls' = [chatCalls EXCEPT ![c] = NoCall] /\ UNCHANGED chatRaced
    BY <1>4 DEF CheckRating, ChatMoves
  <2>2. ~ Opening(c)' /\ ~ Claims(c)' /\ ~ Pushing(c)'
    BY <2>1, SlotFreed
  <2> QED
    BY <1>1, <2>1, <2>2, HarmlessCall
<1> QED
  BY <1>3, <1>4

LEMMA PushRatingStep ==
  ASSUME ChatInv, NEW c \in Call, PushRating(c)
  PROVE  ChatInv'
<1> PICK rater : rater = chatCalls[c].rater
  OBVIOUS
<1>1. /\ chatCalls[c] # NoCall /\ chatCalls[c].op = "rate" /\ ratings' = Append(ratings, rater)
      /\ chatCalls' = [chatCalls EXCEPT ![c] = NoCall] /\ Pushing(c)
      /\ UNCHANGED <<stage, convOf, opened, messages, chatRaced>>
  BY DEF PushRating, ChatAt, ChatMoves, Pushing
<1>2. rater \in Participant /\ stage \in {"COMPLETED", "past"}
  BY <1>1 DEF ChatInv, RateInv
<1>3. /\ ~ Opening(c)' /\ ~ Claims(c)' /\ ~ Pushing(c)'
      /\ \A d \in Call : chatCalls'[d] # NoCall => d # c /\ chatCalls'[d] = chatCalls[d]
      /\ DOMAIN chatCalls' = Call
      /\ \A d \in Call \ {c} : /\ Opening(d)' <=> Opening(d)
                               /\ Claims(d)' <=> Claims(d)
                               /\ Pushing(d)' <=> Pushing(d)
  BY <1>1, SlotFreed
<1>4. ratings' \in Seq(Participant)
  BY <1>1, <1>2 DEF ChatInv, ChatShape
<1>5. \A i \in DOMAIN ratings' : (i \in DOMAIN ratings /\ ratings'[i] = ratings[i])
                                \/ (i = Len(ratings) + 1 /\ ratings'[i] = rater)
  <2>1. ratings \in Seq(Participant)
    BY DEF ChatInv, ChatShape
  <2> QED
    BY <1>1, <2>1, Appended
<1>6. ChatShape' /\ OpenInv' /\ SendInv'
  <2>1. \A d \in Call : chatCalls'[d] # NoCall => CallShape(chatCalls'[d])
    BY <1>3 DEF ChatInv, ChatShape
  <2>2. ChatShape'
    BY <1>1, <1>3, <1>4, <2>1 DEF ChatInv, ChatShape, CallShape, MessageShape
  <2>3. OpenInv'
    <3>1. "open" \notin chatRaced =>
            /\ opened \subseteq {convOf}
            /\ \A d \in Call : Opening(d)' => opened = {} /\ \A e \in Call : Opening(e)' => e = d
      BY <1>3 DEF ChatInv, OpenInv
    <3>2. \A d \in Call : chatCalls'[d] # NoCall /\ chatCalls'[d].op = "send" => chatCalls'[d].conv \in opened
      BY <1>3 DEF ChatInv, OpenInv
    <3> QED
      BY <1>1, <3>1, <3>2 DEF ChatInv, OpenInv
  <2>4. SendInv'
    <3>1. \A d \in Call : Claims(d)' => Claims(d) /\ chatCalls'[d] = chatCalls[d]
      BY <1>3 DEF Claims
    <3> QED
      BY <1>1, <3>1 DEF ChatInv, SendInv, SameForm
  <2> QED
    BY <2>2, <2>3, <2>4
<1>7. RateInv'
  <2>1. rater \notin chatRaced =>
          /\ \A i \in DOMAIN ratings : ratings[i] # rater
          /\ \A d \in Call : Pushing(d) /\ chatCalls[d].rater = rater => d = c
    BY <1>1 DEF ChatInv, RateInv, Unrated
  <2>2. ASSUME NEW i \in DOMAIN ratings', NEW j \in DOMAIN ratings', ratings'[i] = ratings'[j], i # j
        PROVE  ratings'[i] \in chatRaced
    BY <1>5, <2>1, <2>2 DEF ChatInv, RateInv
  <2>3. ASSUME NEW d \in Call, Pushing(d)', chatCalls'[d].rater \notin chatRaced
        PROVE  /\ \A i \in DOMAIN ratings' : ratings'[i] # chatCalls'[d].rater
               /\ \A e \in Call : Pushing(e)' /\ chatCalls'[e].rater = chatCalls'[d].rater => e = d
    <3>1. d # c /\ chatCalls'[d] = chatCalls[d] /\ Pushing(d)
      BY <1>3, <2>3 DEF Pushing
    <3>2. /\ \A i \in DOMAIN ratings : ratings[i] # chatCalls[d].rater
          /\ \A e \in Call : Pushing(e) /\ chatCalls[e].rater = chatCalls[d].rater => e = d
      BY <2>3, <3>1 DEF ChatInv, RateInv, Unrated
    <3>3. rater # chatCalls[d].rater
      BY <1>1, <3>1, <3>2
    <3>4. \A e \in Call : Pushing(e)' => Pushing(e) /\ chatCalls'[e] = chatCalls[e]
      BY <1>3 DEF Pushing
    <3> QED
      BY <1>5, <3>1, <3>2, <3>3, <3>4
  <2>4. \A d \in Call : chatCalls'[d] # NoCall /\ chatCalls'[d].op = "rate" =>
          stage \in {"COMPLETED", "past"} /\ chatCalls'[d].rater \in Participant
    BY <1>3 DEF ChatInv, RateInv
  <2> QED
    BY <1>1, <1>2, <2>2, <2>3, <2>4 DEF RateInv, Unrated
<1> QED
  BY <1>6, <1>7 DEF ChatInv

LEMMA ChatInvHolds == Spec => []ChatInv
<1>1. Init => ChatInv
  <2> SUFFICES ASSUME ChatInit
               PROVE  ChatInv
    BY DEF Init
  <2>1. messages \in Seq({}) /\ DOMAIN messages = {} /\ ratings = <<>> /\ DOMAIN ratings = {}
    BY DEF ChatInit
  <2>2. DOMAIN chatCalls = Call /\ \A c \in Call : chatCalls[c] = NoCall
    BY DEF ChatInit
  <2>3. ChatShape
    BY <2>1, <2>2 DEF ChatShape
  <2>4. OpenInv /\ SendInv /\ RateInv
    BY <2>1, <2>2 DEF ChatInit, OpenInv, SendInv, RateInv, Opening, Claims, Pushing
  <2> QED
    BY <2>3, <2>4 DEF ChatInv
<1>2. ChatInv /\ [Next]_communicationVars => ChatInv'
  <2> SUFFICES ASSUME ChatInv, [Next]_communicationVars
               PROVE  ChatInv'
    OBVIOUS
  <2>1. CASE TalkNext
    BY <2>1, StageStep, OpenStep, SaveConversationStep, SendMessageStep, FindConversationStep,
       DeduplicateStep, NumberStep, SaveMessageStep, ReportStep DEF TalkNext
  <2>2. CASE RatingNext
    BY <2>2, StageStep, SubmitStep, CheckStep, PushRatingStep DEF RatingNext
  <2>3. CASE UNCHANGED chatVars
    <3>1. UNCHANGED <<stage, convOf, opened, messages, ratings, chatCalls, chatRaced>>
      BY <2>3 DEF chatVars
    <3>2. ChatShape'
      BY <3>1 DEF ChatInv, ChatShape, CallShape, MessageShape
    <3>3. OpenInv' /\ SendInv'
      BY <3>1 DEF ChatInv, OpenInv, SendInv, SameForm, Opening, Claims
    <3>4. RateInv'
      BY <3>1 DEF ChatInv, RateInv, Pushing, Unrated
    <3> QED
      BY <3>2, <3>3, <3>4 DEF ChatInv
  <2> QED
    BY <2>1, <2>2, <2>3 DEF Next, communicationVars
<1> QED
  BY <1>1, <1>2, PTL DEF Spec

(* One conversation per ride, one message per form and one rating per      *)
(* rater, unless two handlers passed the same check before either saved    *)
(* (application/conversation-service.ts, application/rating-service.ts).   *)
THEOREM EverythingIsSaidOnce == Spec => []SaidOnce
<1>1. ChatInv => OneConversation /\ SendOnce
  BY DEF ChatInv, OpenInv, SendInv, SameForm, OneConversation, SendOnce
<1>2. ChatInv => OneRatingPerRater
  BY DEF ChatInv, RateInv, OneRatingPerRater
<1> QED
  BY <1>1, <1>2, ChatInvHolds, PTL DEF SaidOnce

-----------------------------------------------------------------------------
(* Types.                                                                  *)

(* nextSequence is a number, greater than any the conversation has.        *)
LEMMA NextIsNumber ==
  ASSUME ChatTypeOK, NEW conv
  PROVE  /\ NextSequence(conv) \in Nat
         /\ \A i \in DOMAIN messages : messages[i].conv = conv => messages[i].sequence < NextSequence(conv)
<1> DEFINE taken == {messages[i].sequence : i \in MessagesOf(conv)} \cup {0}
<1>1. /\ Len(messages) \in Nat /\ DOMAIN messages = 1 .. Len(messages)
      /\ \A i \in DOMAIN messages : messages[i].sequence \in Nat
  <2>1. messages \in Seq(Message)
    BY DEF ChatTypeOK
  <2>2. Len(messages) \in Nat /\ DOMAIN messages = 1 .. Len(messages)
    BY <2>1
  <2>3. ASSUME NEW i \in DOMAIN messages PROVE messages[i] \in Message
    BY <2>1
  <2> QED BY <2>2, <2>3 DEF Message
<1>2. IsFiniteSet(taken)
  <2>1. IsFiniteSet(DOMAIN messages)
    BY <1>1, FS_Interval
  <2>2. MessagesOf(conv) \in SUBSET DOMAIN messages
    BY DEF MessagesOf
  <2>3. IsFiniteSet(MessagesOf(conv))
    BY <2>1, <2>2, FS_Subset
  <2>4. IsFiniteSet({messages[i].sequence : i \in MessagesOf(conv)})
    <3> DEFINE f == [i \in MessagesOf(conv) |-> messages[i].sequence]
               T == {messages[i].sequence : i \in MessagesOf(conv)}
    <3>1. f \in Surjection(MessagesOf(conv), T)
      BY DEF Surjection
    <3> HIDE DEF f, T
    <3>2. IsFiniteSet(T)
      BY <2>3, <3>1, FS_Surjection
    <3> QED BY <3>2 DEF T
  <2> QED BY <2>4, FS_AddElement
<1>3. taken # {} /\ \A n \in taken : n \in Nat
  BY <1>1 DEF MessagesOf
<1>4. \A i \in DOMAIN messages : messages[i].conv = conv => messages[i].sequence \in taken
  BY DEF MessagesOf
<1>5. NextSequence(conv) = 1 + Max(taken)
  BY DEF NextSequence
<1> HIDE DEF taken
<1>6. Max(taken) \in taken /\ \A n \in taken : n <= Max(taken)
  BY <1>2, <1>3, GreatestNatural
<1> QED
  BY <1>1, <1>3, <1>4, <1>5, <1>6

(* What a slot that is in use holds.                                       *)
LEMMA SlotFacts ==
  ASSUME ChatTypeOK, NEW c \in Call, chatCalls[c] # NoCall
  PROVE  /\ chatCalls[c].op = "send" => chatCalls[c] \in SendCall
         /\ chatCalls[c].op = "rate" => chatCalls[c] \in RateCall
  BY DEF ChatTypeOK, OpenCall, SendCall, RateCall

(* A race is recorded under the check it is about.                         *)
LEMMA RacesTyped ==
  ASSUME ChatTypeOK, NEW others, NEW check \in Check, Races(others, check)
  PROVE  chatRaced' \subseteq Check
  BY DEF ChatTypeOK, Races

(* Each handler of the chat and of the ratings keeps the types.            *)
LEMMA ChatTypeStep == ChatTypeOK /\ [Next]_communicationVars => ChatTypeOK'
<1> SUFFICES ASSUME ChatTypeOK, [Next]_communicationVars
             PROVE  ChatTypeOK'
  OBVIOUS
<1> DEFINE Slots == OpenCall \cup SendCall \cup RateCall \cup {NoCall}
<1>0. ASSUME NEW c \in Call, NEW next \in Slots, ChatMoves(c, next)
      PROVE  chatCalls' \in [Call -> Slots]
  BY <1>0 DEF ChatTypeOK, ChatMoves
<1>s. ASSUME NEW c \in Call, NEW at, c \in ChatAt("send", at)
      PROVE  chatCalls[c] \in SendCall
  BY <1>s, SlotFacts DEF ChatAt
<1>r. ASSUME NEW c \in Call, NEW at, c \in ChatAt("rate", at)
      PROVE  chatCalls[c] \in RateCall
  BY <1>r, SlotFacts DEF ChatAt
<1>1. CASE RideGetsDriver \/ RideMovesOn
  BY <1>1 DEF RideGetsDriver, RideMovesOn, ChatTypeOK, Stage
<1>2. ASSUME NEW c \in Call, OpenForRide(c) PROVE ChatTypeOK'
  <2>1. /\ ChatMoves(c, [op |-> "open", at |-> "save"]) /\ Races(ChatAt("open", "save"), "open")
        /\ UNCHANGED <<stage, convOf, opened, messages, ratings>>
    BY <1>2 DEF OpenForRide
  <2>2. chatCalls' \in [Call -> Slots]
    BY <1>0, <2>1 DEF OpenCall
  <2>3. chatRaced' \subseteq Check
    BY <2>1, RacesTyped DEF Check
  <2> QED BY <2>1, <2>2, <2>3 DEF ChatTypeOK
<1>3. ASSUME NEW c \in Call, SaveConversation(c) PROVE ChatTypeOK'
  <2>1. ChatMoves(c, NoCall) /\ UNCHANGED <<stage, messages, ratings, chatRaced>>
        /\ (UNCHANGED <<convOf, opened>> \/ \E k \in ConvId : convOf' = k /\ opened' = opened \cup {k})
    BY <1>3 DEF SaveConversation
  <2>2. chatCalls' \in [Call -> Slots]
    BY <1>0, <2>1
  <2> QED BY <2>1, <2>2 DEF ChatTypeOK
<1>4. ASSUME NEW c \in Call, NEW client \in ClientId, SendMessage(c, client) PROVE ChatTypeOK'
  <2> PICK next : next = [op |-> "send", conv |-> convOf, client |-> client, sequence |-> 0, at |-> "find"]
    OBVIOUS
  <2>1. ChatMoves(c, next) /\ UNCHANGED <<stage, convOf, opened, messages, ratings, chatRaced>>
        /\ convOf # NoConv
    BY <1>4 DEF SendMessage
  <2>2. next \in SendCall
    BY <2>1 DEF SendCall, ChatTypeOK
  <2>3. chatCalls' \in [Call -> Slots]
    BY <1>0, <2>1, <2>2
  <2> QED BY <2>1, <2>3 DEF ChatTypeOK
<1>5. ASSUME NEW c \in Call, FindConversation(c) PROVE ChatTypeOK'
  <2> PICK call \in SendCall : call = chatCalls[c]
    BY <1>5, <1>s DEF FindConversation
  <2> PICK next : next = IF convOf = call.conv THEN [call EXCEPT !.at = "dedupe"] ELSE NoCall
    OBVIOUS
  <2>1. ChatMoves(c, next) /\ UNCHANGED <<stage, convOf, opened, messages, ratings, chatRaced>>
    BY <1>5 DEF FindConversation
  <2>2. next \in SendCall \cup {NoCall}
    BY DEF SendCall
  <2>3. chatCalls' \in [Call -> Slots]
    BY <1>0, <2>1, <2>2
  <2> QED BY <2>1, <2>3 DEF ChatTypeOK
<1>6. ASSUME NEW c \in Call, Deduplicate(c) PROVE ChatTypeOK'
  <2> PICK call \in SendCall : call = chatCalls[c]
    BY <1>6, <1>s DEF Deduplicate
  <2> PICK next : next = [call EXCEPT !.at = "number"]
    OBVIOUS
  <2>1. /\ \/ ChatMoves(c, next) /\ \E others : Races(others, call.client)
           \/ ChatMoves(c, NoCall) /\ UNCHANGED chatRaced
        /\ UNCHANGED <<stage, convOf, opened, messages, ratings>>
    BY <1>6 DEF Deduplicate
  <2>2. next \in SendCall /\ call.client \in Check
    BY DEF SendCall, Check
  <2>3. chatCalls' \in [Call -> Slots]
    BY <1>0, <2>1, <2>2
  <2>4. chatRaced' \subseteq Check
    BY <2>1, <2>2, RacesTyped DEF ChatTypeOK
  <2> QED BY <2>1, <2>3, <2>4 DEF ChatTypeOK
<1>7. ASSUME NEW c \in Call, Number(c) PROVE ChatTypeOK'
  <2> PICK call \in SendCall : call = chatCalls[c]
    BY <1>7, <1>s DEF Number
  <2> PICK n \in Nat : n = NextSequence(call.conv)
    BY NextIsNumber
  <2> PICK next : next = [call EXCEPT !.sequence = n, !.at = "save"]
    OBVIOUS
  <2>1. /\ ChatMoves(c, next) /\ \E others : Races(others, "number")
        /\ UNCHANGED <<stage, convOf, opened, messages, ratings>>
    BY <1>7 DEF Number
  <2>2. next \in SendCall /\ "number" \in Check
    BY DEF SendCall, Check
  <2>3. chatCalls' \in [Call -> Slots]
    BY <1>0, <2>1, <2>2
  <2>4. chatRaced' \subseteq Check
    BY <2>1, <2>2, RacesTyped
  <2> QED BY <2>1, <2>3, <2>4 DEF ChatTypeOK
<1>8. ASSUME NEW c \in Call, SaveMessage(c) PROVE ChatTypeOK'
  <2> PICK call \in SendCall : call = chatCalls[c]
    BY <1>8, <1>s DEF SaveMessage
  <2> PICK m \in Message :
        m = [conv |-> call.conv, client |-> call.client, sequence |-> call.sequence, reported |-> FALSE]
    BY DEF SendCall, Message
  <2>1. /\ messages' = Append(messages, m) /\ ChatMoves(c, NoCall)
        /\ UNCHANGED <<stage, convOf, opened, ratings, chatRaced>>
    BY <1>8 DEF SaveMessage
  <2>2. messages' \in Seq(Message)
    BY <2>1, AppendProperties DEF ChatTypeOK
  <2>3. chatCalls' \in [Call -> Slots]
    BY <1>0, <2>1
  <2> QED BY <2>1, <2>2, <2>3 DEF ChatTypeOK
<1>9. ASSUME NEW i \in DOMAIN messages, ReportMessage(i) PROVE ChatTypeOK'
  <2> PICK old \in Message : old = messages[i]
    BY DEF ChatTypeOK
  <2> PICK m : m = [old EXCEPT !.reported = TRUE]
    OBVIOUS
  <2>1. m \in Message
    BY DEF Message
  <2>2. messages' = [messages EXCEPT ![i] = m] /\ UNCHANGED <<stage, convOf, opened, ratings, chatCalls, chatRaced>>
    BY <1>9 DEF ReportMessage
  <2>3. messages' \in Seq(Message)
    BY <2>1, <2>2, ExceptSeq DEF ChatTypeOK
  <2> QED BY <2>2, <2>3 DEF ChatTypeOK
<1>10. ASSUME NEW c \in Call, NEW rater \in Participant, SubmitRating(c, rater) PROVE ChatTypeOK'
  <2> PICK next : next = [op |-> "rate", rater |-> rater, at |-> "check"]
    OBVIOUS
  <2>1. ChatMoves(c, next) /\ UNCHANGED <<stage, convOf, opened, messages, ratings, chatRaced>>
    BY <1>10 DEF SubmitRating
  <2>2. next \in RateCall
    BY DEF RateCall
  <2>3. chatCalls' \in [Call -> Slots]
    BY <1>0, <2>1, <2>2
  <2> QED BY <2>1, <2>3 DEF ChatTypeOK
<1>11. ASSUME NEW c \in Call, CheckRating(c) PROVE ChatTypeOK'
  <2> PICK call \in RateCall : call = chatCalls[c]
    BY <1>11, <1>r DEF CheckRating
  <2> PICK at \in {"recheck", "push"} : at = IF call.at = "check" THEN "recheck" ELSE "push"
    OBVIOUS
  <2> PICK next : next = [call EXCEPT !.at = at]
    OBVIOUS
  <2>1. /\ \/ ChatMoves(c, next) /\ \E others : Races(others, call.rater)
           \/ ChatMoves(c, NoCall) /\ UNCHANGED chatRaced
        /\ UNCHANGED <<stage, convOf, opened, messages, ratings>>
    BY <1>11 DEF CheckRating
  <2>2. next \in RateCall /\ call.rater \in Check
    BY DEF RateCall, Check
  <2>3. chatCalls' \in [Call -> Slots]
    BY <1>0, <2>1, <2>2
  <2>4. chatRaced' \subseteq Check
    BY <2>1, <2>2, RacesTyped DEF ChatTypeOK
  <2> QED BY <2>1, <2>3, <2>4 DEF ChatTypeOK
<1>12. ASSUME NEW c \in Call, PushRating(c) PROVE ChatTypeOK'
  <2> PICK call \in RateCall : call = chatCalls[c]
    BY <1>12, <1>r DEF PushRating
  <2>1. /\ ratings' = Append(ratings, call.rater) /\ ChatMoves(c, NoCall)
        /\ UNCHANGED <<stage, convOf, opened, messages, chatRaced>>
    BY <1>12 DEF PushRating
  <2>2. ratings' \in Seq(Participant)
    BY <2>1, AppendProperties DEF ChatTypeOK, RateCall
  <2>3. chatCalls' \in [Call -> Slots]
    BY <1>0, <2>1
  <2> QED BY <2>1, <2>2, <2>3 DEF ChatTypeOK
<1>13. CASE UNCHANGED chatVars
  BY <1>13 DEF chatVars, ChatTypeOK
<1>14. CASE TalkNext
  BY <1>1, <1>2, <1>3, <1>4, <1>5, <1>6, <1>7, <1>8, <1>9, <1>14 DEF TalkNext
<1>15. CASE RatingNext
  BY <1>1, <1>10, <1>11, <1>12, <1>15 DEF RatingNext
<1> QED
  BY <1>13, <1>14, <1>15 DEF Next, communicationVars

(* So the types of conversations and ratings always hold.                  *)
LEMMA ChatTypesHold == Spec => []ChatTypeOK
<1>1. Init => ChatTypeOK
  <2>1. <<>> \in Seq(Message) /\ <<>> \in Seq(Participant)
    OBVIOUS
  <2> QED
    BY <2>1 DEF Init, ChatInit, ChatTypeOK, Stage
<1> QED
  BY <1>1, ChatTypeStep, PTL DEF Spec

(* The state of the services has its types: batches hold stored events,    *)
(* numbers are numbers, slots hold calls (Communication's three modules).  *)
THEOREM CommunicationTypes == Spec => []TypeOK
<1> DEFINE StoreOK == store \in Stores
<1>1. Init => StoreOK
  BY DEF Init, Stores
<1>2. StoreOK /\ [Next]_communicationVars => StoreOK'
  BY DEF Next, communicationVars
<1>3. NoteInv /\ OutTyped /\ ChatTypeOK /\ StoreOK => TypeOK
  BY DEF NoteInv, OutTyped, TypeOK
<1> HIDE DEF StoreOK
<1> QED
  BY <1>1, <1>2, <1>3, NoteInvHolds, OutTypedHolds, ChatTypesHold, PTL DEF Spec

-----------------------------------------------------------------------------
(* What a reader of a conversation sees.                                   *)

(* Nobody opened or numbered at the same time as another.                  *)
Alone == chatRaced \cap {"open", "number"} = {}

Numbered(c) == chatCalls[c] # NoCall /\ chatCalls[c].op = "send" /\ chatCalls[c].at = "save"

(* Then messages are stored in the order of their numbers, and whoever     *)
(* holds a number holds the only one, beyond them all.                     *)
NumberInv ==
  Alone =>
    /\ \A i, j \in DOMAIN messages : i < j => messages[i].sequence < messages[j].sequence
    /\ \A c \in Call : Numbered(c) =>
         /\ \A i \in DOMAIN messages : messages[i].sequence < chatCalls[c].sequence
         /\ \A d \in Call : Numbered(d) => d = c

(* ...and they are all of the one conversation.                            *)
LEMMA OneConversationAlone ==
  ASSUME ChatInv, Alone
  PROVE  /\ \A i \in DOMAIN messages : messages[i].conv = convOf
         /\ \A c \in Call : chatCalls[c] # NoCall /\ chatCalls[c].op = "send" => chatCalls[c].conv = convOf
<1>1. opened \subseteq {convOf}
  BY DEF Alone, ChatInv, OpenInv
<1> QED
  BY <1>1 DEF ChatInv, OpenInv

(* A step that stores nothing and takes no number.                         *)
LEMMA NothingNumbered ==
  ASSUME NumberInv, chatRaced \subseteq chatRaced',
         DOMAIN messages' = DOMAIN messages,
         \A i \in DOMAIN messages : messages'[i].sequence = messages[i].sequence,
         \A c \in Call : Numbered(c)' => Numbered(c) /\ chatCalls'[c] = chatCalls[c]
  PROVE  NumberInv'
<1>1. Alone' => Alone
  BY DEF Alone
<1> QED
  BY <1>1 DEF NumberInv

(* A number taken by a handler that is alone exceeds all that are stored.  *)
LEMMA NumberTaken ==
  ASSUME ChatInv, ChatTypeOK, NumberInv, NEW c \in Call, Number(c)
  PROVE  NumberInv'
<1> SUFFICES ASSUME Alone'
             PROVE  NumberInv'
  BY DEF NumberInv
<1> PICK call \in SendCall : call = chatCalls[c] /\ call # NoCall /\ call.op = "send"
  BY SlotFacts DEF Number, ChatAt
<1> PICK n \in Nat : /\ n = NextSequence(call.conv)
                     /\ \A i \in DOMAIN messages : messages[i].conv = call.conv => messages[i].sequence < n
  BY NextIsNumber
<1> PICK next : next = [call EXCEPT !.sequence = n, !.at = "save"]
  OBVIOUS
<1> PICK others : others = {d \in ChatAt("send", "save") : chatCalls[d].conv = call.conv}
  OBVIOUS
<1>1. /\ chatCalls' = [chatCalls EXCEPT ![c] = next] /\ UNCHANGED messages /\ Races(others, "number")
  BY DEF Number, ChatMoves
<1>2. Alone /\ others = {}
  BY <1>1 DEF Alone, Races
<1>3. /\ \A i \in DOMAIN messages : messages[i].conv = convOf
      /\ call.conv = convOf
      /\ \A d \in Call : Numbered(d) => chatCalls[d].conv = convOf
  BY <1>2, OneConversationAlone DEF Numbered
<1>4. \A d \in Call : ~ Numbered(d)
  BY <1>2, <1>3 DEF Numbered, ChatAt
<1>5. /\ chatCalls'[c] = next /\ \A d \in Call \ {c} : chatCalls'[d] = chatCalls[d]
  BY <1>1 DEF ChatTypeOK
<1>6. \A d \in Call : Numbered(d)' => d = c
  BY <1>4, <1>5 DEF Numbered
<1>7. next.sequence = n
  BY DEF SendCall
<1>8. \A i, j \in DOMAIN messages : i < j => messages[i].sequence < messages[j].sequence
  BY <1>2 DEF NumberInv
<1>9. \A i \in DOMAIN messages : messages[i].sequence < chatCalls'[c].sequence
  BY <1>3, <1>5, <1>7
<1>10. \A d \in Call : Numbered(d)' =>
         /\ \A i \in DOMAIN messages : messages[i].sequence < chatCalls'[d].sequence
         /\ \A e \in Call : Numbered(e)' => e = d
  BY <1>6, <1>9
<1> QED
  BY <1>1, <1>8, <1>10 DEF NumberInv

(* Stored by the only handler that holds one, it is the last and the       *)
(* greatest.                                                               *)
LEMMA NumberStored ==
  ASSUME ChatInv, ChatTypeOK, NumberInv, NEW c \in Call, SaveMessage(c)
  PROVE  NumberInv'
<1> SUFFICES ASSUME Alone'
             PROVE  NumberInv'
  BY DEF NumberInv
<1> PICK call \in SendCall : call = chatCalls[c] /\ Numbered(c)
  BY SlotFacts DEF SaveMessage, ChatAt, Numbered
<1> PICK m : m = [conv |-> call.conv, client |-> call.client, sequence |-> call.sequence, reported |-> FALSE]
  OBVIOUS
<1>0. m \in Message /\ m.sequence = call.sequence
  BY DEF SendCall, Message
<1>1. /\ messages' = Append(messages, m) /\ chatCalls' = [chatCalls EXCEPT ![c] = NoCall]
      /\ UNCHANGED chatRaced
  BY DEF SaveMessage, ChatMoves
<1>2. Alone
  BY <1>1 DEF Alone
<1>3. \A d \in Call : ~ Numbered(d)'
  BY <1>1, <1>2 DEF NumberInv, Numbered, ChatTypeOK
<1> PICK L \in Nat : L = Len(messages) /\ DOMAIN messages = 1 .. L
  BY DEF ChatTypeOK
<1>4. /\ DOMAIN messages' = 1 .. L + 1 /\ messages'[L + 1] = m
      /\ \A i \in 1 .. L : messages'[i] = messages[i]
  BY <1>0, <1>1 DEF ChatTypeOK
<1>5. /\ \A i \in 1 .. L : messages[i].sequence < m.sequence
      /\ \A i, j \in 1 .. L : i < j => messages[i].sequence < messages[j].sequence
  BY <1>0, <1>2 DEF NumberInv
<1>6. ASSUME NEW i \in 1 .. L + 1, NEW j \in 1 .. L + 1, i < j
      PROVE  messages'[i].sequence < messages'[j].sequence
  <2>1. i \in 1 .. L /\ (j \in 1 .. L \/ j = L + 1)
    BY <1>6
  <2> QED BY <1>4, <1>5, <1>6, <2>1
<1> QED
  BY <1>3, <1>4, <1>6 DEF NumberInv

(* No other step stores a message or takes a number.                       *)
LEMMA NumberInvStep == ChatInv /\ ChatTypeOK /\ NumberInv /\ [Next]_communicationVars => NumberInv'
<1> SUFFICES ASSUME ChatInv, ChatTypeOK, NumberInv, [Next]_communicationVars
             PROVE  NumberInv'
  OBVIOUS
<1>0. ASSUME NEW c \in Call, NEW next, chatCalls' = [chatCalls EXCEPT ![c] = next],
             next # NoCall => next.op # "send" \/ next.at # "save",
             UNCHANGED messages, chatRaced \subseteq chatRaced'
      PROVE  NumberInv'
  <2>1. chatCalls'[c] = next /\ \A d \in Call \ {c} : chatCalls'[d] = chatCalls[d]
    BY <1>0 DEF ChatTypeOK
  <2>2. \A d \in Call : Numbered(d)' => Numbered(d) /\ chatCalls'[d] = chatCalls[d]
    BY <1>0, <2>1 DEF Numbered
  <2> QED BY <1>0, <2>2, NothingNumbered
<1>1. CASE RideGetsDriver \/ RideMovesOn
  BY <1>1, NothingNumbered DEF RideGetsDriver, RideMovesOn, Numbered
<1>2. ASSUME NEW c \in Call, OpenForRide(c) PROVE NumberInv'
  BY <1>0, <1>2, RacesGrow DEF OpenForRide, ChatMoves
<1>3. ASSUME NEW c \in Call, SaveConversation(c) PROVE NumberInv'
  BY <1>0, <1>3 DEF SaveConversation, ChatMoves
<1>4. ASSUME NEW c \in Call, NEW client \in ClientId, SendMessage(c, client) PROVE NumberInv'
  BY <1>0, <1>4 DEF SendMessage, ChatMoves
<1>5. ASSUME NEW c \in Call, FindConversation(c) PROVE NumberInv'
  <2> PICK call \in SendCall : call = chatCalls[c]
    BY <1>5, SlotFacts DEF FindConversation, ChatAt
  <2> PICK next : next = IF convOf = call.conv THEN [call EXCEPT !.at = "dedupe"] ELSE NoCall
    OBVIOUS
  <2>1. next # NoCall => next.at = "dedupe"
    BY DEF SendCall
  <2>2. chatCalls' = [chatCalls EXCEPT ![c] = next] /\ UNCHANGED <<messages, chatRaced>>
    BY <1>5 DEF FindConversation, ChatMoves
  <2> QED BY <1>0, <2>1, <2>2
<1>6. ASSUME NEW c \in Call, Deduplicate(c) PROVE NumberInv'
  <2> PICK call \in SendCall : call = chatCalls[c]
    BY <1>6, SlotFacts DEF Deduplicate, ChatAt
  <2> PICK next : next = [call EXCEPT !.at = "number"]
    OBVIOUS
  <2>1. next.at = "number"
    BY DEF SendCall
  <2>2. /\ \/ chatCalls' = [chatCalls EXCEPT ![c] = next] /\ \E others : Races(others, call.client)
           \/ chatCalls' = [chatCalls EXCEPT ![c] = NoCall] /\ UNCHANGED chatRaced
        /\ UNCHANGED messages
    BY <1>6 DEF Deduplicate, ChatMoves
  <2>3. chatRaced \subseteq chatRaced'
    BY <2>2, RacesGrow
  <2> QED BY <1>0, <2>1, <2>2, <2>3
<1>7. ASSUME NEW i \in DOMAIN messages, ReportMessage(i) PROVE NumberInv'
  <2> PICK old \in Message : old = messages[i]
    BY DEF ChatTypeOK
  <2> PICK m : m = [old EXCEPT !.reported = TRUE]
    OBVIOUS
  <2>1. m.sequence = old.sequence
    BY DEF Message
  <2>2. messages' = [messages EXCEPT ![i] = m] /\ UNCHANGED <<chatCalls, chatRaced>>
    BY <1>7 DEF ReportMessage
  <2>3. /\ DOMAIN messages' = DOMAIN messages
        /\ \A j \in DOMAIN messages : messages'[j].sequence = messages[j].sequence
    BY <2>1, <2>2
  <2> QED BY <2>2, <2>3, NothingNumbered DEF Numbered
<1>8. ASSUME NEW c \in Call, NEW rater \in Participant, SubmitRating(c, rater) PROVE NumberInv'
  BY <1>0, <1>8 DEF SubmitRating, ChatMoves
<1>9. ASSUME NEW c \in Call, CheckRating(c) PROVE NumberInv'
  <2> PICK call \in RateCall : call = chatCalls[c]
    BY <1>9, SlotFacts DEF CheckRating, ChatAt
  <2> PICK next : next = [call EXCEPT !.at = IF call.at = "check" THEN "recheck" ELSE "push"]
    OBVIOUS
  <2>1. next.at # "save"
    BY DEF RateCall
  <2>2. /\ \/ chatCalls' = [chatCalls EXCEPT ![c] = next] /\ \E others : Races(others, call.rater)
           \/ chatCalls' = [chatCalls EXCEPT ![c] = NoCall] /\ UNCHANGED chatRaced
        /\ UNCHANGED messages
    BY <1>9 DEF CheckRating, ChatMoves
  <2>3. chatRaced \subseteq chatRaced'
    BY <2>2, RacesGrow
  <2> QED BY <1>0, <2>1, <2>2, <2>3
<1>10. ASSUME NEW c \in Call, PushRating(c) PROVE NumberInv'
  BY <1>0, <1>10 DEF PushRating, ChatMoves
<1>11. CASE UNCHANGED chatVars
  BY <1>11, NothingNumbered DEF chatVars, Numbered
<1>12. CASE TalkNext
  BY <1>1, <1>2, <1>3, <1>4, <1>5, <1>6, <1>7, <1>12, NumberTaken, NumberStored DEF TalkNext
<1>13. CASE RatingNext
  BY <1>1, <1>8, <1>9, <1>10, <1>13 DEF RatingNext
<1> QED
  BY <1>11, <1>12, <1>13 DEF Next, communicationVars

(* So numbers follow the order of the saves as long as nobody raced.       *)
LEMMA NumberInvHolds == Spec => []NumberInv
<1>1. Init => NumberInv
  <2> SUFFICES ASSUME Init
               PROVE  NumberInv
    OBVIOUS
  <2>1. DOMAIN messages = {} /\ \A c \in Call : chatCalls[c] = NoCall
    BY DEF Init, ChatInit
  <2> QED BY <2>1 DEF NumberInv, Numbered
<1> QED
  BY <1>1, NumberInvStep, ChatInvHolds, ChatTypesHold, PTL DEF Spec

(* Whoever reads then sees the messages in the order they were stored in.  *)
Page == [p \in 1 .. (IF Len(messages) < PageLimit THEN Len(messages) ELSE PageLimit) |-> p]

PageInOrder == Alone => Shown = Page

(* The first m of the numbers up to n.                                     *)
LEMMA FirstNumbers ==
  ASSUME NEW n \in Nat, NEW m \in 0 .. n
  PROVE  /\ SubSeq([p \in 1 .. n |-> p], 1, m) = [p \in 1 .. m |-> p]
         /\ Len([p \in 1 .. n |-> p]) = n
<1> DEFINE all == [p \in 1 .. n |-> p]
           first == [p \in 1 .. m |-> p]
<1>1. all \in Seq(Nat) /\ Len(all) = n /\ first \in Seq(Nat) /\ Len(first) = m
  OBVIOUS
<1>2. \A i \in 1 .. m : i \in 1 .. n /\ all[i] = i /\ first[i] = i
  OBVIOUS
<1> HIDE DEF all, first
<1>3. /\ SubSeq(all, 1, m) \in Seq(Nat)
      /\ Len(SubSeq(all, 1, m)) = IF 1 <= m THEN m - 1 + 1 ELSE 0
      /\ \A i \in 1 .. (m - 1 + 1) : SubSeq(all, 1, m)[i] = all[1 + i - 1]
  <2>1. \A i \in 1 .. m : all[i] \in Nat
    BY <1>2
  <2> QED BY <2>1, SubSeqProperties
<1>4. Len(SubSeq(all, 1, m)) = m /\ \A i \in 1 .. m : SubSeq(all, 1, m)[i] = first[i]
  BY <1>2, <1>3
<1>5. SubSeq(all, 1, m) = first
  BY <1>1, <1>3, <1>4, SeqEqual
<1> QED
  BY <1>1, <1>5 DEF all, first

(* The page is then the oldest messages, in the order they were stored in. *)
LEMMA ShownInOrder == ChatInv /\ ChatTypeOK /\ NumberInv => PageInOrder
<1> SUFFICES ASSUME ChatInv, ChatTypeOK, NumberInv, Alone
             PROVE  Shown = Page
  BY DEF PageInOrder
<1> PICK L \in Nat : L = Len(messages) /\ DOMAIN messages = 1 .. L
  BY DEF ChatTypeOK
<1>1. MessagesOf(convOf) = 1 .. L
  BY OneConversationAlone DEF MessagesOf
<1>2. ASSUME NEW i \in 1 .. L, NEW j \in 1 .. L PROVE Before(j, i) <=> j < i
  <2>1. messages[i].sequence \in Nat /\ messages[j].sequence \in Nat
    <3>1. messages \in Seq(Message)
      BY DEF ChatTypeOK
    <3>2. messages[i] \in Message /\ messages[j] \in Message
      BY <3>1
    <3> QED BY <3>2 DEF Message
  <2>2. /\ j < i => messages[j].sequence < messages[i].sequence
        /\ i < j => messages[i].sequence < messages[j].sequence
    BY DEF NumberInv
  <2> QED BY <2>1, <2>2 DEF Before
<1>3. ASSUME NEW i \in 1 .. L
      PROVE  Cardinality({j \in MessagesOf(convOf) : Before(j, i)}) = i - 1
  <2>1. {j \in MessagesOf(convOf) : Before(j, i)} = 1 .. (i - 1)
    BY <1>1, <1>2
  <2>2. Cardinality(1 .. (i - 1)) = i - 1
    BY UpTo
  <2> QED BY <2>1, <2>2
<1>4. Cardinality(MessagesOf(convOf)) = L
  BY <1>1, UpTo
<1>5. Sorted(convOf) = [p \in 1 .. L |-> p]
  <2>1. ASSUME NEW p \in 1 .. L
        PROVE  (CHOOSE i \in MessagesOf(convOf) :
                  Cardinality({j \in MessagesOf(convOf) : Before(j, i)}) = p - 1) = p
    <3>1. \A i \in 1 .. L : Cardinality({j \in MessagesOf(convOf) : Before(j, i)}) = p - 1 <=> i = p
      BY <1>3
    <3> QED BY <1>1, <3>1
  <2> QED BY <1>4, <2>1 DEF Sorted
<1> PICK m \in 0 .. L : m = IF L < PageLimit THEN L ELSE PageLimit
  BY ChatAssumption
<1>6. Shown = SubSeq([p \in 1 .. L |-> p], 1, m)
  <2>1. Len([p \in 1 .. L |-> p]) = L
    BY FirstNumbers
  <2> QED BY <1>5, <2>1 DEF Shown
<1> QED
  BY <1>6, FirstNumbers DEF Page

(* What a reader has seen of a conversation stays where it was, unless two *)
(* messages took one number or two conversations were opened at once       *)
(* (ConversationService.peek over listByConversation and nextSequence).    *)
THEOREM HistoryStays == Spec => HistoryOnlyGrows
<1>1. ASSUME ChatTypeOK, ChatTypeOK', PageInOrder, PageInOrder', [Next]_communicationVars,
             chatRaced' \cap {"open", "number"} = {}
      PROVE  IsPrefix(Shown, Shown')
  <2> PICK L \in Nat : L = Len(messages)
    BY <1>1 DEF ChatTypeOK
  <2> PICK M \in Nat : M = Len(messages')
    BY <1>1 DEF ChatTypeOK
  <2>1. Alone /\ L <= M
    <3>1. CASE messages' = messages /\ chatRaced \subseteq chatRaced'
      BY <1>1, <3>1 DEF Alone
    <3>2. ASSUME NEW c \in Call, SaveMessage(c) PROVE Alone /\ L <= M
      <4>1. chatRaced' = chatRaced /\ \E m : messages' = Append(messages, m)
        BY <3>2 DEF SaveMessage
      <4>2. M = L + 1
        BY <1>1, <4>1, AppendProperties DEF ChatTypeOK
      <4> QED BY <1>1, <4>1, <4>2 DEF Alone
    <3>3. ASSUME NEW i \in DOMAIN messages, ReportMessage(i) PROVE Alone /\ L <= M
      BY <1>1, <3>3 DEF ReportMessage, Alone, ChatTypeOK
    <3>4. (messages' = messages /\ chatRaced \subseteq chatRaced')
          \/ (\E c \in Call : SaveMessage(c)) \/ (\E i \in DOMAIN messages : ReportMessage(i))
      BY <1>1, RacesGrow DEF Next, communicationVars, chatVars, TalkNext, RatingNext, RideGetsDriver, RideMovesOn,
         OpenForRide, SaveConversation, SendMessage, FindConversation, Deduplicate, Number, SubmitRating,
         CheckRating, PushRating
    <3> QED BY <3>1, <3>2, <3>3, <3>4
  <2> PICK n \in Nat : n = IF L < PageLimit THEN L ELSE PageLimit
    BY ChatAssumption
  <2> PICK k \in Nat : k = IF M < PageLimit THEN M ELSE PageLimit
    BY ChatAssumption
  <2>2. n \in 0 .. k /\ n \in 0 .. n
    BY <2>1, ChatAssumption
  <2>3. Shown = [p \in 1 .. n |-> p] /\ Shown' = [p \in 1 .. k |-> p]
    BY <1>1, <2>1 DEF PageInOrder, Page, Alone
  <2>4. /\ SubSeq(Shown, 1, n) = [p \in 1 .. n |-> p] /\ Len(Shown) = n
        /\ SubSeq(Shown', 1, n) = [p \in 1 .. n |-> p] /\ Len(Shown') = k
    BY <2>2, <2>3, FirstNumbers
  <2>5. Len(Shown) <= Len(Shown')
    BY <2>2, <2>4
  <2>6. SubSeq(Shown, 1, Len(Shown)) = SubSeq(Shown', 1, Len(Shown))
    BY <2>4
  <2> QED BY <2>5, <2>6 DEF IsPrefix
<1>2. ChatTypeOK /\ ChatTypeOK' /\ PageInOrder /\ PageInOrder' /\ [Next]_communicationVars =>
        [chatRaced' \cap {"open", "number"} = {} => IsPrefix(Shown, Shown')]_chatVars
  BY <1>1
<1> QED
  BY <1>2, ShownInOrder, ChatInvHolds, ChatTypesHold, NumberInvHolds, PTL DEF Spec, HistoryOnlyGrows
=============================================================================

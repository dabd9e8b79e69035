------------------------------- MODULE Outbox -------------------------------
(***************************************************************************)
(* The outbox: OutboxDispatcher (domain/outbox.ts) over the in-memory      *)
(* store (infrastructure/memory/outbox.ts).                                *)
(*                                                                         *)
(* A call is one dispatch() of the one dispatcher; dispatches may overlap. *)
(* Consumers are external: an event in Poison makes its consumer throw, an *)
(* event in Orphan has no consumer, the others are handled.  The store     *)
(* does nothing after an await of its own, so marking an event belongs to  *)
(* the step that decided it.                                               *)
(***************************************************************************)
EXTENDS Wiring, Naturals, Sequences, FiniteSets

CONSTANTS
  OutEvent,     \* event ids
  Poison, Orphan,
  BatchSize, MaxAttempts

OutCall == [left: Seq(OutEvent), at: {"next", "handle"}]

ASSUME OutboxAssumption ==
  /\ Poison \subseteq OutEvent /\ Orphan \subseteq OutEvent
  /\ BatchSize \in Nat \ {0} /\ MaxAttempts \in Nat
  /\ NoCall \notin OutCall

VARIABLES
  outbox,     \* the ids in the store, oldest first
  outStatus,  \* outStatus[e], "absent" before it is appended
  attempts,   \* attempts[e], counted by markFailed
  delivered,  \* the ids the dispatcher remembers
  outCalls,   \* outCalls[c]: what is left of the batch, and the await
  handled,    \* history: handled[e]: how often the consumer accepted it
  outRaced    \* history: events two dispatches handed over at once

outboxVars == <<outbox, outStatus, attempts, delivered, outCalls, handled, outRaced>>

OutStatus == {"absent", "pending", "dispatched", "failed"}

OutboxTypeOK ==
  /\ outbox \in Seq(OutEvent)
  /\ outStatus \in [OutEvent -> OutStatus]
  /\ attempts \in [OutEvent -> Nat]
  /\ delivered \subseteq OutEvent /\ outRaced \subseteq OutEvent
  /\ outCalls \in [Call -> OutCall \cup {NoCall}]
  /\ handled \in [OutEvent -> Nat]

OutboxInit ==
  /\ outbox = <<>>
  /\ outStatus = [e \in OutEvent |-> "absent"]
  /\ attempts = [e \in OutEvent |-> 0]
  /\ delivered = {} /\ outRaced = {}
  /\ outCalls = [c \in Call |-> NoCall]
  /\ handled = [e \in OutEvent |-> 0]

-----------------------------------------------------------------------------
(* append: an id that is already there is left alone.                      *)
AppendEvent(e) ==
  /\ outStatus[e] = "absent"
  /\ outbox' = Append(outbox, e)
  /\ outStatus' = [outStatus EXCEPT ![e] = "pending"]
  /\ UNCHANGED <<attempts, delivered, outCalls, handled, outRaced>>

SlipListPending(limit) ==
  LET first == SubSeq(outbox, 1, IF Len(outbox) < limit THEN Len(outbox) ELSE limit) IN
  SelectSeq(first, LAMBDA e : outStatus[e] = "pending")

(* listPending: the oldest pending events, up to a limit.                  *)
ListPending(limit) ==
  LET pending == {i \in DOMAIN outbox : outStatus[outbox[i]] = "pending"}
      listed == IF Cardinality(pending) < limit THEN Cardinality(pending) ELSE limit IN
  [k \in 1 .. listed |->
     outbox[CHOOSE i \in pending : Cardinality({j \in pending : j < i}) = k - 1]]

MarkDispatched(e) == outStatus' = [outStatus EXCEPT ![e] = "dispatched"] /\ UNCHANGED attempts

MarkFailed(e) ==
  /\ outStatus' = [outStatus EXCEPT ![e] = "failed"]
  /\ attempts' = [attempts EXCEPT ![e] = @ + 1]

(* dispatch lists its batch.                                               *)
Dispatch(c) ==
  /\ outCalls[c] = NoCall
  /\ ListPending(BatchSize) # <<>>
  /\ outCalls' = [outCalls EXCEPT ![c] = [left |-> ListPending(BatchSize), at |-> "next"]]
  /\ UNCHANGED <<outbox, outStatus, attempts, delivered, handled, outRaced>>

(* The rest of the batch, or the end of dispatch.                          *)
Advance(c) ==
  outCalls' = [outCalls EXCEPT ![c] =
    IF Len(@.left) = 1 THEN NoCall ELSE [left |-> Tail(@.left), at |-> "next"]]

HandedOver(e) ==
  \E c \in Call :
    outCalls[c] # NoCall /\ outCalls[c].at = "handle" /\ Head(outCalls[c].left) = e

SlipSeenBefore(e) == FALSE

(* The dispatcher's own memory of what it delivered.                       *)
SeenBefore(e) == e \in delivered

(* The next event was delivered before, has no consumer, or is handed over.*)
TakeNext(c) ==
  LET e == Head(outCalls[c].left) IN
  /\ outCalls[c] # NoCall /\ outCalls[c].at = "next"
  /\ CASE SeenBefore(e) -> MarkDispatched(e) /\ Advance(c) /\ UNCHANGED outRaced
       [] ~ SeenBefore(e) /\ e \in Orphan -> MarkFailed(e) /\ Advance(c) /\ UNCHANGED outRaced
       [] OTHER ->
            /\ outCalls' = [outCalls EXCEPT ![c].at = "handle"]
            /\ outRaced' = IF HandedOver(e) THEN outRaced \cup {e} ELSE outRaced
            /\ UNCHANGED <<outStatus, attempts>>
  /\ UNCHANGED <<outbox, delivered, handled>>

(* The consumer accepts the event.                                         *)
ConsumerHandles(c) ==
  LET e == Head(outCalls[c].left) IN
  /\ outCalls[c] # NoCall /\ outCalls[c].at = "handle"
  /\ e \notin Poison
  /\ handled' = [handled EXCEPT ![e] = @ + 1]
  /\ delivered' = delivered \cup {e}
  /\ MarkDispatched(e)
  /\ Advance(c)
  /\ UNCHANGED <<outbox, outRaced>>

(* The consumer throws.  The event is failed on what would be its last     *)
(* attempt, but a throw is not counted as one, so with MaxAttempts above 1 *)
(* the event just stays pending.                                           *)
ConsumerThrows(c) ==
  LET e == Head(outCalls[c].left) IN
  /\ outCalls[c] # NoCall /\ outCalls[c].at = "handle"
  /\ e \in Poison
  /\ IF attempts[e] + 1 >= MaxAttempts THEN MarkFailed(e) ELSE UNCHANGED <<outStatus, attempts>>
  /\ Advance(c)
  /\ UNCHANGED <<outbox, delivered, handled, outRaced>>

OutboxStep(c) == TakeNext(c) \/ ConsumerHandles(c) \/ ConsumerThrows(c)

OutboxNext ==
  \/ \E e \in OutEvent : AppendEvent(e)
  \/ \E c \in Call : Dispatch(c) \/ OutboxStep(c)

-----------------------------------------------------------------------------
(* Properties.                                                             *)

(* An event reaches its consumer once, unless two dispatches handed it     *)
(* over at the same time; nothing is called dispatched that no consumer    *)
(* accepted, and nothing accepted is handed over again.  No event is lost  *)
(* or retired by mistake: one that was appended is waiting, was accepted,  *)
(* or failed for want of a consumer.                                       *)
DeliveredOnce ==
  \A e \in OutEvent :
    /\ e \notin outRaced => handled[e] <= 1
    /\ outStatus[e] = "dispatched" <=> handled[e] > 0
    /\ e \in delivered <=> handled[e] > 0
    /\ outStatus[e] = "failed" => e \in Orphan \/ (e \in Poison /\ MaxAttempts <= 1)

(* An event whose consumer works is delivered in the end, as long as the   *)
(* batch has room for it beside the events that are never retired.         *)
GoodIsDelivered ==
  \A e \in OutEvent \ (Poison \cup Orphan) :
    outStatus[e] = "pending" ~> outStatus[e] = "dispatched"
=============================================================================

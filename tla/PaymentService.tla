--------------------------- MODULE PaymentService ---------------------------
(***************************************************************************)
(* application/payment-service.ts over the in-memory stores, the wiring    *)
(* its tests and the demo runtime use: Pix intents under an idempotency    *)
(* key, provider webhooks, and the settlement they post to the ledger.     *)
(*                                                                         *)
(* The store hands out the stored intent itself, so a change is visible to *)
(* every handler at once and saving it again changes nothing.  A store     *)
(* method runs up to its end when it is called; the handler goes on later, *)
(* when its promise is resumed, and any other call may run in between.     *)
(*                                                                         *)
(* The provider is external.  It notifies every intent whose creation      *)
(* returned, delivers each notification any number of times and in any     *)
(* order, and signs it; requests it did not send arrive unsigned.          *)
(***************************************************************************)
EXTENDS Ledger, PaymentIntent, Sequences, SequencesExt

CONSTANTS
  KeyOf,     \* the idempotency key each intent is created with
  Call,      \* slots for concurrent handlers
  EventId,   \* ids of provider notifications; bounds how many it sends
  MaxDepth,  \* bound: reversals of reversals
  NoJob

ASSUME PaymentAssumption == MaxDepth \in Nat

VARIABLES
  status,     \* status[p]: of the stored intent, or "none" before its save
  seenEvents, \* seenEvents[p]: the notification ids the intent has seen
  ledger,     \* the entries appended, in order
  sent,       \* the notifications the provider sent
  pc,         \* pc[c]: where the call waits
  job         \* job[c]: the call's arguments and progress

vars == <<status, seenEvents, ledger, sent, pc, job>>

Notice == [id: EventId, payment: Payment, status: ProviderStatus]

CreateJob == [payment: Payment]
WebhookJob(posted) ==
  [payment: Payment, notice: Notice, signed: BOOLEAN, posted: posted]

(* What a call carries at each of the places where it waits.               *)
JobAt ==
  [idle |-> {NoJob},
   order |-> CreateJob, create |-> CreateJob,
   apply |-> WebhookJob({0}), saved |-> WebhookJob({0}),
   settle |-> WebhookJob(1..Len(PartyOrder))]

(* The variables have their types, and a call carries what it needs where  *)
(* it waits: a settlement under way has posted at least one entry and at   *)
(* most all four.                                                          *)
TypeOK ==
  /\ status \in [Payment -> IntentStatus \cup {"none"}]
  /\ seenEvents \in [Payment -> SUBSET EventId]
  /\ ledger \in Seq(EntryRecord)
  /\ sent \subseteq Notice
  /\ pc \in [Call -> DOMAIN JobAt]
  /\ DOMAIN job = Call
  /\ \A c \in Call : job[c] \in JobAt[pc[c]]

Init ==
  /\ status = [p \in Payment |-> "none"]
  /\ seenEvents = [p \in Payment |-> {}]
  /\ ledger = <<>>
  /\ sent = {}
  /\ pc = [c \in Call |-> "idle"]
  /\ job = [c \in Call |-> NoJob]

End(c) ==
  /\ pc' = [pc EXCEPT ![c] = "idle"]
  /\ job' = [job EXCEPT ![c] = NoJob]

Stored(p) == status[p] # "none"

(* Calls that work on a payment.                                           *)
InFlight(p) == \E c \in Call : pc[c] # "idle" /\ job[c].payment = p

SlipAppended(e) == Append(ledger, e)

(* append of InMemoryLedgerStore: an entry with a known id is dropped.     *)
Appended(e) ==
  IF \E i \in DOMAIN ledger : EntryId(ledger[i]) = EntryId(e)
  THEN ledger
  ELSE Append(ledger, e)

-----------------------------------------------------------------------------
(* createPixIntent.                                                        *)

(* The key is free and the intent is made; ids are fresh.                  *)
CreatePixIntent(c, p) ==
  /\ pc[c] = "idle"
  /\ ~ Stored(p) /\ ~ InFlight(p)
  /\ \A q \in Payment : KeyOf[q] = KeyOf[p] => ~ Stored(q)
  /\ pc' = [pc EXCEPT ![c] = "order"]
  /\ job' = [job EXCEPT ![c] = [payment |-> p]]
  /\ UNCHANGED <<status, seenEvents, ledger, sent>>

(* createPixOrder answers; the intent is saved before the handler yields.  *)
OrderCreated(c) ==
  /\ pc[c] = "order"
  /\ pc' = [pc EXCEPT ![c] = "create"]
  /\ status' = [status EXCEPT ![job[c].payment] = "pending"]
  /\ UNCHANGED <<seenEvents, ledger, sent, job>>

(* createPixOrder rejects.                                                 *)
OrderRejected(c) ==
  /\ pc[c] = "order"
  /\ End(c)
  /\ UNCHANGED <<status, seenEvents, ledger, sent>>

Created(c) ==
  /\ pc[c] = "create"
  /\ End(c)
  /\ UNCHANGED <<status, seenEvents, ledger, sent>>

-----------------------------------------------------------------------------
(* handleWebhook.                                                          *)

(* The signature is verified and the intent found; an unknown payment is   *)
(* refused.                                                                *)
HandleWebhook(c, notice, signed) ==
  /\ pc[c] = "idle"
  /\ signed => notice \in sent
  /\ Stored(notice.payment)
  /\ pc' = [pc EXCEPT ![c] = "apply"]
  /\ job' = [job EXCEPT ![c] =
       [payment |-> notice.payment, notice |-> notice, signed |-> signed, posted |-> 0]]
  /\ UNCHANGED <<status, seenEvents, ledger, sent>>

(* applyProviderEvent throws, or finds a duplicate.                        *)
Discard(c) ==
  /\ pc[c] = "apply"
  /\ job[c].signed => job[c].notice.id \in seenEvents[job[c].payment]
  /\ End(c)
  /\ UNCHANGED <<status, seenEvents, ledger, sent>>

(* A signed event no one has seen is recorded, whatever becomes of it.     *)
SlipRecordEvent(c) ==
  /\ pc[c] = "apply"
  /\ job[c].notice.id \notin seenEvents[job[c].payment]
  /\ seenEvents' = [seenEvents EXCEPT ![job[c].payment] = @ \cup {job[c].notice.id}]

RecordEvent(c) ==
  /\ pc[c] = "apply"
  /\ job[c].signed
  /\ job[c].notice.id \notin seenEvents[job[c].payment]
  /\ seenEvents' = [seenEvents EXCEPT ![job[c].payment] = @ \cup {job[c].notice.id}]

IgnoreOutOfOrder(c) ==
  /\ RecordEvent(c)
  /\ ~ Applies(status[job[c].payment], job[c].notice.status)
  /\ End(c)
  /\ UNCHANGED <<status, ledger, sent>>

ApplyProviderEvent(c) ==
  /\ RecordEvent(c)
  /\ Applies(status[job[c].payment], job[c].notice.status)
  /\ status' = [status EXCEPT ![job[c].payment] = job[c].notice.status]
  /\ pc' = [pc EXCEPT ![c] = "saved"]
  /\ UNCHANGED <<ledger, sent, job>>

SlipPostNext(c) ==
  /\ ledger' = Appended(Posting(job[c].payment, PartyOrder[job[c].posted + 1]))
  /\ UNCHANGED job

(* Posting the next entry of the settlement; append runs at once.          *)
PostNext(c) ==
  LET next == job[c].posted + 1
  IN  /\ ledger' = Appended(Posting(job[c].payment, PartyOrder[next]))
      /\ job' = [job EXCEPT ![c].posted = next]

(* After the save the handler looks at the intent's status again.          *)
SlipSettleRide(c) ==
  /\ pc[c] = "saved"
  /\ PostNext(c)
  /\ pc' = [pc EXCEPT ![c] = "settle"]
  /\ UNCHANGED <<status, seenEvents, sent>>

SettleRide(c) ==
  /\ pc[c] = "saved"
  /\ status[job[c].payment] = "paid"
  /\ PostNext(c)
  /\ pc' = [pc EXCEPT ![c] = "settle"]
  /\ UNCHANGED <<status, seenEvents, sent>>

NothingToSettle(c) ==
  /\ pc[c] = "saved"
  /\ status[job[c].payment] # "paid"
  /\ End(c)
  /\ UNCHANGED <<status, seenEvents, ledger, sent>>

SlipSettleMore(c) ==
  /\ pc[c] = "settle"
  /\ job[c].posted < 3
  /\ PostNext(c)
  /\ UNCHANGED <<status, seenEvents, sent, pc>>

SettleMore(c) ==
  /\ pc[c] = "settle"
  /\ job[c].posted < Len(PartyOrder)
  /\ PostNext(c)
  /\ UNCHANGED <<status, seenEvents, sent, pc>>

SlipSettled(c) ==
  /\ pc[c] = "settle"
  /\ End(c)
  /\ UNCHANGED <<status, seenEvents, ledger, sent>>

Settled(c) ==
  /\ pc[c] = "settle"
  /\ job[c].posted = Len(PartyOrder)
  /\ End(c)
  /\ UNCHANGED <<status, seenEvents, ledger, sent>>

-----------------------------------------------------------------------------
(* compensateEntry: an append, and nothing after it.                       *)
CompensateEntry(e) ==
  /\ e.depth < MaxDepth
  /\ ledger' = Appended(Reversal(e))
  /\ UNCHANGED <<status, seenEvents, sent, pc, job>>

(* The provider notifies: a failed attempt, a payment, or the refund of a  *)
(* payment; an id is used once.                                            *)
ProviderSends(notice) ==
  /\ Stored(notice.payment)
  /\ \A c \in Call : ~ (pc[c] = "create" /\ job[c].payment = notice.payment)
  /\ notice.id \notin {n.id : n \in sent}
  /\ notice.status = "refunded" =>
       \E n \in sent : n.payment = notice.payment /\ n.status = "paid"
  /\ sent' = sent \cup {notice}
  /\ UNCHANGED <<status, seenEvents, ledger, pc, job>>

(* expireIfLapsed and markRefundPending act on the stored intent at once;  *)
(* when time has passed is left open.                                      *)
ExpireIfLapsed(p) ==
  /\ status[p] = "pending"
  /\ status' = [status EXCEPT ![p] = "expired"]
  /\ UNCHANGED <<seenEvents, ledger, sent, pc, job>>

MarkRefundPending(p) ==
  /\ status[p] = "paid"
  /\ status' = [status EXCEPT ![p] = "refund_pending"]
  /\ UNCHANGED <<seenEvents, ledger, sent, pc, job>>

-----------------------------------------------------------------------------
CallContinues(c) ==
  \/ OrderCreated(c) \/ OrderRejected(c) \/ Created(c)
  \/ Discard(c) \/ IgnoreOutOfOrder(c) \/ ApplyProviderEvent(c)
  \/ SettleRide(c) \/ NothingToSettle(c) \/ SettleMore(c) \/ Settled(c)

Next ==
  \/ \E c \in Call :
       \/ \E p \in Payment : CreatePixIntent(c, p)
       \/ \E notice \in Notice, signed \in BOOLEAN : HandleWebhook(c, notice, signed)
       \/ CallContinues(c)
  \/ \E i \in DOMAIN ledger : CompensateEntry(ledger[i])
  \/ \E notice \in Notice : ProviderSends(notice)
  \/ \E p \in Payment : ExpireIfLapsed(p) \/ MarkRefundPending(p)

Spec == Init /\ [][Next]_vars

(* A promise that can be resumed is resumed in time: the event loop runs   *)
(* every ready continuation.  Nobody has to call, pay or notify.           *)
Fairness == \A c \in Call : WF_vars(CallContinues(c))

FairSpec == Spec /\ Fairness

-----------------------------------------------------------------------------
(* The settlement of a payment as it stands, reversals aside.              *)
Postings(p) == {e \in Range(ledger) : e.payment = p /\ e.depth = 0}

Signed(e) == IF e.direction = "credit" THEN e.amount ELSE - e.amount

Balance(entries) == SumFunctionOnSet([i \in DOMAIN ledger |-> Signed(ledger[i])], entries)

Whole(p) ==
  /\ {e.party : e \in Postings(p)} = Party
  /\ Balance({i \in DOMAIN ledger : ledger[i].payment = p /\ ledger[i].depth = 0})
       = AmountOf[p]

(* When no call works on a payment its settlement is complete, to the      *)
(* cent, or was never begun; and it is complete if the payment is paid.    *)
(* What lies between are the four appends of settleRide, an await after    *)
(* each, with other webhooks in between.                                   *)
SettledWhole ==
  \A p \in Payment :
    ~ InFlight(p) => \/ Whole(p)
                     \/ Postings(p) = {} /\ status[p] # "paid"

(* What a party holds is its posted share or, after an odd number of       *)
(* compensations, nothing, however often a settlement or a compensation    *)
(* is asked for: compensateEntry reverses an entry at most once.           *)
BalancesAreExact ==
  \A p \in Payment, party \in Party :
    LET own == {i \in DOMAIN ledger :
                  ledger[i].payment = p /\ ledger[i].party = party}
    IN  Balance(own) \in
          {0} \cup {Signed(e) : e \in {x \in Postings(p) : x.party = party}}

(* Money is booked only for a payment the provider itself reported paid:   *)
(* handleWebhook takes no caller's word for it, and no order of            *)
(* deliveries and calls gets around the signature.                         *)
NothingBookedUnconfirmed ==
  \A e \in Range(ledger) :
    \E n \in sent : n.payment = e.payment /\ n.status = "paid"

(* Every step is a step of the abstract book of payments, or none.         *)
Book == INSTANCE PaymentBook WITH book <- Range(ledger)
ImplementsBook == Book!Spec

(* A payment that is recorded as paid is settled, unless its refund is     *)
(* ordered or reported first: handleWebhook runs settleRide after the save. *)
PaidIsSettled ==
  \A p \in Payment :
    status[p] = "paid" ~> Whole(p) \/ status[p] \in {"refund_pending", "refunded"}
=============================================================================

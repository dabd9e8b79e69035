--------------------------- MODULE Subscriptions ----------------------------
(***************************************************************************)
(* SaaS billing: application/subscription-service.ts over                  *)
(* domain/subscription.ts, the in-memory repository, which hands out the   *)
(* stored object, and the saas half of the ledger.                         *)
(*                                                                         *)
(* A handler loads the subscription and changes it without yielding; only  *)
(* subscribe does anything that matters after its save, which for an       *)
(* object that is already stored changes nothing.  Audit records are left  *)
(* out.  Time is counted in the clock's own units.                         *)
(***************************************************************************)
EXTENDS Wiring, Integers, Sequences

CONSTANTS
  SubId,       \* ids newId() may hand out
  Customer,    \* the tenants that subscribe
  Price,       \* PLANS: a price for every plan of the catalogue
  FirstPlan,   \* the plan of a trial
  TrialDays, GraceDays,
  MaxDay,      \* bound on the clock
  NoSub, NoDay

Plan == DOMAIN Price

SubStatus == {"TRIAL", "ACTIVE", "PAST_DUE", "SUSPENDED", "CANCELLED", "EXPIRED"}

Subscription ==
  [customer: Customer, plan: Plan, status: SubStatus, trialEnds: Nat, graceEnds: Nat \cup {NoDay}]

VARIABLES
  today,      \* the clock
  subs,       \* subs[s]: the stored subscription
  stored,     \* their ids in the order they were stored
  billing,    \* billing[c]: the handler in the slot
  saas,       \* the saas ledger: one entry to an idempotency key
  charged,    \* history: the charges postCharge was asked for
  refused,    \* history: subscriptions whose subscribe threw after changing them
  crowded     \* history: subscriptions whose trials were started at once

billingVars == <<today, subs, stored, billing, saas, charged, refused, crowded>>

(* SUBSCRIPTION_TRANSITIONS.                                               *)
SubEdge ==
  {<<"TRIAL", "ACTIVE">>, <<"TRIAL", "EXPIRED">>, <<"TRIAL", "CANCELLED">>,
   <<"ACTIVE", "PAST_DUE">>, <<"ACTIVE", "SUSPENDED">>, <<"ACTIVE", "CANCELLED">>,
   <<"PAST_DUE", "ACTIVE">>, <<"PAST_DUE", "SUSPENDED">>, <<"PAST_DUE", "CANCELLED">>,
   <<"SUSPENDED", "ACTIVE">>, <<"SUSPENDED", "CANCELLED">>}

MayBecome(sub, to) == <<sub.status, to>> \in SubEdge

BillingCall ==
  [at: {"save", "debit", "credit"}, sub: SubId, customer: Customer, plan: Plan, time: Nat]

ASSUME BillingAssumption ==
  /\ Price \in [Plan -> Nat \ {0}]
  /\ FirstPlan \in Plan
  /\ TrialDays \in Nat /\ GraceDays \in Nat
  /\ NoDay \notin Nat /\ NoSub \notin Subscription
  /\ NoCall \notin BillingCall

(* A charge, and the entry of it on one side of the ledger.                *)
Charge == [sub: SubId, time: Nat, amount: Nat]
Side == {"debit", "credit"}

BillingTypeOK ==
  /\ today \in Nat
  /\ subs \in [SubId -> Subscription \cup {NoSub}]
  /\ stored \in Seq(SubId)
  /\ billing \in [Call -> BillingCall \cup {NoCall}]
  /\ saas \subseteq Charge \X Side
  /\ charged \subseteq Charge
  /\ refused \subseteq SubId /\ crowded \subseteq SubId

BillingInit ==
  /\ today = 0
  /\ subs = [s \in SubId |-> NoSub]
  /\ stored = <<>>
  /\ billing = [c \in Call |-> NoCall]
  /\ saas = {} /\ charged = {}
  /\ refused = {} /\ crowded = {}

-----------------------------------------------------------------------------
(* The subscription object.                                                *)

(* isOperational.                                                          *)
Operational(sub, now) ==
  \/ sub.status = "TRIAL" /\ now <= sub.trialEnds
  \/ sub.status = "ACTIVE"
  \/ sub.status = "PAST_DUE" /\ sub.graceEnds # NoDay /\ now <= sub.graceEnds

SlipLapseOf(sub, now) ==
  CASE sub.status = "TRIAL" /\ now >= sub.trialEnds -> "EXPIRED"
    [] sub.status = "PAST_DUE" /\ sub.graceEnds # NoDay /\ now > sub.graceEnds -> "SUSPENDED"
    [] OTHER -> "none"

(* lapse's effect.                                                         *)
LapseOf(sub, now) ==
  CASE sub.status = "TRIAL" /\ now > sub.trialEnds -> "EXPIRED"
    [] sub.status = "PAST_DUE" /\ sub.graceEnds # NoDay /\ now > sub.graceEnds -> "SUSPENDED"
    [] OTHER -> "none"

SlipFailed(sub, now) == [sub EXCEPT !.status = "PAST_DUE", !.graceEnds = now - GraceDays]

(* recordChargeFailure, when the table allows it.                          *)
Failed(sub, now) == [sub EXCEPT !.status = "PAST_DUE", !.graceEnds = now + GraceDays]

(* What recordPayment writes before it asks the table.                     *)
Priced(sub, plan) == [sub EXCEPT !.plan = plan, !.graceEnds = NoDay]

-----------------------------------------------------------------------------
(* Handlers.                                                               *)

StoredFor(customer) == {s \in SubId : subs[s] # NoSub /\ subs[s].customer = customer}

(* Trials of the customer that another call is about to store.             *)
Starting(customer) ==
  {s \in SubId : \E c \in Call :
     billing[c] # NoCall /\ billing[c].at = "save" /\ billing[c].sub = s
       /\ billing[c].customer = customer}

(* findByTenantId: the first that was stored.                              *)
FindByTenantId(customer, s) ==
  \E i \in DOMAIN stored :
    /\ stored[i] = s /\ subs[s].customer = customer
    /\ \A j \in 1 .. (i - 1) : subs[stored[j]].customer # customer

LooksNew(customer) == StoredFor(customer) = {}

(* startTrial up to its check; the id is fresh.                            *)
StartTrial(c, s, customer) ==
  /\ billing[c] = NoCall
  /\ subs[s] = NoSub
  /\ \A o \in Call : billing[o] # NoCall => billing[o].sub # s
  /\ LooksNew(customer)
  /\ billing' = [billing EXCEPT ![c] =
       [at |-> "save", sub |-> s, customer |-> customer, plan |-> FirstPlan, time |-> today]]
  /\ crowded' = crowded \cup
       (IF Starting(customer) = {} THEN {} ELSE Starting(customer) \cup {s})
  /\ UNCHANGED <<today, stored, subs, saas, charged, refused>>

(* The new object is stored.                                               *)
SaveTrial(c) ==
  LET call == billing[c] IN
  /\ call # NoCall /\ call.at = "save"
  /\ subs' = [subs EXCEPT ![call.sub] =
       [customer |-> call.customer, plan |-> FirstPlan, status |-> "TRIAL",
        trialEnds |-> call.time + TrialDays, graceEnds |-> NoDay]]
  /\ stored' = Append(stored, call.sub)
  /\ billing' = [billing EXCEPT ![c] = NoCall]
  /\ UNCHANGED <<today, saas, charged, refused, crowded>>

SlipSubscribe(c, s, customer, plan) ==
  /\ billing[c] = NoCall
  /\ FindByTenantId(customer, s)
  /\ MayBecome(subs[s], "ACTIVE")
  /\ subs' = [subs EXCEPT ![s].plan = plan, ![s].status = "ACTIVE"]
  /\ UNCHANGED <<today, stored, billing, saas, charged, refused, crowded>>

(* subscribe up to its save; the charge follows.                           *)
Subscribe(c, s, customer, plan) ==
  /\ billing[c] = NoCall
  /\ FindByTenantId(customer, s)
  /\ MayBecome(subs[s], "ACTIVE")
  /\ subs' = [subs EXCEPT ![s] = [Priced(@, plan) EXCEPT !.status = "ACTIVE"]]
  /\ billing' = [billing EXCEPT ![c] =
       [at |-> "debit", sub |-> s, customer |-> customer, plan |-> plan, time |-> today]]
  /\ UNCHANGED <<today, stored, saas, charged, refused, crowded>>

(* recordPayment writes the plan and the grace period, then throws.        *)
SubscribeRefused(s, customer, plan) ==
  /\ FindByTenantId(customer, s)
  /\ ~ MayBecome(subs[s], "ACTIVE")
  /\ subs' = [subs EXCEPT ![s] = Priced(@, plan)]
  /\ refused' = refused \cup {s}
  /\ UNCHANGED <<today, stored, billing, saas, charged, crowded>>

(* The ledger ignores an entry whose id it has: the subscription and the   *)
(* instant of the charge.                                                  *)
Post(entry) ==
  saas' = IF \E e \in saas : e[1].sub = entry[1].sub /\ e[1].time = entry[1].time /\ e[2] = entry[2]
          THEN saas ELSE saas \cup {entry}

(* postCharge reads the clock and appends the debit of the tenant.         *)
PostDebit(c) ==
  LET call == billing[c]
      charge == [sub |-> call.sub, time |-> today, amount |-> Price[call.plan]] IN
  /\ call # NoCall /\ call.at = "debit"
  /\ Post(<<charge, "debit">>)
  /\ charged' = charged \cup {charge}
  /\ billing' = [billing EXCEPT ![c].at = "credit", ![c].time = today]
  /\ UNCHANGED <<today, stored, subs, refused, crowded>>

SlipPostCredit(c) ==
  LET call == billing[c]
      charge == [sub |-> call.sub, time |-> today, amount |-> Price[call.plan]] IN
  /\ call # NoCall /\ call.at = "credit"
  /\ Post(<<charge, "credit">>)
  /\ billing' = [billing EXCEPT ![c] = NoCall]
  /\ UNCHANGED <<today, stored, subs, charged, refused, crowded>>

(* The credit of MOVO, with the same id, and the end of subscribe.         *)
PostCredit(c) ==
  LET call == billing[c]
      charge == [sub |-> call.sub, time |-> call.time, amount |-> Price[call.plan]] IN
  /\ call # NoCall /\ call.at = "credit"
  /\ Post(<<charge, "credit">>)
  /\ billing' = [billing EXCEPT ![c] = NoCall]
  /\ UNCHANGED <<today, stored, subs, charged, refused, crowded>>

RecordChargeFailure(s, customer) ==
  /\ FindByTenantId(customer, s)
  /\ MayBecome(subs[s], "PAST_DUE")
  /\ subs' = [subs EXCEPT ![s] = Failed(@, today)]
  /\ UNCHANGED <<today, stored, billing, saas, charged, refused, crowded>>

(* lapse, when it has an effect.                                           *)
Lapse(s, customer) ==
  /\ FindByTenantId(customer, s)
  /\ LapseOf(subs[s], today) # "none"
  /\ subs' = [subs EXCEPT ![s].status = LapseOf(subs[s], today)]
  /\ UNCHANGED <<today, stored, billing, saas, charged, refused, crowded>>

CancelSubscription(s, customer) ==
  /\ FindByTenantId(customer, s)
  /\ MayBecome(subs[s], "CANCELLED")
  /\ subs' = [subs EXCEPT ![s].status = "CANCELLED"]
  /\ UNCHANGED <<today, stored, billing, saas, charged, refused, crowded>>

DayPasses ==
  /\ today < MaxDay
  /\ today' = today + 1
  /\ UNCHANGED <<subs, stored, billing, saas, charged, refused, crowded>>

BillingNext ==
  \/ \E s \in SubId, customer \in Customer :
       \/ \E c \in Call : StartTrial(c, s, customer)
       \/ \E c \in Call, plan \in Plan : Subscribe(c, s, customer, plan)
       \/ \E plan \in Plan : SubscribeRefused(s, customer, plan)
       \/ RecordChargeFailure(s, customer) \/ Lapse(s, customer) \/ CancelSubscription(s, customer)
  \/ \E c \in Call : SaveTrial(c) \/ PostDebit(c) \/ PostCredit(c)
  \/ DayPasses

-----------------------------------------------------------------------------
(* Properties.                                                             *)

(* A trial, or a subscription in its grace period, either operates or is   *)
(* due to lapse, at every instant and whatever was refused in between:     *)
(* there is no gap at the deadline, and none that a cleared grace period   *)
(* could leave for good.  And nobody loses service before the deadline: an *)
(* expired trial has had all its days, and a suspended subscription its    *)
(* whole grace period.                                                     *)
OperatesOrLapses ==
  \A s \in SubId :
    subs[s] # NoSub =>
      /\ subs[s].status \in {"TRIAL", "PAST_DUE"} =>
           (Operational(subs[s], today) <=> LapseOf(subs[s], today) = "none")
      /\ subs[s].status = "EXPIRED" => today > subs[s].trialEnds
      /\ subs[s].status = "SUSPENDED" => subs[s].graceEnds \in Nat /\ today > subs[s].graceEnds

SameId(charge, other) == charge.sub = other.sub /\ charge.time = other.time

(* The charge is between its two appends.                                  *)
Posting(charge) ==
  \E c \in Call :
    /\ billing[c] # NoCall /\ billing[c].at = "credit"
    /\ billing[c].sub = charge.sub /\ billing[c].time = charge.time

(* The saas ledger is in balance but for the charges being posted: a debit *)
(* has its credit, with the same amount unless two charges of one          *)
(* subscription fell on one instant, and no credit is without its debit.   *)
SaasBalances ==
  \A charge \in {e[1] : e \in saas} :
    /\ \E e \in saas : SameId(e[1], charge) /\ e[2] = "debit"
    /\ \/ <<charge, "debit">> \in saas /\ <<charge, "credit">> \in saas
       \/ Posting(charge)
       \/ \E other \in charged : SameId(other, charge) /\ other # charge

(* A plan is paid for: a subscription that serves on a plan was charged    *)
(* its price, in the ledger unless another charge has its id, or is about  *)
(* to be charged, or a subscribe that was refused changed the plan.        *)
PlanIsCharged ==
  \A s \in SubId :
    subs[s] # NoSub /\ subs[s].status \in {"ACTIVE", "PAST_DUE"} =>
      \/ s \in refused
      \/ \E charge \in charged :
           /\ charge.sub = s /\ charge.amount = Price[subs[s].plan]
           /\ \E e \in saas : SameId(e[1], charge)
      \/ \E c \in Call : billing[c] # NoCall /\ billing[c].sub = s /\ billing[c].at = "debit"

(* A tenant has two subscriptions only if its trials were started at once. *)
OneSubscription ==
  \A s, r \in SubId :
    s # r /\ subs[s] # NoSub /\ subs[r] # NoSub /\ subs[s].customer = subs[r].customer
      => {s, r} \subseteq crowded
=============================================================================

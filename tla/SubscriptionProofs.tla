------------------------- MODULE SubscriptionProofs -------------------------
(***************************************************************************)
(* Subscriptions and the saas ledger, for any number of handlers, trials   *)
(* and plans, and with them what the three services of the back office     *)
(* have in common.                                                         *)
(***************************************************************************)
EXTENDS BackOfficeProofs, SequenceTheorems

(* What a call between two of its steps holds.                             *)
TrialKnows(c) ==
  billing[c] # NoCall /\ billing[c].at = "save" =>
    /\ subs[billing[c].sub] = NoSub
    /\ \A d \in Call \ {c} : billing[d] # NoCall => billing[d].sub # billing[c].sub

ChargeOf(call) == [sub |-> call.sub, time |-> call.time, amount |-> Price[call.plan]]

CreditKnows(c) ==
  billing[c] # NoCall /\ billing[c].at = "credit" =>
    /\ ChargeOf(billing[c]) \in charged
    /\ \E e \in saas : SameId(e[1], ChargeOf(billing[c])) /\ e[2] = "debit"

(* The dates a subscription needs in its status, and the charge of its     *)
(* plan, made or about to be made by a call that holds the plan.           *)
SubKept(s) ==
  subs[s] # NoSub =>
    /\ subs[s].status = "PAST_DUE" => subs[s].graceEnds \in Nat
    /\ subs[s].status = "EXPIRED" => today > subs[s].trialEnds
    /\ subs[s].status = "SUSPENDED" => subs[s].graceEnds \in Nat /\ today > subs[s].graceEnds
    /\ subs[s].status \in {"ACTIVE", "PAST_DUE"} =>
         \/ s \in refused
         \/ \E charge \in charged :
              /\ charge.sub = s /\ charge.amount = Price[subs[s].plan]
              /\ \E e \in saas : SameId(e[1], charge)
         \/ \E c \in Call :
              /\ billing[c] # NoCall /\ billing[c].sub = s /\ billing[c].at = "debit"
              /\ billing[c].plan = subs[s].plan

TrialsCrowded ==
  /\ \A c \in Call, s \in SubId :
       /\ billing[c] # NoCall /\ billing[c].at = "save" /\ subs[s] # NoSub
       /\ subs[s].customer = billing[c].customer
       => {s, billing[c].sub} \subseteq crowded
  /\ \A c, d \in Call :
       /\ c # d /\ billing[c] # NoCall /\ billing[d] # NoCall
       /\ billing[c].at = "save" /\ billing[d].at = "save"
       /\ billing[c].customer = billing[d].customer
       => {billing[c].sub, billing[d].sub} \subseteq crowded

BillingInv ==
  /\ BillingTypeOK
  /\ \A i \in DOMAIN stored : subs[stored[i]] # NoSub
  /\ \A e \in saas : e[1] \in charged
  /\ \A c \in Call : TrialKnows(c) /\ CreditKnows(c)
  /\ \A s \in SubId : SubKept(s)
  /\ SaasBalances /\ TrialsCrowded /\ OneSubscription

(* A step that posts nothing and drops no call that has a credit to post.  *)
LEMMA SaasKept ==
  ASSUME SaasBalances, UNCHANGED saas, charged \subseteq charged',
         \A c \in Call : billing[c] # NoCall /\ billing[c].at = "credit" => billing'[c] = billing[c]
  PROVE  SaasBalances'
<1> SUFFICES ASSUME NEW charge \in {e[1] : e \in saas}
             PROVE  /\ \E e \in saas : SameId(e[1], charge) /\ e[2] = "debit"
                    /\ \/ <<charge, "debit">> \in saas /\ <<charge, "credit">> \in saas
                       \/ Posting(charge)'
                       \/ \E other \in charged' : SameId(other, charge) /\ other # charge
  BY DEF SaasBalances, SameId
<1>1. /\ \E e \in saas : SameId(e[1], charge) /\ e[2] = "debit"
      /\ \/ <<charge, "debit">> \in saas /\ <<charge, "credit">> \in saas
         \/ Posting(charge)
         \/ \E other \in charged : SameId(other, charge) /\ other # charge
  BY DEF SaasBalances
<1>2. Posting(charge) => Posting(charge)'
  BY DEF Posting
<1> QED
  BY <1>1, <1>2

(* The handlers that only change a stored subscription, from what it was   *)
(* to what it becomes, and perhaps begin a charge of its new plan.         *)
SubChanged(s, becomes) ==
  /\ subs[s] # NoSub
  /\ becomes \in Subscription /\ becomes.customer = subs[s].customer
  /\ becomes.status = "PAST_DUE" => becomes.graceEnds \in Nat
  /\ becomes.status = "EXPIRED" => today > becomes.trialEnds
  /\ becomes.status = "SUSPENDED" => becomes.graceEnds \in Nat /\ today > becomes.graceEnds
  /\ subs' = [subs EXCEPT ![s] = becomes]
  /\ UNCHANGED <<today, stored, saas, charged, crowded>>

LEMMA ChangedSub ==
  ASSUME BillingInv, NEW s \in SubId, NEW becomes, SubChanged(s, becomes),
         BillingTypeOK', refused \subseteq refused',
         \A c \in Call : billing'[c] = billing[c] \/ (billing[c] = NoCall /\ billing'[c].at = "debit"),
         becomes.status \in {"ACTIVE", "PAST_DUE"} =>
           \/ s \in refused'
           \/ subs[s].status \in {"ACTIVE", "PAST_DUE"} /\ becomes.plan = subs[s].plan
           \/ \E c \in Call : billing'[c] # NoCall /\ billing'[c].sub = s /\ billing'[c].at = "debit"
                                /\ billing'[c].plan = becomes.plan,
         \A c \in Call : billing'[c] # billing[c] => billing'[c].sub = s
  PROVE  BillingInv'
<1> USE BillingAssumption DEF SubChanged
<1>1. /\ becomes # NoSub /\ subs'[s] = becomes /\ \A r \in SubId \ {s} : subs'[r] = subs[r]
      /\ UNCHANGED <<today, saas, charged, crowded>>
  BY DEF BillingInv, BillingTypeOK
<1>2. \A c \in Call : billing'[c] # NoCall /\ billing'[c].at \in {"save", "credit"} => billing'[c] = billing[c]
  OBVIOUS
<1>3. ASSUME NEW c \in Call PROVE TrialKnows(c)' /\ CreditKnows(c)'
  <2>1. TrialKnows(c) /\ CreditKnows(c)
    BY DEF BillingInv
  <2>2. TrialKnows(c)'
    BY <1>1, <1>2, <2>1 DEF TrialKnows, BillingInv, BillingTypeOK, BillingCall
  <2>3. CreditKnows(c)'
    BY <1>1, <1>2, <2>1 DEF CreditKnows
  <2> QED
    BY <2>2, <2>3
<1>4. SubKept(s)'
  BY <1>1 DEF BillingInv, SubKept
<1>5. ASSUME NEW r \in SubId \ {s} PROVE SubKept(r)'
  <2>1. SubKept(r)
    BY DEF BillingInv
  <2> QED
    BY <1>1, <2>1 DEF SubKept
<1>6. SaasBalances'
  BY <1>1, SaasKept DEF BillingInv
<1>7. TrialsCrowded' /\ OneSubscription'
  BY <1>1, <1>2 DEF BillingInv, TrialsCrowded, OneSubscription
<1>8. \A i \in DOMAIN stored' : subs'[stored'[i]] # NoSub
  BY <1>1 DEF BillingInv, BillingTypeOK
<1> QED
  BY <1>1, <1>3, <1>4, <1>5, <1>6, <1>7, <1>8 DEF BillingInv

LEMMA FoundIsStored ==
  ASSUME BillingInv, NEW s \in SubId, NEW customer, FindByTenantId(customer, s)
  PROVE  subs[s] \in Subscription /\ SubKept(s)
  BY DEF BillingInv, BillingTypeOK, FindByTenantId

LEMMA StartTrialStep ==
  ASSUME BillingInv, NEW c \in Call, NEW s \in SubId, NEW customer \in Customer,
         StartTrial(c, s, customer)
  PROVE  BillingInv'
<1> USE BillingAssumption DEF StartTrial
<1> PICK call \in BillingCall :
      call = [at |-> "save", sub |-> s, customer |-> customer, plan |-> FirstPlan, time |-> today]
  BY DEF BillingInv, BillingTypeOK, BillingCall
<1>1. /\ billing'[c] = call /\ call # NoCall /\ \A d \in Call \ {c} : billing'[d] = billing[d]
      /\ billing[c] = NoCall /\ UNCHANGED <<today, subs, stored, saas, charged, refused>>
  BY DEF BillingInv, BillingTypeOK
<1>2. crowded \subseteq crowded' /\ crowded' \subseteq SubId
  BY DEF BillingInv, BillingTypeOK, Starting
<1>3. BillingTypeOK'
  BY <1>1, <1>2 DEF BillingInv, BillingTypeOK
<1>4. ASSUME NEW d \in Call PROVE TrialKnows(d)' /\ CreditKnows(d)'
  <2>1. TrialKnows(d) /\ CreditKnows(d)
    BY DEF BillingInv
  <2>2. \A o \in Call : billing[o] # NoCall => billing[o].sub # s
    OBVIOUS
  <2>3. TrialKnows(d)'
    BY <1>1, <2>1, <2>2 DEF TrialKnows
  <2>4. CreditKnows(d)'
    BY <1>1, <2>1 DEF CreditKnows
  <2> QED
    BY <2>3, <2>4
<1>5. ASSUME NEW r \in SubId PROVE SubKept(r)'
  <2>1. SubKept(r)
    BY DEF BillingInv
  <2> QED
    BY <1>1, <2>1 DEF SubKept
<1>6. SaasBalances' /\ OneSubscription'
  BY <1>1, <1>2, SaasKept DEF BillingInv, OneSubscription
<1>7. ASSUME NEW d \in Call, NEW r \in SubId, billing'[d] # NoCall, billing'[d].at = "save",
             subs'[r] # NoSub, subs'[r].customer = billing'[d].customer
      PROVE  {r, billing'[d].sub} \subseteq crowded'
  <2>1. d # c
    BY <1>1, <1>7 DEF LooksNew, StoredFor
  <2> QED
    BY <1>1, <1>2, <1>7, <2>1 DEF BillingInv, TrialsCrowded
<1>8. ASSUME NEW d \in Call, billing[d] # NoCall, billing[d].at = "save", billing[d].customer = customer
      PROVE  {s, billing[d].sub} \subseteq crowded'
  <2>1. billing[d].sub \in Starting(customer)
    BY <1>8 DEF Starting, BillingInv, BillingTypeOK, BillingCall
  <2> QED
    BY <2>1
<1>9. ASSUME NEW d \in Call, NEW e \in Call, d # e, billing'[d] # NoCall, billing'[e] # NoCall,
             billing'[d].at = "save", billing'[e].at = "save",
             billing'[d].customer = billing'[e].customer
      PROVE  {billing'[d].sub, billing'[e].sub} \subseteq crowded'
  <2>1. CASE d # c /\ e # c
    BY <1>1, <1>2, <1>9, <2>1 DEF BillingInv, TrialsCrowded
  <2>2. CASE d = c
    BY <1>1, <1>8, <1>9, <2>2
  <2>3. CASE e = c
    BY <1>1, <1>8, <1>9, <2>3
  <2> QED
    BY <2>1, <2>2, <2>3
<1>10. TrialsCrowded'
  BY <1>7, <1>9 DEF TrialsCrowded
<1> QED
  BY <1>1, <1>3, <1>4, <1>5, <1>6, <1>10 DEF BillingInv

LEMMA SaveTrialStep ==
  ASSUME BillingInv, NEW c \in Call, SaveTrial(c)
  PROVE  BillingInv'
<1> USE BillingAssumption
<1> PICK call \in BillingCall : billing[c] = call /\ call.at = "save"
  BY DEF BillingInv, BillingTypeOK, SaveTrial
<1> PICK ends \in Nat : ends = call.time + TrialDays
  BY DEF BillingCall
<1>a. [customer |-> call.customer, plan |-> FirstPlan, status |-> "TRIAL",
       trialEnds |-> ends, graceEnds |-> NoDay] \in Subscription
  BY DEF Subscription, SubStatus, BillingCall
<1> PICK sub \in Subscription :
      sub = [customer |-> call.customer, plan |-> FirstPlan, status |-> "TRIAL",
             trialEnds |-> call.time + TrialDays, graceEnds |-> NoDay]
  BY <1>a
<1>1. /\ call.sub \in SubId /\ sub # NoSub /\ call # NoCall
      /\ subs' = [subs EXCEPT ![call.sub] = sub]
      /\ subs'[call.sub] = sub /\ subs[call.sub] = NoSub
      /\ \A r \in SubId \ {call.sub} : subs'[r] = subs[r]
      /\ billing'[c] = NoCall /\ \A d \in Call \ {c} : billing'[d] = billing[d]
      /\ stored' = Append(stored, call.sub)
      /\ UNCHANGED <<today, saas, charged, refused, crowded>>
  BY DEF BillingInv, BillingTypeOK, SaveTrial, BillingCall, TrialKnows
<1>2. BillingTypeOK'
  BY <1>1 DEF BillingInv, BillingTypeOK, SaveTrial
<1>3. ASSUME NEW d \in Call PROVE TrialKnows(d)' /\ CreditKnows(d)'
  <2>1. TrialKnows(d) /\ CreditKnows(d) /\ TrialKnows(c)
    BY DEF BillingInv
  <2>2. TrialKnows(d)'
    <3> SUFFICES ASSUME d # c, billing[d] # NoCall, billing[d].at = "save"
                 PROVE  /\ subs'[billing[d].sub] = NoSub
                        /\ \A e \in Call \ {d} : billing'[e] # NoCall => billing'[e].sub # billing[d].sub
      BY <1>1 DEF TrialKnows
    <3>1. billing[d].sub \in SubId /\ billing[d].sub # call.sub
      BY <1>1, <2>1 DEF TrialKnows, BillingInv, BillingTypeOK, BillingCall
    <3>2. /\ subs[billing[d].sub] = NoSub
          /\ \A e \in Call \ {d} : billing[e] # NoCall => billing[e].sub # billing[d].sub
      BY <2>1 DEF TrialKnows
    <3> QED
      BY <1>1, <3>1, <3>2
  <2>3. CreditKnows(d)'
    BY <1>1, <2>1 DEF CreditKnows
  <2> QED
    BY <2>2, <2>3
<1>4. ASSUME NEW r \in SubId PROVE SubKept(r)'
  <2>1. SubKept(r)
    BY DEF BillingInv
  <2>2. CASE r = call.sub
    BY <1>1, <2>2 DEF SubKept
  <2>3. CASE r # call.sub
    BY <1>1, <2>1, <2>3 DEF SubKept
  <2> QED
    BY <2>2, <2>3
<1>5. SaasBalances'
  BY <1>1, SaasKept DEF BillingInv
<1>6. OneSubscription'
  BY <1>1 DEF BillingInv, OneSubscription, TrialsCrowded
<1>7. ASSUME NEW d \in Call, NEW r \in SubId, billing'[d] # NoCall, billing'[d].at = "save",
             subs'[r] # NoSub, subs'[r].customer = billing'[d].customer
      PROVE  {r, billing'[d].sub} \subseteq crowded'
  <2>1. d # c /\ billing'[d] = billing[d]
    BY <1>1, <1>7
  <2>2. CASE r = call.sub
    BY <1>1, <1>7, <2>1, <2>2 DEF BillingInv, TrialsCrowded
  <2>3. CASE r # call.sub
    BY <1>1, <1>7, <2>1, <2>3 DEF BillingInv, TrialsCrowded
  <2> QED
    BY <2>2, <2>3
<1>9. \A d, e \in Call :
       /\ d # e /\ billing'[d] # NoCall /\ billing'[e] # NoCall
       /\ billing'[d].at = "save" /\ billing'[e].at = "save"
       /\ billing'[d].customer = billing'[e].customer
       => {billing'[d].sub, billing'[e].sub} \subseteq crowded'
  <2>1. \A d \in Call : billing'[d] # NoCall /\ billing'[d].at = "save" => billing'[d] = billing[d]
    BY <1>1
  <2>2. crowded \subseteq crowded'
    BY <1>1
  <2> QED
    BY <2>1, <2>2 DEF BillingInv, TrialsCrowded
<1>10. TrialsCrowded'
  BY <1>7, <1>9 DEF TrialsCrowded
<1>8. \A i \in DOMAIN stored' : subs'[stored'[i]] # NoSub
  BY <1>1 DEF BillingInv, BillingTypeOK
<1> QED
  BY <1>1, <1>2, <1>3, <1>4, <1>5, <1>6, <1>8, <1>10 DEF BillingInv

LEMMA SubscribeStep ==
  ASSUME BillingInv, NEW c \in Call, NEW s \in SubId, NEW customer \in Customer, NEW plan \in Plan,
         Subscribe(c, s, customer, plan)
  PROVE  BillingInv'
<1> USE BillingAssumption
<1>1. subs[s] \in Subscription /\ SubKept(s)
  BY FoundIsStored DEF Subscribe
<1> PICK becomes \in Subscription : becomes = [Priced(subs[s], plan) EXCEPT !.status = "ACTIVE"]
  BY <1>1 DEF Priced, Subscription, SubStatus
<1> PICK call \in BillingCall :
      call = [at |-> "debit", sub |-> s, customer |-> customer, plan |-> plan, time |-> today]
  BY DEF BillingInv, BillingTypeOK, BillingCall
<1>2. SubChanged(s, becomes)
  BY <1>1 DEF SubChanged, Subscribe, Priced, BillingInv, BillingTypeOK, Subscription
<1>3. /\ billing'[c] = call /\ call # NoCall /\ \A d \in Call \ {c} : billing'[d] = billing[d]
      /\ billing[c] = NoCall /\ billing' \in [Call -> BillingCall \cup {NoCall}]
      /\ refused' = refused
  BY DEF Subscribe, BillingInv, BillingTypeOK
<1>4. BillingTypeOK'
  BY <1>2, <1>3 DEF SubChanged, BillingInv, BillingTypeOK
<1>5. becomes.plan = plan
  BY <1>1 DEF Priced, Subscription
<1>6. \A d \in Call : billing'[d] = billing[d] \/ (billing[d] = NoCall /\ billing'[d].at = "debit")
  BY <1>3
<1>7. \A d \in Call : billing'[d] # billing[d] => billing'[d].sub = s
  BY <1>3
<1>8. \E d \in Call : billing'[d] # NoCall /\ billing'[d].sub = s /\ billing'[d].at = "debit"
                      /\ billing'[d].plan = becomes.plan
  BY <1>3, <1>5
<1>9. refused \subseteq refused'
  BY <1>3
<1> QED
  BY <1>2, <1>4, <1>6, <1>7, <1>8, <1>9, ChangedSub

LEMMA RefusedStep ==
  ASSUME BillingInv, NEW s \in SubId, NEW customer \in Customer, NEW plan \in Plan,
         SubscribeRefused(s, customer, plan)
  PROVE  BillingInv'
<1> USE BillingAssumption
<1>1. subs[s] \in Subscription /\ SubKept(s)
  BY FoundIsStored DEF SubscribeRefused
<1> PICK becomes \in Subscription : becomes = Priced(subs[s], plan)
  BY <1>1 DEF Priced, Subscription, SubStatus
<1>2. becomes.status = subs[s].status /\ becomes.customer = subs[s].customer
      /\ becomes.trialEnds = subs[s].trialEnds
      /\ becomes.status \notin {"PAST_DUE", "SUSPENDED"}
  BY <1>1 DEF Priced, Subscription, SubscribeRefused, MayBecome, SubEdge
<1>3. SubChanged(s, becomes)
  BY <1>1, <1>2 DEF SubChanged, SubscribeRefused, SubKept
<1>4. refused' = refused \cup {s} /\ billing' = billing
  BY DEF SubscribeRefused
<1>5. BillingTypeOK'
  BY <1>3, <1>4 DEF SubChanged, BillingInv, BillingTypeOK
<1> QED
  BY <1>3, <1>4, <1>5, ChangedSub

(* recordChargeFailure, lapse and cancel.                                  *)
LEMMA StatusStep ==
  ASSUME BillingInv, NEW s \in SubId, NEW customer \in Customer,
         RecordChargeFailure(s, customer) \/ Lapse(s, customer) \/ CancelSubscription(s, customer)
  PROVE  BillingInv'
<1> USE BillingAssumption
<1>1. subs[s] \in Subscription /\ SubKept(s) /\ today \in Nat
  BY FoundIsStored DEF RecordChargeFailure, Lapse, CancelSubscription, BillingInv, BillingTypeOK
<1>2. UNCHANGED <<today, stored, billing, saas, charged, refused, crowded>>
  BY DEF RecordChargeFailure, Lapse, CancelSubscription
<1>3. CASE RecordChargeFailure(s, customer)
  <2> PICK ends \in Nat : ends = today + GraceDays
    BY <1>1
  <2> PICK becomes \in Subscription : becomes = Failed(subs[s], today)
    BY <1>1 DEF Failed, Subscription, SubStatus
  <2>1. becomes.status = "PAST_DUE" /\ becomes.graceEnds \in Nat /\ becomes.plan = subs[s].plan
        /\ becomes.customer = subs[s].customer /\ subs[s].status = "ACTIVE"
    BY <1>1, <1>3 DEF Failed, Subscription, RecordChargeFailure, MayBecome, SubEdge
  <2>2. SubChanged(s, becomes)
    BY <1>1, <1>2, <1>3, <2>1 DEF SubChanged, RecordChargeFailure
  <2>3. BillingTypeOK'
    BY <1>2, <2>2 DEF SubChanged, BillingInv, BillingTypeOK
  <2> QED
    BY <1>2, <2>1, <2>2, <2>3, ChangedSub
<1>4. CASE Lapse(s, customer)
  <2> PICK becomes \in Subscription : becomes = [subs[s] EXCEPT !.status = LapseOf(subs[s], today)]
    BY <1>1, <1>4 DEF Lapse, LapseOf, Subscription, SubStatus
  <2>1. /\ becomes.status = "EXPIRED" => today > becomes.trialEnds
        /\ becomes.status = "SUSPENDED" => becomes.graceEnds \in Nat /\ today > becomes.graceEnds
        /\ becomes.status \in {"EXPIRED", "SUSPENDED"} /\ becomes.customer = subs[s].customer
    BY <1>1, <1>4 DEF Lapse, LapseOf, Subscription
  <2>2. SubChanged(s, becomes)
    BY <1>1, <1>2, <1>4, <2>1 DEF SubChanged, Lapse
  <2>3. BillingTypeOK'
    BY <1>2, <2>2 DEF SubChanged, BillingInv, BillingTypeOK
  <2> QED
    BY <1>2, <2>1, <2>2, <2>3, ChangedSub
<1>5. CASE CancelSubscription(s, customer)
  <2> PICK becomes \in Subscription : becomes = [subs[s] EXCEPT !.status = "CANCELLED"]
    BY <1>1 DEF Subscription, SubStatus
  <2>1. becomes.status = "CANCELLED" /\ becomes.customer = subs[s].customer
    BY <1>1 DEF Subscription
  <2>2. SubChanged(s, becomes)
    BY <1>1, <1>2, <1>5, <2>1 DEF SubChanged, CancelSubscription
  <2>3. BillingTypeOK'
    BY <1>2, <2>2 DEF SubChanged, BillingInv, BillingTypeOK
  <2> QED
    BY <1>2, <2>1, <2>2, <2>3, ChangedSub
<1> QED
  BY <1>3, <1>4, <1>5

(* What an append leaves in the ledger, whether or not the id was there.   *)
LEMMA Posted ==
  ASSUME BillingTypeOK, NEW charge \in Charge, NEW side \in Side, Post(<<charge, side>>)
  PROVE  /\ saas \subseteq saas' /\ saas' \subseteq saas \cup {<<charge, side>>}
         /\ saas' \subseteq Charge \X Side
         /\ \E e \in saas' : SameId(e[1], charge) /\ e[2] = side
<1>1. CASE \E e \in saas : e[1].sub = charge.sub /\ e[1].time = charge.time /\ e[2] = side
  <2>1. saas' = saas
    BY <1>1 DEF Post
  <2> QED
    BY <1>1, <2>1 DEF BillingTypeOK, SameId
<1>2. CASE ~ \E e \in saas : e[1].sub = charge.sub /\ e[1].time = charge.time /\ e[2] = side
  <2>1. saas' = saas \cup {<<charge, side>>}
    BY <1>2 DEF Post
  <2> QED
    BY <2>1 DEF BillingTypeOK, SameId
<1> QED
  BY <1>1, <1>2

LEMMA PostDebitStep ==
  ASSUME BillingInv, NEW c \in Call, PostDebit(c)
  PROVE  BillingInv'
<1> USE BillingAssumption
<1> PICK call \in BillingCall : billing[c] = call /\ call.at = "debit"
  BY DEF BillingInv, BillingTypeOK, PostDebit
<1>0. today \in Nat /\ call.sub \in SubId /\ call.plan \in Plan /\ Price[call.plan] \in Nat
  BY DEF BillingInv, BillingTypeOK, BillingCall, Plan
<1> PICK charge \in Charge : charge = [sub |-> call.sub, time |-> today, amount |-> Price[call.plan]]
  BY <1>0 DEF Charge
<1> PICK next \in BillingCall : next = [call EXCEPT !.at = "credit", !.time = today]
  BY <1>0 DEF BillingCall
<1>1. /\ Post(<<charge, "debit">>) /\ charged' = charged \cup {charge}
      /\ UNCHANGED <<today, stored, subs, refused, crowded>>
      /\ billing' = [billing EXCEPT ![c] = next]
  BY DEF PostDebit, BillingInv, BillingTypeOK, BillingCall
<1>2. /\ billing'[c] = next /\ next # NoCall /\ call # NoCall
      /\ \A d \in Call \ {c} : billing'[d] = billing[d]
      /\ next.at = "credit" /\ next.sub = call.sub /\ next.time = today /\ ChargeOf(next) = charge
  BY <1>1 DEF BillingInv, BillingTypeOK, BillingCall, ChargeOf
<1>3. /\ saas \subseteq saas' /\ saas' \subseteq saas \cup {<<charge, "debit">>}
      /\ saas' \subseteq Charge \X Side
      /\ \E e \in saas' : SameId(e[1], charge) /\ e[2] = "debit"
  BY <1>1, Posted DEF BillingInv, Side
<1>4. BillingTypeOK'
  BY <1>1, <1>3 DEF BillingInv, BillingTypeOK
<1>5. \A e \in saas' : e[1] \in charged'
  BY <1>1, <1>3 DEF BillingInv
<1>6. ASSUME NEW d \in Call PROVE TrialKnows(d)' /\ CreditKnows(d)'
  <2>1. TrialKnows(d) /\ CreditKnows(d)
    BY DEF BillingInv
  <2>2. TrialKnows(d)'
    BY <1>1, <1>2, <2>1 DEF TrialKnows
  <2>3. CASE d = c
    BY <1>1, <1>2, <1>3, <2>2, <2>3 DEF CreditKnows
  <2>4. CASE d # c
    BY <1>1, <1>2, <1>3, <2>1, <2>2, <2>4 DEF CreditKnows
  <2> QED
    BY <2>3, <2>4
<1>7. ASSUME NEW r \in SubId PROVE SubKept(r)'
  <2> SUFFICES ASSUME subs[r] # NoSub, subs[r].status \in {"ACTIVE", "PAST_DUE"}, r \notin refused
               PROVE  \/ \E paid \in charged' :
                           /\ paid.sub = r /\ paid.amount = Price[subs[r].plan]
                           /\ \E e \in saas' : SameId(e[1], paid)
                      \/ \E d \in Call :
                           /\ billing'[d] # NoCall /\ billing'[d].sub = r /\ billing'[d].at = "debit"
                           /\ billing'[d].plan = subs[r].plan
    BY <1>1 DEF BillingInv, SubKept
  <2>1. CASE call.sub = r /\ call.plan = subs[r].plan
    BY <1>1, <1>3, <2>1 DEF Charge
  <2>2. CASE ~ (call.sub = r /\ call.plan = subs[r].plan)
    <3>1. \/ \E paid \in charged :
               /\ paid.sub = r /\ paid.amount = Price[subs[r].plan]
               /\ \E e \in saas : SameId(e[1], paid)
          \/ \E d \in Call :
               /\ billing[d] # NoCall /\ billing[d].sub = r /\ billing[d].at = "debit"
               /\ billing[d].plan = subs[r].plan
      BY DEF BillingInv, SubKept
    <3> QED
      BY <1>1, <1>2, <1>3, <2>2, <3>1
  <2> QED
    BY <2>1, <2>2
<1>8. SaasBalances'
  <2> SUFFICES ASSUME NEW old \in {e[1] : e \in saas'}
               PROVE  /\ \E e \in saas' : SameId(e[1], old) /\ e[2] = "debit"
                      /\ \/ <<old, "debit">> \in saas' /\ <<old, "credit">> \in saas'
                         \/ Posting(old)'
                         \/ \E other \in charged' : SameId(other, old) /\ other # old
    BY DEF SaasBalances, SameId
  <2>1. CASE old = charge
    <3>1. charge.sub = next.sub /\ charge.time = next.time
      BY <1>2
    <3>2. Posting(charge)'
      BY <1>2, <3>1 DEF Posting
    <3> QED
      BY <1>3, <2>1, <3>2
  <2>2. CASE old # charge
    <3>1. old \in {e[1] : e \in saas}
      BY <1>3, <2>2
    <3>2. Posting(old) => Posting(old)'
      BY <1>2 DEF Posting
    <3> QED
      BY <1>1, <1>3, <3>1, <3>2 DEF BillingInv, SaasBalances
  <2> QED
    BY <2>1, <2>2
<1>9. TrialsCrowded' /\ OneSubscription'
  BY <1>1, <1>2 DEF BillingInv, TrialsCrowded, OneSubscription
<1>10. \A i \in DOMAIN stored' : subs'[stored'[i]] # NoSub
  BY <1>1 DEF BillingInv
<1> QED
  BY <1>4, <1>5, <1>6, <1>7, <1>8, <1>9, <1>10 DEF BillingInv

LEMMA PostCreditStep ==
  ASSUME BillingInv, NEW c \in Call, PostCredit(c)
  PROVE  BillingInv'
<1> USE BillingAssumption
<1> PICK call \in BillingCall : billing[c] = call /\ call.at = "credit"
  BY DEF BillingInv, BillingTypeOK, PostCredit
<1>0. call # NoCall /\ call.sub \in SubId /\ call.time \in Nat /\ Price[call.plan] \in Nat
  BY DEF BillingInv, BillingTypeOK, BillingCall, Plan
<1> PICK charge \in Charge : charge = ChargeOf(call)
  BY <1>0 DEF Charge, ChargeOf
<1>1. /\ Post(<<charge, "credit">>) /\ UNCHANGED <<today, stored, subs, charged, refused, crowded>>
      /\ billing' = [billing EXCEPT ![c] = NoCall]
  BY DEF PostCredit, ChargeOf
<1>2. billing'[c] = NoCall /\ \A d \in Call \ {c} : billing'[d] = billing[d]
  BY <1>1 DEF BillingInv, BillingTypeOK
<1>3. /\ saas \subseteq saas' /\ saas' \subseteq saas \cup {<<charge, "credit">>}
      /\ saas' \subseteq Charge \X Side
      /\ \E e \in saas' : SameId(e[1], charge) /\ e[2] = "credit"
  BY <1>1, Posted DEF BillingInv, Side
<1>4. charge \in charged /\ \E e \in saas : SameId(e[1], charge) /\ e[2] = "debit"
  BY <1>0 DEF BillingInv, CreditKnows
<1>5. BillingTypeOK'
  BY <1>1, <1>3 DEF BillingInv, BillingTypeOK
<1>6. \A e \in saas' : e[1] \in charged'
  BY <1>1, <1>3, <1>4 DEF BillingInv
<1>7. ASSUME NEW d \in Call PROVE TrialKnows(d)' /\ CreditKnows(d)'
  <2>1. TrialKnows(d) /\ CreditKnows(d)
    BY DEF BillingInv
  <2> QED
    BY <1>1, <1>2, <1>3, <2>1 DEF TrialKnows, CreditKnows
<1>8. ASSUME NEW r \in SubId PROVE SubKept(r)'
  <2>1. SubKept(r)
    BY DEF BillingInv
  <2>2. \A d \in Call : billing[d] # NoCall /\ billing[d].at = "debit" => billing'[d] = billing[d]
    BY <1>2
  <2> QED
    BY <1>1, <1>3, <2>1, <2>2 DEF SubKept
<1>9. SaasBalances'
  <2> SUFFICES ASSUME NEW old \in {e[1] : e \in saas'}
               PROVE  /\ \E e \in saas' : SameId(e[1], old) /\ e[2] = "debit"
                      /\ \/ <<old, "debit">> \in saas' /\ <<old, "credit">> \in saas'
                         \/ Posting(old)'
                         \/ \E other \in charged' : SameId(other, old) /\ other # old
    BY DEF SaasBalances, SameId
  <2>1. CASE old = charge
    <3>1. PICK e \in saas : SameId(e[1], charge) /\ e[2] = "debit"
      BY <1>4
    <3>2. PICK f \in saas' : SameId(f[1], charge) /\ f[2] = "credit"
      BY <1>3
    <3>3. e[1] \in charged' /\ f[1] \in charged' /\ e \in saas' /\ e = <<e[1], e[2]>> /\ f = <<f[1], f[2]>>
      BY <1>3, <1>6
    <3>4. CASE e[1] = charge /\ f[1] = charge
      BY <2>1, <3>1, <3>2, <3>3, <3>4
    <3>5. CASE ~ (e[1] = charge /\ f[1] = charge)
      BY <2>1, <3>1, <3>2, <3>3, <3>5
    <3> QED
      BY <3>4, <3>5
  <2>2. CASE old # charge
    <3>1. /\ \E e \in saas : SameId(e[1], old) /\ e[2] = "debit"
          /\ \/ <<old, "debit">> \in saas /\ <<old, "credit">> \in saas
             \/ Posting(old)
             \/ \E other \in charged : SameId(other, old) /\ other # old
      BY <1>3, <2>2 DEF BillingInv, SaasBalances
    <3>2. Posting(old) => Posting(old)' \/ SameId(charge, old)
      BY <1>2 DEF Posting, SameId, ChargeOf
    <3> QED
      BY <1>1, <1>3, <1>4, <2>2, <3>1, <3>2
  <2> QED
    BY <2>1, <2>2
<1>10. TrialsCrowded' /\ OneSubscription'
  BY <1>1, <1>2 DEF BillingInv, TrialsCrowded, OneSubscription
<1>11. \A i \in DOMAIN stored' : subs'[stored'[i]] # NoSub
  BY <1>1 DEF BillingInv
<1> QED
  BY <1>5, <1>6, <1>7, <1>8, <1>9, <1>10, <1>11 DEF BillingInv

(* A step that leaves the subscriptions alone, or only the clock advances. *)
LEMMA ClockStep ==
  ASSUME BillingInv, UNCHANGED <<subs, stored, billing, saas, charged, refused, crowded>>,
         today' \in Nat, today' >= today
  PROVE  BillingInv'
<1>1. BillingTypeOK'
  BY DEF BillingInv, BillingTypeOK
<1>2. ASSUME NEW r \in SubId PROVE SubKept(r)'
  <2>1. SubKept(r)
    BY DEF BillingInv
  <2>2. /\ subs[r] # NoSub /\ subs[r].status = "EXPIRED" => today' > subs[r].trialEnds
        /\ subs[r] # NoSub /\ subs[r].status = "SUSPENDED" => subs[r].graceEnds \in Nat /\ today' > subs[r].graceEnds
    BY <2>1 DEF SubKept, BillingInv, BillingTypeOK, Subscription
  <2> QED
    BY <2>1, <2>2 DEF SubKept
<1>3. SaasBalances'
  BY SaasKept DEF BillingInv
<1>4. \A c \in Call : TrialKnows(c)' /\ CreditKnows(c)'
  BY DEF BillingInv, TrialKnows, CreditKnows
<1>5. TrialsCrowded' /\ OneSubscription'
  BY DEF BillingInv, TrialsCrowded, OneSubscription
<1> QED
  BY <1>1, <1>2, <1>3, <1>4, <1>5 DEF BillingInv

LEMMA BillingInvStep == BillingInv /\ [Next]_backOfficeVars => BillingInv'
<1> SUFFICES ASSUME BillingInv, [Next]_backOfficeVars
             PROVE  BillingInv'
  OBVIOUS
<1>1. CASE BillingNext
  <2>1. CASE \E c \in Call : SaveTrial(c) \/ PostDebit(c) \/ PostCredit(c)
    BY <2>1, SaveTrialStep, PostDebitStep, PostCreditStep
  <2>2. CASE DayPasses
    BY <2>2, ClockStep DEF DayPasses, BillingInv, BillingTypeOK
  <2>3. ASSUME NEW s \in SubId, NEW customer \in Customer,
               \/ \E c \in Call : StartTrial(c, s, customer)
               \/ \E c \in Call, plan \in Plan : Subscribe(c, s, customer, plan)
               \/ \E plan \in Plan : SubscribeRefused(s, customer, plan)
        PROVE  BillingInv'
    BY <2>3, StartTrialStep, SubscribeStep, RefusedStep
  <2>4. ASSUME NEW s \in SubId, NEW customer \in Customer,
               RecordChargeFailure(s, customer) \/ Lapse(s, customer) \/ CancelSubscription(s, customer)
        PROVE  BillingInv'
    BY <2>4, StatusStep
  <2> QED
    BY <1>1, <2>1, <2>2, <2>3, <2>4 DEF BillingNext
<1>2. CASE UNCHANGED billingVars
  BY <1>2, ClockStep DEF billingVars, BillingInv, BillingTypeOK
<1> QED
  BY <1>1, <1>2 DEF Next, backOfficeVars

LEMMA BillingInvHolds == Spec => []BillingInv
<1>1. Init => BillingInv
  BY DEF Init, BillingInit, BillingInv, BillingTypeOK, TrialKnows, CreditKnows, SubKept, SaasBalances,
     TrialsCrowded, OneSubscription
<1> QED
  BY <1>1, BillingInvStep, PTL DEF Spec

(* A trial or a grace period operates or is due to lapse, with no gap at   *)
(* the deadline (domain/subscription.ts, isOperational and lapse), and no  *)
(* service ends before its days are over.                                  *)
THEOREM NoGapAtTheDeadline == Spec => []OperatesOrLapses
<1>1. BillingInv => OperatesOrLapses
  <2> SUFFICES ASSUME BillingInv, NEW s \in SubId, subs[s] # NoSub
               PROVE  /\ subs[s].status \in {"TRIAL", "PAST_DUE"} =>
                           (Operational(subs[s], today) <=> LapseOf(subs[s], today) = "none")
                      /\ subs[s].status = "EXPIRED" => today > subs[s].trialEnds
                      /\ subs[s].status = "SUSPENDED" => subs[s].graceEnds \in Nat /\ today > subs[s].graceEnds
    BY DEF OperatesOrLapses
  <2>1. subs[s] \in Subscription /\ today \in Nat /\ SubKept(s)
    BY DEF BillingInv, BillingTypeOK
  <2>2. subs[s].trialEnds \in Nat
    BY <2>1 DEF Subscription
  <2>3. CASE subs[s].status = "TRIAL"
    BY <2>1, <2>2, <2>3 DEF Operational, LapseOf
  <2>4. CASE subs[s].status = "PAST_DUE"
    BY <2>1, <2>4, BillingAssumption DEF Operational, LapseOf, SubKept
  <2> QED
    BY <2>1, <2>3, <2>4 DEF SubKept
<1> QED
  BY <1>1, BillingInvHolds, PTL

(* The saas ledger balances but for a charge between its two appends or    *)
(* one whose id another charge has (postCharge over the ledger's ids).     *)
THEOREM SaasLedgerBalances == Spec => []SaasBalances
<1>1. BillingInv => SaasBalances
  BY DEF BillingInv
<1> QED
  BY <1>1, BillingInvHolds, PTL

(* A plan in use was charged at its price, is about to be, or was changed  *)
(* by a subscribe that threw after recordPayment had written it.           *)
THEOREM PlansAreCharged == Spec => []PlanIsCharged
<1>1. BillingInv => PlanIsCharged
  BY DEF BillingInv, SubKept, PlanIsCharged
<1> QED
  BY <1>1, BillingInvHolds, PTL

(* A slug, a user's profile and a tenant's subscription are taken once,    *)
(* but for the checks that overlapped (findBySlug, findByUserId and        *)
(* findByTenantId before an awaited save).                                 *)
THEOREM EachIsTakenOnce == Spec => []OneOfEach
<1>1. TenantInv /\ ProfileInv /\ BillingInv => OneOfEach
  BY DEF TenantInv, ProfileInv, BillingInv, OneOfEach
<1> QED
  BY <1>1, TenantInvHolds, ProfileInvHolds, BillingInvHolds, PTL

(* A bucket is never from the future, so refilling never takes tokens.     *)
LimiterInv ==
  /\ LimiterTypeOK
  /\ \A k \in Key : buckets[k] # NoBucket => buckets[k].updatedAtMs <= nowMs

LEMMA RefillIsBounded ==
  ASSUME LimiterInv, NEW k \in Key
  PROVE  Refilled(k) \in 0 .. MaxTokens * Token
<1> USE LimiterAssumption DEF LimiterInv, LimiterTypeOK, Bucket
<1>1. MaxTokens * Token \in Nat
  BY DEF Token
<1>2. Stored(k).tokens \in Nat /\ nowMs - Stored(k).updatedAtMs \in Nat
  BY <1>1 DEF Stored
<1>3. \A m, n \in Nat : m * n \in Nat
  OBVIOUS
<1>4. (nowMs - Stored(k).updatedAtMs) * RefillTokensPerSecond \in Nat
  BY <1>2, <1>3
<1> DEFINE gained == (nowMs - Stored(k).updatedAtMs) * RefillTokensPerSecond
<1>5. gained \in Nat
  BY <1>4
<1>6. Refilled(k) = IF Stored(k).tokens + gained < MaxTokens * Token
                    THEN Stored(k).tokens + gained ELSE MaxTokens * Token
  BY DEF Refilled
<1> HIDE DEF gained
<1> QED
  BY <1>1, <1>2, <1>5, <1>6

LEMMA LimiterInvStep == LimiterInv /\ [Next]_backOfficeVars => LimiterInv'
<1> SUFFICES ASSUME LimiterInv, [Next]_backOfficeVars
             PROVE  LimiterInv'
  OBVIOUS
<1> USE LimiterAssumption DEF LimiterInv, LimiterTypeOK
<1>1. ASSUME NEW k \in Key, Allow(k) PROVE LimiterInv'
  <2>1. Refilled(k) \in 0 .. MaxTokens * Token /\ MaxTokens * Token \in Nat
    BY RefillIsBounded DEF Token
  <2> DEFINE left == IF Refilled(k) < Token THEN Refilled(k) ELSE Refilled(k) - Token
  <2>2. left \in 0 .. MaxTokens * Token
    BY <2>1 DEF Token
  <2> HIDE DEF left
  <2>3. BucketAfter(k, Refilled(k)) = [tokens |-> left, updatedAtMs |-> nowMs]
    BY DEF BucketAfter, left
  <2>4. BucketAfter(k, Refilled(k)) \in Bucket /\ BucketAfter(k, Refilled(k)).updatedAtMs = nowMs
    BY <2>2, <2>3 DEF Bucket
  <2> PICK bucket \in Bucket : bucket = BucketAfter(k, Refilled(k)) /\ bucket.updatedAtMs = nowMs
    BY <2>4
  <2>5. buckets' = [buckets EXCEPT ![k] = bucket] /\ nowMs' = nowMs
    BY <1>1 DEF Allow
  <2>6. \A o \in Key : buckets'[o] # NoBucket => buckets'[o].updatedAtMs <= nowMs
    BY <2>5
  <2>7. grants' \in [Key -> Seq(0 .. MaxMs)]
    BY <1>1 DEF Allow
  <2> QED
    BY <2>5, <2>6, <2>7
<1>2. CASE MsPasses
  BY <1>2 DEF MsPasses, Bucket
<1>3. CASE UNCHANGED limiterVars
  BY <1>3 DEF limiterVars
<1> QED
  BY <1>1, <1>2, <1>3 DEF Next, LimiterNext, backOfficeVars

LEMMA LimiterInvHolds == Spec => []LimiterInv
<1>1. Init => LimiterInv
  BY LimiterAssumption DEF Init, LimiterInit, LimiterInv, LimiterTypeOK
<1> QED
  BY <1>1, LimiterInvStep, PTL DEF Spec

(* Every value the four services store, and every value a call keeps       *)
(* between its steps, has the type of the domain object it stands for; a   *)
(* bucket holds no more than maxTokens and never less than nothing.        *)
THEOREM BackOfficeTypes == Spec => []TypeOK
<1>1. TenantInv /\ ProfileInv /\ BillingInv /\ LimiterInv => TypeOK
  BY DEF TenantInv, ProfileInv, BillingInv, LimiterInv, TypeOK
<1> QED
  BY <1>1, TenantInvHolds, ProfileInvHolds, BillingInvHolds, LimiterInvHolds, PTL

-----------------------------------------------------------------------------
(* What the bucket knows of the grants.                                    *)
Full == MaxTokens * Token

(* What the grants from the i-th on leave of a full bucket and the refill. *)
LeftOver(at, times, i) ==
  (Full + (at - times[i]) * RefillTokensPerSecond) - (Len(times) - i + 1) * Token

(* The tokens are the least that any of the grants leaves, or full.        *)
Tells(tokens, at, times) ==
  /\ tokens <= Full
  /\ \A i \in 1 .. Len(times) : times[i] <= at /\ tokens <= LeftOver(at, times, i)
  /\ tokens = Full \/ \E i \in 1 .. Len(times) : tokens = LeftOver(at, times, i)

BucketTells ==
  \A k \in Key :
    IF buckets[k] = NoBucket THEN grants[k] = <<>>
    ELSE Tells(buckets[k].tokens, buckets[k].updatedAtMs, grants[k])

(* The refill grows with the time.                                         *)
LEMMA RefillAdds ==
  ASSUME NEW s \in Nat, NEW t \in Nat, NEW u \in Nat, s <= t, t <= u
  PROVE  /\ (u - s) * RefillTokensPerSecond
              = (u - t) * RefillTokensPerSecond + (t - s) * RefillTokensPerSecond
         /\ (u - t) * RefillTokensPerSecond \in Nat /\ (t - s) * RefillTokensPerSecond \in Nat
<1> DEFINE a == u - t
           b == t - s
<1>1. a \in Nat /\ b \in Nat /\ u - s = a + b /\ RefillTokensPerSecond \in Nat
  BY LimiterAssumption
<1> HIDE DEF a, b
<1>2. /\ (a + b) * RefillTokensPerSecond = a * RefillTokensPerSecond + b * RefillTokensPerSecond
      /\ a * RefillTokensPerSecond \in Nat /\ b * RefillTokensPerSecond \in Nat
  BY <1>1
<1> QED
  BY <1>1, <1>2 DEF a, b

(* The size of a full bucket.                                              *)
LEMMA FullIsNat == Full \in Nat /\ Token = 1000
  BY LimiterAssumption DEF Full, Token

(* The refill shifts what each grant leaves by what was gained, up to a    *)
(* full bucket.                                                            *)
LEMMA TellsRefilled ==
  ASSUME NEW tokens \in Nat, NEW at \in Nat, NEW now \in Nat, at <= now, NEW times \in Seq(Nat),
         Tells(tokens, at, times)
  PROVE  LET more == tokens + (now - at) * RefillTokensPerSecond IN
         Tells(IF more < Full THEN more ELSE Full, now, times)
<1> DEFINE gain == (now - at) * RefillTokensPerSecond
           filled == IF tokens + gain < Full THEN tokens + gain ELSE Full
<1>1. ASSUME NEW i \in 1 .. Len(times)
      PROVE  /\ times[i] \in Nat /\ times[i] <= at /\ tokens <= LeftOver(at, times, i)
             /\ LeftOver(now, times, i) = LeftOver(at, times, i) + gain
             /\ LeftOver(at, times, i) \in Int /\ gain \in Nat
  <2>1. times[i] \in Nat /\ times[i] <= at /\ tokens <= LeftOver(at, times, i)
    BY DEF Tells
  <2> DEFINE r == (at - times[i]) * RefillTokensPerSecond
             s == (now - times[i]) * RefillTokensPerSecond
             debt == (Len(times) - i + 1) * Token
  <2>2. s = gain + r /\ gain \in Nat /\ r \in Nat
    BY <2>1, RefillAdds
  <2>3. debt \in Int
    BY FullIsNat
  <2>4. LeftOver(at, times, i) = (Full + r) - debt /\ LeftOver(now, times, i) = (Full + s) - debt
    BY DEF LeftOver
  <2> HIDE DEF r, s, debt, gain
  <2> QED
    BY <2>1, <2>2, <2>3, <2>4, FullIsNat
<1>2. gain \in Nat
  BY RefillAdds
<1> HIDE DEF gain
<1>3. filled <= Full /\ filled \in Nat /\ filled <= tokens + gain
  BY <1>2, FullIsNat
<1>4. \A i \in 1 .. Len(times) : times[i] <= now /\ filled <= LeftOver(now, times, i)
  <2> TAKE i \in 1 .. Len(times)
  <2> HIDE DEF filled
  <2> QED BY <1>1, <1>2, <1>3
<1>5. filled = Full \/ \E i \in 1 .. Len(times) : filled = LeftOver(now, times, i)
  <2>1. CASE tokens + gain < Full
    <3>1. tokens # Full
      BY <1>2, <2>1, FullIsNat
    <3>2. PICK i \in 1 .. Len(times) : tokens = LeftOver(at, times, i)
      BY <3>1 DEF Tells
    <3>3. filled = LeftOver(now, times, i)
      BY <1>1, <2>1, <3>2
    <3> QED BY <3>3
  <2>2. CASE ~ (tokens + gain < Full)
    BY <2>2
  <2> QED BY <2>1, <2>2
<1>6. Tells(filled, now, times)
  <2> HIDE DEF filled
  <2> QED BY <1>3, <1>4, <1>5 DEF Tells
<1> QED
  BY <1>6 DEF gain

(* A grant takes one token from what every earlier grant leaves, and adds  *)
(* one of its own.                                                         *)
LEMMA TellsTaken ==
  ASSUME NEW tokens \in Nat, NEW at \in Nat, NEW times \in Seq(Nat), Tells(tokens, at, times), Token <= tokens
  PROVE  Tells(tokens - Token, at, Append(times, at))
<1> PICK more \in Seq(Nat) : more = Append(times, at)
  BY AppendProperties
<1> PICK n \in Nat : n = Len(times)
  OBVIOUS
<1>1. /\ Len(more) = n + 1 /\ more[n + 1] = at
      /\ \A i \in 1 .. n : more[i] = times[i] /\ times[i] \in Nat
  BY AppendProperties
<1>2. \A i \in 1 .. (n + 1) : i \in 1 .. n \/ i = n + 1
  OBVIOUS
<1>3. ASSUME NEW i \in 1 .. n
      PROVE  /\ LeftOver(at, more, i) = LeftOver(at, times, i) - Token
             /\ LeftOver(at, times, i) \in Int /\ times[i] <= at /\ tokens <= LeftOver(at, times, i)
  <2>1. times[i] \in Nat /\ times[i] <= at /\ tokens <= LeftOver(at, times, i)
    BY <1>1 DEF Tells
  <2> DEFINE r == (at - times[i]) * RefillTokensPerSecond
  <2>2. r \in Nat
    <3>1. times[i] <= at /\ at <= at
      BY <2>1
    <3> QED
      BY <2>1, <3>1, RefillAdds
  <2>3. LeftOver(at, times, i) = (Full + r) - (n - i + 1) * 1000 /\ LeftOver(at, more, i) = (Full + r) - ((n + 1) - i + 1) * 1000
    BY <1>1, FullIsNat DEF LeftOver
  <2> HIDE DEF r
  <2> QED
    BY <2>1, <2>2, <2>3, FullIsNat
<1>4. LeftOver(at, more, n + 1) = Full - Token
  <2>1. (at - at) * RefillTokensPerSecond = 0
    BY LimiterAssumption
  <2>2. LeftOver(at, more, n + 1) = (Full + 0) - ((n + 1) - (n + 1) + 1) * 1000
    BY <1>1, <2>1, FullIsNat DEF LeftOver
  <2> QED BY <2>2, FullIsNat
<1>5. tokens <= Full /\ (tokens = Full \/ \E i \in 1 .. n : tokens = LeftOver(at, times, i))
  BY DEF Tells
<1>6. \A i \in 1 .. (n + 1) : more[i] <= at /\ tokens - Token <= LeftOver(at, more, i)
  <2> TAKE i \in 1 .. (n + 1)
  <2>1. CASE i \in 1 .. n
    BY <2>1, <1>1, <1>3, FullIsNat
  <2>2. CASE i = n + 1
    BY <2>2, <1>1, <1>4, <1>5, FullIsNat
  <2> QED BY <1>2, <2>1, <2>2
<1>7. \E i \in 1 .. (n + 1) : tokens - Token = LeftOver(at, more, i)
  <2>1. CASE tokens = Full
    <3>1. n + 1 \in 1 .. (n + 1)
      OBVIOUS
    <3> QED BY <2>1, <3>1, <1>4
  <2>2. CASE \E i \in 1 .. n : tokens = LeftOver(at, times, i)
    <3>1. PICK i \in 1 .. n : tokens = LeftOver(at, times, i)
      BY <2>2
    <3>2. i \in 1 .. (n + 1) /\ tokens - Token = LeftOver(at, more, i)
      BY <3>1, <1>3
    <3> QED BY <3>2
  <2> QED BY <1>5, <2>1, <2>2
<1> QED
  BY <1>1, <1>5, <1>6, <1>7, FullIsNat DEF Tells

(* A call looks at a bucket that tells of every grant.                     *)
LEMMA RefilledTells ==
  ASSUME LimiterInv, BucketTells, NEW k \in Key
  PROVE  Refilled(k) \in 0 .. Full /\ nowMs \in Nat /\ grants[k] \in Seq(Nat) /\ Tells(Refilled(k), nowMs, grants[k])
<1> USE LimiterAssumption DEF LimiterInv, LimiterTypeOK
<1>1. nowMs \in Nat /\ grants[k] \in Seq(Nat)
  <2>1. grants[k] \in Seq(0 .. MaxMs) /\ 0 .. MaxMs \subseteq Nat /\ nowMs \in 0 .. MaxMs
    OBVIOUS
  <2> QED BY <2>1, SeqMonotonic
<1>2. Refilled(k) \in 0 .. Full
  BY RefillIsBounded DEF Full
<1>3. CASE buckets[k] = NoBucket
  <2>1. grants[k] = <<>>
    BY <1>3 DEF BucketTells
  <2>2. (nowMs - nowMs) * RefillTokensPerSecond = 0
    BY <1>1
  <2>3. Refilled(k) = Full
    BY <1>3, <2>2, FullIsNat DEF Refilled, Stored, Full
  <2> QED
    BY <1>1, <1>2, <2>1, <2>3, FullIsNat DEF Tells
<1>4. CASE buckets[k] # NoBucket
  <2> PICK bucket \in Bucket : bucket = buckets[k]
    BY <1>4
  <2>1. bucket.tokens \in Nat /\ bucket.updatedAtMs \in Nat /\ bucket.updatedAtMs <= nowMs
    BY <1>1, <1>4 DEF Bucket
  <2>2. Tells(bucket.tokens, bucket.updatedAtMs, grants[k])
    BY <1>4 DEF BucketTells
  <2> DEFINE more == bucket.tokens + (nowMs - bucket.updatedAtMs) * RefillTokensPerSecond
  <2>3. Tells(IF more < Full THEN more ELSE Full, nowMs, grants[k])
    BY <1>1, <2>1, <2>2, TellsRefilled
  <2>4. Refilled(k) = IF more < Full THEN more ELSE Full
    BY <1>4 DEF Refilled, Stored, Full
  <2> HIDE DEF more
  <2> QED
    BY <1>1, <1>2, <2>3, <2>4
<1> QED
  BY <1>3, <1>4

(* So a bucket always holds what the history of its grants says.           *)
LEMMA BucketTellsHolds == Spec => []BucketTells
<1>1. Init => BucketTells
  BY DEF Init, LimiterInit, BucketTells
<1>2. LimiterInv /\ BucketTells /\ [Next]_backOfficeVars => BucketTells'
  <2> SUFFICES ASSUME LimiterInv, BucketTells, [Next]_backOfficeVars
               PROVE  BucketTells'
    OBVIOUS
  <2> USE DEF LimiterInv, LimiterTypeOK
  <2>1. ASSUME NEW k \in Key, Allow(k) PROVE BucketTells'
    <3> PICK tokens \in 0 .. Full : tokens = Refilled(k)
      BY RefilledTells
    <3>1. tokens \in Nat /\ nowMs \in Nat /\ grants[k] \in Seq(Nat) /\ Tells(tokens, nowMs, grants[k])
      BY RefilledTells, FullIsNat
    <3> DEFINE left == IF tokens < Token THEN tokens ELSE tokens - Token
    <3>2. BucketAfter(k, tokens) = [tokens |-> left, updatedAtMs |-> nowMs]
      BY DEF BucketAfter
    <3>3. left \in 0 .. MaxTokens * Token
      BY <3>1, FullIsNat DEF Full
    <3>4. Tells(left, nowMs, grants'[k])
      <4>1. CASE tokens < Token
        <5>1. grants' = grants
          BY <4>1, <2>1 DEF Allow
        <5> QED BY <3>1, <4>1, <5>1
      <4>2. CASE ~ (tokens < Token)
        <5>1. grants'[k] = Append(grants[k], nowMs)
          BY <4>2, <2>1 DEF Allow
        <5>2. Token <= tokens
          BY <4>2, <3>1, FullIsNat
        <5> QED BY <3>1, <4>2, <5>1, <5>2, TellsTaken
      <4> QED BY <4>1, <4>2
    <3> HIDE DEF left
    <3>5. [tokens |-> left, updatedAtMs |-> nowMs] \in Bucket
      BY <3>3 DEF Bucket
    <3> PICK bucket \in Bucket : bucket = [tokens |-> left, updatedAtMs |-> nowMs]
      BY <3>5
    <3>6. /\ buckets'[k] = bucket /\ bucket # NoBucket
          /\ \A o \in Key \ {k} : buckets'[o] = buckets[o] /\ grants'[o] = grants[o]
      BY <2>1, <3>2, LimiterAssumption DEF Allow
    <3>7. bucket.tokens = left /\ bucket.updatedAtMs = nowMs
      OBVIOUS
    <3> QED
      BY <3>4, <3>6, <3>7 DEF BucketTells
  <2>2. CASE UNCHANGED <<buckets, grants>>
    BY <2>2 DEF BucketTells
  <2> QED
    BY <2>1, <2>2 DEF Next, LimiterNext, MsPasses, backOfficeVars, limiterVars
<1> QED
  BY <1>1, <1>2, LimiterInvHolds, PTL DEF Spec

(* A call of a key passes exactly when it is not one too many of that key, *)
(* whatever was refused before (RateLimiter.allow).                        *)
THEOREM LimitIsExact == Spec => AdmitsExactly
<1>1. ASSUME LimiterInv, BucketTells, NEW k \in Key, Allow(k)
      PROVE  grants' # grants <=> ~ TooMany(k, 1)
  <2> PICK tokens \in 0 .. Full : tokens = Refilled(k)
    BY <1>1, RefilledTells
  <2>1. nowMs \in Nat /\ grants[k] \in Seq(Nat) /\ Tells(tokens, nowMs, grants[k])
    BY <1>1, RefilledTells
  <2> PICK n \in Nat : n = Len(grants[k]) /\ DOMAIN grants[k] = 1 .. n
    BY <2>1
  <2>2. grants' # grants <=> ~ (tokens < Token)
    <3>1. tokens < Token => grants' = grants
      BY <1>1 DEF Allow
    <3>2. ~ (tokens < Token) => grants'[k] # grants[k]
      <4>1. ~ (tokens < Token) => grants'[k] = Append(grants[k], nowMs)
        BY <1>1 DEF Allow, LimiterInv, LimiterTypeOK
      <4>2. Len(Append(grants[k], nowMs)) # Len(grants[k])
        BY <2>1, AppendProperties
      <4> QED BY <4>1, <4>2
    <3> QED BY <3>1, <3>2
  <2>3. ASSUME NEW i \in 1 .. n
        PROVE  /\ tokens <= LeftOver(nowMs, grants[k], i) /\ LeftOver(nowMs, grants[k], i) \in Int
               /\ (n - i + 1 + 1) * Token > MaxTokens * Token + (nowMs - grants[k][i]) * RefillTokensPerSecond
                    <=> LeftOver(nowMs, grants[k], i) < Token
    <3>1. grants[k][i] \in Nat /\ grants[k][i] <= nowMs /\ tokens <= LeftOver(nowMs, grants[k], i)
      BY <2>1 DEF Tells
    <3> DEFINE r == (nowMs - grants[k][i]) * RefillTokensPerSecond
    <3>2. r \in Nat
      <4>1. grants[k][i] <= nowMs /\ nowMs <= nowMs
        BY <2>1, <3>1
      <4> QED BY <2>1, <3>1, <4>1, RefillAdds
    <3>3. LeftOver(nowMs, grants[k], i) = (Full + r) - (n - i + 1) * 1000
      BY FullIsNat DEF LeftOver
    <3> HIDE DEF r
    <3>4. LeftOver(nowMs, grants[k], i) \in Int
          /\ ((n - i + 1 + 1) * 1000 > Full + r <=> LeftOver(nowMs, grants[k], i) < 1000)
      BY <3>2, <3>3, FullIsNat
    <3> QED
      BY <3>1, <3>4, FullIsNat DEF r, Full
  <2>4. Full < Token <=> 1 > MaxTokens
    BY LimiterAssumption DEF Full, Token
  <2>5. TooMany(k, 1) <=> Full < Token \/ \E i \in 1 .. n : LeftOver(nowMs, grants[k], i) < Token
    BY <2>3, <2>4 DEF TooMany
  <2>6. tokens <= Full /\ (tokens = Full \/ \E i \in 1 .. n : tokens = LeftOver(nowMs, grants[k], i))
    BY <2>1 DEF Tells
  <2>7. tokens < Token <=> TooMany(k, 1)
    BY <2>3, <2>5, <2>6, FullIsNat
  <2> QED
    BY <2>2, <2>7
<1>2. LimiterInv /\ BucketTells /\ [Next]_backOfficeVars =>
        [\A k \in Key : Allow(k) => (grants' # grants <=> ~ TooMany(k, 1))]_limiterVars
  BY <1>1
<1> QED
  BY <1>2, LimiterInvHolds, BucketTellsHolds, PTL DEF Spec, AdmitsExactly
=============================================================================

------------------------ MODULE PaymentServiceProofs -----------------------
(***************************************************************************)
(* Theorems about PaymentService, for every set of payments, calls and     *)
(* notifications and every bound on reversals: its types, that nothing is  *)
(* booked without the provider's word, that it implements the book of      *)
(* payments, what every party holds, and that settlements are whole.       *)
(***************************************************************************)
EXTENDS PaymentService, FiniteProofs, TLAPS

-----------------------------------------------------------------------------
(* Entries.                                                                *)

LEMMA PartyOrderParty ==
  ASSUME NEW k \in 1..4
  PROVE  PartyOrder[k] \in Party /\ Len(PartyOrder) = 4
BY DEF PartyOrder, Party

LEMMA SplitInt ==
  ASSUME NEW gross \in Nat, NEW party \in Party
  PROVE  Split(gross)[party] \in Int
<1>1. CASE party = "driver"
  BY <1>1 DEF Split, Party
<1>2. CASE party = "tenant"
  BY <1>2 DEF Split, Party
<1>3. CASE party = "movo"
  BY <1>3 DEF Split, Party
<1>4. CASE party = "gateway-fee"
  BY <1>4 DEF Split, Party
<1> QED BY <1>1, <1>2, <1>3, <1>4 DEF Party

LEMMA PostingType ==
  ASSUME NEW p \in Payment, NEW party \in Party
  PROVE  Posting(p, party) \in EntryRecord
<1>1. Split(AmountOf[p])[party] \in Int
  BY SplitInt, AmountAssumption
<1> QED BY <1>1 DEF Posting, EntryRecord, Direction

LEMMA ReversalType ==
  ASSUME NEW e \in EntryRecord
  PROVE  Reversal(e) \in EntryRecord /\ Reversal(e).payment = e.payment
<1> DEFINE turned == IF e.direction = "credit" THEN "debit" ELSE "credit"
<1>1. turned \in Direction /\ e.depth + 1 \in Nat
  BY DEF EntryRecord, Direction
<1>2. Reversal(e) = [e EXCEPT !.depth = e.depth + 1, !.direction = turned]
  BY DEF Reversal
<1> HIDE DEF turned
<1> QED BY <1>1, <1>2 DEF EntryRecord

(* What an append leaves in the ledger: the entry, or what was there.      *)
LEMMA RangeAppended ==
  ASSUME ledger \in Seq(EntryRecord), NEW e \in EntryRecord
  PROVE  /\ Appended(e) \in Seq(EntryRecord)
         /\ \/ Range(Appended(e)) = Range(ledger)
            \/ Range(Appended(e)) = Range(ledger) \cup {e}
<1>1. CASE Appended(e) = ledger
  BY <1>1
<1>2. CASE Appended(e) = Append(ledger, e)
  <2>1. /\ Appended(e) \in Seq(EntryRecord)
        /\ Len(Appended(e)) = Len(ledger) + 1
        /\ \A i \in 1..Len(ledger) : Appended(e)[i] = ledger[i]
        /\ Appended(e)[Len(ledger) + 1] = e
    BY <1>2
  <2>2. /\ DOMAIN Appended(e) = 1..(Len(ledger) + 1)
        /\ DOMAIN ledger = 1..Len(ledger)
        /\ Len(ledger) \in Nat
    BY <2>1
  <2>3. Range(Appended(e)) = Range(ledger) \cup {e}
    <3>1. ASSUME NEW x \in Range(Appended(e))
          PROVE  x \in Range(ledger) \cup {e}
      <4>1. PICK i \in 1..(Len(ledger) + 1) : Appended(e)[i] = x
        BY <3>1, <2>2 DEF Range
      <4>2. CASE i = Len(ledger) + 1
        BY <4>1, <4>2, <2>1
      <4>3. CASE i \in 1..Len(ledger)
        BY <4>1, <4>3, <2>1, <2>2 DEF Range
      <4> QED BY <4>1, <4>2, <4>3, <2>2
    <3>2. ASSUME NEW x \in Range(ledger)
          PROVE  x \in Range(Appended(e))
      <4>1. PICK i \in 1..Len(ledger) : ledger[i] = x
        BY <3>2, <2>2 DEF Range
      <4>2. i \in DOMAIN Appended(e) /\ Appended(e)[i] = x
        BY <4>1, <2>1, <2>2
      <4> QED BY <4>2 DEF Range
    <3>3. e \in Range(Appended(e))
      BY <2>1, <2>2 DEF Range
    <3> QED BY <3>1, <3>2, <3>3
  <2> QED BY <2>1, <2>3
<1> QED BY <1>1, <1>2 DEF Appended

-----------------------------------------------------------------------------
(* Types.                                                                  *)

LEMMA InitTypes == Init => TypeOK
BY DEF Init, TypeOK, JobAt

(* A step of one call's bookkeeping keeps the calls' part of the types.    *)
Calls ==
  /\ pc \in [Call -> DOMAIN JobAt]
  /\ DOMAIN job = Call
  /\ \A c \in Call : job[c] \in JobAt[pc[c]]

LEMMA CallsStep ==
  ASSUME Calls, NEW c \in Call, NEW place \in DOMAIN JobAt, NEW work \in JobAt[place],
         pc' = [pc EXCEPT ![c] = place],
         job' = [job EXCEPT ![c] = work]
  PROVE  Calls'
<1>1. pc' \in [Call -> DOMAIN JobAt] /\ DOMAIN job' = Call
  BY DEF Calls
<1>2. ASSUME NEW o \in Call PROVE job'[o] \in JobAt[pc'[o]]
  <2>1. CASE o = c
    BY <2>1 DEF Calls
  <2>2. CASE o # c
    BY <2>2 DEF Calls
  <2> QED BY <2>1, <2>2
<1> QED BY <1>1, <1>2 DEF Calls

(* Where a call waits tells what it carries.                               *)
LEMMA JobPlaces ==
  /\ DOMAIN JobAt = {"idle", "order", "create", "apply", "saved", "settle"}
  /\ JobAt["idle"] = {NoJob}
  /\ JobAt["order"] = CreateJob /\ JobAt["create"] = CreateJob
  /\ JobAt["apply"] = WebhookJob({0}) /\ JobAt["saved"] = WebhookJob({0})
  /\ JobAt["settle"] = WebhookJob(1..4)
BY DEF JobAt, PartyOrder

LEMMA TypeStep == TypeOK /\ [Next]_vars => TypeOK'
<1> SUFFICES ASSUME TypeOK, [Next]_vars PROVE TypeOK'
  OBVIOUS
<1> DEFINE Stores ==
      /\ status \in [Payment -> IntentStatus \cup {"none"}]
      /\ seenEvents \in [Payment -> SUBSET EventId]
      /\ ledger \in Seq(EntryRecord)
      /\ sent \subseteq Notice
<1>0. Stores /\ Calls
  BY DEF TypeOK, Calls
<1>a. SUFFICES Stores' /\ Calls'
  BY DEF TypeOK, Calls
<1>b. ASSUME NEW c \in Call
      PROVE  /\ pc[c] \in DOMAIN JobAt /\ job[c] \in JobAt[pc[c]]
             /\ pc[c] \in {"order", "create"} => job[c] \in CreateJob
             /\ pc[c] \in {"apply", "saved"} => job[c] \in WebhookJob({0})
             /\ pc[c] = "settle" => job[c] \in WebhookJob(1..4)
  BY <1>0, JobPlaces DEF Calls
<1>c. ASSUME NEW c \in Call, End(c) PROVE Calls'
  <2>1. NoJob \in JobAt["idle"] /\ "idle" \in DOMAIN JobAt
    BY JobPlaces
  <2> QED BY <1>c, <1>0, <2>1, CallsStep DEF End
<1>d. ASSUME NEW c \in Call, NEW place \in DOMAIN JobAt, job[c] \in JobAt[place],
             pc' = [pc EXCEPT ![c] = place], job' = job
      PROVE  Calls'
  <2>1. pc' \in [Call -> DOMAIN JobAt] /\ DOMAIN job' = Call
    BY <1>d, <1>0 DEF Calls
  <2>2. ASSUME NEW o \in Call PROVE job'[o] \in JobAt[pc'[o]]
    <3>1. CASE o = c
      BY <3>1, <1>d, <1>0 DEF Calls
    <3>2. CASE o # c
      BY <3>2, <1>d, <1>0 DEF Calls
    <3> QED BY <3>1, <3>2
  <2> QED BY <2>1, <2>2 DEF Calls
<1>e. ASSUME NEW c \in Call, pc[c] \in {"saved", "settle"},
             job[c].posted < 4, PostNext(c),
             pc' = [pc EXCEPT ![c] = "settle"]
      PROVE  Calls' /\ ledger' \in Seq(EntryRecord)
  <2> DEFINE next == job[c].posted + 1
  <2>1. /\ job[c] \in [payment: Payment, notice: Notice, signed: BOOLEAN, posted: 0..4]
        /\ job[c].payment \in Payment
        /\ next \in 1..4
    <3>1. CASE pc[c] = "saved"
      BY <3>1, <1>b DEF WebhookJob
    <3>2. CASE pc[c] = "settle"
      BY <3>2, <1>b, <1>e DEF WebhookJob
    <3> QED BY <3>1, <3>2, <1>e
  <2>2. [job[c] EXCEPT !.posted = next] \in WebhookJob(1..4)
    BY <2>1 DEF WebhookJob
  <2>3. job' = [job EXCEPT ![c] = [job[c] EXCEPT !.posted = next]]
    BY <1>e DEF PostNext
  <2>4. ledger' = Appended(Posting(job[c].payment, PartyOrder[next]))
    BY <1>e DEF PostNext
  <2> HIDE DEF next
  <2>5. Calls'
    <3>1. "settle" \in DOMAIN JobAt /\ JobAt["settle"] = WebhookJob(1..4)
      BY JobPlaces
    <3> QED BY <1>0, <1>e, <2>2, <2>3, <3>1, CallsStep
  <2>6. ledger' \in Seq(EntryRecord)
    <3>1. Posting(job[c].payment, PartyOrder[next]) \in EntryRecord
      BY <2>1, PartyOrderParty, PostingType
    <3> QED BY <2>4, <3>1, <1>0, RangeAppended
  <2> QED BY <2>5, <2>6
<1>1. ASSUME NEW c \in Call, NEW p \in Payment, CreatePixIntent(c, p)
      PROVE  Stores' /\ Calls'
  <2>1. Stores'
    BY <1>1, <1>0 DEF CreatePixIntent
  <2>2. [payment |-> p] \in JobAt["order"] /\ "order" \in DOMAIN JobAt
    BY JobPlaces DEF CreateJob
  <2>3. pc' = [pc EXCEPT ![c] = "order"] /\ job' = [job EXCEPT ![c] = [payment |-> p]]
    BY <1>1 DEF CreatePixIntent
  <2> HIDE DEF Stores
  <2>4. Calls'
    BY <1>0, <2>2, <2>3, CallsStep
  <2> QED BY <2>1, <2>4
<1>2. ASSUME NEW c \in Call, OrderCreated(c) PROVE Stores' /\ Calls'
  <2>1. job[c].payment \in Payment /\ job[c] \in JobAt["create"] /\ "create" \in DOMAIN JobAt
    BY <1>2, <1>b, JobPlaces DEF OrderCreated, CreateJob
  <2>2. Stores'
    BY <1>2, <1>0, <2>1 DEF OrderCreated, IntentStatus
  <2>3. Calls'
    BY <1>2, <1>d, <2>1 DEF OrderCreated
  <2> QED BY <2>2, <2>3
<1>3. ASSUME NEW c \in Call, OrderRejected(c) \/ Created(c) \/ Discard(c)
                               \/ NothingToSettle(c) \/ Settled(c)
      PROVE  Stores' /\ Calls'
  <2>1. Stores'
    BY <1>3, <1>0 DEF OrderRejected, Created, Discard, NothingToSettle, Settled
  <2>2. End(c)
    BY <1>3 DEF OrderRejected, Created, Discard, NothingToSettle, Settled
  <2> QED BY <2>1, <2>2, <1>c
<1>4. ASSUME NEW c \in Call, NEW notice \in Notice, NEW signed \in BOOLEAN,
             HandleWebhook(c, notice, signed)
      PROVE  Stores' /\ Calls'
  <2> DEFINE work == [payment |-> notice.payment, notice |-> notice, signed |-> signed,
                      posted |-> 0]
  <2>1. work \in JobAt["apply"] /\ "apply" \in DOMAIN JobAt
    <3>1. notice.payment \in Payment
      BY DEF Notice
    <3>2. work \in WebhookJob({0})
      BY <3>1, Zenon DEF WebhookJob
    <3> QED BY <3>2, JobPlaces
  <2>2. pc' = [pc EXCEPT ![c] = "apply"] /\ job' = [job EXCEPT ![c] = work]
    BY <1>4 DEF HandleWebhook
  <2>3. Stores'
    BY <1>4, <1>0 DEF HandleWebhook
  <2> HIDE DEF work, Stores
  <2>4. Calls'
    BY <1>0, <2>1, <2>2, CallsStep
  <2> QED BY <2>3, <2>4
<1>f. ASSUME NEW c \in Call, RecordEvent(c)
      PROVE  /\ seenEvents' \in [Payment -> SUBSET EventId]
             /\ job[c] \in WebhookJob({0})
             /\ job[c].payment \in Payment
             /\ job[c].notice.status \in ProviderStatus
  <2>1. pc[c] = "apply"
    BY <1>f DEF RecordEvent
  <2>2. job[c] \in WebhookJob({0})
    BY <2>1, <1>b
  <2>3. job[c].payment \in Payment /\ job[c].notice \in Notice
    BY <2>2 DEF WebhookJob
  <2>4. job[c].notice.id \in EventId /\ job[c].notice.status \in ProviderStatus
    BY <2>3 DEF Notice
  <2>5. seenEvents' \in [Payment -> SUBSET EventId]
    BY <1>f, <1>0, <2>3, <2>4 DEF RecordEvent
  <2> QED BY <2>2, <2>3, <2>4, <2>5
<1>5. ASSUME NEW c \in Call, IgnoreOutOfOrder(c) PROVE Stores' /\ Calls'
  BY <1>5, <1>0, <1>f, <1>c DEF IgnoreOutOfOrder
<1>6. ASSUME NEW c \in Call, ApplyProviderEvent(c) PROVE Stores' /\ Calls'
  <2>1. RecordEvent(c)
    BY <1>6 DEF ApplyProviderEvent
  <2>2. Stores'
    BY <1>6, <1>0, <1>f, <2>1 DEF ApplyProviderEvent, ProviderStatus, IntentStatus
  <2>3. job[c] \in JobAt["saved"] /\ "saved" \in DOMAIN JobAt
    BY <1>f, <2>1, JobPlaces
  <2>4. Calls'
    BY <1>6, <1>d, <2>3 DEF ApplyProviderEvent
  <2> QED BY <2>2, <2>4
<1>7. ASSUME NEW c \in Call, SettleRide(c) PROVE Stores' /\ Calls'
  <2>1. pc[c] = "saved" /\ PostNext(c) /\ pc' = [pc EXCEPT ![c] = "settle"]
    BY <1>7 DEF SettleRide
  <2>3. job[c].posted = 0
    BY <2>1, <1>b DEF WebhookJob
  <2>4. job[c].posted < 4
    BY <2>3
  <2> HIDE DEF Stores
  <2>2. Calls' /\ ledger' \in Seq(EntryRecord)
    BY <1>e, <2>1, <2>4
  <2> USE DEF Stores
  <2> QED BY <1>7, <1>0, <2>2 DEF SettleRide
<1>8. ASSUME NEW c \in Call, SettleMore(c) PROVE Stores' /\ Calls'
  <2>1. job[c].posted < 4
    BY <1>8 DEF SettleMore, PartyOrder
  <2>2. pc' = [pc EXCEPT ![c] = "settle"]
    BY <1>8, <1>0 DEF SettleMore, Calls
  <2>3. Calls' /\ ledger' \in Seq(EntryRecord)
    BY <1>8, <1>e, <2>1, <2>2 DEF SettleMore
  <2> QED BY <1>8, <1>0, <2>3 DEF SettleMore
<1>9. ASSUME NEW i \in DOMAIN ledger, CompensateEntry(ledger[i])
      PROVE  Stores' /\ Calls'
  <2>1. ledger[i] \in EntryRecord
    BY <1>0
  <2>2. ledger' \in Seq(EntryRecord)
    BY <1>9, <1>0, <2>1, ReversalType, RangeAppended DEF CompensateEntry
  <2> QED BY <1>9, <1>0, <2>2 DEF CompensateEntry, Calls
<1>10. ASSUME NEW notice \in Notice, ProviderSends(notice) PROVE Stores' /\ Calls'
  BY <1>10, <1>0 DEF ProviderSends, Calls
<1>11. ASSUME NEW p \in Payment, ExpireIfLapsed(p) \/ MarkRefundPending(p)
       PROVE  Stores' /\ Calls'
  BY <1>11, <1>0 DEF ExpireIfLapsed, MarkRefundPending, Calls, IntentStatus
<1>12. CASE UNCHANGED vars
  BY <1>12, <1>0 DEF vars, Calls
<1> HIDE DEF Stores
<1> QED
  BY <1>1, <1>2, <1>3, <1>4, <1>5, <1>6, <1>7, <1>8, <1>9, <1>10, <1>11, <1>12
  DEF Next, CallContinues

(* Every variable keeps its type, and a call carries what it needs where   *)
(* it waits, however handlers, deliveries and compensations interleave.    *)
THEOREM PaymentTypes == Spec => []TypeOK
<1> QED BY InitTypes, TypeStep, PTL DEF Spec

-----------------------------------------------------------------------------
(* The invariant behind the books.                                         *)

Reported(p) == \E n \in sent : n.payment = p /\ n.status = "paid"

(* What holds of a call at each place: an intent being created is not      *)
(* stored and is nobody else's; a webhook works on a stored intent, for    *)
(* the payment its notification is about, which the provider sent if it is *)
(* signed; and only a payment that was once paid is being settled.         *)
Serves(c) ==
  /\ pc[c] = "order" =>
       /\ status[job[c].payment] = "none"
       /\ \A o \in Call \ {c} : pc[o] # "idle" => job[o].payment # job[c].payment
  /\ pc[c] \in {"apply", "saved", "settle"} =>
       /\ status[job[c].payment] # "none"
       /\ job[c].notice.payment = job[c].payment
       /\ job[c].signed /\ pc[c] = "apply" => job[c].notice \in sent
  /\ pc[c] = "settle" => status[job[c].payment] \in EverPaid

BooksInv ==
  /\ \A p \in Payment : status[p] \in EverPaid => Reported(p)
  /\ \A e \in Range(ledger) : Reported(e.payment)
  /\ \A c \in Call : Serves(c)

LEMMA InitBooks == Init => BooksInv
<1> SUFFICES ASSUME Init PROVE BooksInv
  OBVIOUS
<1>1. Range(ledger) = {}
  BY DEF Init, Range
<1> QED BY <1>1 DEF Init, BooksInv, Serves, EverPaid

LEMMA JobPayment ==
  ASSUME TypeOK, NEW c \in Call, pc[c] # "idle"
  PROVE  /\ job[c].payment \in Payment
         /\ pc[c] \in {"apply", "saved", "settle"} =>
              job[c].notice \in Notice
         /\ pc[c] = "saved" => job[c].posted = 0
         /\ pc[c] = "settle" => job[c].posted \in 1..4
<1>1. pc[c] \in {"order", "create", "apply", "saved", "settle"} /\ job[c] \in JobAt[pc[c]]
  BY JobPlaces DEF TypeOK
<1>2. CASE pc[c] \in {"order", "create"}
  <2>1. job[c] \in CreateJob
    BY <1>1, <1>2, JobPlaces
  <2> QED BY <1>2, <2>1 DEF CreateJob
<1>3. CASE pc[c] \in {"apply", "saved"}
  <2>1. job[c] \in WebhookJob({0})
    BY <1>1, <1>3, JobPlaces
  <2> QED BY <1>3, <2>1 DEF WebhookJob
<1>4. CASE pc[c] = "settle"
  <2>1. job[c] \in WebhookJob(1..4)
    BY <1>1, <1>4, JobPlaces
  <2> QED BY <1>4, <2>1 DEF WebhookJob
<1> QED BY <1>1, <1>2, <1>3, <1>4

(* The book's own copies of the operators are these.                       *)
LEMMA SameOperators ==
  /\ Book!Party = Party /\ Book!IntentStatus = IntentStatus
  /\ Book!EverPaid = EverPaid /\ Book!IntentEdge = IntentEdge
  /\ \A p, party : Book!Posting(p, party) = Posting(p, party)
  /\ \A e : Book!Reversal(e) = Reversal(e)
<1>1. Book!Party = Party /\ Book!IntentStatus = IntentStatus /\ Book!EverPaid = EverPaid
  BY DEF Book!Party, Party, Book!IntentStatus, IntentStatus, Book!EverPaid, EverPaid
<1>2. Book!IntentEdge = IntentEdge
  BY <1>1 DEF Book!IntentEdge, IntentEdge, Book!ProviderStatus, ProviderStatus,
              Book!Applies, Applies
<1>3. ASSUME NEW gross PROVE Book!Split(gross) = Split(gross)
  BY <1>1 DEF Book!Split, Split
<1>4. ASSUME NEW p, NEW party PROVE Book!Posting(p, party) = Posting(p, party)
  BY <1>3 DEF Book!Posting, Posting
<1>5. ASSUME NEW e PROVE Book!Reversal(e) = Reversal(e)
  BY DEF Book!Reversal, Reversal
<1> QED BY <1>1, <1>2, <1>4, <1>5

(* Posting on is posting in the book, or posting again what is there.      *)
LEMMA PostStep ==
  ASSUME TypeOK, NEW c \in Call, pc[c] \in {"saved", "settle"},
         job[c].posted < 4, status[job[c].payment] \in EverPaid,
         PostNext(c), status' = status
  PROVE  /\ [Book!Next]_<<status, Range(ledger)>>
         /\ \A e \in Range(ledger') : e \in Range(ledger) \/ e.payment = job[c].payment
<1> DEFINE next == job[c].posted + 1
<1>1. job[c].payment \in Payment /\ next \in 1..4
  BY JobPayment
<1>2. PartyOrder[next] \in Party
  BY <1>1, PartyOrderParty
<1>3. ledger' = Appended(Posting(job[c].payment, PartyOrder[next]))
  BY DEF PostNext
<1> HIDE DEF next
<1> DEFINE entry == Posting(job[c].payment, PartyOrder[next])
<1>4. entry \in EntryRecord /\ entry.payment = job[c].payment
  <2>1. entry \in EntryRecord
    BY <1>1, <1>2, PostingType
  <2>2. entry.payment = job[c].payment
    BY DEF Posting
  <2> QED BY <2>1, <2>2
<1>5. Range(ledger') = Range(ledger) \/ Range(ledger') = Range(ledger) \cup {entry}
  BY <1>3, <1>4, RangeAppended DEF TypeOK
<1>6. ASSUME Range(ledger') = Range(ledger) \cup {entry}
      PROVE  Book!Next
  <2>1. Book!Post(job[c].payment, PartyOrder[next])
    BY <1>6, SameOperators DEF Book!Post
  <2> QED BY <1>1, <1>2, <2>1, SameOperators DEF Book!Next
<1> HIDE DEF entry
<1> QED BY <1>4, <1>5, <1>6

(* Every step is one of the abstract book, or none of it.                  *)
LEMMA BookStep ==
  ASSUME TypeOK, BooksInv, [Next]_vars
  PROVE  [Book!Next]_<<status, Range(ledger)>>
<1> DEFINE Goal == [Book!Next]_<<status, Range(ledger)>>
<1>a. SUFFICES Goal
  OBVIOUS
<1>0. ASSUME UNCHANGED <<status, ledger>> PROVE Goal
  BY <1>0
<1>1. ASSUME NEW c \in Call, OrderCreated(c) PROVE Goal
  <2>1. job[c].payment \in Payment /\ status[job[c].payment] = "none"
    BY <1>1, JobPayment DEF OrderCreated, BooksInv, Serves
  <2>2. Book!Open(job[c].payment)
    BY <1>1, <2>1 DEF OrderCreated, Book!Open
  <2> QED BY <2>1, <2>2 DEF Book!Next
<1>2. ASSUME NEW c \in Call, ApplyProviderEvent(c) PROVE Goal
  <2> DEFINE p == job[c].payment
             to == job[c].notice.status
  <2>1. pc[c] = "apply" /\ Applies(status[p], to) /\ UNCHANGED ledger
        /\ status' = [status EXCEPT ![p] = to]
    BY <1>2 DEF ApplyProviderEvent, RecordEvent
  <2>2. p \in Payment /\ job[c].notice \in Notice
    BY <2>1, JobPayment
  <2>3. to \in ProviderStatus /\ to \in IntentStatus
    BY <2>2 DEF Notice, ProviderStatus, IntentStatus
  <2>4. status[p] \in IntentStatus
    BY <2>1 DEF Applies, IntentStatus
  <2> HIDE DEF p, to
  <2>5. <<status[p], to>> \in IntentEdge
    BY <2>1, <2>3, <2>4 DEF IntentEdge
  <2>6. Book!Report(p, to)
    BY <2>1, <2>5, SameOperators DEF Book!Report
  <2> QED BY <2>2, <2>3, <2>6, SameOperators DEF Book!Next
<1>3. ASSUME NEW c \in Call, SettleRide(c) PROVE Goal
  <2>1. pc[c] = "saved" /\ PostNext(c) /\ status' = status
        /\ status[job[c].payment] \in EverPaid
    BY <1>3 DEF SettleRide, EverPaid
  <2>2. job[c].posted < 4
    BY <2>1, JobPayment
  <2> QED BY <2>1, <2>2, PostStep
<1>4. ASSUME NEW c \in Call, SettleMore(c) PROVE Goal
  <2>1. pc[c] = "settle" /\ PostNext(c) /\ status' = status /\ job[c].posted < 4
    BY <1>4 DEF SettleMore, PartyOrder
  <2>2. status[job[c].payment] \in EverPaid
    BY <2>1 DEF BooksInv, Serves
  <2> QED BY <2>1, <2>2, PostStep
<1>5. ASSUME NEW i \in DOMAIN ledger, CompensateEntry(ledger[i]) PROVE Goal
  <2>1. ledger[i] \in EntryRecord /\ ledger[i] \in Range(ledger)
    BY DEF TypeOK, Range
  <2>2. Reversal(ledger[i]) \in EntryRecord
    BY <2>1, ReversalType
  <2>3. ledger' = Appended(Reversal(ledger[i])) /\ status' = status
    BY <1>5 DEF CompensateEntry
  <2>4. \/ Range(ledger') = Range(ledger)
        \/ Range(ledger') = Range(ledger) \cup {Reversal(ledger[i])}
    BY <2>2, <2>3, RangeAppended DEF TypeOK
  <2>5. ASSUME Range(ledger') = Range(ledger) \cup {Reversal(ledger[i])}
        PROVE  Book!Next
    <3>1. Book!Reverse(ledger[i])
      BY <2>1, <2>3, <2>5, SameOperators DEF Book!Reverse
    <3> QED BY <2>1, <3>1 DEF Book!Next
  <2> QED BY <2>3, <2>4, <2>5
<1>6. ASSUME NEW p \in Payment, ExpireIfLapsed(p) \/ MarkRefundPending(p) PROVE Goal
  <2>1. PICK to \in IntentStatus : Book!Report(p, to)
    <3>1. CASE ExpireIfLapsed(p)
      <4>1. Book!Report(p, "expired") /\ "expired" \in IntentStatus
        BY <3>1, SameOperators DEF ExpireIfLapsed, Book!Report, IntentEdge, IntentStatus
      <4> QED BY <4>1
    <3>2. CASE MarkRefundPending(p)
      <4>1. Book!Report(p, "refund_pending") /\ "refund_pending" \in IntentStatus
        BY <3>2, SameOperators DEF MarkRefundPending, Book!Report, IntentEdge, IntentStatus
      <4> QED BY <4>1
    <3> QED BY <1>6, <3>1, <3>2
  <2> QED BY <2>1, SameOperators DEF Book!Next
<1>7. ASSUME NEW c \in Call, NEW p \in Payment, CreatePixIntent(c, p) PROVE Goal
  BY <1>7, <1>0 DEF CreatePixIntent
<1>8. ASSUME NEW c \in Call, NEW notice \in Notice, NEW signed \in BOOLEAN,
             HandleWebhook(c, notice, signed)
      PROVE  Goal
  BY <1>8, <1>0 DEF HandleWebhook
<1>9. ASSUME NEW c \in Call, OrderRejected(c) \/ Created(c) \/ Discard(c)
               \/ NothingToSettle(c) \/ Settled(c) \/ IgnoreOutOfOrder(c)
      PROVE  Goal
  BY <1>9, <1>0
  DEF OrderRejected, Created, Discard, NothingToSettle, Settled, IgnoreOutOfOrder
<1>10. ASSUME NEW notice \in Notice, ProviderSends(notice) PROVE Goal
  BY <1>10, <1>0 DEF ProviderSends
<1>11. CASE UNCHANGED vars
  BY <1>11, <1>0 DEF vars
<1> HIDE DEF Goal
<1> QED
  BY <1>1, <1>2, <1>3, <1>4, <1>5, <1>6, <1>7, <1>8, <1>9, <1>10, <1>11
  DEF Next, CallContinues

-----------------------------------------------------------------------------
(* The invariant is kept.                                                  *)

(* A stored intent stays stored, and one that was paid remains one.        *)
LEMMA StatusMonotone ==
  ASSUME TypeOK, [Book!Next]_<<status, Range(ledger)>>, NEW p \in Payment
  PROVE  /\ status[p] # "none" => status'[p] # "none"
         /\ status[p] \in EverPaid => status'[p] \in EverPaid
<1>0. status \in [Payment -> IntentStatus \cup {"none"}]
  BY DEF TypeOK
<1>1. CASE status' = status
  BY <1>1
<1>2. ASSUME NEW q \in Payment, Book!Open(q)
      PROVE  /\ status[p] # "none" => status'[p] # "none"
             /\ status[p] \in EverPaid => status'[p] \in EverPaid
  BY <1>0, <1>2 DEF Book!Open, EverPaid
<1>3. ASSUME NEW q \in Payment, NEW to \in IntentStatus, Book!Report(q, to)
      PROVE  /\ status[p] # "none" => status'[p] # "none"
             /\ status[p] \in EverPaid => status'[p] \in EverPaid
  <2>1. <<status[q], to>> \in IntentEdge /\ status' = [status EXCEPT ![q] = to]
    BY <1>3, SameOperators DEF Book!Report
  <2>2. /\ to # "none"
        /\ status[q] \in EverPaid => to \in EverPaid
    BY <2>1 DEF IntentEdge, Applies, EverPaid, IntentStatus, ProviderStatus
  <2> QED BY <1>0, <2>1, <2>2
<1>4. \/ status' = status
      \/ \E q \in Payment : Book!Open(q) \/ \E to \in IntentStatus : Book!Report(q, to)
  BY SameOperators DEF Book!Next, Book!Post, Book!Reverse
<1> QED BY <1>1, <1>2, <1>3, <1>4

(* What a step of one call, or of none, leaves to the other calls.         *)
LEMMA OthersServe ==
  ASSUME TypeOK, BooksInv, [Book!Next]_<<status, Range(ledger)>>, sent \subseteq sent',
         NEW o \in Call, pc'[o] = pc[o], job'[o] = job[o],
         pc[o] = "order" => /\ status'[job[o].payment] = "none"
                            /\ \A k \in Call \ {o} :
                                 pc'[k] # "idle" => job'[k].payment # job[o].payment
  PROVE  Serves(o)'
<1>1. Serves(o)
  BY DEF BooksInv
<1>2. CASE pc[o] = "idle"
  BY <1>2 DEF Serves
<1>3. CASE pc[o] # "idle"
  <2>1. job[o].payment \in Payment
    BY <1>3, JobPayment
  <2> QED BY <1>1, <2>1, StatusMonotone DEF Serves
<1> QED BY <1>2, <1>3

LEMMA ReportedStays ==
  ASSUME sent \subseteq sent', NEW p, Reported(p)
  PROVE  Reported(p)'
BY DEF Reported

LEMMA BooksInvStep == TypeOK /\ TypeOK' /\ BooksInv /\ [Next]_vars => BooksInv'
<1> SUFFICES ASSUME TypeOK, TypeOK', BooksInv, [Next]_vars PROVE BooksInv'
  OBVIOUS
<1>0. [Book!Next]_<<status, Range(ledger)>>
  BY BookStep
<1>s. sent \subseteq sent'
  BY DEF Next, CallContinues, vars, CreatePixIntent, OrderCreated, OrderRejected, Created,
         HandleWebhook, Discard, IgnoreOutOfOrder, ApplyProviderEvent, SettleRide,
         NothingToSettle, SettleMore, Settled, CompensateEntry, ProviderSends,
         ExpireIfLapsed, MarkRefundPending
<1> DEFINE Paid == \A p \in Payment : status[p] \in EverPaid => Reported(p)
           Booked == \A e \in Range(ledger) : Reported(e.payment)
           Served == \A c \in Call : Serves(c)
<1>i. Paid /\ Booked /\ Served
  BY DEF BooksInv
<1>t. /\ pc \in [Call -> DOMAIN JobAt] /\ DOMAIN job = Call
      /\ status \in [Payment -> IntentStatus \cup {"none"}]
  BY DEF TypeOK
(* Steps that report no payment and book nothing.                          *)
<1>p. ASSUME \A p \in Payment : status'[p] \in EverPaid => status[p] \in EverPaid
      PROVE  Paid'
  BY <1>p, <1>i, <1>s, ReportedStays
<1>b. ASSUME ledger' = ledger PROVE Booked'
  BY <1>b, <1>i, <1>s, ReportedStays
(* A call that ends or goes on, at the same payment.                       *)
<1>c. ASSUME NEW c \in Call, pc[c] # "idle",
             \A o \in Call \ {c} : pc'[o] = pc[o] /\ job'[o] = job[o],
             pc'[c] # "idle" => job'[c].payment = job[c].payment,
             \A p \in Payment \ {job[c].payment} : status'[p] = status[p],
             Serves(c)'
      PROVE  Served'
  <2>1. ASSUME NEW o \in Call, o # c PROVE Serves(o)'
    <3>1. pc'[o] = pc[o] /\ job'[o] = job[o]
      BY <1>c, <2>1
    <3>2. ASSUME pc[o] = "order"
          PROVE  /\ status'[job[o].payment] = "none"
                 /\ \A k \in Call \ {o} :
                      pc'[k] # "idle" => job'[k].payment # job[o].payment
      <4>1. /\ status[job[o].payment] = "none"
            /\ \A k \in Call \ {o} : pc[k] # "idle" => job[k].payment # job[o].payment
        BY <3>2, <1>i DEF Serves
      <4>2. job[o].payment \in Payment /\ job[c].payment # job[o].payment
        BY <3>2, <4>1, <1>c, <2>1, JobPayment
      <4>3. ASSUME NEW k \in Call, k # o, pc'[k] # "idle"
            PROVE  job'[k].payment # job[o].payment
        <5>1. CASE k = c
          BY <5>1, <4>2, <4>3, <1>c
        <5>2. CASE k # c
          BY <5>2, <4>1, <4>3, <1>c
        <5> QED BY <5>1, <5>2
      <4> QED BY <4>1, <4>2, <4>3, <1>c
    <3> QED BY <3>1, <3>2, <1>0, <1>s, OthersServe
  <2> QED BY <2>1, <1>c
<1>e. ASSUME NEW c \in Call, pc[c] # "idle", End(c),
             \A p \in Payment \ {job[c].payment} : status'[p] = status[p]
      PROVE  Served'
  <2>1. pc'[c] = "idle" /\ \A o \in Call \ {c} : pc'[o] = pc[o] /\ job'[o] = job[o]
    BY <1>e, <1>t DEF End
  <2>2. Serves(c)'
    BY <2>1 DEF Serves
  <2> HIDE DEF Served
  <2> QED BY <1>e, <2>1, <2>2, <1>c
(* A step of no call.                                                      *)
<1>n. ASSUME pc' = pc, job' = job, \A p \in Payment : status[p] = "none" => status'[p] = "none"
      PROVE  Served'
  <2>1. ASSUME NEW o \in Call PROVE Serves(o)'
    <3>1. ASSUME pc[o] = "order"
          PROVE  /\ status'[job[o].payment] = "none"
                 /\ \A k \in Call \ {o} :
                      pc'[k] # "idle" => job'[k].payment # job[o].payment
      BY <3>1, <1>i, <1>n, JobPayment DEF Serves
    <3> QED BY <3>1, <1>0, <1>s, <1>n, OthersServe
  <2> QED BY <2>1
(* A call that begins.                                                     *)
<1>g. ASSUME NEW c \in Call, NEW place \in {"order", "apply"}, NEW work,
             pc[c] = "idle", status' = status,
             pc' = [pc EXCEPT ![c] = place], job' = [job EXCEPT ![c] = work],
             \A o \in Call : pc[o] = "order" => job[o].payment # work.payment,
             Serves(c)'
      PROVE  Served'
  <2>1. ASSUME NEW o \in Call, o # c PROVE Serves(o)'
    <3>1. pc'[o] = pc[o] /\ job'[o] = job[o]
      BY <1>g, <1>t, <2>1
    <3>2. ASSUME pc[o] = "order"
          PROVE  /\ status'[job[o].payment] = "none"
                 /\ \A k \in Call \ {o} :
                      pc'[k] # "idle" => job'[k].payment # job[o].payment
      <4>1. /\ status[job[o].payment] = "none"
            /\ \A k \in Call \ {o} : pc[k] # "idle" => job[k].payment # job[o].payment
        BY <3>2, <1>i DEF Serves
      <4>2. ASSUME NEW k \in Call, k # o, pc'[k] # "idle"
            PROVE  job'[k].payment # job[o].payment
        <5>1. CASE k = c
          BY <5>1, <3>2, <1>g, <1>t
        <5>2. CASE k # c
          BY <5>2, <4>1, <4>2, <1>g, <1>t
        <5> QED BY <5>1, <5>2
      <4> QED BY <4>1, <4>2, <1>g
    <3> QED BY <3>1, <3>2, <1>0, <1>s, OthersServe
  <2> QED BY <2>1, <1>g
<1>z. SUFFICES Paid' /\ Booked' /\ Served'
  BY DEF BooksInv
<1> HIDE DEF Paid, Booked, Served
<1>1. ASSUME NEW c \in Call, NEW p \in Payment, CreatePixIntent(c, p)
      PROVE  Paid' /\ Booked' /\ Served'
  <2>1. /\ pc[c] = "idle" /\ status' = status /\ ledger' = ledger
        /\ pc' = [pc EXCEPT ![c] = "order"] /\ job' = [job EXCEPT ![c] = [payment |-> p]]
        /\ status[p] = "none"
        /\ \A o \in Call : pc[o] # "idle" => job[o].payment # p
    BY <1>1 DEF CreatePixIntent, Stored, InFlight
  <2>2. /\ pc'[c] = "order" /\ job'[c].payment = p
        /\ \A o \in Call \ {c} : pc'[o] = pc[o] /\ job'[o] = job[o]
    BY <2>1, <1>t
  <2>3. Serves(c)'
    BY <2>1, <2>2 DEF Serves
  <2>4. \A o \in Call : pc[o] = "order" => job[o].payment # [payment |-> p].payment
    BY <2>1
  <2>5. Served'
    BY <2>1, <2>3, <2>4, <1>g
  <2> QED BY <2>1, <2>5, <1>p, <1>b
<1>2. ASSUME NEW c \in Call, NEW notice \in Notice, NEW signed \in BOOLEAN,
             HandleWebhook(c, notice, signed)
      PROVE  Paid' /\ Booked' /\ Served'
  <2> DEFINE work == [payment |-> notice.payment, notice |-> notice, signed |-> signed,
                      posted |-> 0]
  <2>1. /\ pc[c] = "idle" /\ status' = status /\ ledger' = ledger /\ sent' = sent
        /\ pc' = [pc EXCEPT ![c] = "apply"] /\ job' = [job EXCEPT ![c] = work]
        /\ status[notice.payment] # "none"
    BY <1>2 DEF HandleWebhook, Stored
  <2>a. signed => notice \in sent
    BY <1>2 DEF HandleWebhook
  <2>2. work.payment = notice.payment /\ work.notice = notice /\ work.signed = signed
    OBVIOUS
  <2> HIDE DEF work
  <2>3. pc'[c] = "apply" /\ job'[c] = work
    BY <2>1, <1>t
  <2>b. job'[c].signed => job'[c].notice \in sent'
    BY <2>1, <2>2, <2>3, <2>a
  <2>4. Serves(c)'
    BY <2>1, <2>2, <2>3, <2>b DEF Serves
  <2>5. \A o \in Call : pc[o] = "order" => job[o].payment # work.payment
    BY <2>1, <2>2, <1>i DEF Served, Serves
  <2>6. Served'
    BY <2>1, <2>4, <2>5, <1>g
  <2> QED BY <2>1, <2>6, <1>p, <1>b
<1>3. ASSUME NEW c \in Call, OrderCreated(c)
      PROVE  Paid' /\ Booked' /\ Served'
  <2> DEFINE p == job[c].payment
  <2>1. /\ pc[c] = "order" /\ ledger' = ledger /\ job' = job
        /\ pc' = [pc EXCEPT ![c] = "create"]
        /\ status' = [status EXCEPT ![p] = "pending"]
    BY <1>3 DEF OrderCreated
  <2>2. p \in Payment
    BY <2>1, JobPayment
  <2>3. /\ \A q \in Payment \ {p} : status'[q] = status[q]
        /\ status'[p] = "pending"
        /\ \A o \in Call \ {c} : pc'[o] = pc[o] /\ job'[o] = job[o]
        /\ pc'[c] = "create" /\ job'[c].payment = p
    BY <2>1, <2>2, <1>t
  <2>4. Serves(c)'
    BY <2>3 DEF Serves
  <2>5. Served'
    BY <2>1, <2>3, <2>4, <1>c
  <2>6. Paid'
    BY <2>3, <1>p DEF EverPaid
  <2> QED BY <2>1, <2>5, <2>6, <1>b
<1>4. ASSUME NEW c \in Call, OrderRejected(c) \/ Created(c) \/ Discard(c)
               \/ NothingToSettle(c) \/ Settled(c) \/ IgnoreOutOfOrder(c)
      PROVE  Paid' /\ Booked' /\ Served'
  <2>1. pc[c] # "idle" /\ End(c) /\ status' = status /\ ledger' = ledger
    BY <1>4 DEF OrderRejected, Created, Discard, NothingToSettle, Settled,
                IgnoreOutOfOrder, RecordEvent
  <2> QED BY <2>1, <1>e, <1>p, <1>b
<1>5. ASSUME NEW c \in Call, ApplyProviderEvent(c)
      PROVE  Paid' /\ Booked' /\ Served'
  <2> DEFINE p == job[c].payment
             n == job[c].notice
  <2>1. /\ pc[c] = "apply" /\ Applies(status[p], n.status)
        /\ status' = [status EXCEPT ![p] = n.status]
        /\ pc' = [pc EXCEPT ![c] = "saved"] /\ ledger' = ledger /\ sent' = sent /\ job' = job
    BY <1>5 DEF ApplyProviderEvent, RecordEvent
  <2>2. job[c].signed
    BY <1>5 DEF ApplyProviderEvent, RecordEvent
  <2>3. p \in Payment /\ n \in Notice
    BY <2>1, JobPayment
  <2>4. Serves(c)
    BY <1>i DEF Served
  <2>5. n.payment = p /\ n \in sent /\ status[p] # "none"
    BY <2>1, <2>2, <2>4 DEF Serves
  <2>6. n.status \in ProviderStatus
    BY <2>3 DEF Notice
  <2>7. /\ \A q \in Payment \ {p} : status'[q] = status[q]
        /\ status'[p] = n.status
        /\ \A o \in Call \ {c} : pc'[o] = pc[o] /\ job'[o] = job[o]
        /\ pc'[c] = "saved" /\ job'[c].payment = p /\ job'[c].notice.payment = p
    BY <2>1, <2>3, <2>5, <1>t
  <2>8. Serves(c)'
    <3>1. n.status # "none"
      BY <2>6 DEF ProviderStatus
    <3> QED BY <2>7, <3>1 DEF Serves
  <2>9. Served'
    BY <2>1, <2>7, <2>8, <1>c
  <2>10. ASSUME NEW q \in Payment, status'[q] \in EverPaid PROVE Reported(q)'
    <3>1. CASE q # p
      BY <3>1, <2>7, <2>10, <1>i, <1>s, ReportedStays DEF Paid
    <3>2. CASE q = p /\ n.status = "paid"
      BY <3>2, <2>1, <2>5 DEF Reported
    <3>3. CASE q = p /\ n.status = "refunded"
      <4>1. status[p] \in EverPaid
        BY <2>1, <3>3 DEF Applies, EverPaid
      <4> QED BY <4>1, <3>3, <1>i, <1>s, ReportedStays DEF Paid
    <3>4. CASE q = p /\ n.status = "failed"
      BY <3>4, <2>7, <2>10 DEF EverPaid
    <3> QED BY <3>1, <3>2, <3>3, <3>4, <2>6 DEF ProviderStatus
  <2>11. Paid'
    BY <2>10 DEF Paid
  <2> QED BY <2>1, <2>9, <2>11, <1>b
<1>6. ASSUME NEW c \in Call, SettleRide(c) \/ SettleMore(c)
      PROVE  Paid' /\ Booked' /\ Served'
  <2> DEFINE p == job[c].payment
  <2>1. /\ pc[c] \in {"saved", "settle"} /\ PostNext(c) /\ status' = status /\ sent' = sent
        /\ pc'[c] = "settle" /\ \A o \in Call \ {c} : pc'[o] = pc[o]
    BY <1>6, <1>t DEF SettleRide, SettleMore
  <2>2. Serves(c) /\ p \in Payment
    BY <1>i, <2>1, JobPayment DEF Served
  <2>3. status[p] \in EverPaid
    BY <1>6, <2>2 DEF SettleRide, SettleMore, Serves, EverPaid
  <2>4. job[c].posted < 4
    BY <1>6, JobPayment DEF SettleRide, SettleMore, PartyOrder
  <2>5. \A e \in Range(ledger') : e \in Range(ledger) \/ e.payment = p
    BY <2>1, <2>3, <2>4, PostStep
  <2>6. Reported(p)
    BY <1>i, <2>2, <2>3 DEF Paid
  <2>7. Booked'
    BY <2>5, <2>6, <1>i, <1>s, ReportedStays DEF Booked
  <2>8. /\ \A o \in Call \ {c} : job'[o] = job[o]
        /\ job'[c].payment = p /\ job'[c].notice = job[c].notice
    <3>1. job' = [job EXCEPT ![c] = [job[c] EXCEPT !.posted = job[c].posted + 1]]
      BY <2>1 DEF PostNext
    <3>2. job[c] \in [payment: Payment, notice: Notice, signed: BOOLEAN, posted: 0..4]
      <4>1. job[c] \in WebhookJob({0}) \/ job[c] \in WebhookJob(1..4)
        BY <2>1, JobPlaces DEF TypeOK
      <4> QED BY <4>1 DEF WebhookJob
    <3>3. job'[c] = [job[c] EXCEPT !.posted = job[c].posted + 1]
      BY <3>1, <1>t
    <3> QED BY <3>1, <3>2, <3>3, <1>t
  <2>9. Serves(c)'
    BY <2>1, <2>2, <2>3, <2>8 DEF Serves, EverPaid
  <2>10. Served'
    BY <2>1, <2>8, <2>9, <1>c
  <2> QED BY <2>1, <2>7, <2>10, <1>p
<1>7. ASSUME NEW i \in DOMAIN ledger, CompensateEntry(ledger[i])
      PROVE  Paid' /\ Booked' /\ Served'
  <2>1. /\ ledger' = Appended(Reversal(ledger[i])) /\ status' = status /\ pc' = pc
        /\ job' = job
    BY <1>7 DEF CompensateEntry
  <2>2. ledger[i] \in EntryRecord /\ ledger[i] \in Range(ledger)
    BY DEF TypeOK, Range
  <2>3. Reversal(ledger[i]) \in EntryRecord /\ Reversal(ledger[i]).payment = ledger[i].payment
    BY <2>2, ReversalType
  <2>4. \A e \in Range(ledger') : e \in Range(ledger) \/ e = Reversal(ledger[i])
    BY <2>1, <2>3, RangeAppended DEF TypeOK
  <2>5. Booked'
    BY <2>2, <2>3, <2>4, <1>i, <1>s, ReportedStays DEF Booked
  <2> QED BY <2>1, <2>5, <1>p, <1>n
<1>8. ASSUME NEW p \in Payment, ExpireIfLapsed(p) \/ MarkRefundPending(p)
      PROVE  Paid' /\ Booked' /\ Served'
  <2>1. /\ status[p] # "none" /\ pc' = pc /\ job' = job /\ ledger' = ledger
        /\ \A q \in Payment \ {p} : status'[q] = status[q]
        /\ status'[p] \in EverPaid => status[p] \in EverPaid
    BY <1>8, <1>t DEF ExpireIfLapsed, MarkRefundPending, EverPaid
  <2> QED BY <2>1, <1>p, <1>b, <1>n
<1>9. ASSUME NEW notice \in Notice, ProviderSends(notice)
      PROVE  Paid' /\ Booked' /\ Served'
  BY <1>9, <1>p, <1>b, <1>n DEF ProviderSends
<1>10. CASE UNCHANGED vars
  BY <1>10, <1>p, <1>b, <1>n DEF vars
<1> QED
  BY <1>1, <1>2, <1>3, <1>4, <1>5, <1>6, <1>7, <1>8, <1>9, <1>10 DEF Next, CallContinues

(* The invariant of handleWebhook and its neighbours: paid intents were    *)
(* reported paid, so were booked ones, and each call is about the payment  *)
(* it says.                                                                *)
THEOREM BooksInvariant == Spec => [](TypeOK /\ BooksInv)
<1>1. Init => TypeOK /\ BooksInv
  BY InitTypes, InitBooks
<1>2. TypeOK /\ BooksInv /\ [Next]_vars => (TypeOK /\ BooksInv)'
  BY TypeStep, BooksInvStep
<1> QED BY <1>1, <1>2, PTL DEF Spec

(* Nothing is booked for a payment the provider did not report paid,       *)
(* whatever arrives unsigned, twice or out of order.                       *)
THEOREM BookedIsConfirmed == Spec => []NothingBookedUnconfirmed
<1>1. TypeOK /\ BooksInv => NothingBookedUnconfirmed
  BY DEF BooksInv, NothingBookedUnconfirmed, Reported
<1> QED BY <1>1, BooksInvariant, PTL

(* The payment service implements the book of payments.                    *)
THEOREM ServiceImplementsBook == Spec => ImplementsBook
<1>1. Init => Book!Init
  <2>1. ASSUME Init PROVE Range(ledger) = {} /\ status = [p \in Payment |-> "none"]
    BY <2>1 DEF Init, Range
  <2> QED BY <2>1 DEF Book!Init
<1>2. TypeOK /\ BooksInv /\ [Next]_vars => [Book!Next]_<<status, Range(ledger)>>
  BY BookStep
<1> QED BY <1>1, <1>2, BooksInvariant, PTL DEF Spec, ImplementsBook, Book!Spec

-----------------------------------------------------------------------------
(* What the parties hold.                                                  *)

Share(p, party) == Signed(Posting(p, party))

Of(p, party) == {i \in DOMAIN ledger : ledger[i].payment = p /\ ledger[i].party = party}

(* The entries of a party for a payment are the posting and its reversals, *)
(* up to some depth and each once, so that all but the last cancel.        *)
Chain(p, party) ==
  \/ Of(p, party) = {}
  \/ \E top \in Nat :
       /\ \A i \in Of(p, party) : ledger[i].depth <= top
       /\ \A d \in 0 .. top : \E i \in Of(p, party) : ledger[i].depth = d
       /\ Balance(Of(p, party)) = IF top % 2 = 0 THEN Share(p, party) ELSE 0

(* An entry adds its party's share, or takes it back.                      *)
TrueTo(e) ==
  Signed(e) = IF e.depth % 2 = 0 THEN Share(e.payment, e.party) ELSE - Share(e.payment, e.party)

Single == \A i, j \in DOMAIN ledger : EntryId(ledger[i]) = EntryId(ledger[j]) => i = j

LedgerInv ==
  /\ Single
  /\ \A i \in DOMAIN ledger : TrueTo(ledger[i])
  /\ \A p \in Payment, party \in Party : Chain(p, party)

(* The entries of a party are finitely many and have numbers to add up.    *)
LEMMA EntriesAdd ==
  ASSUME ledger \in Seq(EntryRecord)
  PROVE  /\ \A i \in DOMAIN ledger : Signed(ledger[i]) \in Int
         /\ \A S \in SUBSET DOMAIN ledger : IsFiniteSet(S)
<1>1. IsFiniteSet(DOMAIN ledger)
  <2>1. DOMAIN ledger = 1 .. Len(ledger) /\ Len(ledger) \in Nat
    OBVIOUS
  <2>2. IsFiniteSet(1 .. Len(ledger))
    BY <2>1, FS_Interval
  <2> QED
    BY <2>1, <2>2
<1>2. ASSUME NEW i \in DOMAIN ledger PROVE Signed(ledger[i]) \in Int
  <2>1. ledger[i] \in EntryRecord
    OBVIOUS
  <2> QED
    BY <2>1 DEF Signed, EntryRecord
<1> QED
  BY <1>1, <1>2, FS_Subset

(* What an append does, entry by entry.                                    *)
LEMMA AppendedEntries ==
  ASSUME ledger \in Seq(EntryRecord), NEW e \in EntryRecord, ledger' = Appended(e)
  PROVE  \/ /\ ledger' = ledger
            /\ \E i \in DOMAIN ledger : EntryId(ledger[i]) = EntryId(e)
         \/ /\ ledger' \in Seq(EntryRecord)
            /\ DOMAIN ledger' = DOMAIN ledger \cup {Len(ledger) + 1}
            /\ Len(ledger) + 1 \notin DOMAIN ledger
            /\ ledger'[Len(ledger) + 1] = e
            /\ \A i \in DOMAIN ledger : ledger'[i] = ledger[i]
            /\ \A i \in DOMAIN ledger : EntryId(ledger[i]) # EntryId(e)
<1>1. CASE \E i \in DOMAIN ledger : EntryId(ledger[i]) = EntryId(e)
  BY <1>1 DEF Appended
<1>2. CASE ~ \E i \in DOMAIN ledger : EntryId(ledger[i]) = EntryId(e)
  <2>1. ledger' = Append(ledger, e)
    BY <1>2 DEF Appended
  <2>2. /\ ledger' \in Seq(EntryRecord) /\ Len(ledger) \in Nat
        /\ DOMAIN ledger = 1 .. Len(ledger) /\ DOMAIN ledger' = 1 .. (Len(ledger) + 1)
    BY <2>1
  <2>3. /\ ledger'[Len(ledger) + 1] = e
        /\ \A i \in 1 .. Len(ledger) : ledger'[i] = ledger[i]
    BY <2>1
  <2> QED
    BY <1>2, <2>2, <2>3
<1> QED
  BY <1>1, <1>2

(* A step that leaves the ledger alone leaves the chains as they are.      *)
LEMMA LedgerSame ==
  ASSUME LedgerInv, ledger' = ledger
  PROVE  LedgerInv'
<1>1. Single' /\ \A i \in DOMAIN ledger' : TrueTo(ledger'[i])
  BY DEF LedgerInv, Single
<1>2. \A S : Balance(S)' = Balance(S)
  BY DEF Balance
<1>3. ASSUME NEW p \in Payment, NEW party \in Party PROVE Chain(p, party)'
  <2>1. Of(p, party)' = Of(p, party) /\ Chain(p, party) /\ (Share(p, party))' = Share(p, party)
    BY DEF LedgerInv, Of, Share
  <2>2. Balance(Of(p, party))' = Balance(Of(p, party))
    BY <1>2, <2>1
  <2> QED
    BY <2>1, <2>2 DEF Chain
<1> QED
  BY <1>1, <1>3 DEF LedgerInv

(* An entry appended to its party's chain: a posting, or the reversal of   *)
(* what is there.                                                          *)
Follows(e) ==
  e.depth = 0 \/ \E i \in Of(e.payment, e.party) : ledger[i].depth = e.depth - 1

(* An append either finds the entry there or makes a chain one longer.     *)
LEMMA LedgerStep ==
  ASSUME ledger \in Seq(EntryRecord), LedgerInv, NEW e \in EntryRecord, ledger' = Appended(e),
         TrueTo(e), Follows(e)
  PROVE  LedgerInv'
<1> DEFINE n == Len(ledger) + 1
           old == [i \in DOMAIN ledger |-> Signed(ledger[i])]
           new == [i \in DOMAIN ledger' |-> Signed(ledger'[i])]
<1>0. CASE ledger' = ledger
  BY <1>0, LedgerSame
<1>1. CASE ledger' # ledger
  <2>1. /\ ledger' \in Seq(EntryRecord)
        /\ DOMAIN ledger' = DOMAIN ledger \cup {n} /\ n \notin DOMAIN ledger
        /\ ledger'[n] = e /\ \A i \in DOMAIN ledger : ledger'[i] = ledger[i]
        /\ \A i \in DOMAIN ledger : EntryId(ledger[i]) # EntryId(e)
    BY <1>1, AppendedEntries
  <2> HIDE DEF n
  <2>2. Single'
    BY <2>1 DEF LedgerInv, Single
  <2>3. (\A i \in DOMAIN ledger : TrueTo(ledger[i]))'
    BY <2>1 DEF LedgerInv, TrueTo
  <2>4. /\ \A i \in DOMAIN ledger : old[i] \in Int /\ old[i] = new[i] /\ ledger[i].depth \in Nat
        /\ new[n] = Signed(e) /\ new[n] \in Int /\ e.depth \in Nat
        /\ \A S \in SUBSET DOMAIN ledger : IsFiniteSet(S)
    <3>1. ASSUME NEW i \in DOMAIN ledger PROVE Signed(ledger[i]) \in Int /\ ledger[i].depth \in Nat
      <4>1. ledger[i] \in EntryRecord
        OBVIOUS
      <4> QED
        BY <4>1, EntriesAdd DEF EntryRecord
    <3>2. Signed(e) \in Int /\ e.depth \in Nat
      BY DEF Signed, EntryRecord
    <3> QED
      BY <2>1, <3>1, <3>2, EntriesAdd
  <2>5. /\ \A S : Balance(S) = SumFunctionOnSet(old, S)
        /\ \A S : Balance(S)' = SumFunctionOnSet(new, S)
    BY DEF Balance
  <2> HIDE DEF old, new
  <2>6. \A S \in SUBSET DOMAIN ledger : SumFunctionOnSet(new, S) = SumFunctionOnSet(old, S)
    BY <2>4, SumCongruent
  <2>7. ASSUME NEW p \in Payment, NEW party \in Party PROVE Chain(p, party)'
    <3>1. Chain(p, party) /\ Of(p, party) \in SUBSET DOMAIN ledger
      BY DEF LedgerInv, Of
    <3>2. CASE e.payment # p \/ e.party # party
      <4>1. Of(p, party)' = Of(p, party)
        BY <2>1, <3>2 DEF Of
      <4>2. Balance(Of(p, party))' = Balance(Of(p, party))
        BY <2>5, <2>6, <3>1, <4>1
      <4>3. \A i \in Of(p, party) : ledger'[i] = ledger[i]
        BY <2>1, <3>1
      <4> QED
        BY <3>1, <4>1, <4>2, <4>3 DEF Chain, Share
    <3>3. CASE e.payment = p /\ e.party = party
      <4> DEFINE own == Of(p, party)
      <4>1. Of(p, party)' = own \cup {n} /\ n \notin own
        BY <2>1, <3>3 DEF Of
      <4>2. \A i \in own : ledger'[i] = ledger[i] /\ ledger[i].depth # e.depth
        BY <2>1, <3>3 DEF Of, EntryId
      <4>3. Balance(Of(p, party))' = Signed(e) + Balance(own) /\ Balance({}) = 0
        <5>1. SumFunctionOnSet(new, own \cup {n}) = new[n] + SumFunctionOnSet(new, own)
          BY <2>4, <3>1, <4>1, SumAdds
        <5>2. SumFunctionOnSet(old, {}) = 0
          BY FS_EmptySet, SumUnfolds
        <5> QED
          BY <2>4, <2>5, <2>6, <3>1, <4>1, <5>1, <5>2
      <4>4. Share(p, party) \in Int /\ (Share(p, party))' = Share(p, party)
        BY PostingType DEF Share, Signed, EntryRecord
      <4>5. Signed(e) = IF e.depth % 2 = 0 THEN Share(p, party) ELSE - Share(p, party)
        BY <3>3 DEF TrueTo
      <4> HIDE DEF own
      <4>6. CASE own = {}
        <5>1. e.depth = 0
          BY <3>3, <4>6 DEF Follows, own
        <5>2. Balance(Of(p, party))' = Share(p, party)
          BY <4>3, <4>4, <4>5, <4>6, <5>1
        <5>3. /\ \A i \in Of(p, party)' : ledger'[i].depth <= 0
              /\ \A d \in 0 .. 0 : \E i \in Of(p, party)' : ledger'[i].depth = d
          BY <2>1, <4>1, <4>6, <5>1
        <5> QED
          BY <4>4, <5>2, <5>3 DEF Chain
      <4>7. CASE own # {}
        <5>1. PICK top \in Nat :
                /\ \A i \in own : ledger[i].depth <= top
                /\ \A d \in 0 .. top : \E i \in own : ledger[i].depth = d
                /\ Balance(own) = IF top % 2 = 0 THEN Share(p, party) ELSE 0
          BY <3>1, <4>7 DEF Chain, own
        <5>2. e.depth = top + 1
          <6>1. ~ (e.depth \in 0 .. top)
            BY <4>2, <5>1
          <6>2. e.depth # 0
            BY <6>1
          <6>3. e.depth - 1 <= top
            BY <3>3, <5>1, <6>2 DEF Follows, own
          <6> QED
            BY <2>4, <6>1, <6>3
        <5>3. Balance(Of(p, party))' = IF (top + 1) % 2 = 0 THEN Share(p, party) ELSE 0
          <6>1. CASE top % 2 = 0
            <7>1. (top + 1) % 2 # 0
              BY <6>1
            <7> QED
              BY <4>3, <4>4, <4>5, <5>1, <5>2, <6>1, <7>1
          <6>2. CASE top % 2 # 0
            <7>1. (top + 1) % 2 = 0
              BY <6>2
            <7> QED
              BY <4>3, <4>4, <4>5, <5>1, <5>2, <6>2, <7>1
          <6> QED
            BY <6>1, <6>2
        <5>4. \A i \in Of(p, party)' : ledger'[i].depth <= top + 1
          BY <2>1, <2>4, <3>1, <4>1, <4>2, <5>1, <5>2 DEF own
        <5>5. \A d \in 0 .. (top + 1) : \E i \in Of(p, party)' : ledger'[i].depth = d
          BY <2>1, <4>1, <4>2, <5>1, <5>2
        <5> QED
          BY <4>4, <5>3, <5>4, <5>5 DEF Chain
      <4> QED
        BY <4>6, <4>7
    <3> QED
      BY <3>2, <3>3
  <2> QED
    BY <2>2, <2>3, <2>7 DEF LedgerInv
<1> QED
  BY <1>0, <1>1

(* The postings and the reversals of the service follow.                   *)
LEMMA PostingFollows ==
  ASSUME NEW p \in Payment, NEW party \in Party
  PROVE  TrueTo(Posting(p, party)) /\ Follows(Posting(p, party))
<1>1. /\ Posting(p, party).depth = 0 /\ Posting(p, party).payment = p
      /\ Posting(p, party).party = party
  BY DEF Posting
<1> QED
  BY <1>1 DEF TrueTo, Follows, Share

(* A reversal takes its entry back, right after it in the chain.           *)
LEMMA ReversalFollows ==
  ASSUME ledger \in Seq(EntryRecord), LedgerInv, NEW i \in DOMAIN ledger
  PROVE  TrueTo(Reversal(ledger[i])) /\ Follows(Reversal(ledger[i]))
<1> DEFINE old == ledger[i]
           new == Reversal(ledger[i])
<1>1. old \in EntryRecord /\ TrueTo(old)
  BY DEF LedgerInv
<1>2. /\ new.depth = old.depth + 1 /\ new.payment = old.payment /\ new.party = old.party
      /\ new.amount = old.amount /\ old.depth \in Nat /\ old.amount \in Int
      /\ new.direction = IF old.direction = "credit" THEN "debit" ELSE "credit"
      /\ old.payment \in Payment /\ old.party \in Party
  BY <1>1 DEF Reversal, EntryRecord
<1>3. Signed(new) = - Signed(old) /\ Signed(old) \in Int
  BY <1>2 DEF Signed
<1>4. Share(old.payment, old.party) \in Int
  BY <1>2, PostingType DEF Share, Signed, EntryRecord
<1>5. new.depth % 2 = 0 <=> old.depth % 2 # 0
  BY <1>2
<1>6. i \in Of(new.payment, new.party) /\ ledger[i].depth = new.depth - 1
  BY <1>2 DEF Of
<1> HIDE DEF old, new
<1>7. TrueTo(new)
  BY <1>1, <1>2, <1>3, <1>4, <1>5 DEF TrueTo
<1>8. Follows(new)
  BY <1>6 DEF Follows
<1> QED
  BY <1>7, <1>8 DEF new

(* What a webhook carries besides how far it has posted.                   *)
LEMMA WebhookCarries ==
  ASSUME TypeOK, NEW c \in Call, pc[c] \in {"saved", "settle"}, NEW k,
         job' = [job EXCEPT ![c].posted = k]
  PROVE  /\ job'[c].payment = job[c].payment /\ job'[c].posted = k
         /\ \A o \in Call \ {c} : job'[o] = job[o]
<1>1. job[c] \in WebhookJob({0}) \/ job[c] \in WebhookJob(1..4)
  BY JobPlaces DEF TypeOK
<1>2. job[c] \in [payment: Payment, notice: Notice, signed: BOOLEAN, posted: 0..4]
  BY <1>1 DEF WebhookJob
<1>3. job'[c] = [job[c] EXCEPT !.posted = k] /\ \A o \in Call \ {c} : job'[o] = job[o]
  BY DEF TypeOK
<1> QED
  BY <1>2, <1>3

(* Whatever a step of the service does to the ledger is one append.        *)
LEMMA LedgerSteps ==
  ASSUME TypeOK, [Next]_vars
  PROVE  \/ ledger' = ledger
         \/ \E p \in Payment, party \in Party :
              /\ ledger' = Appended(Posting(p, party))
              /\ \E c \in Call : /\ pc[c] \in {"saved", "settle"} /\ pc'[c] = "settle"
                                 /\ job[c].payment = p /\ job'[c].payment = p
         \/ \E i \in DOMAIN ledger : /\ ledger' = Appended(Reversal(ledger[i]))
                                     /\ UNCHANGED <<status, pc, job>>
<1>1. ASSUME NEW c \in Call, SettleRide(c) \/ SettleMore(c)
      PROVE  \E p \in Payment, party \in Party :
              /\ ledger' = Appended(Posting(p, party))
              /\ \E o \in Call : /\ pc[o] \in {"saved", "settle"} /\ pc'[o] = "settle"
                                 /\ job[o].payment = p /\ job'[o].payment = p
  <2>1. /\ pc[c] \in {"saved", "settle"} /\ PostNext(c) /\ pc'[c] = "settle"
        /\ pc[c] = "settle" => job[c].posted < 4
    BY <1>1 DEF SettleRide, SettleMore, PartyOrder, TypeOK
  <2>2. job[c].payment \in Payment /\ job[c].posted \in 0 .. 3
    BY <2>1, JobPayment
  <2>3. PartyOrder[job[c].posted + 1] \in Party
    BY <2>2, PartyOrderParty
  <2>4. /\ ledger' = Appended(Posting(job[c].payment, PartyOrder[job[c].posted + 1]))
        /\ job' = [job EXCEPT ![c].posted = job[c].posted + 1]
    BY <2>1 DEF PostNext
  <2>5. job'[c].payment = job[c].payment
    BY <2>1, <2>4, WebhookCarries
  <2> QED
    BY <2>1, <2>2, <2>3, <2>4, <2>5
<1> QED
  BY <1>1 DEF Next, CallContinues, vars, CreatePixIntent, HandleWebhook, OrderCreated, OrderRejected,
     Created, Discard, IgnoreOutOfOrder, ApplyProviderEvent, NothingToSettle, Settled, CompensateEntry,
     ProviderSends, ExpireIfLapsed, MarkRefundPending

(* Entries are booked once, and a party's entries for a payment cancel but *)
(* for the last.                                                           *)
LEMMA LedgerInvariant == Spec => [](TypeOK /\ LedgerInv)
<1>1. Init => LedgerInv
  <2> SUFFICES ASSUME Init PROVE LedgerInv
    OBVIOUS
  <2>1. DOMAIN ledger = {}
    BY DEF Init
  <2> QED
    BY <2>1 DEF LedgerInv, Single, Chain, Of
<1>2. TypeOK /\ LedgerInv /\ [Next]_vars => LedgerInv'
  <2> SUFFICES ASSUME TypeOK, LedgerInv, [Next]_vars PROVE LedgerInv'
    OBVIOUS
  <2>1. ledger \in Seq(EntryRecord)
    BY DEF TypeOK
  <2>2. CASE ledger' = ledger
    BY <2>1, <2>2, LedgerSame
  <2>3. ASSUME NEW p \in Payment, NEW party \in Party, ledger' = Appended(Posting(p, party))
        PROVE  LedgerInv'
    BY <2>1, <2>3, PostingType, PostingFollows, LedgerStep
  <2>4. ASSUME NEW i \in DOMAIN ledger, ledger' = Appended(Reversal(ledger[i]))
        PROVE  LedgerInv'
    <3>1. ledger[i] \in EntryRecord
      BY <2>1
    <3> QED
      BY <2>1, <2>4, <3>1, ReversalType, ReversalFollows, LedgerStep
  <2> QED
    BY <2>2, <2>3, <2>4, LedgerSteps
<1> QED
  BY <1>1, <1>2, PaymentTypes, PTL DEF Spec

(* However often and in whatever order settlements and compensations are   *)
(* asked for, a party's balance is its posted share or nothing.            *)
THEOREM BalancesStayExact == Spec => []BalancesAreExact
<1>1. TypeOK /\ LedgerInv => BalancesAreExact
  <2> SUFFICES ASSUME TypeOK, LedgerInv, NEW p \in Payment, NEW party \in Party
               PROVE  Balance(Of(p, party)) \in
                        {0} \cup {Signed(e) : e \in {x \in Postings(p) : x.party = party}}
    BY DEF BalancesAreExact, Of
  <2>1. CASE Of(p, party) = {}
    BY <2>1, FS_EmptySet, SumUnfolds DEF Balance
  <2>2. ASSUME NEW i \in Of(p, party), ledger[i].depth = 0, Balance(Of(p, party)) = Share(p, party)
        PROVE  Balance(Of(p, party)) \in {Signed(e) : e \in {x \in Postings(p) : x.party = party}}
    <3>1. ledger[i] \in Postings(p) /\ ledger[i].party = party
      BY <2>2 DEF Of, Postings, Range
    <3>2. Signed(ledger[i]) = Share(p, party)
      BY <2>2 DEF LedgerInv, TrueTo, Of
    <3> QED
      BY <2>2, <3>1, <3>2
  <2>3. CASE Of(p, party) # {}
    <3>1. PICK top \in Nat :
            /\ \A d \in 0 .. top : \E i \in Of(p, party) : ledger[i].depth = d
            /\ Balance(Of(p, party)) = IF top % 2 = 0 THEN Share(p, party) ELSE 0
      BY <2>3 DEF LedgerInv, Chain
    <3>2. PICK i \in Of(p, party) : ledger[i].depth = 0
      BY <3>1
    <3> QED
      BY <2>2, <3>1, <3>2
  <2> QED
    BY <2>1, <2>3
<1> QED
  BY <1>1, LedgerInvariant, PTL

-----------------------------------------------------------------------------
(* Settlements.                                                            *)

Posted(p, party) ==
  \E i \in DOMAIN ledger :
    ledger[i].payment = p /\ ledger[i].party = party /\ ledger[i].depth = 0

AllPosted(p) == \A party \in Party : Posted(p, party)

Works(c, p, places) == pc[c] \in places /\ job[c].payment = p

(* All of a payment is posted, or a call will see to it.                   *)
Attended(p, places) == AllPosted(p) \/ \E c \in Call : Works(c, p, places)

(* A call that settles has posted what it counts; what is begun and not    *)
(* complete is some call's, and so is a paid intent that has no settlement.*)
SettleInv ==
  /\ \A c \in Call : pc[c] = "settle" =>
       \A k \in 1 .. job[c].posted : Posted(job[c].payment, PartyOrder[k])
  /\ \A p \in Payment, party \in Party :
       Posted(p, party) => Attended(p, {"settle"})
  /\ \A p \in Payment : status[p] = "paid" => Attended(p, {"saved", "settle"})

(* A payment stays attended to while the one call whose place changes      *)
(* works on, or leaves all of it posted.                                   *)
LEMMA StaysAttended ==
  ASSUME NEW p, NEW places, Attended(p, places), AllPosted(p) => AllPosted(p)', NEW c \in Call,
         \A o \in Call \ {c} : pc'[o] = pc[o] /\ job'[o] = job[o],
         Works(c, p, places) => Works(c, p, places)' \/ AllPosted(p)'
  PROVE  Attended(p, places)'
<1>1. CASE AllPosted(p)
  BY <1>1 DEF Attended
<1>2. CASE \E o \in Call : Works(o, p, places)
  <2>1. PICK o \in Call : Works(o, p, places)
    BY <1>2
  <2>2. CASE o = c
    BY <2>1, <2>2 DEF Attended
  <2>3. CASE o # c
    <3>1. Works(o, p, places)'
      BY <2>1, <2>3 DEF Works
    <3> QED
      BY <3>1 DEF Attended
  <2> QED
    BY <2>2, <2>3
<1> QED
  BY <1>1, <1>2 DEF Attended

(* Appending an entry posts it, if it is no reversal, and unposts nothing. *)
LEMMA PostedGrows ==
  ASSUME ledger \in Seq(EntryRecord), NEW e \in EntryRecord, ledger' = Appended(e), NEW p, NEW party
  PROVE  /\ Posted(p, party) => Posted(p, party)'
         /\ e.payment = p /\ e.party = party /\ e.depth = 0 => Posted(p, party)'
         /\ Posted(p, party)' => Posted(p, party) \/ (e.payment = p /\ e.party = party /\ e.depth = 0)
<1>1. CASE ledger' = ledger /\ \E i \in DOMAIN ledger : EntryId(ledger[i]) = EntryId(e)
  BY <1>1 DEF Posted, EntryId
<1>2. CASE /\ DOMAIN ledger' = DOMAIN ledger \cup {Len(ledger) + 1}
           /\ ledger'[Len(ledger) + 1] = e
           /\ \A i \in DOMAIN ledger : ledger'[i] = ledger[i]
  BY <1>2 DEF Posted
<1> QED
  BY <1>1, <1>2, AppendedEntries

(* Steps that post nothing new, finish no settlement and make nothing paid.*)
LEMMA SettleFrame ==
  ASSUME SettleInv,
         \A p, party : Posted(p, party)' <=> Posted(p, party),
         \A c \in Call : pc[c] \in {"saved", "settle"} => pc'[c] = pc[c] /\ job'[c] = job[c],
         \A c \in Call : pc'[c] = "settle" => pc[c] = "settle",
         \A p \in Payment : status'[p] = "paid" => status[p] = "paid"
  PROVE  SettleInv'
<1>1. \A p : AllPosted(p)' <=> AllPosted(p)
  BY DEF AllPosted
<1>2. \A c \in Call : \A p : \A places \in {{"settle"}, {"saved", "settle"}} :
        Works(c, p, places) => Works(c, p, places)'
  BY DEF Works
<1>3. ASSUME NEW p, NEW places \in {{"settle"}, {"saved", "settle"}}, Attended(p, places)
      PROVE  Attended(p, places)'
  <2>1. CASE AllPosted(p)
    BY <1>1, <2>1 DEF Attended
  <2>2. CASE \E c \in Call : Works(c, p, places)
    <3>1. PICK c \in Call : Works(c, p, places)
      BY <2>2
    <3>2. Works(c, p, places)'
      BY <1>2, <3>1
    <3> QED
      BY <3>2 DEF Attended
  <2> QED
    BY <1>3, <2>1, <2>2 DEF Attended
<1> QED
  BY <1>1, <1>3 DEF SettleInv

(* Who is settling what, step by step: a call that posts, one that applies *)
(* a notification, one that ends; everything else leaves it alone.         *)
LEMMA SettleStep == TypeOK /\ SettleInv /\ [Next]_vars => SettleInv'
<1> SUFFICES ASSUME TypeOK, SettleInv, [Next]_vars PROVE SettleInv'
  OBVIOUS
<1>t. /\ pc \in [Call -> DOMAIN JobAt] /\ DOMAIN job = Call /\ ledger \in Seq(EntryRecord)
      /\ status \in [Payment -> IntentStatus \cup {"none"}]
  BY DEF TypeOK
<1>k. ASSUME ledger' = ledger PROVE \A p, party : Posted(p, party)' <=> Posted(p, party)
  BY <1>k DEF Posted
(* A call that settles posts its next entry.                               *)
<1>p. ASSUME NEW c \in Call, SettleRide(c) \/ SettleMore(c) PROVE SettleInv'
  <2>1. /\ pc[c] \in {"saved", "settle"} /\ PostNext(c) /\ pc'[c] = "settle" /\ status' = status
        /\ pc[c] = "settle" => job[c].posted < 4
        /\ \A o \in Call \ {c} : pc'[o] = pc[o]
    BY <1>p, <1>t DEF SettleRide, SettleMore, PartyOrder
  <2>2. PICK p \in Payment, n \in 1 .. 4 :
          p = job[c].payment /\ n = job[c].posted + 1 /\ (pc[c] = "saved" => n = 1)
    BY <2>1, JobPayment
  <2> DEFINE e == Posting(p, PartyOrder[n])
  <2>3. PartyOrder[n] \in Party
    BY <2>2, PartyOrderParty
  <2>4. ledger' = Appended(e) /\ job' = [job EXCEPT ![c].posted = n]
    BY <2>1, <2>2 DEF PostNext
  <2>5. /\ job'[c].payment = p /\ job'[c].posted = n
        /\ \A o \in Call \ {c} : job'[o] = job[o]
    BY <2>1, <2>2, <2>4, WebhookCarries
  <2>6. e \in EntryRecord /\ e.payment = p /\ e.party = PartyOrder[n] /\ e.depth = 0
    BY <2>2, <2>3, PostingType DEF Posting
  <2> HIDE DEF e
  <2>7. /\ \A q, party : Posted(q, party) => Posted(q, party)'
        /\ Posted(p, PartyOrder[n])'
        /\ \A q, party : Posted(q, party)' => Posted(q, party) \/ q = p
    BY <1>t, <2>4, <2>6, PostedGrows
  <2>8. \A q : q = p => Works(c, q, {"settle"})'
    BY <2>1, <2>5 DEF Works
  <2>9. \A q : AllPosted(q) => AllPosted(q)'
    BY <2>7 DEF AllPosted
  <2>10. ASSUME NEW o \in Call, pc'[o] = "settle", NEW k \in 1 .. job'[o].posted
         PROVE  Posted(job[o].payment, PartyOrder[k])'
    <3>1. PICK q : q = job'[o].payment
      OBVIOUS
    <3>2. CASE o # c
      <4>1. Posted(q, PartyOrder[k])
        BY <2>1, <2>5, <2>10, <3>1, <3>2 DEF SettleInv
      <4> QED
        BY <2>7, <3>1, <4>1 DEF Posted
    <3>3. CASE o = c /\ k = n
      BY <2>5, <2>7, <3>3 DEF Posted
    <3>4. CASE o = c /\ k # n
      <4>1. k \in 1 .. job[c].posted /\ pc[c] = "settle"
        BY <2>1, <2>2, <2>5, <2>10, <3>4, JobPayment
      <4>2. Posted(q, PartyOrder[k])
        BY <2>2, <2>5, <3>1, <3>4, <4>1 DEF SettleInv
      <4> QED
        BY <2>7, <3>1, <4>2 DEF Posted
    <3> QED
      BY <3>2, <3>3, <3>4
  <2>11. ASSUME NEW q, NEW places \in {{"settle"}, {"saved", "settle"}}
         PROVE  Works(c, q, places) => Works(c, q, places)'
    BY <2>1, <2>2, <2>5 DEF Works
  <2>12. ASSUME NEW q \in Payment, NEW party \in Party, Posted(q, party)'
         PROVE  Attended(q, {"settle"})'
    <3>1. CASE Posted(q, party)
      <4>1. Attended(q, {"settle"})
        BY <3>1 DEF SettleInv
      <4> QED
        BY <2>1, <2>5, <2>9, <2>11, <4>1, StaysAttended
    <3>2. CASE q = p
      <4>1. Works(c, q, {"settle"})'
        BY <2>8, <3>2
      <4> QED
        BY <4>1 DEF Attended
    <3> QED
      BY <2>7, <2>12, <3>1, <3>2
  <2>13. ASSUME NEW q \in Payment, status'[q] = "paid"
         PROVE  Attended(q, {"saved", "settle"})'
    <3>1. Attended(q, {"saved", "settle"})
      BY <2>1, <2>13 DEF SettleInv
    <3> QED
      BY <2>1, <2>5, <2>9, <2>11, <3>1, StaysAttended
  <2> QED
    BY <2>10, <2>12, <2>13 DEF SettleInv
<1>a. ASSUME NEW c \in Call, ApplyProviderEvent(c) PROVE SettleInv'
  <2>1. /\ pc[c] = "apply" /\ pc' = [pc EXCEPT ![c] = "saved"] /\ job' = job /\ ledger' = ledger
        /\ status' = [status EXCEPT ![job[c].payment] = job[c].notice.status]
    BY <1>a DEF ApplyProviderEvent, RecordEvent
  <2>2. /\ pc'[c] = "saved" /\ \A o \in Call \ {c} : pc'[o] = pc[o]
        /\ \A q \in Payment : q # job[c].payment => status'[q] = status[q]
    BY <1>t, <2>1
  <2>3. /\ \A q : q = job[c].payment => Works(c, q, {"saved", "settle"})'
        /\ \A q : ~ Works(c, q, {"settle"}) /\ ~ Works(c, q, {"saved", "settle"})
    BY <2>1, <2>2 DEF Works
  <2>4. \A q : AllPosted(q) => AllPosted(q)'
    BY <2>1, <1>k DEF AllPosted
  <2>5. ASSUME NEW q \in Payment, NEW places \in {{"settle"}, {"saved", "settle"}}, Attended(q, places)
        PROVE  Attended(q, places)'
    <3>1. ~ Works(c, q, places) /\ \A o \in Call \ {c} : pc'[o] = pc[o] /\ job'[o] = job[o]
      BY <2>1, <2>2, <2>3
    <3> QED
      BY <2>4, <2>5, <3>1, StaysAttended
  <2>6. ASSUME NEW q \in Payment, status'[q] = "paid" PROVE Attended(q, {"saved", "settle"})'
    <3>1. CASE q = job[c].payment
      <4>1. Works(c, q, {"saved", "settle"})'
        BY <2>3, <3>1
      <4> QED
        BY <4>1 DEF Attended
    <3>2. CASE q # job[c].payment
      <4>1. Attended(q, {"saved", "settle"})
        BY <2>2, <2>6, <3>2 DEF SettleInv
      <4> QED
        BY <2>5, <4>1
    <3> QED
      BY <3>1, <3>2
  <2>7. ASSUME NEW q \in Payment, NEW party \in Party, Posted(q, party)' PROVE Attended(q, {"settle"})'
    <3>1. Attended(q, {"settle"})
      BY <1>k, <2>1, <2>7 DEF SettleInv
    <3> QED
      BY <2>5, <3>1
  <2>8. ASSUME NEW o \in Call, pc'[o] = "settle", NEW k \in 1 .. job'[o].posted
        PROVE  Posted(job[o].payment, PartyOrder[k])'
    <3>1. Posted(job[o].payment, PartyOrder[k])
      BY <2>1, <2>2, <2>8 DEF SettleInv
    <3> QED
      BY <2>1, <3>1 DEF Posted
  <2> QED
    BY <2>6, <2>7, <2>8 DEF SettleInv
(* A call that ends has nothing left to post.                              *)
<1>e. ASSUME NEW c \in Call, Settled(c) \/ NothingToSettle(c) PROVE SettleInv'
  <2>1. /\ pc[c] \in {"saved", "settle"} /\ status' = status /\ ledger' = ledger
        /\ pc'[c] = "idle" /\ \A o \in Call \ {c} : pc'[o] = pc[o] /\ job'[o] = job[o]
    BY <1>e, <1>t DEF Settled, NothingToSettle, End
  <2>2. PICK p \in Payment : p = job[c].payment
    BY <2>1, JobPayment
  <2>3. AllPosted(p) \/ (pc[c] = "saved" /\ status[p] # "paid")
    <3>1. CASE Settled(c)
      <4>1. pc[c] = "settle" /\ job[c].posted = 4
        BY <3>1 DEF Settled, PartyOrder
      <4>2. \A k \in 1 .. 4 : Posted(p, PartyOrder[k])
        BY <2>2, <4>1 DEF SettleInv
      <4>3. \A party \in Party : \E k \in 1 .. 4 : party = PartyOrder[k]
        BY DEF Party, PartyOrder
      <4> QED
        BY <4>2, <4>3 DEF AllPosted
    <3> QED
      BY <1>e, <2>2, <3>1 DEF NothingToSettle
  <2>4. \A q : AllPosted(q) => AllPosted(q)'
    BY <2>1, <1>k DEF AllPosted
  <2>5. \A q, places : Works(c, q, places) => q = p /\ pc[c] \in places
    BY <2>2 DEF Works
  <2>6. ASSUME NEW q \in Payment, NEW party \in Party, Posted(q, party)'
        PROVE  Attended(q, {"settle"})'
    <3>1. Attended(q, {"settle"})
      BY <1>k, <2>1, <2>6 DEF SettleInv
    <3>2. Works(c, q, {"settle"}) => AllPosted(q)
      BY <2>3, <2>5
    <3> QED
      BY <2>1, <2>4, <3>1, <3>2, StaysAttended
  <2>7. ASSUME NEW q \in Payment, status'[q] = "paid"
        PROVE  Attended(q, {"saved", "settle"})'
    <3>1. Attended(q, {"saved", "settle"})
      BY <2>1, <2>7 DEF SettleInv
    <3>2. Works(c, q, {"saved", "settle"}) => AllPosted(q)
      BY <2>1, <2>3, <2>5, <2>7
    <3> QED
      BY <2>1, <2>4, <3>1, <3>2, StaysAttended
  <2>8. ASSUME NEW o \in Call, pc'[o] = "settle", NEW k \in 1 .. job'[o].posted
        PROVE  Posted(job[o].payment, PartyOrder[k])'
    <3>1. o # c /\ Posted(job[o].payment, PartyOrder[k])
      BY <2>1, <2>8 DEF SettleInv
    <3> QED
      BY <2>1, <3>1 DEF Posted
  <2> QED
    BY <2>6, <2>7, <2>8 DEF SettleInv
(* Everything else is a frame.                                             *)
<1>1. ASSUME NEW c \in Call, pc[c] \in {"idle", "order", "create", "apply"},
             NEW place \in {"idle", "order", "create", "apply"}, pc' = [pc EXCEPT ![c] = place],
             \A o \in Call \ {c} : job'[o] = job[o],
             ledger' = ledger, \A p \in Payment : status'[p] = "paid" => status[p] = "paid"
      PROVE  SettleInv'
  <2>1. \A o \in Call : pc[o] \in {"saved", "settle"} => pc'[o] = pc[o] /\ job'[o] = job[o]
    BY <1>t, <1>1
  <2>2. \A o \in Call : pc'[o] = "settle" => pc[o] = "settle"
    BY <1>t, <1>1
  <2> QED
    BY <1>1, <1>k, <2>1, <2>2, SettleFrame
<1>2. ASSUME NEW c \in Call, NEW p \in Payment, CreatePixIntent(c, p) PROVE SettleInv'
  <2>1. /\ pc[c] = "idle" /\ pc' = [pc EXCEPT ![c] = "order"] /\ ledger' = ledger /\ status' = status
        /\ job' = [job EXCEPT ![c] = [payment |-> p]]
    BY <1>2 DEF CreatePixIntent
  <2>2. \A o \in Call \ {c} : job'[o] = job[o]
    BY <1>t, <2>1
  <2> QED
    BY <1>1, <2>1, <2>2
<1>12. ASSUME NEW c \in Call, NEW notice \in Notice, NEW signed \in BOOLEAN,
              HandleWebhook(c, notice, signed)
       PROVE  SettleInv'
  <2>1. /\ pc[c] = "idle" /\ pc' = [pc EXCEPT ![c] = "apply"] /\ ledger' = ledger /\ status' = status
        /\ \A o \in Call \ {c} : job'[o] = job[o]
    BY <1>t, <1>12 DEF HandleWebhook
  <2> QED
    BY <1>1, <2>1
<1>3. ASSUME NEW c \in Call, OrderCreated(c) PROVE SettleInv'
  <2>1. /\ pc[c] = "order" /\ pc' = [pc EXCEPT ![c] = "create"] /\ ledger' = ledger /\ job' = job
        /\ status' = [status EXCEPT ![job[c].payment] = "pending"]
    BY <1>3 DEF OrderCreated
  <2>2. \A p \in Payment : status'[p] = "paid" => status[p] = "paid"
    BY <1>t, <2>1
  <2> QED
    BY <1>1, <2>1, <2>2
<1>4. ASSUME NEW c \in Call, OrderRejected(c) \/ Created(c) \/ Discard(c) \/ IgnoreOutOfOrder(c)
      PROVE  SettleInv'
  <2>1. /\ pc[c] \in {"order", "create", "apply"} /\ pc' = [pc EXCEPT ![c] = "idle"]
        /\ ledger' = ledger /\ status' = status /\ job' = [job EXCEPT ![c] = NoJob]
    BY <1>4 DEF OrderRejected, Created, Discard, IgnoreOutOfOrder, RecordEvent, End
  <2>2. \A o \in Call \ {c} : job'[o] = job[o]
    BY <1>t, <2>1
  <2> QED
    BY <1>1, <2>1, <2>2
<1>5. ASSUME pc' = pc, job' = job, ledger' = ledger,
             \A p \in Payment : status'[p] = "paid" => status[p] = "paid"
      PROVE  SettleInv'
  BY <1>5, <1>k, SettleFrame
<1>6. ASSUME NEW i \in DOMAIN ledger, CompensateEntry(ledger[i]) PROVE SettleInv'
  <2>1. ledger[i] \in EntryRecord
    BY <1>t
  <2>2. /\ Reversal(ledger[i]) \in EntryRecord /\ Reversal(ledger[i]).depth # 0
    <3> DEFINE e == ledger[i]
    <3>1. e \in EntryRecord
      BY <2>1
    <3> HIDE DEF e
    <3>2. Reversal(e).depth = e.depth + 1 /\ e.depth \in Nat
      BY <3>1 DEF Reversal, EntryRecord
    <3>3. Reversal(e) \in EntryRecord
      BY <3>1, ReversalType
    <3> QED
      BY <3>2, <3>3 DEF e
  <2>3. ledger' = Appended(Reversal(ledger[i])) /\ pc' = pc /\ job' = job /\ status' = status
    BY <1>6 DEF CompensateEntry
  <2>4. \A p, party : Posted(p, party)' <=> Posted(p, party)
    BY <1>t, <2>2, <2>3, PostedGrows
  <2> QED
    BY <2>3, <2>4, SettleFrame
<1>7. ASSUME NEW p \in Payment, ExpireIfLapsed(p) \/ MarkRefundPending(p) PROVE SettleInv'
  BY <1>5, <1>7, <1>t DEF ExpireIfLapsed, MarkRefundPending
<1>8. ASSUME NEW notice \in Notice, ProviderSends(notice) PROVE SettleInv'
  BY <1>5, <1>8 DEF ProviderSends
<1>9. CASE UNCHANGED vars
  BY <1>5, <1>9 DEF vars
<1>10. ASSUME NEW c \in Call, CallContinues(c) PROVE SettleInv'
  BY <1>p, <1>a, <1>e, <1>3, <1>4, <1>10 DEF CallContinues
<1>11. CASE Next
  <2>1. CASE \E i \in DOMAIN ledger : CompensateEntry(ledger[i])
    BY <1>6, <2>1
  <2>2. CASE \E notice \in Notice : ProviderSends(notice)
    BY <1>8, <2>2
  <2>3. CASE \E p \in Payment : ExpireIfLapsed(p) \/ MarkRefundPending(p)
    BY <1>7, <2>3
  <2> QED
    BY <1>2, <1>10, <1>11, <1>12, <2>1, <2>2, <2>3 DEF Next
<1> QED
  BY <1>9, <1>11

(* The four shares of a payment are its amount, to the cent.               *)
LEMMA SharesAddUp ==
  ASSUME NEW p \in Payment
  PROVE  /\ \A party \in Party : Share(p, party) \in Int
         /\ Share(p, "driver") + (Share(p, "tenant") + (Share(p, "movo") + Share(p, "gateway-fee")))
              = AmountOf[p]
<1> DEFINE gross == AmountOf[p]
           d == (gross * 80) \div 100
           t == (gross * 17) \div 100
<1>1. gross \in Nat /\ d \in Int /\ t \in Int
  BY AmountAssumption
<1>2. /\ Split(gross)["driver"] = d /\ Split(gross)["tenant"] = t
      /\ Split(gross)["movo"] = gross - d - t /\ Split(gross)["gateway-fee"] = 0
  BY DEF Split, Party
<1> HIDE DEF d, t, gross
<1>3. /\ Share(p, "driver") = d /\ Share(p, "tenant") = t
      /\ Share(p, "movo") = gross - d - t /\ Share(p, "gateway-fee") = - 0
  BY <1>2 DEF Share, Signed, Posting, gross
<1> QED
  BY <1>1, <1>3 DEF gross, Party

(* A settlement with all its postings has each once, and is whole.         *)
LEMMA PostedIsWhole ==
  ASSUME TypeOK, LedgerInv, NEW p \in Payment, AllPosted(p)
  PROVE  Whole(p)
<1> DEFINE Z == {i \in DOMAIN ledger : ledger[i].payment = p /\ ledger[i].depth = 0}
           f == [i \in DOMAIN ledger |-> Signed(ledger[i])]
           Sum(S) == SumFunctionOnSet(f, S)
<1>1. ledger \in Seq(EntryRecord) /\ \A i \in DOMAIN ledger : ledger[i].party \in Party
  <2>1. ledger \in Seq(EntryRecord)
    BY DEF TypeOK
  <2>2. \A i \in DOMAIN ledger : ledger[i] \in EntryRecord
    BY <2>1
  <2> QED
    BY <2>1, <2>2 DEF EntryRecord
<1>2. \A party \in Party : \E i \in Z : ledger[i].party = party
  BY DEF AllPosted, Posted
<1>3. {e.party : e \in Postings(p)} = Party
  BY <1>1, <1>2 DEF Postings, Range
<1>4. PICK d \in Z, t \in Z, m \in Z, g \in Z :
        /\ ledger[d].party = "driver" /\ ledger[t].party = "tenant"
        /\ ledger[m].party = "movo" /\ ledger[g].party = "gateway-fee"
  BY <1>2 DEF Party
<1>5. /\ Z = {d, t, m, g}
      /\ d # t /\ d # m /\ d # g /\ t # m /\ t # g /\ m # g
  <2>1. \A i, j \in Z : ledger[i].party = ledger[j].party => i = j
    BY DEF LedgerInv, Single, EntryId
  <2>2. \A i \in Z : ledger[i].party \in {"driver", "tenant", "movo", "gateway-fee"}
    BY <1>1 DEF Party
  <2> HIDE DEF Z
  <2> QED
    BY <1>4, <2>1, <2>2
<1>6. /\ f[d] = Share(p, "driver") /\ f[t] = Share(p, "tenant")
      /\ f[m] = Share(p, "movo") /\ f[g] = Share(p, "gateway-fee")
  <2>1. \A i \in Z : f[i] = Share(p, ledger[i].party)
    BY DEF LedgerInv, TrueTo
  <2> HIDE DEF Z, f
  <2> QED
    BY <1>4, <2>1
<1>7. \A i \in Z : f[i] \in Int
  BY <1>1, EntriesAdd
<1>8. Balance(Z) = Sum(Z)
  BY DEF Balance
<1> HIDE DEF Z, f
<1>9. Sum(Z) = f[d] + (f[t] + (f[m] + f[g]))
  <2>0. Sum({}) = 0
    BY FS_EmptySet, SumUnfolds
  <2>1. Sum({g}) = f[g] + 0
    <3>1. {} \cup {g} = {g} /\ IsFiniteSet({}) /\ g \notin {}
      BY FS_EmptySet
    <3> QED
      BY <1>5, <1>7, <2>0, <3>1, SumAdds
  <2>2. Sum({m, g}) = f[m] + Sum({g})
    <3>1. {g} \cup {m} = {m, g} /\ IsFiniteSet({g}) /\ m \notin {g}
      BY <1>5, FS_Singleton
    <3> QED
      BY <1>5, <1>7, <3>1, SumAdds
  <2>3. Sum({t, m, g}) = f[t] + Sum({m, g})
    <3>1. IsFiniteSet({m, g}) /\ {m, g} \in SUBSET Z
      BY <1>1, <1>5, EntriesAdd DEF Z
    <3>2. {m, g} \cup {t} = {t, m, g} /\ t \notin {m, g}
      BY <1>5
    <3> QED
      BY <1>5, <1>7, <3>1, <3>2, SumAdds
  <2>4. Sum({d, t, m, g}) = f[d] + Sum({t, m, g})
    <3>1. IsFiniteSet({t, m, g}) /\ {t, m, g} \in SUBSET Z
      BY <1>1, <1>5, EntriesAdd DEF Z
    <3>2. {t, m, g} \cup {d} = {d, t, m, g} /\ d \notin {t, m, g}
      BY <1>5
    <3> QED
      BY <1>5, <1>7, <3>1, <3>2, SumAdds
  <2> QED
    BY <1>5, <1>7, <2>1, <2>2, <2>3, <2>4
<1>10. Balance(Z) = AmountOf[p]
  BY <1>6, <1>8, <1>9, SharesAddUp
<1> QED
  BY <1>3, <1>10 DEF Whole, Z

(* When no call works on a payment its settlement is complete, to the      *)
(* cent, or was never begun; and it is complete if the payment is paid.    *)
THEOREM SettlementsAreWhole == Spec => []SettledWhole
<1>1. Init => SettleInv
  <2> SUFFICES ASSUME Init PROVE SettleInv
    OBVIOUS
  <2>1. DOMAIN ledger = {}
    BY DEF Init
  <2> QED
    BY <2>1 DEF Init, SettleInv, Posted
<1>2. TypeOK /\ LedgerInv /\ SettleInv => SettledWhole
  <2> SUFFICES ASSUME TypeOK, LedgerInv, SettleInv, NEW p \in Payment, ~ InFlight(p)
               PROVE  \/ Whole(p)
                      \/ Postings(p) = {} /\ status[p] # "paid"
    BY DEF SettledWhole
  <2>1. CASE AllPosted(p)
    BY <2>1, PostedIsWhole
  <2>2. CASE ~ AllPosted(p)
    <3>1. \A c \in Call : ~ Works(c, p, {"settle"}) /\ ~ Works(c, p, {"saved", "settle"})
      BY DEF InFlight, Works
    <3>2. ~ Attended(p, {"settle"}) /\ ~ Attended(p, {"saved", "settle"})
      BY <2>2, <3>1 DEF Attended
    <3>3. status[p] # "paid" /\ \A party \in Party : ~ Posted(p, party)
      BY <3>2 DEF SettleInv
    <3>4. \A i \in DOMAIN ledger : ledger[i].party \in Party
      <4>1. \A i \in DOMAIN ledger : ledger[i] \in EntryRecord
        BY DEF TypeOK
      <4> QED
        BY <4>1 DEF EntryRecord
    <3>5. Postings(p) = {}
      BY <3>3, <3>4 DEF Postings, Posted, Range
    <3> QED
      BY <3>3, <3>5
  <2> QED
    BY <2>1, <2>2
<1> QED
  BY <1>1, <1>2, SettleStep, LedgerInvariant, PaymentTypes, PTL DEF Spec
=============================================================================

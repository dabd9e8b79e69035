# Verification of MOVO's core in TLA+

MOVO is a ride platform in TypeScript: a backend library (`packages/backend`), a Next.js web
application that wires and calls it (`apps/web`) and a mobile client (`apps/mobile`). This directory
holds TLA+ models of the backend's services and of the pages and the mobile code that use them, the
TLC runs that check them, and proofs checked by TLAPS.

Everything runs on event loops. Within one process a handler is interrupted only where it awaits; in
the live wiring several processes serve the same database, so there two handlers interleave at every
query. Two wirings exist (`apps/web/lib/backend.ts`), and they differ in the one thing that matters
most for correctness:

* **demo** (also the tests'): in-memory stores hand out *the stored object itself*. A change is
  visible to every handler at once, before any save, and survives a handler that fails later.
* **live**: Supabase stores build *a new object from a row* at each load and upsert the whole row at
  each save, with no version or condition. Handlers work on private copies and the last save wins.

## Inventory

| Component | State | Operations | Interacts with | What is hard |
|---|---|---|---|---|
| Ride orchestrator (`ride-orchestrator.ts`, `ride.ts`) | the `Ride`: status, driver, timestamps | requestRide, startMatching, acceptOffer, advanceRide | tenants, maps, payments, drivers, events, audit | lost updates, stale checks, partial failure |
| Web actions (`app/ride/actions.ts`, ...) | none | call the services; the cancellation action assesses the policy first | orchestrator, cancellation | check and act on different loads |
| Payments (`payment-service.ts`, `payment.ts`) | intents, events seen | createPixIntent, handleWebhook, compensateEntry, expireIfLapsed, markRefundPending | provider, ledger | redelivery, reordering, overlapping handlers |
| Ledger (`ledger.ts`) | append-only entries | splitFare, postSettlement, compensate | payments, subscriptions | rounding, repeated postings |
| Cancellation (`cancellation.ts`) | none | assessCancellation, requestRefundForCancelledPrepaid | web actions | policy depends on timestamps |
| Dispatch (`dispatch.ts`) | assignment, offers made | eligibility, ranking, waves, acceptRide, closeWithoutDriver | nothing calls it | acceptance racing timeouts and waves |
| Onboarding (`onboarding-service.ts`, `driver-profile.ts`) | profiles, vehicles | registerDriver, advanceVerification, setAvailability | orchestrator reads profiles | stale save over a suspension |
| Tenants (`tenant-service.ts`, `tenant.ts`) | status, checklist, branding | provision ... cancel | orchestrator reads the status | blind upserts |
| Subscriptions (`subscription-service.ts`, `subscription.ts`) | plan, status, grace | startTrial, subscribe, recordChargeFailure, lapse, cancel | SaaS ledger | mutation before a refusal, repeated charges |
| Notifications (`notification-service.ts`) | notifications by dedupe key | dispatch, deliver, handleRideEvent | event publisher, senders | check-then-act deduplication, retries |
| Conversations, ratings | conversations, messages, ratings | openForRide, sendMessage, reportMessage, submitRating | rides | check-then-act uniqueness, sequence numbers |
| Outbox (`outbox.ts`) | events, delivered ids | append, dispatch | not wired | double delivery, poison events |
| Rate limiter (`rate-limit.ts`) | buckets | allow | nothing calls it | time and tokens at the limit |
| Mobile tracking (`location-tracker.ts`, `tracking.ts`, `driver-location.ts`) | last emission, pool of locations | tick, prunePool, the ETA of the screen | the app's timer | overlapping ticks, late locations |
| Ride pages and panel (`app/ride`, `app/driver`, `app/ops`) | what a page was rendered from | the buttons' actions, availability, refresh | orchestrator, realtime, sessions | pages older than the ride |
| Realtime (`supabase-realtime-publisher.ts`) | channels | publish per ride | pages, orchestrator's events | swallowed failures |
| Pricing, money | none | quoteFare | orchestrator | rounding order, surge and discount caps |
| Sessions, authorization, audit, receipts, branding, geofences, maps, observability, other screens | none that a handler's outcome depends on | checks, formatting, I/O | | |

What makes each correct:

* **rides**: one winner, kept for good; a closed transition table with final terminal statuses;
  timestamps that tell the truth (fees are computed from them); Pix rides dispatched only when paid;
  only eligible drivers win; passengers cancel within the policy; nobody is told what did not happen.
* **payments and ledger**: one intent to a key; a status moved only by the provider's signed word;
  a settlement that is whole, exact and made once; reversals that cancel exactly once; a payment that
  was accepted is settled in the end.
* **dispatch**: at most one winner, no driver offered twice, nothing after the closing.
* **onboarding, tenants, subscriptions**: a suspension stays; one profile per user; a refused
  operation changes nothing; a charge is posted once and in balance.
* **notifications, conversations, outbox**: once per key, one conversation per ride, message order,
  no event lost and none that blocks the rest.
* **tracking, pages, pricing, rate limiter**: no fix too early and no ETA on an old one; a stale button
  does no harm and a panel is current; a fare to the centavo; exactly the limit, whatever the bursts.

`PROJECT.json` lists every hazard at the line where it bites, with the property that covers it or the
reason why none does.

## The modules

| Module | Models |
|---|---|
| `RideMachine` | the `Ride` object as pure operators: transition table, triggers, driver assignment, timestamps, cancellation policy |
| `PaymentIntent` | the statuses of a Pix intent and what events do to them |
| `RideOrchestrator` | the four orchestrator operations and the web actions that call them, over either store |
| `RideLifecycle` | abstract: what a ride may go through, whoever handles it |
| `Ledger` | split, settlement entries and reversals as pure operators |
| `PaymentService` | creation, webhooks, settlement and compensation over the in-memory stores |
| `PaymentBook` | abstract: statuses move along their edges, and money is booked exactly, for confirmed payments, for good |
| `Wiring` | the slots for handlers and the kind of store, shared by the services below |
| `Tenants`, `Onboarding`, `Subscriptions`, `RateLimiter` | one service each, with its domain object and its stores |
| `BackOffice` | the four of them side by side |
| `Notifications`, `Outbox`, `Conversations` | one service each; `Conversations` has the ratings too |
| `Communication` | the three of them side by side, with fairness |
| `Tracking`, `DispatchWaves`, `RidePages`, `Pricing` | the phone and its freshness rules; the waves; the pages; the fare |
| `Field` | the four of them side by side |
| `MCRideOrchestrator`, `MCPaymentService`, `MCBackOffice`, `MCCommunication`, `MCField` | instances for TLC |
| `RideOrchestratorProofs`, `RideLifecycleProofs`, `PaymentServiceProofs`, `BackOfficeProofs`, `SubscriptionProofs`, `CommunicationProofs`, `FieldProofs` | theorems |
| `FiniteProofs` | what the theorems need of numbers and sums: least and greatest elements, sums over finite sets, the places of an order |

`RideOrchestrator` composes `RideMachine` and `PaymentIntent`; `PaymentService` composes `Ledger` and
`PaymentIntent`; each is checked against its abstract module by `INSTANCE ... WITH`. `RidePages` uses
`RideMachine` for what a button may do.

`BackOffice`, `Communication` and `Field` put services side by side that in the repository neither call
each other nor share state (what they only read of one another, such as the stage of a ride, is a
variable of the reader). Their product has a state for every pair of states and nothing new in it, so a
behaviour moves one of them, chosen by `focus` in the initial state and never changed: a state of a
service is reached here exactly when it is reached in the product.

### RideOrchestrator

A *call* is one running handler. `pc[c]` is the await it waits at and `job[c]` its arguments:

| Code | Actions, in order |
|---|---|
| `requestRide` | `RequestRide` (tenant checked, maps awaited), `SaveNewRide`, `SaveIntent` for Pix, `Publish` |
| `startMatching` | `StartMatching` (load), `FindIntents`, `Transition` behind `PixGate`, `Save`, `Publish` |
| `acceptOffer` | `AcceptOffer` (load), `Accept` or `AcceptFailsAfterAssignment`, `Save`, `Publish` |
| `advanceRide` | `AdvanceRide` (load), `Transition`, `Save`, `Publish` |
| `cancelRideAction` | `CancelRide` (load and policy), `Reload` by `advanceRide`, `Transition`, `Save`, `Publish` |
| a refused check, a store error | `Refuse`, `Fail` |

`Live` selects the store. With rows, `copy[c]` is the handler's own `Ride`, filled by the load
(`Loaded`) and written whole by `Save`; with shared objects, `Mutate` changes `rides` at once and the
save changes nothing. Stores fail only when live (the in-memory ones do not). `bus` is what was
published and `been[r]` a history of the statuses the repository held. The environment moves intents
(`IntentMoves`), driver profiles and the tenant as the other services may.

Two constants say what the live tables accept. `RidesSaved`: `requestRide` stores the category (`car`,
`motorcycle`) as `serviceTypeId` (`ride-orchestrator.ts:98`, `ride-repository.ts:68`), and the column is
`uuid not null` (`packages/backend/db/migrations/0002_rides_payments.sql:17`). `IntentsSaved`: the payment
store never writes `created_at`, which that migration requires. So at this commit no live request gets
past its first save, and every run sets both to `FALSE`; the theorems hold for all values. What the live
handlers do to a ride can then only be seen on a row put there by other means, with a uuid in it, whose
later saves the table accepts: with `Live`, `Init` lets the table hold requested rides.

`Serialised` restricts *which behaviours are looked at*: with it, no two calls on one ride overlap. It
is an assumption, made only by the run and the theorems that say so, to show that overlap is what the
violations found in the live wiring need.

Left out: audit records, authorization (a refused call changes nothing), quotes, positions, the
payload of events; a failing publication is observable only as a missing event.

### PaymentService

The in-memory wiring, in which the intent is shared by all handlers. `createPixIntent` waits for the
provider (`order`) and for its own save (`create`); `handleWebhook` waits after the lookup (`apply`),
after the save (`saved`) and after each append (`settle`). An async store method runs to its end when
it is called, so the store's change and the caller's last step before it are one action. The provider
is external: `sent` is what it signed; anything in `sent` may be delivered again and again, in any
order, and anything at all may arrive unsigned. `compensateEntry`, `expireIfLapsed` and
`markRefundPending` have no caller in production; the tests use them on the same stores.

Left out: the ledger's tenant, currency and times; the QR code; reads. The live payment store is only
represented by `IntentsSaved` above: no live path calls `handleWebhook`.

### BackOffice: Tenants, Onboarding, Subscriptions, RateLimiter

The handlers of the first two have the same shape: load and change without yielding, await the save,
await the audit record. So each call is a start (`ProvisionTenant`, `SeedDemo`, `ChangeTenant`,
`UpdateBranding`; `Register`, `AdvanceVerification`, `SetAvailability`), a save (`SaveTenant`,
`SaveBranding`, `SaveProfile`), an audit step, and with rows possibly an `Abandon...` when a call to the
database throws. `store` selects shared objects or rows as in the orchestrator; the save of a row
overwrites what is there, the save of an object changes nothing. `ProfileRowsSaved` says whether
the live tables accept the rows of profiles and vehicles: at this commit they do not (`created_at` is
`NOT NULL` in `packages/backend/db/migrations/0003_onboarding.sql` and never written), so the run, with
`FALSE`, shows profiles on objects and only refused saves on rows; the theorems hold for both values. A
history of the statuses stored (`tenantWent`, `profileWent`) and the audit trail let the properties speak
about the past, and `tenantRaced`, `profileRaced` record which values two calls worked on at once.

`Subscriptions` has only the in-memory store. A handler is one action up to its first await, which for
most is its end; `Subscribe` goes on to `PostDebit` and `PostCredit`, and `SubscribeRefused` is the
`subscribe` that throws *after* `recordPayment` changed the shared object. `StartTrial` has its check
and its save apart.

`RateLimiter` is the bucket in thousandths of a token. Its caller is not in the repository.

### Communication: Notifications, Outbox, Conversations

`Notifications`: a call handles one ride event, definition by definition, and waits at `lookup`, `send`,
`save` and `push` (the store's own check, then its insertion). `AfterFailure` is `deliver`'s double loop
as one step: again, then the next channel, then give up. `sends` counts what a sender really took.
`Outbox`: `Dispatch` lists the batch, `TakeNext` looks an event up, `ConsumerHandles` or
`ConsumerThrows` ends its `await`. `Poison` and `Orphan` are the events whose consumer throws or is
missing. `Conversations`: `OpenForRide`/`SaveConversation`, `SendMessage` with an await at each of
`FindConversation`, `Deduplicate`, `Number` and `SaveMessage`, `ReportMessage`, and `SubmitRating` with
both checks of the rating (service and store) before `PushRating`. In each of the three a variable
`...Raced` records which check two calls passed before either saved.

### Field: Tracking, DispatchWaves, RidePages, Pricing

`Tracking`: a tick reads the state it was given, waits for the position (`StartTick`), and hands back a
state that the app stores (`FinishTick`), or throws and hands back nothing (`FailTick`). The app may
change the mode and prune the pool in between. A fix is its date. `DispatchWaves` has one action for
each exported function that changes something; who calls them, and when an offer expires, is the
environment. `RidePages`: `Visit` and `Refresh` render a page and keep the forms it shows; `Press` runs
the whole action of a button on the ride of the moment, redirects to a page rendered anew, and broadcasts
the change when the live publisher is wired. A panel asks for the channels of the rides it lists in an
effect after its render, and the server lets it join each of them later (`Join`); rendered with another
list, or in another order, it starts again (`Remounted`). `woken` are the panels with a broadcast to react
to, `missed` those that list a ride and did not hear of its change, because they had not joined its
channel yet or, with `BroadcastFails`, because it did not reach them. `claims` is the line that says the
panel is live. `Runtimes` says which wirings are looked at; `RidesSaved` is as in the orchestrator, so a
live table has the rides it starts with. `Pricing` is `quoteFare` in the integers it computes with;
`ExactTotal` is an independent rational fare, rounded once, to compare with: `FareIsExact` asks for it
where there is no surge, and `RoundedOnce`, which the code does not keep, everywhere.

## The runs

| Run | Instance | Shows |
|---|---|---|
| `RideDemo` | shared objects, 1 ride, 2 drivers, 2 calls, every target the services allow | winners stay, timestamps are true, the life cycle is implemented |
| `RideLiveSerial` | rows that are already there, calls on a ride one at a time, failures | the same, the cancellation policy, and that nothing is published that was not held |
| `RidePix` | shared objects, a Pix ride | the matching gate, once the request was announced |
| `PaymentBooks` | 1 payment, 2 handlers, 2 notifications, one reversal deep | settlements whole and exact, balances exact, nothing unconfirmed |
| `PaymentTwo` | 2 payments, 2 handlers, 2 notifications, fairness, no symmetry | implements `PaymentBook`; paid is settled |
| `BackOffice` | 2 overlapping calls; 2 tenants and 1 slug; 2 profiles of 1 user; 2 subscriptions of 1 tenant over 3 days; 2 buckets | no stage skipped, ends final, no approval unseen, trails true, charges whole, each thing once, the limit exact |
| `Communication` | 2 overlapping calls; both definitions of a cancelled ride; a good, a poisoned and an orphaned event; 2 conversation ids, 2 forms, a page of 2; fairness | nothing said, sent or delivered twice; last resorts last; pages only grow; what was begun is recorded, what is good arrives |
| `Field` | 2 ticks; 2 rides, 2 drivers, 3 waves; a browser of each role, both wirings; fares around every threshold | cadence, current ETAs, one winner, best first, harmless buttons, panels that are current unless they missed a broadcast, fares exact without a surge and lines that add up |
| `Find...` | the smallest instance that shows it, or that of the run it belongs to | a statement of the code's own documents or tests that the code does not keep |

Where overlapping calls do break a promise, the property says exactly which overlap it takes (a key in
`noteRaced`, a profile in `profileRaced` on rows, and so on), so that it would fail on any other way to
break it. Those properties therefore bound these races and do not catch them. Six of the overlaps contradict
what the code says of itself: without the exception (for the last one, with overlapping calls) TLC finds
a counterexample in the instance of the same run.

| Overlap | Left out by | The statement it breaks |
|---|---|---|
| two deliveries of one event (`notification-service.ts:75`) | `ToldOnce` | `notification-service.ts:67` "mesma chave nunca gera segunda notificação" |
| a message sent twice (`conversation-service.ts:83`) | `SaidOnce` | `conversation.ts:5` "entrega duplicada nunca duplica persistência" |
| a ride rated twice by one participant (`rating-service.ts:57`) | `SaidOnce` | `rating.ts:5` "uma por avaliador por corrida" |
| two dispatches of the outbox (`outbox.ts:44`) | `DeliveredOnce` | `outbox.ts:34` "o mesmo eventId nunca é entregue duas vezes" |
| a configuration and a cancellation of a tenant, on rows (`tenant-service.ts:104`) | `EndIsFinal` | `tenant.ts:5` "somente os pares abaixo são válidos" |
| a cancellation and an advance of one ride, on rows (`ride/actions.ts:88`) | `PassengerCancelObeysPolicy`, serialised | `cancellation.ts:57` 'requires an explicitly approved exceptional policy' |

Of the others no document says more than the code does when calls come one after the other: two
conversations opened at once (`OneConversation`), one sequence number taken by two messages
(`HistoryOnlyGrows`), two registrations of a user or a slug (`OneOfEach`), a `setAvailability` that
overlaps a suspension (`SuspensionHolds`; the live tables refuse the rows it would need). A tick is a
function of the state it is given, so overlapping ticks are a matter of its caller, which the repository
does not have; `CadenceHolds` says what they cost. `PublishedWasHeld` is run without overlap and proved
with it.

Deadlock is checked in `RideDemo`, `RidePix`, `PaymentBooks` and `PaymentTwo`. In
`RideLiveSerial` nothing changes the drivers' profiles, so the system may come to rest once the tenant
has left ACTIVE or the ride has reached a terminal status; and in `BackOffice`, `Communication` and
`Field` everything ends that there is to do: ids, days and messages are used up, the clock stops at its
bound, a fare is quoted once. The `Find...` runs stop at what they find.

**Bounds.** A ride is touched only through its own row, object and intent, so one ride shows every race;
two calls are enough because each violated statement is about a pair of handlers, and a third call can
begin as soon as one ends, so sequences are not limited to two. Two drivers are needed for two winners.
`AdvanceTarget` and `AdvanceTrigger` are either everything a caller of the service may pass or what the
pages offer (`PageTargets`), whichever the run is about; `RideDemo` keeps to the trigger that is never
refused (`ProviderTriggers`), and `RideLiveSerial` has both kinds. `EventId` bounds how many
notifications the provider sends, not how often they are delivered; two suffice for a payment and its
refund, a failure and a payment, or a payment reported twice. `MaxDepth` bounds reversals of reversals;
with 1 an entry can be reversed while others are still being posted. The amount 99 divides by none of
the three shares, so the rounding shows. In the three larger compositions two ids race for one slug,
user or tenant; a clock of three days passes a trial of one and a grace period of one; `TrialDays`,
`GraceDays`, the intervals and the thresholds of `Tracking` are small numbers in the order of the real
ones, and the theorems hold for all of them; `Candidates` has a driver on each side of every criterion
and of every tie; the trips, surges, tolls, waits and discounts of `Pricing` hit each cap and each half.
One event type with two definitions exercises the walk through the catalogue; the others differ in data
only. The outbox holds more than a batch, with one event whose consumer always throws in a batch of two:
if such events fill the batch, nothing behind them is ever listed (`outbox.ts:58-62`), so
`GoodIsDelivered` is a statement about a batch with room for more. Calls, drivers, notification ids, and
the ids of tenants, profiles, users, subscriptions, ticks and rides are interchangeable, which justifies
the symmetry sets; the liveness runs use none.

**Fairness.** `PaymentTwo` assumes weak fairness of each call's next step. The event loop runs
every ready continuation, and the in-memory stores' promises are always ready. A provider that never
answers is not excluded from the code's side, but `OrderCreated` and `OrderRejected` play no part in
the property. Nobody is assumed to call, pay, notify or redeliver. `Communication` assumes the same of
the notification and the outbox handlers (a sender or a consumer answers or throws), and that the outbox
is dispatched again and again, which is what a dispatcher is for although nothing in the repository
runs it. No sender is assumed ever to succeed.

**Disagreements found** (the `Find...` runs; quotes in `PROJECT.json`):

* `FindWinner`: lost updates of the live repository. Two acceptances of a row that was there are both
  announced.
* `FindLivePanel`: a broadcast sent between the render of the panel and its joining of the channel is
  lost, joining does not refresh, and the panel says that it updates itself.
* `FindRounding`: the product with the surge is rounded, and the total again, where `pricing.ts:9` and
  `:13` say once. A surge of 1001 on a car ride of 15937 m and 8 s costs a centavo more than the exact
  fare; `requestRide` passes 1000 only.
* `FindPageError`: `redirect()` works by throwing, and the actions that accept and cancel call it inside
  their own `try`, so a press that succeeded is shown as a failure.

Met while reading, and not checked by a run of its own:

* rides: the live table refuses every ride that `requestRide` stores (see `RidesSaved`); the save of a
  call that overlaps a cancellation brings a live ride back to life; the cancellation policy is assessed
  on an older load of the ride than the one cancelled; a refused acceptance leaves its driver on the
  shared ride; the live wiring passes no driver repository to
  the orchestrator, so `acceptOffer` skips the profile check there (`MayReceiveOffer`).
* Pix before dispatch (`ride-orchestrator.ts:46`): `startMatching` asks for a paid intent, but
  `advanceRide`, which takes `MATCHING` as any other target, does not; no page makes that call. And a ride
  is stored before its intent, so the panel may show it, and `startMatching` let it pass, before there is
  one. `AnnouncedPixIsPaid` is about `startMatching` and announced requests only.
* payments: a refund between a paid webhook's save and its second look at the status leaves the payment
  unsettled; two overlapping `createPixIntent` with one key are both stored in memory, though its only
  caller never repeats a key; a refund delivered before its payment is remembered as seen and lost; the
  class `IdempotencyRegistry` is created and not used.
* outbox: a consumer that throws never counts an attempt (`outbox.ts:58-62`), so a poisoned event is
  handed over for ever, and enough of them fill every batch.
* pricing: the confirmation page quotes with the fake maps provider and promises the price for two
  minutes, while `requestRide` quotes anew with the real one, and nothing calls `isQuoteValidFor`.
* pages: the operations listener subscribes to the rides it lists, so a ride requested later does not
  appear by itself. `getBackend` builds a new in-memory subscription store for each request in both
  wirings (`backend.ts:211` and `:288`), so a subscription lasts as long as the request that started it;
  `Subscriptions` models one service over one store, as the tests use it.
* rate limiter: it supposes a clock that does not go back; nothing in the repository calls it.

## The proofs

All theorems are about any set of drivers, rides, payments, notifications and calls, under the named
assumptions of the modules (`NoDriver` is no driver; `NoRide` is no ride's value; the targets and
triggers are statuses and triggers; amounts are positive integers; bounds and thresholds are natural
numbers, `StaleAfter <= ExpiredAfter`; the drivers a wave chooses from are finitely many, as the array
of candidates is; what marks a free slot or a missing value is none of the values). They are checked
with Z3, Zenon and LS4.

Sums, sorting and counting are reached without induction over data: a finite induction is the absence
of a least counterexample (`LeastNatural`, `SmallestSubset`, `GreatestNatural` of `FiniteProofs`), and a
sorted sequence is given by places, the place of an element being the number of those before it
(`PlacesFollowOrder`, `PlacesOfNumbers`). The models define the orders that way too.

* `TypeCorrect`, `PublishedIsHeld`, `AnnouncedIsPaid` (`RideOrchestratorProofs`): for both stores, with
  overlap and failures.
  The invariants as stated are not inductive. `TypeInv` adds to `TypeOK` what a call carries at each
  await (a call that waits somewhere has a job, one that works on a ride has it loaded). `PublishedIsHeld`
  needs to know that a call about to publish has had its status held. `AnnouncedIsPaid` needs that an
  announced Pix ride has its intent in the store and that intents never return to `pending`, so that a
  call which saw `paid` is right about the past even if the intent has moved on.
* `TimestampsAreTrue`, `WinnerStays`, `HandlersImplementLifecycle` (`RideLifecycleProofs`): assuming
  `~Live \/ Serialised`, which `FindWinner` shows to be necessary. The invariant says that a call
  past its load holds what the repository holds (`Fresh`), that with rows no other call works on the
  ride (`Exclusive`), and that the driver a call announces is the one it assigned (`CarriesDriver`).
  Under it each action either leaves the ride alone or takes one step of the life cycle
  (`RideStep`), from which the three theorems follow.
* `CancelStaysInPolicy` (`RideLifecycleProofs`): assuming `Serialised` alone, for both stores. The
  cancellation assesses the policy on one load and acts on another, so `CancelInv` says what of the
  first still holds at each later await (`Permitted`), given that no other call is on the ride (`Alone`)
  and that the stamps of a ride come in the order of its statuses (`Ordered`): the policy looks at
  stamps, the promise is about statuses.
* `PaymentTypes`, `BookedIsConfirmed`, `ServiceImplementsBook` (`PaymentServiceProofs`): any number of
  payments and overlapping handlers, no fairness. `TypeOK` is inductive. The other two rest on
  `BooksInv`: an intent that was ever paid was reported paid; so was every payment with an entry; and
  (`Serves`) an intent whose creation awaits the provider is stored by nobody and belongs to no other
  call, a webhook in flight is about the payment of its notification and, if signed, was sent, and what
  is being settled was once paid. `BookStep` maps each action to a step of `PaymentBook` or to none;
  that statuses only move along their edges (`StatusMonotone`) is then read off the abstract step, and
  used to keep `BooksInv` for the calls that do not move.
* `BalancesStayExact` (`PaymentServiceProofs`) is about the sum that the ledger's entries really have.
  `LedgerInv`: an entry's id is in the ledger once (`Single`), an entry adds its party's share or takes
  it back (`TrueTo`), and a party's entries for a payment are a posting and a chain of reversals, each
  of the one before and none twice (`Chain`), so that all but the last cancel.
* `SettlementsAreWhole` (`PaymentServiceProofs`). `SettleInv` follows a settlement: a call that settles
  has posted as many parties as it counts, and a payment that is begun and not complete, or paid and
  not begun, has a call that will see to it (`Attended`). When no call works on it, it is therefore
  complete or untouched.
* `NoStageIsSkipped`, `EndsAreFinal`, `NobodyDrivesUnseen`, `SuspensionsHold` (`BackOfficeProofs`), on
  objects and on rows, with any number of overlapping and failing calls. None is inductive: a call that
  loaded a row carries a status across its save, so the invariants say what it may carry. What a call is
  about to write was reached along the table from a status the tenant *was stored with*, and no other
  call has it in hand unless the value is in the raced set; hence the history is closed under
  predecessors, and only a raced save can leave an end.
* `NoGapAtTheDeadline`, `SaasLedgerBalances`, `PlansAreCharged`, `EachIsTakenOnce`, `BackOfficeTypes`
  (`SubscriptionProofs`). The invariant follows a charge from `recordPayment` to its second entry: a call
  that posts has its charge in the history, no entry of it but those it already wrote unless another
  charge has the same id, and a plan in use was charged, is being charged, or belongs to a `subscribe`
  that threw. `EachIsTakenOnce` needs for each of the three checks that a call past it alone finds
  nothing stored.
* `LimitIsExact` (`SubscriptionProofs`). The limiter keeps one number and one time; the property speaks
  of every window of the calls it admitted. `BucketTells` joins them: the tokens of a bucket at its
  last update are the least that any window up to then leaves, or the bucket was full. That refused calls
  refill too, and that the refill is capped, change neither side.
* `EventsAreDeliveredOnce`, `NobodyIsToldTwice`, `FallbackComesLast`, `EverythingIsSaidOnce`
  (`CommunicationProofs`), for any number of handlers, events, rides and forms. The pattern is one:
  whoever is past a check alone (`HandledAlone`, `KeyKept`, `OpenInv`, `SendInv`, `RateInv`) knows that
  what it checked is still so, and a second one that gets past it is recorded. For notifications the
  call also knows how often it tried (`Counts`), from which the last resort follows for the real
  catalogue.
* `CommunicationTypes` (`CommunicationProofs`). `OutTyped` adds what a dispatch holds of its batch at
  each await; that `nextSequence` returns a number needs that the numbers stored have a greatest.
* `HistoryStays` (`CommunicationProofs`), an action property. While no number was taken twice and no
  second conversation opened, at most one call holds a number, it is beyond all stored ones, and the
  messages are stored in the order of their numbers (`NumberInv`); so `listByConversation`'s sort
  changes nothing, a page is the first messages stored (`PageInOrder`), and a save goes after it.
* `CadenceIsKept`, `EtaStandsOnAFix`, `PanelsAreCurrent`, `StalePressesAreHarmless` (`FieldProofs`). A
  tick in flight alone holds the tracker's state, and the last fix is the one the state remembers; the
  pool holds the latest location unless ticks overlapped; whatever moves a ride leaves each panel that
  lists it woken, missed or rendered anew, for a joined and for an unjoined one, with or without failing
  broadcasts, so any other panel was rendered from the rides it lists as they are.
* `WinnersAreKept`, `OffersGoToTheBest` (`FieldProofs`). `DispatchInv` keeps that whoever was offered a
  ride is in the log of its offers and the other way round (`OffersLogged`), that a winner is
  assigned or overruled and gets no new offer from then on (`WonIsTaken`), and that the last wave is the best that could be
  offered (`PlanIsBestOf`). The last is what `planWaveOffers` computes: its loop is a function of the
  candidates seen so far, and after each it has taken the first eligible ones in the ranking, as many
  as fit.
* `FaresAreExact`, `SurgeErrsByACentavo` (`FieldProofs`), for every trip, toll, wait and discount, under the
  two rows of `DEFAULT_CATALOG`: a fare on record is the quote of its inputs; without a surge it is the
  exact one, and rounding the surge's product first moves the total up by at most one centavo and never
  down. Each rounding is bounded by itself before they meet (`FareIsNear`).
* `FieldTypes` (`FieldProofs`).

Layout: one lemma per kind of step (`BeginStep`, `GotoStep`, `EndStep`, `PutStep`, `CallStep`,
`HarmlessCall`) says what it does to the bookkeeping, and the preservation proofs have one step per
action.

Only model-checked: liveness (`PaidIsSettled`, `DispatchIsStored`, `GoodIsDelivered`), which is beyond
the prover; and the `Find...` runs, which are counterexamples. Every other property of the runs is a
theorem.

## Plan

Done: rides, payments in memory, tenants, onboarding, subscriptions, rate limiter, notifications,
outbox, conversations and ratings, tracking, dispatch, pages and fares, each with its run; theorems
for all of them, and for every property of a run but liveness.

Left, in this order:

1. Payments, live: the same service on rows (private copies, no events remembered), to state what its
   deduplication rests on. No live path calls it at this commit.
2. Abstract specifications of the services of `Communication`: the set with one element per key, and the
   refinement from the behaviours in which nothing raced.
3. The compositions that the repository prepares but does not wire: dispatch offers into `acceptOffer`,
   ride events through the outbox into notifications.

## Not modelled

* Receipts and geofences: stateless formatting, and geometry over real numbers.
* Issuing and verifying sessions: stateless. The permissions of each role are in `RidePages`.
* Maps and logging: pure input and output. The wait for the maps provider is a step of `RequestRide`.
* Tenant configurations: values that are validated and that no service stores.
* The quote form, histories, earnings and the phone's other screens: they render what a service returns.
  The two-tap confirmation of the driver's screen is local to it.
* The idempotency registry: the web application creates it and nothing uses it.
* Audit records beyond those that must agree with a change (`tenantTrail`, `profileTrail`,
  `dispatched`): nobody reads them back.

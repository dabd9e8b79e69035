--------------------------- MODULE Notifications ----------------------------
(***************************************************************************)
(* What passengers and drivers are told: NotificationService as the        *)
(* consumer of ride events (application/notification-service.ts) over      *)
(* domain/notification.ts and the in-memory store.                         *)
(*                                                                         *)
(* A call handles one event: it goes through the definitions of the        *)
(* catalogue, looks the ride up, looks the deduplication key up, sends and *)
(* stores, with an await at each.  Tenants, locales, templates' wording    *)
(* and device tokens are data.  Senders are external and may fail.         *)
(***************************************************************************)
EXTENDS Wiring, Naturals, Sequences

CONSTANTS
  NoteRide,   \* the rides events are about
  Announced   \* the event types that are published

VARIABLES
  noteCalls,  \* noteCalls[c]: the event the slot handles
  driven,     \* the rides that have a driver
  notes,      \* the stored notifications, oldest first
  sends,      \* history: sends[k]: how often a sender took the message of key k
  noteRaced   \* history: keys two calls dispatched at once

noteVars == <<noteCalls, driven, notes, sends, noteRaced>>

Definition(trigger, recipient, order, retries) ==
  [trigger |-> trigger, recipient |-> recipient, order |-> order, retries |-> retries]

(* NOTIFICATION_CATALOG: order is the channel and its fallback.            *)
Catalogue ==
  <<Definition("ride.driver_assigned", "passenger", <<"push", "in_app">>, 3),
    Definition("ride.driver_arrived", "passenger", <<"push", "in_app">>, 3),
    Definition("ride.completed", "passenger", <<"in_app">>, 3),
    Definition("ride.cancelled", "passenger", <<"push", "in_app">>, 3),
    Definition("ride.cancelled", "driver", <<"push", "in_app">>, 3),
    Definition("payment.updated", "passenger", <<"in_app">>, 5)>>

(* The deduplication key names the definition, the recipient and the ride; *)
(* the recipient follows from the other two.                               *)
Key == (1 .. Len(Catalogue)) \X NoteRide

Note == [key: Key, channel: {"push", "in_app"}, attempts: Nat, status: {"sent", "failed"}]

(* at: before the key is looked up, at a sender, before the store looks    *)
(* the key up again, before it keeps the notification.                     *)
NoteCall ==
  [ride: NoteRide, def: 1 .. Len(Catalogue), at: {"lookup", "send", "save", "push"},
   channel: 1 .. 2, attempt: Nat, attempts: Nat, status: {"pending", "sent", "failed"}]

ASSUME NoteAssumption == NoCall \notin NoteCall

NoteTypeOK ==
  /\ noteCalls \in [Call -> NoteCall \cup {NoCall}]
  /\ driven \subseteq NoteRide
  /\ notes \in Seq(Note)
  /\ sends \in [Key -> Nat]
  /\ noteRaced \subseteq Key

NoteInit ==
  /\ noteCalls = [c \in Call |-> NoCall]
  /\ driven = {}
  /\ notes = <<>>
  /\ sends = [k \in Key |-> 0]
  /\ noteRaced = {}

-----------------------------------------------------------------------------
KeyOf(call) == <<call.def, call.ride>>

SlipKnown(key) == \E i \in DOMAIN notes : notes[i].key = key /\ notes[i].status = "failed"

(* existsByDedupeKey.                                                      *)
Known(key) == \E i \in DOMAIN notes : notes[i].key = key

Continue(c, call) == noteCalls' = [noteCalls EXCEPT ![c] = call]

(* definitionsFor: the next definition of the event from position i on.    *)
NextDefinition(trigger, i) ==
  {d \in i .. Len(Catalogue) :
     Catalogue[d].trigger = trigger /\ \A e \in i .. (d - 1) : Catalogue[e].trigger # trigger}

StartOf(ride, d) ==
  [ride |-> ride, def |-> d, at |-> "lookup", channel |-> 1, attempt |-> 1, attempts |-> 0,
   status |-> "pending"]

(* On to the next definition of the event, or the end of handleRideEvent.  *)
NextOrEnd(c, call) ==
  LET later == NextDefinition(Catalogue[call.def].trigger, call.def + 1) IN
  Continue(c, IF later = {} THEN NoCall ELSE StartOf(call.ride, CHOOSE d \in later : TRUE))

(* handleRideEvent begins; an event may be published again.                *)
HandleRideEvent(c, ride, trigger) ==
  /\ noteCalls[c] = NoCall
  /\ \E d \in NextDefinition(trigger, 1) : Continue(c, StartOf(ride, d))
  /\ UNCHANGED <<driven, notes, sends, noteRaced>>

(* Nobody to tell: the event is about a driver the ride does not have.     *)
HasRecipient(call) == Catalogue[call.def].recipient = "driver" => call.ride \in driven

(* Another call has looked the key up and not stored it yet.               *)
Dispatching(key) ==
  \E c \in Call :
    noteCalls[c] # NoCall /\ KeyOf(noteCalls[c]) = key /\ noteCalls[c].at # "lookup"

(* The ride and the key are looked up: nobody to tell, told before, or go. *)
LookUp(c) ==
  LET call == noteCalls[c] IN
  /\ call # NoCall /\ call.at = "lookup"
  /\ IF HasRecipient(call) /\ ~ Known(KeyOf(call))
     THEN /\ Continue(c, [call EXCEPT !.at = "send"])
          /\ noteRaced' = noteRaced \cup (IF Dispatching(KeyOf(call)) THEN {KeyOf(call)} ELSE {})
     ELSE NextOrEnd(c, call) /\ UNCHANGED noteRaced
  /\ UNCHANGED <<driven, notes, sends>>

(* The sender took it.                                                     *)
SendSucceeds(c) ==
  LET call == noteCalls[c] IN
  /\ call # NoCall /\ call.at = "send"
  /\ sends' = [sends EXCEPT ![KeyOf(call)] = @ + 1]
  /\ Continue(c, [call EXCEPT !.at = "save", !.attempts = @ + 1, !.status = "sent"])
  /\ UNCHANGED <<driven, notes, noteRaced>>

SlipAfterFailure(call) ==
  LET def == Catalogue[call.def]
      tried == [call EXCEPT !.attempts = @ + 1] IN
  IF call.channel < Len(def.order) THEN [tried EXCEPT !.channel = @ + 1, !.attempt = 1]
  ELSE IF call.attempt < def.retries THEN [tried EXCEPT !.attempt = @ + 1]
  ELSE [tried EXCEPT !.at = "save", !.status = "failed"]

SlipNeverGivesUp(call) ==
  LET tried == [call EXCEPT !.attempts = @ + 1] IN
  IF call.attempt < Catalogue[call.def].retries THEN [tried EXCEPT !.attempt = @ + 1]
  ELSE [tried EXCEPT !.channel = @ + 1, !.attempt = 1]

(* deliver's loop: again, then the fallback channel, then give up.         *)
AfterFailure(call) ==
  LET def == Catalogue[call.def]
      tried == [call EXCEPT !.attempts = @ + 1] IN
  IF call.attempt < def.retries THEN [tried EXCEPT !.attempt = @ + 1]
  ELSE IF call.channel < Len(def.order) THEN [tried EXCEPT !.channel = @ + 1, !.attempt = 1]
  ELSE [tried EXCEPT !.at = "save", !.status = "failed"]

(* The sender threw.                                                       *)
SendFails(c) ==
  LET call == noteCalls[c] IN
  /\ call # NoCall /\ call.at = "send"
  /\ Continue(c, AfterFailure(call))
  /\ UNCHANGED <<driven, notes, sends, noteRaced>>

SlipSaveNote(c) ==
  LET call == noteCalls[c] IN
  /\ call # NoCall /\ call.at = "save"
  /\ IF Known(KeyOf(call)) \/ call.status = "failed"
     THEN NextOrEnd(c, call) ELSE Continue(c, [call EXCEPT !.at = "push"])
  /\ UNCHANGED <<driven, notes, sends, noteRaced>>

(* The store's own check of the key, and the await that follows it.        *)
SaveNote(c) ==
  LET call == noteCalls[c] IN
  /\ call # NoCall /\ call.at = "save"
  /\ IF Known(KeyOf(call)) THEN NextOrEnd(c, call) ELSE Continue(c, [call EXCEPT !.at = "push"])
  /\ UNCHANGED <<driven, notes, sends, noteRaced>>

PushNote(c) ==
  LET call == noteCalls[c] IN
  /\ call # NoCall /\ call.at = "push"
  /\ notes' = Append(notes,
       [key |-> KeyOf(call), channel |-> Catalogue[call.def].order[call.channel],
        attempts |-> call.attempts, status |-> call.status])
  /\ NextOrEnd(c, call)
  /\ UNCHANGED <<driven, sends, noteRaced>>

(* acceptOffer gives the ride a driver.                                    *)
DriverAssigned(ride) ==
  /\ driven' = driven \cup {ride}
  /\ UNCHANGED <<noteCalls, notes, sends, noteRaced>>

NoteStep(c) ==
  LookUp(c) \/ SendSucceeds(c) \/ SendFails(c) \/ SaveNote(c) \/ PushNote(c)

NoteNext ==
  \/ \E c \in Call, ride \in NoteRide, trigger \in Announced : HandleRideEvent(c, ride, trigger)
  \/ \E c \in Call : NoteStep(c)
  \/ \E ride \in NoteRide : DriverAssigned(ride)

-----------------------------------------------------------------------------
(* Properties.                                                             *)

(* Nobody is told twice, and the record is true: unless two calls          *)
(* dispatched its key at the same time, a message is taken by a sender,    *)
(* and stored, at most once; and with nobody working on its key, a stored  *)
(* notification says sent exactly when a sender took it, and one that is   *)
(* not stored was sent to nobody.                                          *)
ToldOnce ==
  \A k \in Key \ noteRaced :
    /\ sends[k] <= 1
    /\ \A i, j \in DOMAIN notes : notes[i].key = k /\ notes[j].key = k => i = j
    /\ ~ Dispatching(k) =>
         (sends[k] > 0 <=> \E i \in DOMAIN notes : notes[i].key = k /\ notes[i].status = "sent")

(* The fallback channel is the last resort: it is used only after every    *)
(* attempt on the first channel failed, and nothing is given up before     *)
(* both are exhausted, nor tried any more after.                           *)
FallbackIsLast ==
  \A i \in DOMAIN notes :
    LET def == Catalogue[notes[i].key[1]] IN
    /\ notes[i].channel # def.order[1] => notes[i].attempts > def.retries
    /\ notes[i].status = "failed" => notes[i].attempts = Len(def.order) * def.retries
    /\ notes[i].attempts <= Len(def.order) * def.retries

(* What a call set out to send is on record in the end, sent or given up,  *)
(* whatever the senders do and whoever else handles the same event.        *)
DispatchIsStored == \A k \in Key : Dispatching(k) ~> Known(k)
=============================================================================

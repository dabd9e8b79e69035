--------------------------- MODULE Conversations ----------------------------
(***************************************************************************)
(* What passenger and driver say of one ride, to each other and about each *)
(* other: application/conversation-service.ts and rating-service.ts over   *)
(* the in-memory stores, called as app/ride/actions.ts calls them.  There  *)
(* is no chat and no rating in the live runtime.                           *)
(*                                                                         *)
(* Every store call is awaited, so handlers interleave at each.  A message *)
(* is its conversation, the id its form gave it and its number; bodies,    *)
(* times and stars are data, and the senders are the ride's participants.  *)
(***************************************************************************)
EXTENDS Wiring, Naturals, Sequences, SequencesExt, FiniteSetsExt, TLC

CONSTANTS
  ConvId, NoConv,
  ClientId,   \* the ids forms carry; a form sent twice repeats its id
  PageLimit   \* how many messages one reading returns

ASSUME ChatAssumption == NoConv \notin ConvId /\ PageLimit \in Nat

VARIABLES
  stage,      \* the ride, as far as chat and rating look at it
  convOf,     \* the conversation findByRideId returns
  opened,     \* history: the conversations ever saved
  messages,   \* the stored messages, in the order of their saves
  ratings,    \* who rated whom, in the order of the saves
  chatCalls,  \* chatCalls[c]: the handler in the slot
  chatRaced   \* history: the checks two handlers passed at once

chatVars == <<stage, convOf, opened, messages, ratings, chatCalls, chatRaced>>

Participant == {"passenger", "driver"}

(* Only these statuses are told apart: without a driver, with one, rated   *)
(* while COMPLETED, and what follows (payment, or the end by cancelling).  *)
Stage == {"unassigned", "driven", "COMPLETED", "past"}

Message == [conv: ConvId, client: ClientId, sequence: Nat, reported: BOOLEAN]

OpenCall == [op: {"open"}, at: {"save"}]
SendCall ==
  [op: {"send"}, conv: ConvId, client: ClientId, sequence: Nat,
   at: {"find", "dedupe", "number", "save"}]
RateCall == [op: {"rate"}, rater: Participant, at: {"check", "recheck", "push"}]

Check == {"open", "number"} \cup ClientId \cup Participant

ChatTypeOK ==
  /\ stage \in Stage
  /\ convOf \in ConvId \cup {NoConv}
  /\ opened \subseteq ConvId
  /\ messages \in Seq(Message)
  /\ ratings \in Seq(Participant)
  /\ chatCalls \in [Call -> OpenCall \cup SendCall \cup RateCall \cup {NoCall}]
  /\ chatRaced \subseteq Check

ChatInit ==
  /\ stage = "unassigned"
  /\ convOf = NoConv /\ opened = {}
  /\ messages = <<>> /\ ratings = <<>>
  /\ chatCalls = [c \in Call |-> NoCall]
  /\ chatRaced = {}

-----------------------------------------------------------------------------
ChatAt(op, at) ==
  {c \in Call : chatCalls[c] # NoCall /\ chatCalls[c].op = op /\ chatCalls[c].at = at}

ChatMoves(c, call) == chatCalls' = [chatCalls EXCEPT ![c] = call]

Races(others, check) ==
  chatRaced' = IF others = {} THEN chatRaced ELSE chatRaced \cup {check}

(* The ride moves on under the handlers.  It gets its driver...            *)
RideGetsDriver ==
  /\ stage = "unassigned" /\ stage' = "driven"
  /\ UNCHANGED <<convOf, opened, messages, ratings, chatCalls, chatRaced>>

(* ...is completed, and is paid for or was cancelled.                      *)
RideMovesOn ==
  /\ \/ stage = "driven" /\ stage' = "COMPLETED"
     \/ stage # "past" /\ stage' = "past"
  /\ UNCHANGED <<convOf, opened, messages, ratings, chatCalls, chatRaced>>

-----------------------------------------------------------------------------
(* openForRide.                                                            *)

(* findByRideId found none.                                                *)
LooksUnopened == convOf = NoConv

OpenForRide(c) ==
  /\ chatCalls[c] = NoCall
  /\ LooksUnopened
  /\ ChatMoves(c, [op |-> "open", at |-> "save"])
  /\ Races(ChatAt("open", "save"), "open")
  /\ UNCHANGED <<stage, convOf, opened, messages, ratings>>

(* findParticipants, and the save, which replaces what is there.  A ride   *)
(* that has a driver keeps it.                                             *)
SaveConversation(c) ==
  /\ c \in ChatAt("open", "save")
  /\ IF stage = "unassigned" THEN UNCHANGED <<convOf, opened>>
     ELSE \E k \in ConvId \ opened : convOf' = k /\ opened' = opened \cup {k}
  /\ ChatMoves(c, NoCall)
  /\ UNCHANGED <<stage, messages, ratings, chatRaced>>

-----------------------------------------------------------------------------
(* sendMessage.                                                            *)

MessagesOf(conv) == {i \in DOMAIN messages : messages[i].conv = conv}

(* nextSequence.                                                           *)
NextSequence(conv) == 1 + Max({messages[i].sequence : i \in MessagesOf(conv)} \cup {0})

SlipFindByClientId(conv, client) == {}

FindByClientId(conv, client) == {i \in MessagesOf(conv) : messages[i].client = client}

(* sendChatMessageAction peeks at the conversation and passes its id.      *)
SendMessage(c, client) ==
  /\ chatCalls[c] = NoCall
  /\ convOf # NoConv
  /\ ChatMoves(c, [op |-> "send", conv |-> convOf, client |-> client, sequence |-> 0, at |-> "find"])
  /\ UNCHANGED <<stage, convOf, opened, messages, ratings, chatRaced>>

(* findByRideId: refused if the ride has another conversation by now.      *)
FindConversation(c) ==
  /\ c \in ChatAt("send", "find")
  /\ ChatMoves(c, IF convOf = chatCalls[c].conv THEN [chatCalls[c] EXCEPT !.at = "dedupe"] ELSE NoCall)
  /\ UNCHANGED <<stage, convOf, opened, messages, ratings, chatRaced>>

(* findByClientId: a message that is there already is the answer.          *)
Deduplicate(c) ==
  LET call == chatCalls[c]
      others == {d \in ChatAt("send", "number") \cup ChatAt("send", "save") :
                   chatCalls[d].conv = call.conv /\ chatCalls[d].client = call.client} IN
  /\ c \in ChatAt("send", "dedupe")
  /\ IF FindByClientId(call.conv, call.client) = {}
     THEN ChatMoves(c, [call EXCEPT !.at = "number"]) /\ Races(others, call.client)
     ELSE ChatMoves(c, NoCall) /\ UNCHANGED chatRaced
  /\ UNCHANGED <<stage, convOf, opened, messages, ratings>>

Number(c) ==
  LET call == chatCalls[c]
      others == {d \in ChatAt("send", "save") : chatCalls[d].conv = call.conv} IN
  /\ c \in ChatAt("send", "number")
  /\ ChatMoves(c, [call EXCEPT !.sequence = NextSequence(call.conv), !.at = "save"])
  /\ Races(others, "number")
  /\ UNCHANGED <<stage, convOf, opened, messages, ratings>>

SaveMessage(c) ==
  LET call == chatCalls[c] IN
  /\ c \in ChatAt("send", "save")
  /\ messages' = Append(messages,
       [conv |-> call.conv, client |-> call.client, sequence |-> call.sequence, reported |-> FALSE])
  /\ ChatMoves(c, NoCall)
  /\ UNCHANGED <<stage, convOf, opened, ratings, chatRaced>>

-----------------------------------------------------------------------------
(* Reading and reporting.                                                  *)

(* By their numbers, those of one number in the order of their saves.      *)
Before(i, j) ==
  \/ messages[i].sequence < messages[j].sequence
  \/ messages[i].sequence = messages[j].sequence /\ i < j

(* The messages of a conversation in that order: a message's place is the  *)
(* number of those before it.                                              *)
Sorted(conv) ==
  [p \in 1 .. Cardinality(MessagesOf(conv)) |->
     CHOOSE i \in MessagesOf(conv) : Cardinality({j \in MessagesOf(conv) : Before(j, i)}) = p - 1]

(* listByConversation, as peek calls it: the oldest, up to the limit.      *)
Shown ==
  LET all == Sorted(convOf) IN SubSeq(all, 1, IF Len(all) < PageLimit THEN Len(all) ELSE PageLimit)

SlipReportMessage(i) ==
  /\ i \in ToSet(Shown)
  /\ messages' = Append(messages, [messages[i] EXCEPT !.reported = TRUE])
  /\ UNCHANGED <<stage, convOf, opened, ratings, chatCalls, chatRaced>>

(* reportChatMessageAction: only a message that peek shows can be found.   *)
(* The report marks the stored object itself, and save keeps its place.    *)
ReportMessage(i) ==
  /\ i \in ToSet(Shown)
  /\ messages' = [messages EXCEPT ![i].reported = TRUE]
  /\ UNCHANGED <<stage, convOf, opened, ratings, chatCalls, chatRaced>>

-----------------------------------------------------------------------------
(* submitRating.                                                           *)

(* findByRideAndRater, called by the service and again by the store.       *)
Unrated(rater) == \A i \in DOMAIN ratings : ratings[i] # rater

(* The ride is read; after this nothing looks at its status again.         *)
SubmitRating(c, rater) ==
  /\ chatCalls[c] = NoCall
  /\ stage = "COMPLETED"
  /\ ChatMoves(c, [op |-> "rate", rater |-> rater, at |-> "check"])
  /\ UNCHANGED <<stage, convOf, opened, messages, ratings, chatRaced>>

(* Each of the two checks: a conflict, or a save that does nothing, ends.  *)
CheckRating(c) ==
  LET call == chatCalls[c]
      next == IF call.at = "check" THEN "recheck" ELSE "push"
      others == {d \in ChatAt("rate", "push") : chatCalls[d].rater = call.rater} IN
  /\ c \in ChatAt("rate", "check") \cup ChatAt("rate", "recheck")
  /\ IF Unrated(call.rater)
     THEN /\ ChatMoves(c, [call EXCEPT !.at = next])
          /\ Races(IF next = "push" THEN others ELSE {}, call.rater)
     ELSE ChatMoves(c, NoCall) /\ UNCHANGED chatRaced
  /\ UNCHANGED <<stage, convOf, opened, messages, ratings>>

PushRating(c) ==
  /\ c \in ChatAt("rate", "push")
  /\ ratings' = Append(ratings, chatCalls[c].rater)
  /\ ChatMoves(c, NoCall)
  /\ UNCHANGED <<stage, convOf, opened, messages, chatRaced>>

(* Conversations look no further than at the driver.                       *)
TalkNext ==
  \/ RideGetsDriver
  \/ \E i \in DOMAIN messages : ReportMessage(i)
  \/ \E c \in Call :
       \/ OpenForRide(c) \/ SaveConversation(c)
       \/ \E client \in ClientId : SendMessage(c, client)
       \/ FindConversation(c) \/ Deduplicate(c) \/ Number(c) \/ SaveMessage(c)

RatingNext ==
  \/ RideGetsDriver \/ RideMovesOn
  \/ \E c \in Call :
       \/ \E rater \in Participant : SubmitRating(c, rater)
       \/ CheckRating(c) \/ PushRating(c)

-----------------------------------------------------------------------------
(* Properties.                                                             *)

(* A ride has one conversation and no message is out of its reach, unless  *)
(* two handlers found none at the same time: then the second save hides    *)
(* the first conversation with all that was said in it.                    *)
OneConversation ==
  "open" \notin chatRaced =>
    opened \subseteq {convOf} /\ \A i \in DOMAIN messages : messages[i].conv = convOf

(* A form sent twice is one message, unless both submissions looked for it *)
(* before either was stored.                                               *)
SendOnce ==
  \A client \in ClientId \ chatRaced : \A k \in ConvId :
    \A i, j \in DOMAIN messages :
      messages[i].conv = k /\ messages[j].conv = k
        /\ messages[i].client = client /\ messages[j].client = client => i = j

(* What a reader has seen stays where it was: the page of a conversation   *)
(* only grows, at its end, unless two messages took one number or two      *)
(* conversations were opened.                                              *)
HistoryOnlyGrows ==
  [][chatRaced' \cap {"open", "number"} = {} => IsPrefix(Shown, Shown')]_chatVars

(* Each participant rates a ride once, unless two submissions passed the   *)
(* store's own check together, and never a ride that was not completed.    *)
OneRatingPerRater ==
  /\ \A i, j \in DOMAIN ratings : ratings[i] = ratings[j] /\ i # j => ratings[i] \in chatRaced
  /\ ratings # <<>> => stage \in {"COMPLETED", "past"}

(* A ride has one conversation, a form that is sent twice is one message,  *)
(* and each participant rates the ride once, although no lock is held      *)
(* between a check and its save: the properties above, together.           *)
SaidOnce == OneConversation /\ SendOnce /\ OneRatingPerRater
=============================================================================

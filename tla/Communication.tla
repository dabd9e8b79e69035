--------------------------- MODULE Communication ----------------------------
(***************************************************************************)
(* What the demo runtime tells its users and lets them tell each other:    *)
(* notifications, the outbox, the conversation of a ride and its ratings.  *)
(* They share no state but the ride's stage, which they only read, so a    *)
(* behaviour is looked at through one of them at a time: focus says which. *)
(* All of them keep their state in memory for the life of the process.     *)
(*                                                                         *)
(* Fairness: a promise that can settle does, so every handler that has     *)
(* started takes its next step.  Nothing makes anybody start one, but the  *)
(* outbox is dispatched again and again.                                   *)
(***************************************************************************)
EXTENDS Notifications, Outbox, Conversations

VARIABLE focus

communicationVars == <<store, focus, noteVars, outboxVars, chatVars>>

Init ==
  /\ focus \in {"notifications", "outbox", "chat", "ratings"}
  /\ store = "objects"
  /\ NoteInit /\ OutboxInit /\ ChatInit

Next ==
  /\ UNCHANGED <<store, focus>>
  /\ \/ /\ focus = "notifications" /\ NoteNext
        /\ UNCHANGED <<outboxVars, chatVars>>
     \/ /\ focus = "outbox" /\ OutboxNext
        /\ UNCHANGED <<noteVars, chatVars>>
     \/ /\ focus = "chat" /\ TalkNext
        /\ UNCHANGED <<noteVars, outboxVars>>
     \/ /\ focus = "ratings" /\ RatingNext
        /\ UNCHANGED <<noteVars, outboxVars>>

Fairness ==
  \A c \in Call :
    /\ WF_noteVars(focus = "notifications" /\ NoteStep(c) /\ UNCHANGED <<store, focus, outboxVars, chatVars>>)
    /\ WF_outboxVars(focus = "outbox" /\ OutboxStep(c) /\ UNCHANGED <<store, focus, noteVars, chatVars>>)
    /\ WF_outboxVars(focus = "outbox" /\ Dispatch(c) /\ UNCHANGED <<store, focus, noteVars, chatVars>>)

Spec == Init /\ [][Next]_communicationVars /\ Fairness

TypeOK == store \in Stores /\ NoteTypeOK /\ OutboxTypeOK /\ ChatTypeOK
=============================================================================

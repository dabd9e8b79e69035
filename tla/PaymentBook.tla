---------------------------- MODULE PaymentBook ----------------------------
(***************************************************************************)
(* What the payment service promises about money: an intent's status moves *)
(* along its edges, a posting is made only for a payment the provider      *)
(* confirmed, for the exact share of its party, and what was posted stays  *)
(* posted; it is undone only by a reversal next to it.                     *)
(***************************************************************************)
EXTENDS Ledger, PaymentIntent

VARIABLES
  status,   \* status[p]: the intent's status, or "none"
  book      \* the entries posted

Init == status = [p \in Payment |-> "none"] /\ book = {}

Open(p) ==
  /\ status[p] = "none"
  /\ status' = [status EXCEPT ![p] = "pending"]
  /\ UNCHANGED book

Report(p, to) ==
  /\ <<status[p], to>> \in IntentEdge
  /\ status' = [status EXCEPT ![p] = to]
  /\ UNCHANGED book

Post(p, party) ==
  /\ status[p] \in EverPaid
  /\ book' = book \cup {Posting(p, party)}
  /\ UNCHANGED status

Reverse(e) ==
  /\ e \in book
  /\ book' = book \cup {Reversal(e)}
  /\ UNCHANGED status

Next ==
  \/ \E p \in Payment :
       \/ Open(p)
       \/ \E to \in IntentStatus : Report(p, to)
       \/ \E party \in Party : Post(p, party)
  \/ \E e \in book : Reverse(e)

Spec == Init /\ [][Next]_<<status, book>>
=============================================================================

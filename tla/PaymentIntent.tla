--------------------------- MODULE PaymentIntent ---------------------------
(***************************************************************************)
(* The Pix payment intent of domain/payment.ts: its statuses and what a    *)
(* provider event, the local expiry and a refund order do to them.         *)
(***************************************************************************)
IntentStatus ==
  {"pending", "paid", "expired", "failed", "refund_pending", "refunded"}

ProviderStatus == {"paid", "failed", "refunded"}

(* applyProviderEvent: the status changes, to the status the event carries, *)
(* exactly in these three cases; otherwise the event is ignored.            *)
Applies(status, providerStatus) ==
  \/ providerStatus \in {"paid", "failed"} /\ status = "pending"
  \/ providerStatus = "refunded" /\ status \in {"paid", "refund_pending"}

(* Every status change an intent can make: a provider event, expireIfLapsed *)
(* and markRefundPending.                                                   *)
IntentEdge ==
  {e \in IntentStatus \X ProviderStatus : Applies(e[1], e[2])}
    \cup {<<"pending", "expired">>, <<"paid", "refund_pending">>}

(* The statuses of an intent the provider confirmed as paid at some time.   *)
EverPaid == {"paid", "refund_pending", "refunded"}
=============================================================================

------------------------- MODULE MCPaymentService -------------------------
(* Finite instances of PaymentService for TLC.                             *)
EXTENDS PaymentService

(* Two amounts whose split by hundredths does not divide evenly.           *)
Amounts == [p \in Payment |-> 99]

KeysDiffer == [p \in Payment |-> p]

Symmetry == Permutations(Call) \cup Permutations(EventId)
=============================================================================

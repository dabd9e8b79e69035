------------------------------- MODULE Ledger -------------------------------
(***************************************************************************)
(* domain/ledger.ts: the entries a ride's settlement posts, how the fare   *)
(* is split between them, and the reversal that compensates an entry.      *)
(*                                                                         *)
(* An entry's id is its settlement, its party and the number of times      *)
(* ":reversal" was appended to it.  Tenant, currency, source and time are  *)
(* left out.                                                               *)
(***************************************************************************)
EXTENDS Integers

CONSTANTS
  Payment,   \* ids of payment intents
  AmountOf   \* their amounts, in cents

ASSUME AmountAssumption == AmountOf \in [Payment -> Nat \ {0}]

(* The parties of a settlement, in the order it posts them.                *)
PartyOrder == <<"driver", "tenant", "movo", "gateway-fee">>
Party == {"driver", "tenant", "movo", "gateway-fee"}

SlipSplit(gross) ==
  [party \in Party |->
     CASE party = "driver" -> (gross * 80) \div 100
       [] party = "tenant" -> (gross * 17) \div 100
       [] party = "movo" -> (gross * 3) \div 100
       [] party = "gateway-fee" -> 0]

(* splitFare without discounts, which is how the payment service calls it, *)
(* and the gateway fee, which it leaves at zero.                           *)
Split(gross) ==
  [party \in Party |->
     CASE party = "driver" -> (gross * 80) \div 100
       [] party = "tenant" -> (gross * 17) \div 100
       [] party = "movo" -> gross - (gross * 80) \div 100 - (gross * 17) \div 100
       [] party = "gateway-fee" -> 0]

Direction == {"credit", "debit"}

EntryRecord ==
  [payment: Payment, party: Party, depth: Nat, amount: Int, direction: Direction]

EntryId(e) == <<e.payment, e.party, e.depth>>

(* postSettlement.                                                         *)
Posting(p, party) ==
  [payment |-> p, party |-> party, depth |-> 0,
   amount |-> Split(AmountOf[p])[party],
   direction |-> IF party = "gateway-fee" THEN "debit" ELSE "credit"]

SlipReversal(e) == [e EXCEPT !.depth = @ + 1]

(* compensate.                                                             *)
Reversal(e) ==
  [e EXCEPT !.depth = @ + 1,
            !.direction = IF @ = "credit" THEN "debit" ELSE "credit"]
=============================================================================

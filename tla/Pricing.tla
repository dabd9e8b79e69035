------------------------------ MODULE Pricing -------------------------------
(***************************************************************************)
(* What a ride costs: quoteFare of domain/pricing.ts, in integers over the *)
(* denominator 60000, rounded half up.  A fare is quoted once here and     *)
(* compared with the exact one.                                            *)
(***************************************************************************)
EXTENDS Integers

CONSTANTS
  Trip,       \* routes: [distance: meters, duration: seconds]
  SurgeMilli, \* surge multipliers in thousandths, allowed or not
  Tolls, Waits, Discounts,
  NoQuote

ASSUME PricingAssumption ==
  /\ Trip \subseteq [distance: Nat, duration: Nat]
  /\ SurgeMilli \cup Tolls \cup Waits \cup Discounts \subseteq Nat

VARIABLE quoted   \* what was asked for, with the fare; NoQuote before

(* DEFAULT_CATALOG.                                                        *)
Catalog ==
  [car        |-> [base |-> 300, perKm |-> 180, perMin |-> 35, minimum |-> 800, wait |-> 30],
   motorcycle |-> [base |-> 250, perKm |-> 130, perMin |-> 25, minimum |-> 600, wait |-> 25]]

QuoteInput ==
  [category: DOMAIN Catalog, trip: Trip, surge: SurgeMilli, tolls: Tolls, waiting: Waits,
   coupon: Discounts, promotion: Discounts]

Fare == [subtotal: Nat, tolls: Nat, waiting: Nat, discounts: Nat, total: Nat]

PricingTypeOK == quoted \in [input: QuoteInput, fare: Fare] \cup {NoQuote}

PricingInit == quoted = NoQuote

-----------------------------------------------------------------------------
SCALE == 60000
SURGE_MIN == 1000
SURGE_MAX == 1800

Greater(a, b) == IF a < b THEN b ELSE a
Lesser(a, b) == IF a < b THEN a ELSE b

(* Math.round of a quotient, which rounds half up.                         *)
RoundDiv(a, b) == (2 * a + b) \div (2 * b)

(* meteredNumerator, not below the minimum.                                *)
Metered(input) ==
  LET rates == Catalog[input.category] IN
  Greater(rates.base * SCALE + input.trip.distance * rates.perKm * 60
            + input.trip.duration * rates.perMin * 1000,
          rates.minimum * SCALE)

(* surgedNumerator: Math.round(n * surge / 1000), kept within 32 bits.     *)
Surged(n, surge) == (n \div 1000) * surge + RoundDiv((n % 1000) * surge, 1000)

(* waitingNumerator: three minutes are free.                               *)
WaitingOf(input) == Greater(0, input.waiting - 180) * Catalog[input.category].wait * 1000

DiscountOf(input) == (input.coupon + input.promotion) * SCALE

SlipTotal(pre, discount, lines) == lines

(* The total is rounded from the whole sum, not added up from the lines.   *)
Total(pre, discount, lines) == RoundDiv(pre - discount, SCALE)

(* quoteFare after its checks.                                             *)
FareOf(input) ==
  LET surged == Surged(Metered(input), input.surge)
      pre == surged + input.tolls * SCALE + WaitingOf(input)
      discount == Lesser(DiscountOf(input), pre)
      subtotal == RoundDiv(surged, SCALE)
      waiting == RoundDiv(WaitingOf(input), SCALE)
      discounts == RoundDiv(discount, SCALE) IN
  [subtotal |-> subtotal, tolls |-> input.tolls, waiting |-> waiting, discounts |-> discounts,
   total |-> Total(pre, discount, subtotal + input.tolls + waiting - discounts)]

(* quoteFare: a multiplier outside 1.00 to 1.80 is refused.                *)
QuoteFare(input) ==
  /\ quoted = NoQuote
  /\ input.surge \in SURGE_MIN .. SURGE_MAX
  /\ quoted' = [input |-> input, fare |-> FareOf(input)]

PricingNext == \E input \in QuoteInput : QuoteFare(input)

-----------------------------------------------------------------------------
(* The fare in exact arithmetic, rounded half up once: a half added, then  *)
(* the whole part.  What a multiplier leaves of a thousandth can be        *)
(* dropped first, for the other terms are whole.                           *)
ExactTotal(input) ==
  LET n == Metered(input)
      whole == (n \div 1000) * input.surge + ((n % 1000) * input.surge) \div 1000
      pre == whole + input.tolls * SCALE + WaitingOf(input) IN
  Greater(0, pre - DiscountOf(input) + SCALE \div 2) \div SCALE

(* Without a surge the passenger is charged the exact fare, rounded once;  *)
(* and, surge or not, the lines of the receipt add up to the total but for *)
(* one centavo, whatever was capped.                                       *)
FareIsExact ==
  quoted # NoQuote =>
    LET fare == quoted.fare IN
    /\ quoted.input.surge = SURGE_MIN => fare.total = ExactTotal(quoted.input)
    /\ fare.subtotal + fare.tolls + fare.waiting - fare.discounts - fare.total \in -1 .. 1

(* What the documentation says and the code does not keep.                 *)

(* Every total is the exact fare rounded half up once: at the end, after   *)
(* the multiplication by the surge.                                        *)
RoundedOnce == quoted # NoQuote => quoted.fare.total = ExactTotal(quoted.input)
=============================================================================

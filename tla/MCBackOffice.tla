---------------------------- MODULE MCBackOffice ----------------------------
(***************************************************************************)
(* The instance of BackOffice for TLC: two handlers at once on two ids, so *)
(* that every race for a slug, a user or a stored object happens.          *)
(***************************************************************************)
EXTENDS BackOffice, TLC

Complete ==
  [identity |-> TRUE, legal |-> TRUE, service |-> TRUE, area |-> TRUE, pricing |-> TRUE,
   onboarding |-> TRUE, paymentRequired |-> FALSE, paymentReady |-> FALSE]

Checklists ==
  {Complete, [Complete EXCEPT !.paymentRequired = TRUE], [Complete EXCEPT !.area = FALSE]}

Brands == [urls: {"https", "other"}, colors: {"hex"}]

Prices == [launch |-> 599, growth |-> 1499]

Symmetry ==
  Permutations(Call) \cup Permutations(TenantId) \cup Permutations(ProfileId)
    \cup Permutations(SubId) \cup Permutations(UserId)
=============================================================================

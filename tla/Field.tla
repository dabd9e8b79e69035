------------------------------- MODULE Field --------------------------------
(***************************************************************************)
(* A ride in the field: what it costs, where the drivers are, who is       *)
(* offered it, and the pages open over it.  In the repository the drivers' *)
(* places and the offers meet only in the thresholds they share, which the *)
(* facts of a candidate carry; neither is wired to the pages, and a fare   *)
(* is a function of the request.  So a behaviour is looked at through one  *)
(* of the four at a time: focus says which.                                *)
(***************************************************************************)
EXTENDS Tracking, DispatchWaves, RidePages, Pricing

VARIABLE focus

fieldVars == <<focus, trackVars, dispatchVars, pageVars, quoted>>

Init ==
  /\ focus \in {"tracking", "dispatch", "pages", "fares"}
  /\ TrackInit /\ DispatchInit /\ PageInit /\ PricingInit
  /\ focus # "pages" => ~ live

Next ==
  /\ UNCHANGED focus
  /\ \/ focus = "tracking" /\ TrackNext /\ UNCHANGED <<dispatchVars, pageVars, quoted>>
     \/ focus = "dispatch" /\ DispatchNext /\ UNCHANGED <<trackVars, pageVars, quoted>>
     \/ focus = "pages" /\ PageNext /\ UNCHANGED <<trackVars, dispatchVars, quoted>>
     \/ focus = "fares" /\ PricingNext /\ UNCHANGED <<trackVars, dispatchVars, pageVars>>

Spec == Init /\ [][Next]_fieldVars

TypeOK == TrackTypeOK /\ DispatchTypeOK /\ PageTypeOK /\ PricingTypeOK
=============================================================================

----------------------------- MODULE BackOffice -----------------------------
(***************************************************************************)
(* The services behind the administration pages, side by side.  They share *)
(* the kind of store and no other state, so what one does is seen by none  *)
(* of the others, and a behaviour is looked at through one service at a    *)
(* time: focus says which.  A state of one service is reached here exactly *)
(* when the whole back office reaches it.                                  *)
(***************************************************************************)
EXTENDS Tenants, Onboarding, Subscriptions, RateLimiter

VARIABLE focus

backOfficeVars == <<store, focus, tenantVars, profileVars, billingVars, limiterVars>>

Init ==
  /\ focus \in {"tenants", "onboarding", "billing", "limits"}
  /\ store \in (IF focus \in {"billing", "limits"} THEN {"objects"} ELSE Stores)
  /\ TenantInit /\ ProfileInit /\ BillingInit /\ LimiterInit

Next ==
  /\ UNCHANGED <<store, focus>>
  /\ \/ /\ focus = "tenants" /\ TenantNext
        /\ UNCHANGED <<profileVars, billingVars, limiterVars>>
     \/ /\ focus = "onboarding" /\ ProfileNext
        /\ UNCHANGED <<tenantVars, billingVars, limiterVars>>
     \/ /\ focus = "billing" /\ BillingNext
        /\ UNCHANGED <<tenantVars, profileVars, limiterVars>>
     \/ /\ focus = "limits" /\ LimiterNext
        /\ UNCHANGED <<tenantVars, profileVars, billingVars>>

Spec == Init /\ [][Next]_backOfficeVars

TypeOK == store \in Stores /\ TenantTypeOK /\ ProfileTypeOK /\ BillingTypeOK /\ LimiterTypeOK

(* A tenant's slug, a user's profile and a tenant's subscription are taken *)
(* once, although no lock is held between the check and the save: two of   *)
(* them exist only if one was being checked while the other was between    *)
(* its check and its save, and never in a table with a unique column.      *)
OneOfEach == SlugIsUnique /\ OneProfilePerUser /\ OneSubscription
=============================================================================

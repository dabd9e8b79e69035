------------------------------ MODULE Tenants -------------------------------
(***************************************************************************)
(* The life cycle of tenants: application/tenant-service.ts over           *)
(* domain/tenant.ts and either tenant repository.                          *)
(*                                                                         *)
(* A handler loads the tenant and changes it without yielding, then awaits *)
(* the save and the audit record.  Nothing tells apart the instant of a    *)
(* load from the change that follows it: the copy is private, or the       *)
(* object is the stored one.  Calls are those of authorised actors; names, *)
(* times and reasons are data.                                             *)
(***************************************************************************)
EXTENDS Wiring, FiniteSets

CONSTANTS
  TenantId,   \* ids newId() may hand out
  Slug,
  Checklist,  \* the activation checklists callers present
  Brand,      \* branding documents, well formed or not
  NoTenant, NoBrand

TenantStatus ==
  {"PROVISIONING", "CONFIGURING", "PENDING_ACTIVATION", "ACTIVE", "SUSPENDED", "CANCELLED"}

TenantRecord == [slug: Slug, status: TenantStatus]

VARIABLES
  tenants,      \* tenants[t]: the stored tenant, NoTenant before the first save
  brandings,    \* brandings[t]: the stored branding document
  tenantCalls,  \* tenantCalls[c]: the handler in the slot
  tenantTrail,  \* the audit trail: operations recorded as a SUCCESS
  tenantWent,   \* history: the statuses each tenant has been stored with
  tenantRaced   \* history: the tenants two overlapping calls worked on

tenantVars == <<tenants, brandings, tenantCalls, tenantTrail, tenantWent, tenantRaced>>

(* TRANSITIONS.                                                            *)
TenantEdge ==
  {<<"PROVISIONING", "CONFIGURING">>, <<"PROVISIONING", "CANCELLED">>,
   <<"CONFIGURING", "PENDING_ACTIVATION">>, <<"CONFIGURING", "CANCELLED">>,
   <<"PENDING_ACTIVATION", "ACTIVE">>, <<"PENDING_ACTIVATION", "CANCELLED">>,
   <<"ACTIVE", "SUSPENDED">>, <<"ACTIVE", "CANCELLED">>, <<"SUSPENDED", "CANCELLED">>}

(* The operations that move a tenant, and where to.                        *)
TenantTarget ==
  [beginConfiguration |-> "CONFIGURING", requestActivation |-> "PENDING_ACTIVATION",
   activateTenant |-> "ACTIVE", suspendTenant |-> "SUSPENDED", cancelTenant |-> "CANCELLED"]

TenantOp == DOMAIN TenantTarget \cup {"provisionTenant", "seedDemo", "updateBranding"}

TenantCall ==
  [op: TenantOp, tenant: TenantId, held: TenantRecord \cup {NoTenant},
   brand: Brand \cup {NoBrand}, at: {"save", "audit"}]

ASSUME TenantAssumption ==
  /\ NoTenant \notin TenantRecord
  /\ NoBrand \notin Brand
  /\ NoCall \notin TenantCall

TenantTypeOK ==
  /\ tenants \in [TenantId -> TenantRecord \cup {NoTenant}]
  /\ brandings \in [TenantId -> Brand \cup {NoBrand}]
  /\ tenantCalls \in [Call -> TenantCall \cup {NoCall}]
  /\ tenantTrail \subseteq TenantOp \X TenantId
  /\ tenantWent \in [TenantId -> SUBSET TenantStatus]
  /\ tenantRaced \subseteq TenantId

TenantInit ==
  /\ tenants = [t \in TenantId |-> NoTenant]
  /\ brandings = [t \in TenantId |-> NoBrand]
  /\ tenantCalls = [c \in Call |-> NoCall]
  /\ tenantTrail = {}
  /\ tenantWent = [t \in TenantId |-> {}]
  /\ tenantRaced = {}

-----------------------------------------------------------------------------
(* Pure parts.                                                             *)

(* missingActivationItems.                                                 *)
MissingItems(checklist) ==
  {item \in {"identity", "legal", "service", "area", "pricing", "onboarding"} :
     ~ checklist[item]} \cup
  (IF checklist.paymentRequired /\ ~ checklist.paymentReady THEN {"payment"} ELSE {})

(* validateBranding finds no issue: every URL is https, every colour hex.  *)
WellFormed(brand) == brand.urls = "https" /\ brand.colors = "hex"

SlipMayMove(tenant, to) == TRUE

(* transitionTo's test of the closed table.                                *)
MayMove(tenant, to) == <<tenant.status, to>> \in TenantEdge

-----------------------------------------------------------------------------
(* Steps of a call.                                                        *)

(* Another call has loaded the tenant and not saved it yet.                *)
BusyWith(t) ==
  \E c \in Call :
    /\ tenantCalls[c] # NoCall /\ tenantCalls[c].tenant = t
    /\ tenantCalls[c].at = "save" /\ tenantCalls[c].op # "updateBranding"

StartTenantCall(c, op, t, held, brand) ==
  /\ tenantCalls[c] = NoCall
  /\ tenantCalls' = [tenantCalls EXCEPT ![c] =
       [op |-> op, tenant |-> t, held |-> held, brand |-> brand, at |-> "save"]]

EndTenantCall(c) == tenantCalls' = [tenantCalls EXCEPT ![c] = NoCall]

PutTenant(t, value) ==
  /\ tenants' = [tenants EXCEPT ![t] = value]
  /\ tenantWent' = [tenantWent EXCEPT ![t] = @ \cup {value.status}]

SlugFree(slug) == \A t \in TenantId : tenants[t] # NoTenant => tenants[t].slug # slug

SlipSlugFree(slug) == TRUE

(* findBySlug, in provisionTenant and in seedDemo.                         *)
SlugLooksFree(slug) == SlugFree(slug)

(* The tenants about to be created under a slug somebody else checks now.  *)
Contending(slug) ==
  {t \in TenantId : \E c \in Call :
     /\ tenantCalls[c] # NoCall /\ tenantCalls[c].tenant = t
     /\ tenantCalls[c].op \in {"provisionTenant", "seedDemo"}
     /\ tenantCalls[c].at = "save" /\ tenantCalls[c].held.slug = slug}

Fresh(t) ==
  /\ tenants[t] = NoTenant
  /\ \A c \in Call : tenantCalls[c] # NoCall => tenantCalls[c].tenant # t

(* provisionTenant up to its check of the slug; the id is fresh.           *)
ProvisionTenant(c, t, slug) ==
  /\ Fresh(t)
  /\ SlugLooksFree(slug)
  /\ StartTenantCall(c, "provisionTenant", t, [slug |-> slug, status |-> "PROVISIONING"], NoBrand)
  /\ tenantRaced' = tenantRaced \cup
       (IF Contending(slug) = {} THEN {} ELSE Contending(slug) \cup {t})
  /\ UNCHANGED <<tenants, brandings, tenantTrail, tenantWent>>

(* seedDemo, which every request to the demo runtime runs first: a tenant  *)
(* is taken to ACTIVE before it is stored.                                 *)
SeedDemo(c, t, slug) ==
  /\ store = "objects"
  /\ Fresh(t)
  /\ SlugLooksFree(slug)
  /\ StartTenantCall(c, "seedDemo", t, [slug |-> slug, status |-> "ACTIVE"], NoBrand)
  /\ tenantRaced' = tenantRaced \cup
       (IF Contending(slug) = {} THEN {} ELSE Contending(slug) \cup {t})
  /\ UNCHANGED <<tenants, brandings, tenantTrail, tenantWent>>

(* The two operations that ask for a checklist, complete on activation.    *)
ChecklistAllows(op, checklist) ==
  op \in {"requestActivation", "activateTenant"} => MissingItems(checklist) = {}

(* requireTenant, the operation's own checks and transitionTo.  Elsewhere  *)
(* than in its status beginConfiguration or requestActivation returns and  *)
(* the others throw; either way nothing changes.                           *)
ChangeTenant(c, op, t) ==
  LET moved == [tenants[t] EXCEPT !.status = TenantTarget[op]] IN
  /\ tenants[t] # NoTenant
  /\ op \in DOMAIN TenantTarget
  /\ \E checklist \in Checklist : ChecklistAllows(op, checklist)
  /\ op \in {"beginConfiguration", "requestActivation"} \/ MayMove(tenants[t], TenantTarget[op])
  /\ op = "beginConfiguration" => tenants[t].status = "PROVISIONING"
  /\ op = "requestActivation" => tenants[t].status = "CONFIGURING"
  /\ StartTenantCall(c, op, t, moved, NoBrand)
  /\ IF store = "objects" THEN PutTenant(t, moved) ELSE UNCHANGED <<tenants, tenantWent>>
  /\ tenantRaced' = IF BusyWith(t) THEN tenantRaced \cup {t} ELSE tenantRaced
  /\ UNCHANGED <<brandings, tenantTrail>>

(* updateBranding: the tenant exists and the document has no issue.        *)
UpdateBranding(c, t, brand) ==
  /\ tenants[t] # NoTenant
  /\ WellFormed(brand)
  /\ StartTenantCall(c, "updateBranding", t, NoTenant, brand)
  /\ UNCHANGED <<tenants, brandings, tenantTrail, tenantWent, tenantRaced>>

Creates(call) == call.op \in {"provisionTenant", "seedDemo"}

(* The map keeps the new object; an object that was already there stays.   *)
StoreObject(call) ==
  IF Creates(call)
  THEN PutTenant(call.tenant, call.held)
  ELSE UNCHANGED <<tenants, tenantWent>>

(* The upsert writes the whole row; slugs are unique.                      *)
UpsertRow(call) ==
  /\ \A t \in TenantId \ {call.tenant} :
       tenants[t] # NoTenant => tenants[t].slug # call.held.slug
  /\ PutTenant(call.tenant, call.held)

(* tenants.save; seedDemo records no audit.                                *)
SaveTenant(c) ==
  LET call == tenantCalls[c] IN
  /\ call # NoCall /\ call.at = "save" /\ call.op # "updateBranding"
  /\ IF store = "objects" THEN StoreObject(call) ELSE UpsertRow(call)
  /\ IF call.op = "seedDemo" THEN EndTenantCall(c)
     ELSE tenantCalls' = [tenantCalls EXCEPT ![c].at = "audit"]
  /\ UNCHANGED <<brandings, tenantTrail, tenantRaced>>

(* tenants.saveBranding.                                                   *)
SaveBranding(c) ==
  LET call == tenantCalls[c] IN
  /\ call # NoCall /\ call.at = "save" /\ call.op = "updateBranding"
  /\ brandings' = [brandings EXCEPT ![call.tenant] = call.brand]
  /\ tenantCalls' = [tenantCalls EXCEPT ![c].at = "audit"]
  /\ UNCHANGED <<tenants, tenantTrail, tenantWent, tenantRaced>>

(* recordAudit, the last step.                                             *)
RecordTenantAudit(c) ==
  /\ tenantCalls[c] # NoCall /\ tenantCalls[c].at = "audit"
  /\ tenantTrail' = tenantTrail \cup {<<tenantCalls[c].op, tenantCalls[c].tenant>>}
  /\ EndTenantCall(c)
  /\ UNCHANGED <<tenants, brandings, tenantWent, tenantRaced>>

(* throwIfError, or the process stops: the call is abandoned at an await.  *)
AbandonTenantCall(c) ==
  /\ store = "rows"
  /\ tenantCalls[c] # NoCall
  /\ EndTenantCall(c)
  /\ UNCHANGED <<tenants, brandings, tenantTrail, tenantWent, tenantRaced>>

TenantNext ==
  \E c \in Call :
    \/ \E t \in TenantId, slug \in Slug : ProvisionTenant(c, t, slug) \/ SeedDemo(c, t, slug)
    \/ \E t \in TenantId, op \in TenantOp : ChangeTenant(c, op, t)
    \/ \E t \in TenantId, brand \in Brand : UpdateBranding(c, t, brand)
    \/ SaveTenant(c) \/ SaveBranding(c) \/ RecordTenantAudit(c) \/ AbandonTenantCall(c)

-----------------------------------------------------------------------------
(* Properties.                                                             *)

(* A tenant that was suspended or cancelled never serves again: whatever   *)
(* has been stored as CANCELLED stays so, and a SUSPENDED tenant is not    *)
(* ACTIVE, unless rows are used and an overlapping call wrote its own copy *)
(* back.                                                                   *)
EndIsFinal ==
  \A t \in TenantId :
    tenants[t] # NoTenant =>
      \/ store = "rows" /\ t \in tenantRaced
      \/ /\ "CANCELLED" \in tenantWent[t] => tenants[t].status = "CANCELLED"
         /\ "SUSPENDED" \in tenantWent[t] => tenants[t].status \in {"SUSPENDED", "CANCELLED"}

(* Nobody skips a stage of the onboarding of a tenant, on either store and *)
(* however the calls overlap: a provisioned tenant that serves was         *)
(* configured and had its activation requested, one that is suspended had  *)
(* served.  Seeded tenants are stored ACTIVE.  And the trail records no    *)
(* move that did not happen, whatever failed.                              *)
StagesInOrder ==
  \A t \in TenantId :
    /\ "SUSPENDED" \in tenantWent[t] => "ACTIVE" \in tenantWent[t]
    /\ "PROVISIONING" \in tenantWent[t] =>
         /\ "ACTIVE" \in tenantWent[t] => "PENDING_ACTIVATION" \in tenantWent[t]
         /\ "PENDING_ACTIVATION" \in tenantWent[t] => "CONFIGURING" \in tenantWent[t]
    /\ \A op \in DOMAIN TenantTarget :
         <<op, t>> \in tenantTrail => TenantTarget[op] \in tenantWent[t]

(* Two stored tenants share a slug only in memory, and only if one was     *)
(* checking the slug while the other had checked it and not yet stored.    *)
SlugIsUnique ==
  \A t, u \in TenantId :
    t # u /\ tenants[t] # NoTenant /\ tenants[u] # NoTenant /\ tenants[t].slug = tenants[u].slug
      => store = "objects" /\ {t, u} \subseteq tenantRaced
=============================================================================

-------------------------- MODULE BackOfficeProofs --------------------------
(***************************************************************************)
(* Tenants and profiles, for any number of handlers, ids and users.  Each  *)
(* service has an inductive invariant of its own: what a call that is      *)
(* between its load and its save holds, relative to what is stored.        *)
(***************************************************************************)
EXTENDS BackOffice, TLAPS

-----------------------------------------------------------------------------
(* Tenants.                                                                *)

Moves == {"beginConfiguration", "requestActivation", "activateTenant", "suspendTenant", "cancelTenant"}

(* The only status each of these is reached from.                          *)
Earlier(status) ==
  CASE status = "PENDING_ACTIVATION" -> "CONFIGURING"
    [] status = "ACTIVE" -> "PENDING_ACTIVATION"
    [] status = "SUSPENDED" -> "ACTIVE"

Ends == {"SUSPENDED", "CANCELLED"}

(* The call in slot c is about to store a tenant it created, or changed.   *)
Creating(c) == tenantCalls[c] # NoCall /\ tenantCalls[c].at = "save" /\ Creates(tenantCalls[c])
Moving(c) == tenantCalls[c] # NoCall /\ tenantCalls[c].at = "save" /\ tenantCalls[c].op \in Moves

(* The tenant of the call in slot c.                                       *)
Whose(c) == tenantCalls[c].tenant

CreatingKnows(c) ==
  Creating(c) =>
    /\ tenantCalls[c].held \in TenantRecord
    /\ tenantCalls[c].held.status \in {"PROVISIONING", "ACTIVE"}
    /\ tenants[Whose(c)] = NoTenant
    /\ \A d \in Call \ {c} : tenantCalls[d] # NoCall => Whose(d) # Whose(c)

MovingKnows(c) ==
  Moving(c) =>
    LET held == tenantCalls[c].held IN
    /\ held \in TenantRecord
    /\ held.status = TenantTarget[tenantCalls[c].op]
    /\ tenants[Whose(c)] # NoTenant
    /\ held.slug = tenants[Whose(c)].slug
    /\ held.status \in {"PENDING_ACTIVATION", "ACTIVE", "SUSPENDED"}
         => Earlier(held.status) \in tenantWent[Whose(c)]
    /\ store = "objects" => held.status \in tenantWent[Whose(c)]
    /\ Whose(c) \notin tenantRaced =>
         /\ store = "rows" => <<tenants[Whose(c)].status, held.status>> \in TenantEdge
         /\ \A d \in Call \ {c} : Moving(d) => Whose(d) # Whose(c)

AuditKnows(c) ==
  tenantCalls[c] # NoCall /\ tenantCalls[c].at = "audit" /\ tenantCalls[c].op \in Moves
    => TenantTarget[tenantCalls[c].op] \in tenantWent[Whose(c)]

TenantKept(t) ==
  /\ tenants[t] = NoTenant => tenantWent[t] = {}
  /\ tenants[t] # NoTenant => tenants[t].status \in tenantWent[t]
  /\ store = "objects" \/ t \notin tenantRaced =>
       /\ "CANCELLED" \in tenantWent[t] => tenants[t].status = "CANCELLED"
       /\ "SUSPENDED" \in tenantWent[t] => tenants[t].status \in Ends

(* Whoever stored or is about to store a slug somebody else has was racing.*)
SlugsRaced ==
  /\ \A c \in Call, t \in TenantId :
       Creating(c) /\ tenants[t] # NoTenant /\ tenants[t].slug = tenantCalls[c].held.slug
         => {t, Whose(c)} \subseteq tenantRaced
  /\ \A c, d \in Call :
       Creating(c) /\ Creating(d) /\ c # d /\ tenantCalls[c].held.slug = tenantCalls[d].held.slug
         => {Whose(c), Whose(d)} \subseteq tenantRaced

TenantInv ==
  /\ TenantTypeOK /\ store \in Stores
  /\ \A c \in Call : CreatingKnows(c) /\ MovingKnows(c) /\ AuditKnows(c)
  /\ \A t \in TenantId : TenantKept(t)
  /\ StagesInOrder /\ SlugsRaced /\ SlugIsUnique

LEMMA MovesAreTargets == Moves = DOMAIN TenantTarget
  BY DEF Moves, TenantTarget

LEMMA TargetsAreStatuses == \A op \in Moves : TenantTarget[op] \in TenantStatus
  BY DEF Moves, TenantTarget, TenantStatus

(* A new call that creates tenant t under a slug that looks free.          *)
Created(c, t, slug) ==
  /\ tenantCalls[c] = NoCall
  /\ Fresh(t) /\ SlugFree(slug)
  /\ \E op \in {"provisionTenant", "seedDemo"}, status \in {"PROVISIONING", "ACTIVE"} :
       tenantCalls' = [tenantCalls EXCEPT ![c] =
         [op |-> op, tenant |-> t, held |-> [slug |-> slug, status |-> status],
          brand |-> NoBrand, at |-> "save"]]
  /\ tenantRaced' = tenantRaced \cup
       (IF Contending(slug) = {} THEN {} ELSE Contending(slug) \cup {t})
  /\ UNCHANGED <<store, tenants, tenantTrail, tenantWent, brandings>>

LEMMA CreatedStep ==
  ASSUME TenantInv, NEW c \in Call, NEW t \in TenantId, NEW slug \in Slug, Created(c, t, slug)
  PROVE  TenantInv'
<1> USE TenantAssumption
<1>1. PICK op \in {"provisionTenant", "seedDemo"}, status \in {"PROVISIONING", "ACTIVE"} :
        tenantCalls' = [tenantCalls EXCEPT ![c] =
          [op |-> op, tenant |-> t, held |-> [slug |-> slug, status |-> status],
           brand |-> NoBrand, at |-> "save"]]
  BY DEF Created
<1>2. /\ tenants[t] = NoTenant /\ \A d \in Call : tenantCalls[d] # NoCall => Whose(d) # t
      /\ \A u \in TenantId : tenants[u] # NoTenant => tenants[u].slug # slug
      /\ tenantCalls[c] = NoCall
      /\ UNCHANGED <<store, tenants, tenantTrail, tenantWent, brandings>>
      /\ tenantRaced \subseteq tenantRaced'
  BY DEF Created, Fresh, SlugFree, Whose
<1>3. TenantTypeOK' /\ store' \in Stores
  BY <1>1, <1>2 DEF Created, TenantInv, TenantTypeOK, TenantCall, TenantRecord, TenantStatus, TenantOp, Contending
<1>4. /\ tenantCalls \in [Call -> TenantCall \cup {NoCall}]
      /\ tenantCalls'[c] \in TenantCall
      /\ tenantCalls'[c] = [op |-> op, tenant |-> t, held |-> [slug |-> slug, status |-> status],
                           brand |-> NoBrand, at |-> "save"]
      /\ \A d \in Call \ {c} : tenantCalls'[d] = tenantCalls[d]
  BY <1>1, <1>3 DEF TenantInv, TenantTypeOK, TenantCall, TenantRecord, TenantStatus, TenantOp
<1>5. /\ Creating(c)' /\ ~ Moving(c)' /\ Whose(c)' = t
      /\ tenantCalls'[c].held = [slug |-> slug, status |-> status] /\ tenantCalls'[c].at = "save"
  BY <1>4 DEF Creating, Moving, Whose, Creates, Moves
<1>6. \A d \in Call \ {c} :
        (Creating(d)' <=> Creating(d)) /\ (Moving(d)' <=> Moving(d)) /\ Whose(d)' = Whose(d)
  BY <1>4 DEF Creating, Moving, Whose
<1>7. CreatingKnows(c)' /\ MovingKnows(c)' /\ AuditKnows(c)'
  <2>1. [slug |-> slug, status |-> status] \in TenantRecord
    BY DEF TenantRecord, TenantStatus
  <2>2. \A d \in Call \ {c} : tenantCalls'[d] # NoCall => Whose(d)' # t
    BY <1>2, <1>4, <1>6
  <2> QED
    BY <1>2, <1>5, <2>1, <2>2 DEF CreatingKnows, MovingKnows, AuditKnows
<1>8. ASSUME NEW d \in Call \ {c}
      PROVE  CreatingKnows(d)' /\ MovingKnows(d)' /\ AuditKnows(d)'
  <2>1. CreatingKnows(d) /\ MovingKnows(d) /\ AuditKnows(d)
    BY DEF TenantInv
  <2>2. CreatingKnows(d)'
    BY <1>2, <1>4, <1>5, <1>6, <2>1 DEF CreatingKnows, Creating
  <2>3. MovingKnows(d)'
    BY <1>2, <1>4, <1>5, <1>6, <2>1 DEF MovingKnows
  <2>4. AuditKnows(d)'
    BY <1>2, <1>4, <1>6, <2>1 DEF AuditKnows
  <2> QED
    BY <2>2, <2>3, <2>4
<1>9. \A u \in TenantId : TenantKept(u)'
  BY <1>2 DEF TenantInv, TenantKept
<1>10. StagesInOrder' /\ SlugIsUnique'
  BY <1>2 DEF TenantInv, StagesInOrder, SlugIsUnique
<1>11. SlugsRaced'
  <2>1. ASSUME NEW d \in Call \ {c}, Creating(d), tenantCalls[d].held.slug = slug
        PROVE  {t, Whose(d)} \subseteq tenantRaced'
    <3>1. Whose(d) \in Contending(slug)
      BY <2>1 DEF Contending, Creating, Whose, Creates, TenantInv, TenantTypeOK, TenantCall
    <3> QED
      BY <3>1 DEF Created
  <2> QED
    BY <1>2, <1>4, <1>5, <1>6, <2>1 DEF TenantInv, SlugsRaced
<1> QED
  BY <1>3, <1>7, <1>8, <1>9, <1>10, <1>11 DEF TenantInv

LEMMA ChangeStep ==
  ASSUME TenantInv, store' = store, NEW c \in Call, NEW t \in TenantId, NEW op \in TenantOp,
         ChangeTenant(c, op, t)
  PROVE  TenantInv'
<1> USE TenantAssumption
<1> DEFINE old == tenants[t]
           moved == [tenants[t] EXCEPT !.status = TenantTarget[op]]
<1>1. /\ op \in Moves /\ old \in TenantRecord /\ tenantCalls[c] = NoCall
      /\ <<old.status, TenantTarget[op]>> \in TenantEdge
  <2>1. op \in Moves /\ old # NoTenant /\ tenantCalls[c] = NoCall
    BY MovesAreTargets DEF ChangeTenant, StartTenantCall
  <2>2. op = "beginConfiguration" => old.status = "PROVISIONING" /\ TenantTarget[op] = "CONFIGURING"
    BY DEF ChangeTenant, TenantTarget
  <2>3. op = "requestActivation" => old.status = "CONFIGURING" /\ TenantTarget[op] = "PENDING_ACTIVATION"
    BY DEF ChangeTenant, TenantTarget
  <2>4. op \notin {"beginConfiguration", "requestActivation"} => <<old.status, TenantTarget[op]>> \in TenantEdge
    BY DEF ChangeTenant, MayMove
  <2> QED
    BY <2>1, <2>2, <2>3, <2>4 DEF TenantInv, TenantTypeOK, TenantEdge
<1>2. /\ moved \in TenantRecord /\ moved.slug = old.slug /\ moved.status = TenantTarget[op]
      /\ moved.status \in TenantStatus
  BY <1>1, TargetsAreStatuses DEF TenantRecord
<1>3. /\ tenantCalls'[c] = [op |-> op, tenant |-> t, held |-> moved, brand |-> NoBrand, at |-> "save"]
      /\ \A d \in Call \ {c} : tenantCalls'[d] = tenantCalls[d]
      /\ tenantCalls' \in [Call -> TenantCall \cup {NoCall}]
      /\ tenantCalls'[c] \in TenantCall
  BY <1>1, <1>2 DEF ChangeTenant, StartTenantCall, TenantInv, TenantTypeOK, TenantCall
<1>4. /\ Moving(c)' /\ ~ Creating(c)' /\ Whose(c)' = t /\ tenantCalls'[c].held = moved
      /\ tenantCalls'[c].at = "save" /\ tenantCalls'[c].op = op
  BY <1>1, <1>3 DEF Creating, Moving, Whose, Creates, Moves
<1>5. \A d \in Call \ {c} :
        (Creating(d)' <=> Creating(d)) /\ (Moving(d)' <=> Moving(d)) /\ Whose(d)' = Whose(d)
  BY <1>3 DEF Creating, Moving, Whose
<1>6. ~ Creating(c) /\ ~ Moving(c)
  BY <1>1 DEF Creating, Moving
<1>7. /\ \/ store = "objects" /\ tenants' = [tenants EXCEPT ![t] = moved]
            /\ tenantWent' = [tenantWent EXCEPT ![t] = @ \cup {moved.status}]
         \/ store = "rows" /\ UNCHANGED <<tenants, tenantWent>>
      /\ UNCHANGED <<brandings, tenantTrail>>
      /\ tenantRaced \subseteq tenantRaced'
      /\ \A u \in TenantId \ {t} : u \in tenantRaced' => u \in tenantRaced
  BY DEF ChangeTenant, PutTenant, TenantInv, Stores
<1>8. t \notin tenantRaced' => t \notin tenantRaced /\ \A d \in Call : Moving(d) => Whose(d) # t
  <2>1. ASSUME NEW d \in Call, Moving(d), Whose(d) = t PROVE BusyWith(t)
    BY <2>1 DEF BusyWith, Moving, Whose, Moves
  <2> QED
    BY <2>1 DEF ChangeTenant
<1>9. TenantTypeOK' /\ store' \in Stores
  <2>1. tenants' \in [TenantId -> TenantRecord \cup {NoTenant}]
    BY <1>2, <1>7 DEF TenantInv, TenantTypeOK
  <2>2. tenantWent' \in [TenantId -> SUBSET TenantStatus]
    BY <1>2, <1>7 DEF TenantInv, TenantTypeOK
  <2>3. tenantRaced' \subseteq TenantId
    BY DEF ChangeTenant, TenantInv, TenantTypeOK
  <2> QED
    BY <1>3, <1>7, <2>1, <2>2, <2>3 DEF TenantInv, TenantTypeOK
<1>10. /\ \A u \in TenantId : tenantWent[u] \subseteq tenantWent'[u]
       /\ \A u \in TenantId \ {t} : tenants'[u] = tenants[u] /\ tenantWent'[u] = tenantWent[u]
       /\ tenants'[t] # NoTenant /\ tenants'[t].slug = old.slug
       /\ \A u \in TenantId : tenants'[u] = NoTenant <=> tenants[u] = NoTenant
       /\ \A u \in TenantId : tenants[u] # NoTenant => tenants'[u].slug = tenants[u].slug
       /\ store = "objects" => tenants'[t] = moved /\ tenantWent'[t] = tenantWent[t] \cup {moved.status}
  <2>1. CASE store = "objects"
    <3>1. /\ tenants' = [tenants EXCEPT ![t] = moved]
          /\ tenantWent' = [tenantWent EXCEPT ![t] = @ \cup {moved.status}]
      BY <1>7, <2>1
    <3>2. /\ tenants'[t] = moved /\ tenantWent'[t] = tenantWent[t] \cup {moved.status}
          /\ \A u \in TenantId \ {t} : tenants'[u] = tenants[u] /\ tenantWent'[u] = tenantWent[u]
      BY <3>1 DEF TenantInv, TenantTypeOK
    <3>3. old # NoTenant /\ moved # NoTenant
      BY <1>1, <1>2
    <3> QED
      BY <1>2, <3>2, <3>3
  <2>2. CASE store = "rows"
    BY <1>1, <1>7, <2>2
  <2> QED
    BY <1>7, <2>1, <2>2
<1>11. TenantKept(t) /\ old.status \in tenantWent[t]
  BY <1>1 DEF TenantInv, TenantKept
<1>12. moved.status \in {"PENDING_ACTIVATION", "ACTIVE", "SUSPENDED"}
         => Earlier(moved.status) = old.status
  BY <1>1, <1>2 DEF TenantEdge, Earlier
<1>13. CreatingKnows(c)' /\ MovingKnows(c)' /\ AuditKnows(c)'
  <2>1. CreatingKnows(c)' /\ AuditKnows(c)'
    BY <1>4 DEF CreatingKnows, AuditKnows
  <2>2. MovingKnows(c)'
    <3>1. t \notin tenantRaced' => \A d \in Call \ {c} : Moving(d)' => Whose(d)' # t
      BY <1>5, <1>8
    <3>2. store = "rows" => <<tenants'[t].status, moved.status>> \in TenantEdge
      BY <1>1, <1>2, <1>7
    <3> QED
      BY <1>2, <1>4, <1>10, <1>11, <1>12, <3>1, <3>2 DEF MovingKnows, Stores
  <2> QED
    BY <2>1, <2>2
<1>14. ASSUME NEW d \in Call \ {c}
       PROVE  CreatingKnows(d)' /\ MovingKnows(d)' /\ AuditKnows(d)'
  <2>1. CreatingKnows(d) /\ MovingKnows(d) /\ AuditKnows(d)
    BY DEF TenantInv
  <2>2. tenantCalls[d] # NoCall => Whose(d) \in TenantId
    BY DEF TenantInv, TenantTypeOK, TenantCall, Whose
  <2>3. CreatingKnows(d)'
    BY <1>1, <1>3, <1>4, <1>5, <1>10, <2>1, <2>2 DEF CreatingKnows, Creating
  <2>4. MovingKnows(d)'
    BY <1>3, <1>4, <1>5, <1>7, <1>8, <1>10, <2>1, <2>2 DEF MovingKnows, Moving, Stores
  <2>5. AuditKnows(d)'
    BY <1>3, <1>5, <1>10, <2>1, <2>2 DEF AuditKnows
  <2> QED
    BY <2>3, <2>4, <2>5
<1>15. \A u \in TenantId : TenantKept(u)'
  <2>1. TenantKept(t)'
    BY <1>1, <1>2, <1>7, <1>8, <1>10, <1>11 DEF TenantKept, TenantEdge, Ends, Stores
  <2> QED
    BY <2>1, <1>7, <1>10 DEF TenantInv, TenantKept
<1>16. StagesInOrder'
  <2>1. moved.status # "PROVISIONING"
    BY <1>1, <1>2 DEF TenantEdge
  <2>2. moved.status = "SUSPENDED" => "ACTIVE" \in tenantWent[t]
    BY <1>11, <1>12 DEF Earlier
  <2>3. moved.status = "ACTIVE" => "PENDING_ACTIVATION" \in tenantWent[t]
    BY <1>11, <1>12 DEF Earlier
  <2>4. moved.status = "PENDING_ACTIVATION" => "CONFIGURING" \in tenantWent[t]
    BY <1>11, <1>12 DEF Earlier
  <2> QED
    BY <1>7, <1>10, <2>1, <2>2, <2>3, <2>4 DEF TenantInv, StagesInOrder, Stores
<1>17. SlugIsUnique' /\ SlugsRaced'
  <2>1. SlugIsUnique'
    BY <1>7, <1>10 DEF TenantInv, SlugIsUnique
  <2>2. SlugsRaced'
    BY <1>3, <1>4, <1>5, <1>7, <1>10 DEF TenantInv, SlugsRaced
  <2> QED
    BY <2>1, <2>2
<1> QED
  BY <1>9, <1>13, <1>14, <1>15, <1>16, <1>17 DEF TenantInv

LEMMA SaveStep ==
  ASSUME TenantInv, store' = store, NEW c \in Call, SaveTenant(c)
  PROVE  TenantInv'
<1> USE TenantAssumption
<1>0. PICK t \in TenantId, held \in TenantRecord \cup {NoTenant} :
        t = Whose(c) /\ held = tenantCalls[c].held
  BY DEF SaveTenant, TenantInv, TenantTypeOK, TenantCall, Whose
<1> USE <1>0
<1>1. /\ tenantCalls[c] \in TenantCall /\ t \in TenantId
      /\ Creating(c) \/ Moving(c)
      /\ UNCHANGED <<brandings, tenantTrail, tenantRaced, store>>
  BY MovesAreTargets DEF SaveTenant, Creating, Moving, Creates, TenantInv, TenantTypeOK, TenantCall, TenantOp, Whose
<1>2. ~ (Creating(c) /\ Moving(c))
  BY DEF Creating, Moving, Creates, Moves
<1>3. CreatingKnows(c) /\ MovingKnows(c) /\ TenantKept(t)
  BY <1>1 DEF TenantInv
<1>4. held \in TenantRecord /\ held.status \in TenantStatus
  BY <1>1, <1>3 DEF CreatingKnows, MovingKnows, TenantRecord
<1>5. /\ tenantCalls' \in [Call -> TenantCall \cup {NoCall}]
      /\ \A d \in Call \ {c} : tenantCalls'[d] = tenantCalls[d]
      /\ ~ Creating(c)' /\ ~ Moving(c)'
      /\ tenantCalls'[c] # NoCall => Whose(c)' = t /\ tenantCalls'[c].op = tenantCalls[c].op
  BY <1>1 DEF SaveTenant, EndTenantCall, Creating, Moving, Whose, TenantInv, TenantTypeOK, TenantCall
<1>6. \A d \in Call \ {c} :
        (Creating(d)' <=> Creating(d)) /\ (Moving(d)' <=> Moving(d)) /\ Whose(d)' = Whose(d)
  BY <1>5 DEF Creating, Moving, Whose
<1>7. \/ /\ tenants' = [tenants EXCEPT ![t] = held]
         /\ tenantWent' = [tenantWent EXCEPT ![t] = @ \cup {held.status}]
         /\ Creating(c) \/ store = "rows"
         /\ store = "rows" =>
              \A u \in TenantId \ {t} : tenants[u] # NoTenant => tenants[u].slug # held.slug
      \/ store = "objects" /\ Moving(c) /\ UNCHANGED <<tenants, tenantWent>>
  BY <1>1 DEF SaveTenant, StoreObject, UpsertRow, PutTenant, Creating, Moving, Whose, TenantInv, Stores
<1>8. /\ tenants' \in [TenantId -> TenantRecord \cup {NoTenant}]
      /\ tenantWent' \in [TenantId -> SUBSET TenantStatus]
  BY <1>1, <1>4, <1>7 DEF TenantInv, TenantTypeOK
<1>9. TenantTypeOK' /\ store' \in Stores
  BY <1>1, <1>5, <1>8 DEF TenantInv, TenantTypeOK
<1>10. /\ \A u \in TenantId : tenantWent[u] \subseteq tenantWent'[u]
       /\ \A u \in TenantId \ {t} : tenants'[u] = tenants[u] /\ tenantWent'[u] = tenantWent[u]
       /\ tenants'[t] # NoTenant /\ tenants'[t].slug = held.slug
       /\ \A u \in TenantId : tenants[u] # NoTenant => tenants'[u] # NoTenant /\ tenants'[u].slug = tenants[u].slug
       /\ held.status \in tenantWent'[t]
  BY <1>1, <1>3, <1>4, <1>7 DEF TenantInv, TenantTypeOK, CreatingKnows, MovingKnows
<1>11. CreatingKnows(c)' /\ MovingKnows(c)' /\ AuditKnows(c)'
  BY <1>1, <1>3, <1>5, <1>10 DEF CreatingKnows, MovingKnows, AuditKnows, Creating, Creates, Moves
<1>12. ASSUME NEW d \in Call \ {c}
       PROVE  CreatingKnows(d)' /\ MovingKnows(d)' /\ AuditKnows(d)'
  <2>1. CreatingKnows(d) /\ MovingKnows(d) /\ AuditKnows(d)
    BY DEF TenantInv
  <2>2. tenantCalls[d] # NoCall => Whose(d) \in TenantId
    BY DEF TenantInv, TenantTypeOK, TenantCall, Whose
  <2>3. CreatingKnows(d)'
    BY <1>1, <1>5, <1>6, <1>10, <2>1, <2>2 DEF CreatingKnows, Creating, Moving
  <2>4. MovingKnows(d)'
    <3>1. Moving(d) /\ Whose(d) = t => Moving(c) /\ held.slug = tenants[t].slug
      BY <1>1, <1>3, <2>1 DEF CreatingKnows, MovingKnows, Moving
    <3>2. Moving(d) /\ Whose(d) = t => t \in tenantRaced
      BY <1>3, <3>1 DEF MovingKnows
    <3>3. \A e \in Call : Moving(e)' => Moving(e) /\ Whose(e)' = Whose(e)
      BY <1>5, <1>6
    <3>4. CASE ~ Moving(d)
      BY <1>6, <3>4 DEF MovingKnows
    <3>5. CASE Moving(d) /\ Whose(d) # t
      <4>1. /\ tenants'[Whose(d)] = tenants[Whose(d)] /\ tenantWent'[Whose(d)] = tenantWent[Whose(d)]
            /\ tenantCalls'[d] = tenantCalls[d] /\ Whose(d)' = Whose(d)
            /\ tenantRaced' = tenantRaced /\ store' = store
        BY <1>1, <1>5, <1>6, <1>10, <2>2, <3>5 DEF Moving
      <4>2. MovingKnows(d)' = (LET h == tenantCalls[d].held IN
              /\ h \in TenantRecord
              /\ h.status = TenantTarget[tenantCalls[d].op]
              /\ tenants[Whose(d)] # NoTenant
              /\ h.slug = tenants[Whose(d)].slug
              /\ h.status \in {"PENDING_ACTIVATION", "ACTIVE", "SUSPENDED"}
                   => Earlier(h.status) \in tenantWent[Whose(d)]
              /\ store = "objects" => h.status \in tenantWent[Whose(d)]
              /\ Whose(d) \notin tenantRaced =>
                   /\ store = "rows" => <<tenants[Whose(d)].status, h.status>> \in TenantEdge
                   /\ \A e \in Call \ {d} : Moving(e)' => Whose(e)' # Whose(d))
        BY <1>6, <3>5, <4>1 DEF MovingKnows
      <4> QED
        BY <2>1, <3>3, <3>5, <4>2 DEF MovingKnows
    <3>6. CASE Moving(d) /\ Whose(d) = t
      <4>1. /\ tenants'[t] # NoTenant /\ tenants'[t].slug = held.slug /\ tenantWent[t] \subseteq tenantWent'[t]
            /\ tenantCalls'[d] = tenantCalls[d] /\ Whose(d)' = t
            /\ t \in tenantRaced' /\ store' = store
        BY <1>1, <1>5, <1>6, <1>10, <3>2, <3>6
      <4> QED
        BY <2>1, <3>1, <3>6, <4>1 DEF MovingKnows
    <3> QED
      BY <3>4, <3>5, <3>6
  <2>5. AuditKnows(d)'
    BY <1>5, <1>6, <1>10, <2>1, <2>2 DEF AuditKnows
  <2> QED
    BY <2>3, <2>4, <2>5
<1>13. \A u \in TenantId : TenantKept(u)'
  <2>1. CASE Creating(c)
    <3>1. tenantWent[t] = {} /\ ~ Moving(c) /\ held.status \in {"PROVISIONING", "ACTIVE"}
      BY <1>2, <1>3, <2>1 DEF CreatingKnows, TenantKept
    <3>2. tenants'[t] = held /\ tenantWent'[t] = {held.status}
      BY <1>1, <1>7, <3>1 DEF TenantInv, TenantTypeOK
    <3> QED
      BY <1>1, <1>10, <3>1, <3>2 DEF TenantInv, TenantKept
  <2>2. CASE Moving(c)
    <3>1. CASE store = "objects"
      <4>1. UNCHANGED <<tenants, tenantWent>>
        BY <1>2, <1>7, <2>2, <3>1
      <4> QED
        BY <1>1, <4>1 DEF TenantInv, TenantKept
    <3>2. CASE store = "rows"
      <4>1. /\ tenants'[t] = held /\ tenantWent'[t] = tenantWent[t] \cup {held.status}
            /\ tenantRaced' = tenantRaced /\ store' = store
        BY <1>1, <1>7, <3>2 DEF TenantInv, TenantTypeOK
      <4>2. /\ tenants[t] # NoTenant /\ held # NoTenant
            /\ t \notin tenantRaced => <<tenants[t].status, held.status>> \in TenantEdge
        BY <1>3, <2>2, <3>2 DEF MovingKnows
      <4>3. TenantKept(t)'
        BY <1>3, <3>2, <4>1, <4>2 DEF TenantKept, TenantEdge, Ends
      <4>4. ASSUME NEW u \in TenantId \ {t} PROVE TenantKept(u)'
        BY <1>1, <1>10 DEF TenantInv, TenantKept
      <4> QED
        BY <4>3, <4>4
    <3> QED
      BY <3>1, <3>2 DEF TenantInv, Stores
  <2> QED
    BY <1>1, <2>1, <2>2
<1>14. StagesInOrder'
  <2>1. CASE Creating(c)
    <3>1. tenantWent[t] = {} /\ ~ Moving(c) /\ held.status \in {"PROVISIONING", "ACTIVE"}
      BY <1>2, <1>3, <2>1 DEF CreatingKnows, TenantKept
    <3>2. tenantWent'[t] = {held.status}
      BY <1>1, <1>7, <3>1 DEF TenantInv, TenantTypeOK
    <3> QED
      BY <1>1, <1>10, <3>1, <3>2 DEF TenantInv, StagesInOrder
  <2>2. CASE Moving(c)
    <3>1. held.status # "PROVISIONING"
      BY <1>3, <2>2 DEF MovingKnows, Moving, Moves, TenantTarget
    <3>2. /\ held.status = "SUSPENDED" => "ACTIVE" \in tenantWent[t]
          /\ held.status = "ACTIVE" => "PENDING_ACTIVATION" \in tenantWent[t]
          /\ held.status = "PENDING_ACTIVATION" => "CONFIGURING" \in tenantWent[t]
      BY <1>3, <2>2 DEF MovingKnows, Earlier
    <3>3. tenantWent'[t] \subseteq tenantWent[t] \cup {held.status}
      BY <1>1, <1>7 DEF TenantInv, TenantTypeOK
    <3> QED
      BY <1>1, <1>10, <3>1, <3>2, <3>3 DEF TenantInv, StagesInOrder
  <2> QED
    BY <1>1, <2>1, <2>2
<1>15. SlugIsUnique'
  <2>1. CASE Creating(c)
    <3>1. tenants[t] = NoTenant
      BY <1>3, <2>1 DEF CreatingKnows
    <3>2. ASSUME NEW u \in TenantId \ {t}, tenants[u] # NoTenant, tenants[u].slug = held.slug
          PROVE  store = "objects" /\ {u, t} \subseteq tenantRaced
      <4>1. {u, t} \subseteq tenantRaced
        BY <2>1, <3>2 DEF TenantInv, SlugsRaced
      <4>2. store = "objects"
        BY <1>2, <1>7, <2>1, <3>2 DEF TenantInv, Stores
      <4> QED
        BY <4>1, <4>2
    <3> QED
      BY <1>1, <1>10, <3>2 DEF TenantInv, SlugIsUnique
  <2>2. CASE Moving(c)
    BY <1>1, <1>3, <1>10, <2>2 DEF TenantInv, SlugIsUnique, MovingKnows
  <2> QED
    BY <1>1, <2>1, <2>2
<1>16. SlugsRaced'
  <2>1. CASE Creating(c)
    <3>1. \A d \in Call \ {c} : Creating(d) /\ tenantCalls[d].held.slug = held.slug
            => {t, Whose(d)} \subseteq tenantRaced
      BY <2>1 DEF TenantInv, SlugsRaced
    <3> QED
      BY <1>1, <1>5, <1>6, <1>10, <3>1 DEF TenantInv, SlugsRaced
  <2>2. CASE Moving(c)
    BY <1>1, <1>3, <1>5, <1>6, <1>10, <2>2 DEF TenantInv, SlugsRaced, MovingKnows
  <2> QED
    BY <1>1, <2>1, <2>2
<1> QED
  BY <1>9, <1>11, <1>12, <1>13, <1>14, <1>15, <1>16 DEF TenantInv

(* Steps that store no tenant and put no call before a save.               *)
LEMMA QuietStep ==
  ASSUME TenantInv, TenantTypeOK', store' = store, tenants' = tenants, tenantWent' = tenantWent,
         tenantRaced' = tenantRaced, NEW c \in Call,
         \A d \in Call \ {c} : tenantCalls'[d] = tenantCalls[d],
         tenantCalls'[c] = NoCall \/
           /\ tenantCalls'[c].op = "updateBranding"
           /\ tenants[Whose(c)'] # NoTenant \/ (tenantCalls[c] # NoCall /\ Whose(c)' = Whose(c)),
         tenantTrail' = tenantTrail \/
           (/\ tenantCalls[c] # NoCall /\ tenantCalls[c].at = "audit"
            /\ tenantTrail' = tenantTrail \cup {<<tenantCalls[c].op, Whose(c)>>})
  PROVE  TenantInv'
<1>1. \A d \in Call \ {c} :
        (Creating(d)' <=> Creating(d)) /\ (Moving(d)' <=> Moving(d)) /\ Whose(d)' = Whose(d)
  BY DEF Creating, Moving, Whose
<1>2. ~ Creating(c)' /\ ~ Moving(c)'
  BY DEF Creating, Moving, Creates, Moves
<1>3. CreatingKnows(c)' /\ MovingKnows(c)' /\ AuditKnows(c)'
  BY <1>2 DEF Moves, CreatingKnows, MovingKnows, AuditKnows
<1>4. ASSUME NEW d \in Call \ {c}
      PROVE  CreatingKnows(d)' /\ MovingKnows(d)' /\ AuditKnows(d)'
  <2>1. CreatingKnows(d) /\ MovingKnows(d) /\ AuditKnows(d)
    BY DEF TenantInv
  <2>2. CreatingKnows(d)'
    BY <1>1, <2>1 DEF CreatingKnows, Creating
  <2>3. MovingKnows(d)'
    BY <1>1, <1>2, <2>1 DEF MovingKnows
  <2>4. AuditKnows(d)'
    BY <1>1, <2>1 DEF AuditKnows
  <2> QED
    BY <2>2, <2>3, <2>4
<1>5. StagesInOrder'
  BY MovesAreTargets DEF TenantInv, StagesInOrder, AuditKnows, Whose
<1>6. SlugsRaced' /\ SlugIsUnique' /\ \A t \in TenantId : TenantKept(t)'
  BY <1>1, <1>2 DEF TenantInv, SlugsRaced, SlugIsUnique, TenantKept
<1> QED
  BY <1>3, <1>4, <1>5, <1>6 DEF TenantInv

LEMMA TenantInvStep == TenantInv /\ [Next]_backOfficeVars => TenantInv'
<1> SUFFICES ASSUME TenantInv, [Next]_backOfficeVars PROVE TenantInv'
  OBVIOUS
<1> USE TenantAssumption
<1>0. store' = store /\ TenantTypeOK
  BY DEF Next, backOfficeVars, TenantInv
<1>1. ASSUME NEW c \in Call, NEW t \in TenantId, NEW slug \in Slug,
             ProvisionTenant(c, t, slug) \/ SeedDemo(c, t, slug)
      PROVE  TenantInv'
  BY <1>0, <1>1, CreatedStep DEF Created, ProvisionTenant, SeedDemo, StartTenantCall, SlugLooksFree
<1>2. ASSUME NEW c \in Call, NEW t \in TenantId, NEW op \in TenantOp, ChangeTenant(c, op, t)
      PROVE  TenantInv'
  BY <1>0, <1>2, ChangeStep
<1>3. ASSUME NEW c \in Call, NEW t \in TenantId, NEW brand \in Brand, UpdateBranding(c, t, brand)
      PROVE  TenantInv'
  <2>1. TenantTypeOK'
    BY <1>0, <1>3 DEF UpdateBranding, StartTenantCall, TenantTypeOK, TenantCall, TenantOp
  <2>2. /\ tenantCalls'[c].op = "updateBranding" /\ Whose(c)' = t
        /\ \A d \in Call \ {c} : tenantCalls'[d] = tenantCalls[d]
    BY <1>0, <1>3 DEF UpdateBranding, StartTenantCall, TenantTypeOK, Whose
  <2> QED
    BY <1>0, <1>3, <2>1, <2>2, QuietStep DEF UpdateBranding, Moves
<1>4. ASSUME NEW c \in Call, SaveTenant(c) PROVE TenantInv'
  BY <1>0, <1>4, SaveStep
<1>5. ASSUME NEW c \in Call, SaveBranding(c) PROVE TenantInv'
  <2>1. TenantTypeOK'
    BY <1>0, <1>5 DEF SaveBranding, TenantTypeOK, TenantCall
  <2>2. tenantCalls[c] \in TenantCall
    BY <1>0, <1>5 DEF SaveBranding, TenantTypeOK
  <2>3. /\ tenantCalls'[c].op = "updateBranding" /\ Whose(c)' = Whose(c)
        /\ \A d \in Call \ {c} : tenantCalls'[d] = tenantCalls[d]
    BY <1>0, <1>5, <2>2 DEF SaveBranding, TenantTypeOK, TenantCall, Whose
  <2> QED
    BY <1>0, <1>5, <2>1, <2>3, QuietStep DEF SaveBranding
<1>6. ASSUME NEW c \in Call, RecordTenantAudit(c) PROVE TenantInv'
  <2>1. TenantTypeOK'
    BY <1>0, <1>6 DEF RecordTenantAudit, EndTenantCall, TenantTypeOK, TenantCall
  <2>2. tenantCalls'[c] = NoCall /\ \A d \in Call \ {c} : tenantCalls'[d] = tenantCalls[d]
    BY <1>0, <1>6 DEF RecordTenantAudit, EndTenantCall, TenantTypeOK
  <2> QED
    BY <1>0, <1>6, <2>1, <2>2, QuietStep DEF RecordTenantAudit, Whose
<1>7. ASSUME NEW c \in Call, AbandonTenantCall(c) PROVE TenantInv'
  <2>1. TenantTypeOK'
    BY <1>0, <1>7 DEF AbandonTenantCall, EndTenantCall, TenantTypeOK
  <2>2. tenantCalls'[c] = NoCall /\ \A d \in Call \ {c} : tenantCalls'[d] = tenantCalls[d]
    BY <1>0, <1>7 DEF AbandonTenantCall, EndTenantCall, TenantTypeOK
  <2> QED
    BY <1>0, <1>7, <2>1, <2>2, QuietStep DEF AbandonTenantCall
<1>8. CASE UNCHANGED <<store, tenantVars>>
  <2> USE <1>8 DEF tenantVars
  <2>1. \A d \in Call : (Creating(d)' <=> Creating(d)) /\ (Moving(d)' <=> Moving(d)) /\ Whose(d)' = Whose(d)
    BY DEF Creating, Moving, Whose
  <2>2. \A d \in Call : CreatingKnows(d)' /\ MovingKnows(d)' /\ AuditKnows(d)'
    BY <2>1 DEF TenantInv, CreatingKnows, MovingKnows, AuditKnows
  <2>3. TenantTypeOK' /\ StagesInOrder' /\ SlugIsUnique' /\ \A t \in TenantId : TenantKept(t)'
    BY DEF TenantInv, TenantTypeOK, StagesInOrder, SlugIsUnique, TenantKept
  <2>4. SlugsRaced'
    BY <2>1 DEF TenantInv, SlugsRaced
  <2> QED
    BY <2>2, <2>3, <2>4 DEF TenantInv
<1> QED
  BY <1>1, <1>2, <1>3, <1>4, <1>5, <1>6, <1>7, <1>8 DEF Next, TenantNext, backOfficeVars, tenantVars

LEMMA TenantInvStart == Init => TenantInv
<1> USE DEF TenantInit
<1>1. Init => TenantTypeOK /\ store \in Stores
  BY DEF Init, TenantTypeOK, Stores
<1>2. Init => \A c \in Call : CreatingKnows(c) /\ MovingKnows(c) /\ AuditKnows(c)
  BY DEF Init, CreatingKnows, MovingKnows, AuditKnows, Creating, Moving
<1>3. Init => (\A t \in TenantId : TenantKept(t)) /\ StagesInOrder /\ SlugsRaced /\ SlugIsUnique
  BY TenantAssumption DEF Init, TenantKept, StagesInOrder, SlugsRaced, SlugIsUnique, Creating
<1> QED
  BY <1>1, <1>2, <1>3 DEF TenantInv

LEMMA TenantInvHolds == Spec => []TenantInv
  BY TenantInvStart, TenantInvStep, PTL DEF Spec

(* No stage of a tenant's onboarding is ever skipped, however the handlers *)
(* overlap and whatever fails: what a call in flight is about to write was *)
(* reached from a status the tenant really had.                            *)
THEOREM NoStageIsSkipped == Spec => []StagesInOrder
<1>1. TenantInv => StagesInOrder
  BY DEF TenantInv
<1> QED
  BY <1>1, TenantInvHolds, PTL

(* A suspended or cancelled tenant stays so, but for the overlap on rows   *)
(* that the property names.                                                *)
THEOREM EndsAreFinal == Spec => []EndIsFinal
<1>1. TenantInv => EndIsFinal
  BY DEF TenantInv, TenantKept, EndIsFinal, Ends, Stores
<1> QED
  BY <1>1, TenantInvHolds, PTL

-----------------------------------------------------------------------------
(* Profiles.                                                               *)

ProfileSaving(c) == profileCalls[c] # NoCall /\ profileCalls[c].at = "save"
ProfileOf(c) == profileCalls[c].profile
Done == {"SUSPENDED", "REJECTED"}

(* A registration in flight holds a new profile; no other call knows it.   *)
RegisterKnows(c) ==
  ProfileSaving(c) /\ profileCalls[c].op = "register" =>
    /\ profiles[ProfileOf(c)] = NoProfile
    /\ profileCalls[c].held.status = "APPLICATION" /\ ~ profileCalls[c].held.available
    /\ \A d \in Call \ {c} : profileCalls[d] # NoCall => ProfileOf(d) # ProfileOf(c)

(* A call that changed a driver holds what he may well become.             *)
DriverKnows(c) ==
  ProfileSaving(c) /\ profileCalls[c].op # "register" =>
    LET held == profileCalls[c].held
        p == ProfileOf(c) IN
    /\ profiles[p] # NoProfile /\ held.kind = profiles[p].kind /\ held.user = profiles[p].user
    /\ held.available => held.status = "APPROVED"
    /\ held.status = "APPROVED" => "VERIFICATION" \in profileWent[p]
    /\ held.status = "VERIFICATION" => "DOCUMENT_REVIEW" \in profileWent[p]
    /\ store = "objects" => held.status \in profileWent[p]
    /\ p \notin profileRaced =>
         /\ store = "rows" =>
              held.status = profiles[p].status \/ <<profiles[p].status, held.status>> \in VerificationEdge
         /\ \A d \in Call \ {c} : ProfileSaving(d) => ProfileOf(d) # p

ProfileAuditKnows(c) ==
  profileCalls[c] # NoCall /\ profileCalls[c].at = "audit"
    => profileCalls[c].held.status \in profileWent[ProfileOf(c)]

ProfileKept(p) ==
  /\ profiles[p] = NoProfile => profileWent[p] = {}
  /\ profiles[p] # NoProfile =>
       /\ profiles[p].status \in profileWent[p]
       /\ profiles[p].available => profiles[p].status = "APPROVED"
  /\ store = "objects" \/ p \notin profileRaced =>
       (profileWent[p] \cap Done # {} => profiles[p].status \in Done)

ProfilesRaced ==
  /\ \A c \in Call, p \in ProfileId :
       /\ ProfileSaving(c) /\ profileCalls[c].op = "register" /\ profileCalls[c].held.kind # "vehicle"
       /\ profiles[p] # NoProfile
       /\ profiles[p].kind = profileCalls[c].held.kind /\ profiles[p].user = profileCalls[c].held.user
       => {p, ProfileOf(c)} \subseteq profileRaced
  /\ \A c, d \in Call :
       /\ c # d /\ ProfileSaving(c) /\ profileCalls[c].op = "register" /\ profileCalls[c].held.kind # "vehicle"
       /\ ProfileSaving(d) /\ profileCalls[d].op = "register"
       /\ profileCalls[c].held.kind = profileCalls[d].held.kind
       /\ profileCalls[c].held.user = profileCalls[d].held.user
       => {ProfileOf(c), ProfileOf(d)} \subseteq profileRaced

ProfileInv ==
  /\ ProfileTypeOK /\ store \in Stores
  /\ \A c \in Call : RegisterKnows(c) /\ DriverKnows(c) /\ ProfileAuditKnows(c)
  /\ \A p \in ProfileId : ProfileKept(p)
  /\ VerificationInOrder /\ ProfilesRaced /\ OneProfilePerUser

LEMMA RegisterStep ==
  ASSUME ProfileInv, store' = store, NEW c \in Call, NEW p \in ProfileId, NEW kind \in Kind,
         NEW user \in UserId, Register(c, p, kind, user)
  PROVE  ProfileInv'
<1> USE OnboardingAssumption
<1>1. Registered(kind, user) \in Profile /\ Registered(kind, user).status = "APPLICATION"
      /\ Registered(kind, user).kind = kind /\ Registered(kind, user).user = user
      /\ ~ Registered(kind, user).available
  BY DEF Registered, Profile, Verification
<1>2. /\ profileCalls'[c] = [op |-> "register", profile |-> p, held |-> Registered(kind, user), at |-> "save"]
      /\ \A d \in Call \ {c} : profileCalls'[d] = profileCalls[d]
      /\ profileCalls' \in [Call -> ProfileCall \cup {NoCall}]
      /\ profileCalls'[c] \in ProfileCall
      /\ profileCalls[c] = NoCall /\ profiles[p] = NoProfile
      /\ \A d \in Call : profileCalls[d] # NoCall => ProfileOf(d) # p
      /\ UNCHANGED <<profiles, profileTrail, profileWent>>
      /\ profileRaced \subseteq profileRaced'
  BY <1>1 DEF Register, StartProfileCall, ProfileInv, ProfileTypeOK, ProfileCall, ProfileOf
<1>3. /\ ProfileSaving(c)' /\ ProfileOf(c)' = p /\ profileCalls'[c].op = "register"
      /\ profileCalls'[c].held = Registered(kind, user) /\ profileCalls'[c].at = "save"
      /\ ~ ProfileSaving(c)
      /\ \A d \in Call \ {c} : (ProfileSaving(d)' <=> ProfileSaving(d)) /\ ProfileOf(d)' = ProfileOf(d)
  BY <1>2 DEF ProfileSaving, ProfileOf
<1>4. ProfileTypeOK' /\ store' \in Stores
  BY <1>2 DEF ProfileInv, ProfileTypeOK, Register, Registering
<1>5. RegisterKnows(c)' /\ DriverKnows(c)' /\ ProfileAuditKnows(c)'
  BY <1>1, <1>2, <1>3 DEF RegisterKnows, DriverKnows, ProfileAuditKnows
<1>6. ASSUME NEW d \in Call \ {c} PROVE RegisterKnows(d)' /\ DriverKnows(d)' /\ ProfileAuditKnows(d)'
  <2>1. RegisterKnows(d) /\ DriverKnows(d) /\ ProfileAuditKnows(d)
    BY DEF ProfileInv
  <2>2. RegisterKnows(d)'
    BY <1>2, <1>3, <2>1 DEF RegisterKnows, ProfileSaving
  <2>3. DriverKnows(d)'
    BY <1>2, <1>3, <2>1 DEF DriverKnows, ProfileSaving
  <2>4. ProfileAuditKnows(d)'
    BY <1>2, <1>3, <2>1 DEF ProfileAuditKnows
  <2> QED
    BY <2>2, <2>3, <2>4
<1>7. \A q \in ProfileId : ProfileKept(q)'
  BY <1>2 DEF ProfileInv, ProfileKept
<1>8. VerificationInOrder' /\ OneProfilePerUser'
  BY <1>2 DEF ProfileInv, VerificationInOrder, OneProfilePerUser, CanReceiveOffers
<1>9. ProfilesRaced'
  <2>1. ASSUME NEW d \in Call \ {c}, ProfileSaving(d), profileCalls[d].op = "register",
               profileCalls[d].held.kind = kind, profileCalls[d].held.user = user
        PROVE  {p, ProfileOf(d)} \subseteq profileRaced'
    <3>1. ProfileOf(d) \in Registering(kind, user)
      BY <2>1 DEF Registering, ProfileSaving, ProfileOf, ProfileInv, ProfileTypeOK, ProfileCall
    <3> QED
      BY <3>1 DEF Register
  <2>2. \A q \in ProfileId : kind # "vehicle" /\ profiles[q] # NoProfile => profiles[q].kind # kind \/ profiles[q].user # user
    BY DEF Register, LooksUnregistered, ProfilesOf
  <2> QED
    BY <1>1, <1>2, <1>3, <2>1, <2>2 DEF ProfileInv, ProfilesRaced
<1> QED
  BY <1>4, <1>5, <1>6, <1>7, <1>8, <1>9 DEF ProfileInv

(* What advanceVerification and setAvailability have in common.            *)
Changed(c, op, p, held) ==
  /\ op # "register" /\ profiles[p] # NoProfile
  /\ held \in Profile /\ held.kind = profiles[p].kind /\ held.user = profiles[p].user
  /\ held.status = profiles[p].status \/ <<profiles[p].status, held.status>> \in VerificationEdge
  /\ held.available => held.status = "APPROVED"
  /\ ChangeDriver(c, op, p, held)

LEMMA DriverStep ==
  ASSUME ProfileInv, store' = store, NEW c \in Call, NEW op \in {"verify", "availability"},
         NEW p \in ProfileId, NEW held, Changed(c, op, p, held)
  PROVE  ProfileInv'
<1> USE OnboardingAssumption
<1>1. /\ held \in Profile /\ held # NoProfile /\ profiles[p] # NoProfile /\ profiles[p] \in Profile
      /\ held.kind = profiles[p].kind /\ held.user = profiles[p].user
      /\ held.status = profiles[p].status \/ <<profiles[p].status, held.status>> \in VerificationEdge
      /\ held.available => held.status = "APPROVED"
      /\ held.status \in Verification
      /\ profileCalls[c] = NoCall /\ ~ ProfileSaving(c)
  BY DEF Changed, ChangeDriver, StartProfileCall, ProfileSaving, ProfileInv, ProfileTypeOK, Profile
<1>2. /\ profileCalls'[c] = [op |-> op, profile |-> p, held |-> held, at |-> "save"]
      /\ \A d \in Call \ {c} : profileCalls'[d] = profileCalls[d]
      /\ profileCalls' \in [Call -> ProfileCall \cup {NoCall}]
      /\ profileCalls'[c] \in ProfileCall
  BY <1>1 DEF Changed, ChangeDriver, StartProfileCall, ProfileInv, ProfileTypeOK, ProfileCall
<1>3. /\ ProfileSaving(c)' /\ ProfileOf(c)' = p /\ profileCalls'[c].op = op
      /\ profileCalls'[c].held = held /\ profileCalls'[c].at = "save"
      /\ \A d \in Call \ {c} : (ProfileSaving(d)' <=> ProfileSaving(d)) /\ ProfileOf(d)' = ProfileOf(d)
  BY <1>2 DEF ProfileSaving, ProfileOf
<1>4. /\ \/ store = "objects" /\ profiles' = [profiles EXCEPT ![p] = held]
            /\ profileWent' = [profileWent EXCEPT ![p] = @ \cup {held.status}]
         \/ store = "rows" /\ UNCHANGED <<profiles, profileWent>>
      /\ profileTrail' = profileTrail /\ profileRaced \subseteq profileRaced'
      /\ profileRaced' \subseteq ProfileId
      /\ \A q \in ProfileId \ {p} : q \in profileRaced' => q \in profileRaced
  BY DEF Changed, ChangeDriver, PutProfile, ProfileInv, ProfileTypeOK, Stores
<1>5. p \notin profileRaced' => p \notin profileRaced /\ \A d \in Call : ProfileSaving(d) => ProfileOf(d) # p
  BY DEF Changed, ChangeDriver, ProfileBusy, ProfileSaving, ProfileOf
<1>6. ProfileTypeOK' /\ store' \in Stores
  BY <1>1, <1>2, <1>4 DEF ProfileInv, ProfileTypeOK
<1>7. /\ \A q \in ProfileId : profileWent[q] \subseteq profileWent'[q]
      /\ \A q \in ProfileId \ {p} : profiles'[q] = profiles[q] /\ profileWent'[q] = profileWent[q]
      /\ \A q \in ProfileId : profiles'[q] = NoProfile <=> profiles[q] = NoProfile
      /\ \A q \in ProfileId : profiles[q] # NoProfile =>
           profiles'[q].kind = profiles[q].kind /\ profiles'[q].user = profiles[q].user
      /\ store = "objects" => profiles'[p] = held /\ profileWent'[p] = profileWent[p] \cup {held.status}
      /\ store = "rows" => profiles'[p] = profiles[p] /\ profileWent'[p] = profileWent[p]
  BY <1>1, <1>4 DEF ProfileInv, ProfileTypeOK, Stores
<1>8. /\ ProfileKept(p) /\ profiles[p].status \in profileWent[p]
      /\ held.status = "APPROVED" => "VERIFICATION" \in profileWent[p]
      /\ held.status = "VERIFICATION" => "DOCUMENT_REVIEW" \in profileWent[p]
  BY <1>1 DEF ProfileInv, ProfileKept, VerificationInOrder, VerificationEdge
<1>9. RegisterKnows(c)' /\ DriverKnows(c)' /\ ProfileAuditKnows(c)'
  <2>1. RegisterKnows(c)' /\ ProfileAuditKnows(c)'
    BY <1>3 DEF RegisterKnows, ProfileAuditKnows
  <2>2. p \notin profileRaced' => \A d \in Call \ {c} : ProfileSaving(d)' => ProfileOf(d)' # p
    BY <1>3, <1>5
  <2>3. DriverKnows(c)'
    BY <1>1, <1>3, <1>7, <1>8, <2>2 DEF DriverKnows, Stores
  <2> QED
    BY <2>1, <2>3
<1>10. ASSUME NEW d \in Call \ {c} PROVE RegisterKnows(d)' /\ DriverKnows(d)' /\ ProfileAuditKnows(d)'
  <2>1. RegisterKnows(d) /\ DriverKnows(d) /\ ProfileAuditKnows(d)
    BY DEF ProfileInv
  <2>2. profileCalls[d] # NoCall => ProfileOf(d) \in ProfileId
    BY DEF ProfileInv, ProfileTypeOK, ProfileCall, ProfileOf
  <2>3. RegisterKnows(d)'
    BY <1>1, <1>2, <1>3, <1>7, <2>1, <2>2 DEF RegisterKnows, ProfileSaving
  <2>4. DriverKnows(d)'
    BY <1>2, <1>3, <1>4, <1>5, <1>7, <2>1, <2>2 DEF DriverKnows, ProfileSaving, Stores
  <2>5. ProfileAuditKnows(d)'
    BY <1>2, <1>3, <1>7, <2>1, <2>2 DEF ProfileAuditKnows
  <2> QED
    BY <2>3, <2>4, <2>5
<1>11. \A q \in ProfileId : ProfileKept(q)'
  <2>1. CASE store = "objects"
    <3>1. held.status \in Done \/ profiles[p].status \notin Done
      BY <1>1 DEF VerificationEdge, Done
    <3>2. ProfileKept(p)'
      BY <1>1, <1>7, <1>8, <2>1, <3>1 DEF ProfileKept, Done
    <3> QED
      BY <1>4, <1>7, <3>2 DEF ProfileInv, ProfileKept
  <2>2. CASE store = "rows"
    BY <1>4, <1>7, <2>2 DEF ProfileInv, ProfileKept
  <2> QED
    BY <2>1, <2>2 DEF ProfileInv, Stores
<1>12. VerificationInOrder'
  <2> DEFINE InOrder(went, trail, profile, q) ==
        /\ "APPROVED" \in went => "VERIFICATION" \in went
        /\ "VERIFICATION" \in went => "DOCUMENT_REVIEW" \in went
        /\ <<"APPROVED", q>> \in trail => "APPROVED" \in went
        /\ profile # NoProfile /\ profile.available => CanReceiveOffers(profile)
  <2>1. \A q \in ProfileId : InOrder(profileWent[q], profileTrail, profiles[q], q)
    BY DEF ProfileInv, VerificationInOrder
  <2>2. InOrder(profileWent'[p], profileTrail', profiles'[p], p)
    <3>1. CASE store = "objects"
      <4>1. profiles'[p] = held /\ profileWent'[p] = profileWent[p] \cup {held.status}
        BY <1>7, <3>1
      <4>2. held.available => CanReceiveOffers(held)
        BY <1>1 DEF CanReceiveOffers
      <4> QED
        BY <1>4, <1>8, <2>1, <4>1, <4>2
    <3>2. CASE store = "rows"
      BY <1>4, <1>7, <2>1, <3>2
    <3> QED
      BY <3>1, <3>2 DEF ProfileInv, Stores
  <2>3. \A q \in ProfileId \ {p} : InOrder(profileWent'[q], profileTrail', profiles'[q], q)
    BY <1>4, <1>7, <2>1
  <2>4. \A q \in ProfileId : InOrder(profileWent'[q], profileTrail', profiles'[q], q)
    BY <2>2, <2>3
  <2> QED
    BY <2>4 DEF VerificationInOrder, CanReceiveOffers
<1>13. OneProfilePerUser' /\ ProfilesRaced'
  <2>1. OneProfilePerUser'
    BY <1>4, <1>7 DEF ProfileInv, OneProfilePerUser
  <2>2. ProfilesRaced'
    BY <1>2, <1>3, <1>4, <1>7 DEF ProfileInv, ProfilesRaced
  <2> QED
    BY <2>1, <2>2
<1> QED
  BY <1>6, <1>9, <1>10, <1>11, <1>12, <1>13 DEF ProfileInv

LEMMA ProfileSaveStep ==
  ASSUME ProfileInv, store' = store, NEW c \in Call, SaveProfile(c)
  PROVE  ProfileInv'
<1> USE OnboardingAssumption
<1>0. PICK p \in ProfileId, held \in Profile :
        p = ProfileOf(c) /\ held = profileCalls[c].held
  BY DEF SaveProfile, ProfileInv, ProfileTypeOK, ProfileCall, ProfileOf
<1> USE <1>0
<1> DEFINE registers == profileCalls[c].op = "register"
<1>1. /\ profileCalls[c] \in ProfileCall /\ ProfileSaving(c)
      /\ held # NoProfile /\ held.status \in Verification
      /\ UNCHANGED <<profileTrail, profileRaced, store>>
      /\ RegisterKnows(c) /\ DriverKnows(c) /\ ProfileKept(p)
  BY DEF SaveProfile, ProfileSaving, ProfileInv, ProfileTypeOK, Profile
<1>2. /\ profileCalls' \in [Call -> ProfileCall \cup {NoCall}]
      /\ \A d \in Call \ {c} : profileCalls'[d] = profileCalls[d]
      /\ ~ ProfileSaving(c)'
      /\ profileCalls'[c] # NoCall => ProfileOf(c)' = p /\ profileCalls'[c].held = held
  BY <1>1 DEF SaveProfile, EndProfileCall, ProfileSaving, ProfileOf, ProfileInv, ProfileTypeOK, ProfileCall
<1>3. \A d \in Call \ {c} : (ProfileSaving(d)' <=> ProfileSaving(d)) /\ ProfileOf(d)' = ProfileOf(d)
  BY <1>2 DEF ProfileSaving, ProfileOf
<1>4. \/ /\ profiles' = [profiles EXCEPT ![p] = held]
         /\ profileWent' = [profileWent EXCEPT ![p] = @ \cup {held.status}]
         /\ registers \/ store = "rows"
         /\ store = "rows" /\ held.kind # "vehicle" =>
              \A q \in ProfileId \ {p} :
                profiles[q] # NoProfile => profiles[q].kind # held.kind \/ profiles[q].user # held.user
      \/ store = "objects" /\ ~ registers /\ UNCHANGED <<profiles, profileWent>>
  BY <1>1 DEF SaveProfile, StoreProfileObject, UpsertProfileRow, PutProfile, ProfilesOf, ProfileOf, ProfileInv, Stores
<1>5. ProfileTypeOK' /\ store' \in Stores
  BY <1>1, <1>2, <1>4 DEF ProfileInv, ProfileTypeOK
<1>6. /\ registers => profiles[p] = NoProfile /\ profileWent[p] = {} /\ held.status = "APPLICATION"
                      /\ ~ held.available
      /\ ~ registers => /\ profiles[p] # NoProfile /\ held.kind = profiles[p].kind
                        /\ held.user = profiles[p].user
      /\ held.available => held.status = "APPROVED"
      /\ held.status = "APPROVED" => "VERIFICATION" \in profileWent[p]
      /\ held.status = "VERIFICATION" => "DOCUMENT_REVIEW" \in profileWent[p]
      /\ ~ registers /\ store = "objects" => held.status \in profileWent[p]
  BY <1>1 DEF RegisterKnows, DriverKnows, ProfileKept
<1>7. /\ \A q \in ProfileId : profileWent[q] \subseteq profileWent'[q]
      /\ \A q \in ProfileId \ {p} : profiles'[q] = profiles[q] /\ profileWent'[q] = profileWent[q]
      /\ profiles'[p] # NoProfile /\ profiles'[p].kind = held.kind /\ profiles'[p].user = held.user
      /\ \A q \in ProfileId : profiles[q] # NoProfile =>
           /\ profiles'[q] # NoProfile
           /\ profiles'[q].kind = profiles[q].kind /\ profiles'[q].user = profiles[q].user
      /\ held.status \in profileWent'[p] /\ profileWent'[p] \subseteq profileWent[p] \cup {held.status}
  BY <1>1, <1>4, <1>6 DEF ProfileInv, ProfileTypeOK
<1>8. RegisterKnows(c)' /\ DriverKnows(c)' /\ ProfileAuditKnows(c)'
  BY <1>2, <1>7 DEF RegisterKnows, DriverKnows, ProfileAuditKnows
<1>9. ASSUME NEW d \in Call \ {c} PROVE RegisterKnows(d)' /\ DriverKnows(d)' /\ ProfileAuditKnows(d)'
  <2>1. RegisterKnows(d) /\ DriverKnows(d) /\ ProfileAuditKnows(d)
    BY DEF ProfileInv
  <2>2. profileCalls[d] # NoCall => ProfileOf(d) \in ProfileId
    BY DEF ProfileInv, ProfileTypeOK, ProfileCall, ProfileOf
  <2>3. RegisterKnows(d)'
    BY <1>1, <1>2, <1>3, <1>7, <2>1, <2>2 DEF RegisterKnows, ProfileSaving
  <2>4. DriverKnows(d)'
    <3>1. ProfileSaving(d) /\ ProfileOf(d) = p => ~ registers /\ (p \in profileRaced \/ profileCalls[d].op = "register")
      BY <1>1, <2>1 DEF RegisterKnows, DriverKnows, ProfileSaving
    <3>2. \A e \in Call : ProfileSaving(e)' => ProfileSaving(e) /\ ProfileOf(e)' = ProfileOf(e)
      BY <1>2, <1>3
    <3>3. CASE ProfileOf(d) # p \/ ~ ProfileSaving(d)
      BY <1>1, <1>2, <1>3, <1>7, <2>1, <2>2, <3>2, <3>3 DEF DriverKnows, ProfileSaving
    <3>4. CASE ProfileOf(d) = p /\ ProfileSaving(d)
      BY <1>1, <1>2, <1>3, <1>6, <1>7, <2>1, <3>1, <3>4 DEF DriverKnows, ProfileSaving
    <3> QED
      BY <3>3, <3>4
  <2>5. ProfileAuditKnows(d)'
    BY <1>2, <1>3, <1>7, <2>1, <2>2 DEF ProfileAuditKnows
  <2> QED
    BY <2>3, <2>4, <2>5
<1>10. \A q \in ProfileId : ProfileKept(q)'
  <2>1. ProfileKept(p)'
    <3>1. CASE registers
      <4>1. profiles'[p] = held /\ profileWent'[p] = {held.status}
        BY <1>4, <1>6, <3>1 DEF ProfileInv, ProfileTypeOK
      <4> QED
        BY <1>1, <1>6, <3>1, <4>1 DEF ProfileKept, Done
    <3>2. CASE ~ registers /\ store = "objects"
      BY <1>1, <1>4, <3>2 DEF ProfileKept
    <3>3. CASE ~ registers /\ store = "rows"
      <4>1. profiles'[p] = held /\ profileWent'[p] = profileWent[p] \cup {held.status}
        BY <1>4, <3>3 DEF ProfileInv, ProfileTypeOK
      <4>2. p \notin profileRaced =>
              held.status = profiles[p].status \/ <<profiles[p].status, held.status>> \in VerificationEdge
        BY <1>1, <3>3 DEF DriverKnows
      <4>3. p \notin profileRaced => held.status \in Done \/ profiles[p].status \notin Done
        BY <4>2 DEF VerificationEdge, Done
      <4> QED
        BY <1>1, <1>6, <3>3, <4>1, <4>3 DEF ProfileKept, Done
    <3> QED
      BY <3>1, <3>2, <3>3 DEF ProfileInv, Stores
  <2> QED
    BY <1>1, <1>7, <2>1 DEF ProfileInv, ProfileKept
<1>11. VerificationInOrder'
  <2>1. ProfileKept(p)' /\ profiles'[p] # NoProfile
    BY <1>7, <1>10
  <2>2. /\ "APPROVED" \in profileWent'[p] => "VERIFICATION" \in profileWent'[p]
        /\ "VERIFICATION" \in profileWent'[p] => "DOCUMENT_REVIEW" \in profileWent'[p]
    BY <1>6, <1>7 DEF ProfileInv, VerificationInOrder
  <2>3. profiles'[p].available => profiles'[p].status = "APPROVED"
    BY <2>1 DEF ProfileKept
  <2>4. \A q \in ProfileId : <<"APPROVED", q>> \in profileTrail' => "APPROVED" \in profileWent'[q]
    BY <1>1, <1>7 DEF ProfileInv, VerificationInOrder
  <2>5. \A q \in ProfileId \ {p} :
          /\ "APPROVED" \in profileWent'[q] => "VERIFICATION" \in profileWent'[q]
          /\ "VERIFICATION" \in profileWent'[q] => "DOCUMENT_REVIEW" \in profileWent'[q]
          /\ profiles'[q] # NoProfile /\ profiles'[q].available => CanReceiveOffers(profiles'[q])
    BY <1>7 DEF ProfileInv, VerificationInOrder
  <2> QED
    BY <2>2, <2>3, <2>4, <2>5 DEF VerificationInOrder, CanReceiveOffers
<1>12. OneProfilePerUser'
  <2>1. CASE registers
    <3>1. ASSUME NEW q \in ProfileId \ {p}, profiles[q] # NoProfile, profiles[q].kind = held.kind,
                 profiles[q].user = held.user, held.kind # "vehicle"
          PROVE  store = "objects" /\ {q, p} \subseteq profileRaced
      <4>1. {q, p} \subseteq profileRaced
        BY <1>1, <2>1, <3>1 DEF ProfileInv, ProfilesRaced
      <4>2. store = "objects"
        BY <1>4, <2>1, <3>1 DEF ProfileInv, Stores
      <4> QED
        BY <4>1, <4>2
    <3> QED
      BY <1>1, <1>7, <3>1 DEF ProfileInv, OneProfilePerUser
  <2>2. CASE ~ registers
    BY <1>1, <1>6, <1>7, <2>2 DEF ProfileInv, OneProfilePerUser
  <2> QED
    BY <2>1, <2>2
<1>13. ProfilesRaced'
  <2>1. CASE registers
    <3>1. \A d \in Call \ {c} :
            /\ ProfileSaving(d) /\ profileCalls[d].op = "register"
            /\ held.kind # "vehicle" /\ profileCalls[d].held.kind = held.kind
            /\ profileCalls[d].held.user = held.user
            => {p, ProfileOf(d)} \subseteq profileRaced
      BY <1>1, <2>1 DEF ProfileInv, ProfilesRaced
    <3> QED
      BY <1>1, <1>2, <1>3, <1>7, <3>1 DEF ProfileInv, ProfilesRaced
  <2>2. CASE ~ registers
    BY <1>1, <1>2, <1>3, <1>6, <1>7, <2>2 DEF ProfileInv, ProfilesRaced
  <2> QED
    BY <2>1, <2>2
<1> QED
  BY <1>5, <1>8, <1>9, <1>10, <1>11, <1>12, <1>13 DEF ProfileInv

LEMMA ProfileInvStep == ProfileInv /\ [Next]_backOfficeVars => ProfileInv'
<1> SUFFICES ASSUME ProfileInv, [Next]_backOfficeVars PROVE ProfileInv'
  OBVIOUS
<1> USE OnboardingAssumption
<1>0. store' = store /\ ProfileTypeOK
  BY DEF Next, backOfficeVars, ProfileInv
<1>1. ASSUME NEW c \in Call, NEW p \in ProfileId, NEW kind \in Kind, NEW user \in UserId,
             Register(c, p, kind, user)
      PROVE  ProfileInv'
  BY <1>0, <1>1, RegisterStep
<1>2. ASSUME NEW c \in Call, NEW p \in ProfileId, NEW to \in Verification,
             AdvanceVerification(c, p, to)
      PROVE  ProfileInv'
  <2>1. profiles[p] \in Profile /\ profiles[p] # NoProfile
    BY <1>0, <1>2 DEF AdvanceVerification, LoadedDriver, ProfileTypeOK
  <2>2. /\ Verified(profiles[p], to) \in Profile /\ Verified(profiles[p], to).status = to
        /\ Verified(profiles[p], to).kind = profiles[p].kind /\ Verified(profiles[p], to).user = profiles[p].user
        /\ Verified(profiles[p], to).available => to = "APPROVED"
    BY <2>1 DEF Verified, Profile
  <2>3. Changed(c, "verify", p, Verified(profiles[p], to))
    BY <1>2, <2>1, <2>2 DEF Changed, AdvanceVerification, MayVerify
  <2> QED
    BY <1>0, <2>2, <2>3, DriverStep
<1>3. ASSUME NEW c \in Call, NEW p \in ProfileId, NEW available \in BOOLEAN,
             SetAvailability(c, p, available)
      PROVE  ProfileInv'
  <2> DEFINE held == [profiles[p] EXCEPT !.available = available]
  <2>1. profiles[p] \in Profile /\ profiles[p] # NoProfile
    BY <1>0, <1>3 DEF SetAvailability, LoadedDriver, ProfileTypeOK
  <2>2. /\ held \in Profile /\ held.status = profiles[p].status
        /\ held.kind = profiles[p].kind /\ held.user = profiles[p].user
        /\ held.available => held.status = "APPROVED"
    BY <1>3, <2>1 DEF SetAvailability, MaySetAvailable, Profile
  <2>3. Changed(c, "availability", p, held)
    BY <1>3, <2>1, <2>2 DEF Changed, SetAvailability
  <2> QED
    BY <1>0, <2>2, <2>3, DriverStep
<1>4. ASSUME NEW c \in Call, SaveProfile(c) PROVE ProfileInv'
  BY <1>0, <1>4, ProfileSaveStep
<1>5. ASSUME NEW c \in Call, RecordProfileAudit(c) \/ AbandonProfileCall(c) PROVE ProfileInv'
  <2>1. /\ profileCalls'[c] = NoCall
        /\ \A d \in Call \ {c} : profileCalls'[d] = profileCalls[d]
        /\ UNCHANGED <<profiles, profileWent, profileRaced>>
        /\ \/ profileTrail' = profileTrail
           \/ /\ profileCalls[c] # NoCall /\ profileCalls[c].at = "audit"
              /\ profileTrail' = profileTrail \cup {<<profileCalls[c].held.status, ProfileOf(c)>>}
    BY <1>0, <1>5 DEF RecordProfileAudit, AbandonProfileCall, EndProfileCall, ProfileTypeOK, ProfileOf
  <2>2. ProfileTypeOK'
    BY <1>0, <1>5 DEF RecordProfileAudit, AbandonProfileCall, EndProfileCall, ProfileTypeOK,
                      ProfileCall, Profile
  <2>3. ~ ProfileSaving(c)' /\ \A d \in Call \ {c} :
          (ProfileSaving(d)' <=> ProfileSaving(d)) /\ ProfileOf(d)' = ProfileOf(d)
    BY <2>1 DEF ProfileSaving, ProfileOf
  <2>4. RegisterKnows(c)' /\ DriverKnows(c)' /\ ProfileAuditKnows(c)'
    BY <2>1, <2>3 DEF RegisterKnows, DriverKnows, ProfileAuditKnows
  <2>5. ASSUME NEW d \in Call \ {c} PROVE RegisterKnows(d)' /\ DriverKnows(d)' /\ ProfileAuditKnows(d)'
    <3>1. RegisterKnows(d) /\ DriverKnows(d) /\ ProfileAuditKnows(d)
      BY DEF ProfileInv
    <3>2. RegisterKnows(d)'
      BY <2>1, <2>3, <3>1 DEF RegisterKnows
    <3>3. DriverKnows(d)'
      BY <1>0, <2>1, <2>3, <3>1 DEF DriverKnows
    <3>4. ProfileAuditKnows(d)'
      BY <2>1, <2>3, <3>1 DEF ProfileAuditKnows
    <3> QED
      BY <3>2, <3>3, <3>4
  <2>6. VerificationInOrder'
    <3>1. ASSUME NEW p \in ProfileId, <<"APPROVED", p>> \in profileTrail'
          PROVE  "APPROVED" \in profileWent[p]
      <4>1. CASE <<"APPROVED", p>> \in profileTrail
        BY <4>1 DEF ProfileInv, VerificationInOrder
      <4>2. CASE <<"APPROVED", p>> \notin profileTrail
        <5>1. /\ profileCalls[c] # NoCall /\ profileCalls[c].at = "audit"
              /\ profileCalls[c].held.status = "APPROVED" /\ ProfileOf(c) = p
          BY <2>1, <3>1, <4>2
        <5> QED
          BY <5>1 DEF ProfileInv, ProfileAuditKnows
      <4> QED
        BY <4>1, <4>2
    <3>2. profiles' = profiles /\ profileWent' = profileWent
      BY <2>1
    <3> QED
      BY <3>1, <3>2 DEF ProfileInv, VerificationInOrder
  <2>7. OneProfilePerUser' /\ ProfilesRaced' /\ \A p \in ProfileId : ProfileKept(p)'
    BY <1>0, <2>1, <2>3 DEF ProfileInv, OneProfilePerUser, ProfilesRaced, ProfileKept
  <2> QED
    BY <1>0, <2>2, <2>4, <2>5, <2>6, <2>7 DEF ProfileInv
<1>6. CASE UNCHANGED <<store, profileVars>>
  <2> USE <1>6 DEF profileVars
  <2>1. \A d \in Call : (ProfileSaving(d)' <=> ProfileSaving(d)) /\ ProfileOf(d)' = ProfileOf(d)
    BY DEF ProfileSaving, ProfileOf
  <2>2. \A d \in Call : RegisterKnows(d)' /\ DriverKnows(d)' /\ ProfileAuditKnows(d)'
    BY <2>1 DEF ProfileInv, RegisterKnows, DriverKnows, ProfileAuditKnows
  <2>3. ProfileTypeOK' /\ VerificationInOrder' /\ OneProfilePerUser' /\ \A p \in ProfileId : ProfileKept(p)'
    BY DEF ProfileInv, ProfileTypeOK, VerificationInOrder, OneProfilePerUser, ProfileKept, CanReceiveOffers
  <2>4. ProfilesRaced'
    BY <2>1 DEF ProfileInv, ProfilesRaced
  <2> QED
    BY <2>2, <2>3, <2>4 DEF ProfileInv
<1> QED
  BY <1>1, <1>2, <1>3, <1>4, <1>5, <1>6 DEF Next, ProfileNext, backOfficeVars, profileVars

LEMMA ProfileInvHolds == Spec => []ProfileInv
<1> USE DEF ProfileInit
<1>1. Init => ProfileTypeOK /\ store \in Stores
  BY DEF Init, ProfileTypeOK, Stores
<1>2. Init => \A c \in Call : RegisterKnows(c) /\ DriverKnows(c) /\ ProfileAuditKnows(c)
  BY DEF Init, RegisterKnows, DriverKnows, ProfileAuditKnows, ProfileSaving
<1>3. Init => (\A p \in ProfileId : ProfileKept(p)) /\ VerificationInOrder /\ ProfilesRaced /\ OneProfilePerUser
  BY DEF Init, ProfileKept, VerificationInOrder, ProfilesRaced, OneProfilePerUser, ProfileSaving, CanReceiveOffers
<1>4. Init => ProfileInv
  BY <1>1, <1>2, <1>3 DEF ProfileInv
<1> QED
  BY <1>4, ProfileInvStep, PTL DEF Spec

(* Nobody drives unseen: an available driver is an approved one, and one   *)
(* who was ever approved was reviewed and verified first.                  *)
THEOREM NobodyDrivesUnseen == Spec => []VerificationInOrder
<1>1. ProfileInv => VerificationInOrder
  BY DEF ProfileInv
<1> QED
  BY <1>1, ProfileInvHolds, PTL

(* A suspended or rejected driver gets no offer again, but for the overlap *)
(* on rows that the property names.                                        *)
THEOREM SuspensionsHold == Spec => []SuspensionHolds
<1>1. ProfileInv => SuspensionHolds
  BY DEF ProfileInv, ProfileKept, SuspensionHolds, CanReceiveOffers, Done, Stores
<1> QED
  BY <1>1, ProfileInvHolds, PTL
=============================================================================

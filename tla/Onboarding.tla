----------------------------- MODULE Onboarding -----------------------------
(***************************************************************************)
(* Drivers, passengers and vehicles: application/onboarding-service.ts     *)
(* over domain/driver-profile.ts and either set of repositories.           *)
(*                                                                         *)
(* Handlers are split as in Tenants.  A profile of any kind is one record; *)
(* only a driver's has a verification and an availability that move, and a *)
(* vehicle is the one kind of which a user may have several.               *)
(***************************************************************************)
EXTENDS Wiring

CONSTANTS
  ProfileId,        \* ids newId() may hand out
  UserId,
  NoProfile,
  ProfileRowsSaved  \* the tables accept the rows the live repositories write

Kind == {"driver", "passenger", "vehicle"}

Verification ==
  {"APPLICATION", "DOCUMENT_REVIEW", "VERIFICATION", "APPROVED", "REJECTED", "SUSPENDED"}

Profile == [kind: Kind, user: UserId, status: Verification, available: BOOLEAN]

VARIABLES
  profiles,      \* profiles[p]: the stored profile, NoProfile before the first save
  profileCalls,  \* profileCalls[c]: the handler in the slot
  profileTrail,  \* the audit trail: statuses recorded as reached
  profileWent,   \* history: the statuses each profile has been stored with
  profileRaced   \* history: the profiles two overlapping calls worked on

profileVars == <<profiles, profileCalls, profileTrail, profileWent, profileRaced>>

(* VERIFICATION_TRANSITIONS.                                               *)
VerificationEdge ==
  {<<"APPLICATION", "DOCUMENT_REVIEW">>, <<"DOCUMENT_REVIEW", "VERIFICATION">>,
   <<"VERIFICATION", "APPROVED">>, <<"VERIFICATION", "REJECTED">>,
   <<"VERIFICATION", "SUSPENDED">>, <<"APPROVED", "SUSPENDED">>}

ProfileCall ==
  [op: {"register", "verify", "availability"}, profile: ProfileId, held: Profile,
   at: {"save", "audit"}]

ASSUME OnboardingAssumption ==
  /\ NoProfile \notin Profile
  /\ ProfileRowsSaved \in BOOLEAN
  /\ NoCall \notin ProfileCall

ProfileTypeOK ==
  /\ profiles \in [ProfileId -> Profile \cup {NoProfile}]
  /\ profileCalls \in [Call -> ProfileCall \cup {NoCall}]
  /\ profileTrail \subseteq Verification \X ProfileId
  /\ profileWent \in [ProfileId -> SUBSET Verification]
  /\ profileRaced \subseteq ProfileId

ProfileInit ==
  /\ profiles = [p \in ProfileId |-> NoProfile]
  /\ profileCalls = [c \in Call |-> NoCall]
  /\ profileTrail = {}
  /\ profileWent = [p \in ProfileId |-> {}]
  /\ profileRaced = {}

-----------------------------------------------------------------------------
(* The profile objects.                                                    *)

(* DriverProfile.register, PassengerProfile.register, Vehicle.register.    *)
Registered(kind, user) ==
  [kind |-> kind, user |-> user, status |-> "APPLICATION", available |-> FALSE]

SlipVerified(profile, to) == [profile EXCEPT !.status = to]

(* transitionVerification, when the table allows it.                       *)
Verified(profile, to) ==
  [profile EXCEPT !.status = to, !.available = @ /\ to = "APPROVED"]

SlipMayVerify(profile, to) == TRUE

MayVerify(profile, to) == <<profile.status, to>> \in VerificationEdge

(* setAvailable's check.                                                   *)
MaySetAvailable(profile, available) == available => profile.status = "APPROVED"

(* A row that claims an unapproved driver is available cannot be loaded.   *)
RowLoads(profile) == profile.available => profile.status = "APPROVED"

CanReceiveOffers(profile) == profile.status = "APPROVED" /\ profile.available

-----------------------------------------------------------------------------
(* Steps of a call.                                                        *)

ProfileBusy(p) ==
  \E c \in Call :
    profileCalls[c] # NoCall /\ profileCalls[c].profile = p /\ profileCalls[c].at = "save"

StartProfileCall(c, op, p, held) ==
  /\ profileCalls[c] = NoCall
  /\ profileCalls' = [profileCalls EXCEPT ![c] =
       [op |-> op, profile |-> p, held |-> held, at |-> "save"]]

EndProfileCall(c) == profileCalls' = [profileCalls EXCEPT ![c] = NoCall]

PutProfile(p, value) ==
  /\ profiles' = [profiles EXCEPT ![p] = value]
  /\ profileWent' = [profileWent EXCEPT ![p] = @ \cup {value.status}]

(* The stored profiles of one kind and user.                               *)
ProfilesOf(kind, user) ==
  {p \in ProfileId :
     profiles[p] # NoProfile /\ profiles[p].kind = kind /\ profiles[p].user = user}

(* findByUserId answers null; vehicles are not looked up.                  *)
LooksUnregistered(kind, user) == kind # "vehicle" => ProfilesOf(kind, user) = {}

(* Profiles of the kind and user that another call is about to store.      *)
Registering(kind, user) ==
  {p \in ProfileId : \E c \in Call :
     /\ profileCalls[c] # NoCall /\ profileCalls[c].profile = p
     /\ profileCalls[c].op = "register" /\ profileCalls[c].at = "save"
     /\ profileCalls[c].held.kind = kind /\ profileCalls[c].held.user = user}

(* registerDriver, registerPassenger and registerVehicle up to the save.   *)
Register(c, p, kind, user) ==
  /\ profiles[p] = NoProfile
  /\ \A o \in Call : profileCalls[o] # NoCall => profileCalls[o].profile # p
  /\ LooksUnregistered(kind, user)
  /\ StartProfileCall(c, "register", p, Registered(kind, user))
  /\ profileRaced' = profileRaced \cup
       (IF Registering(kind, user) = {} THEN {} ELSE Registering(kind, user) \cup {p})
  /\ UNCHANGED <<profiles, profileTrail, profileWent>>

(* A loaded driver is changed and is about to be saved.                    *)
ChangeDriver(c, op, p, changed) ==
  /\ StartProfileCall(c, op, p, changed)
  /\ IF store = "objects" THEN PutProfile(p, changed) ELSE UNCHANGED <<profiles, profileWent>>
  /\ profileRaced' = IF ProfileBusy(p) THEN profileRaced \cup {p} ELSE profileRaced
  /\ UNCHANGED profileTrail

LoadedDriver(p) ==
  /\ profiles[p] # NoProfile
  /\ profiles[p].kind = "driver"
  /\ store = "rows" => RowLoads(profiles[p])

AdvanceVerification(c, p, to) ==
  /\ LoadedDriver(p)
  /\ MayVerify(profiles[p], to)
  /\ ChangeDriver(c, "verify", p, Verified(profiles[p], to))

(* setAvailability, as toggleAvailabilityAction calls it.                  *)
SetAvailability(c, p, available) ==
  /\ LoadedDriver(p)
  /\ MaySetAvailable(profiles[p], available)
  /\ ChangeDriver(c, "availability", p, [profiles[p] EXCEPT !.available = available])

(* The map keeps a new object; one that was there is already changed.      *)
StoreProfileObject(call) ==
  IF call.op = "register"
  THEN PutProfile(call.profile, call.held)
  ELSE UNCHANGED <<profiles, profileWent>>

(* The upserts: whole rows; user_id is unique for drivers and passengers.  *)
UpsertProfileRow(call) ==
  /\ ProfileRowsSaved
  /\ call.held.kind # "vehicle" =>
       ProfilesOf(call.held.kind, call.held.user) \subseteq {call.profile}
  /\ PutProfile(call.profile, call.held)

(* save; a change of availability is not audited.                          *)
SaveProfile(c) ==
  LET call == profileCalls[c] IN
  /\ call # NoCall /\ call.at = "save"
  /\ IF store = "objects" THEN StoreProfileObject(call) ELSE UpsertProfileRow(call)
  /\ IF call.op = "availability" THEN EndProfileCall(c)
     ELSE profileCalls' = [profileCalls EXCEPT ![c].at = "audit"]
  /\ UNCHANGED <<profileTrail, profileRaced>>

(* recordAudit, the last step.                                             *)
RecordProfileAudit(c) ==
  /\ profileCalls[c] # NoCall /\ profileCalls[c].at = "audit"
  /\ profileTrail' = profileTrail \cup {<<profileCalls[c].held.status, profileCalls[c].profile>>}
  /\ EndProfileCall(c)
  /\ UNCHANGED <<profiles, profileWent, profileRaced>>

(* A live repository's fail(), or the process stops.                       *)
AbandonProfileCall(c) ==
  /\ store = "rows"
  /\ profileCalls[c] # NoCall
  /\ EndProfileCall(c)
  /\ UNCHANGED <<profiles, profileTrail, profileWent, profileRaced>>

ProfileNext ==
  \E c \in Call :
    \/ \E p \in ProfileId, kind \in Kind, user \in UserId : Register(c, p, kind, user)
    \/ \E p \in ProfileId, to \in Verification : AdvanceVerification(c, p, to)
    \/ \E p \in ProfileId, available \in BOOLEAN : SetAvailability(c, p, available)
    \/ SaveProfile(c) \/ RecordProfileAudit(c) \/ AbandonProfileCall(c)

-----------------------------------------------------------------------------
(* Properties.                                                             *)

(* A driver once suspended or rejected never receives offers again, unless *)
(* rows are used and an overlapping call wrote its own copy back.          *)
SuspensionHolds ==
  \A p \in ProfileId :
    profiles[p] # NoProfile /\ profileWent[p] \cap {"SUSPENDED", "REJECTED"} # {} =>
      ~ CanReceiveOffers(profiles[p]) \/ (store = "rows" /\ p \in profileRaced)

(* Nobody serves unseen: what was stored or is on the audit trail as       *)
(* approved went through review and verification, on either store.  And a  *)
(* driver who is shown as available is an approved one at that moment,     *)
(* however availability, approval and suspension overlap; so the row of a  *)
(* driver always loads.                                                    *)
VerificationInOrder ==
  \A p \in ProfileId :
    /\ "APPROVED" \in profileWent[p] => "VERIFICATION" \in profileWent[p]
    /\ "VERIFICATION" \in profileWent[p] => "DOCUMENT_REVIEW" \in profileWent[p]
    /\ <<"APPROVED", p>> \in profileTrail => "APPROVED" \in profileWent[p]
    /\ profiles[p] # NoProfile /\ profiles[p].available => CanReceiveOffers(profiles[p])

(* A user has two driver or passenger profiles only in memory, and only if *)
(* the two registrations overlapped.                                       *)
OneProfilePerUser ==
  \A p, q \in ProfileId :
    /\ p # q /\ profiles[p] # NoProfile /\ profiles[q] # NoProfile
    /\ profiles[p].kind = profiles[q].kind /\ profiles[p].user = profiles[q].user
    /\ profiles[p].kind # "vehicle"
    => store = "objects" /\ {p, q} \subseteq profileRaced
=============================================================================

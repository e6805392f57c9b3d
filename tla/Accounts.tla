------------------------------ MODULE Accounts ------------------------------
(***************************************************************************)
(* Signing in and out, the check of a token on every request, the          *)
(* registration of drivers and the administrators' accounts.  A token      *)
(* carries the role, city and isActive its user had when it was issued and *)
(* lives half a day at most; a key revoked_token:<id> lives a whole day;   *)
(* an API process remembers the answer for a user for thirty seconds.      *)
(***************************************************************************)
EXTENDS DriverStore

CONSTANTS
    Emails,       \* of drivers
    MailOf,       \* [Admins -> email]
    MaxAttempts,  \* wrong passwords before the lock, 5 in the code
    Updates,      \* what PATCH /admin/:id may carry
    MaxRequests   \* bound: requests on accounts

(* an email is no marker of an empty row, an update names a role of the     *)
(* enum AdminRole or keeps it                                               *)
AdminRoles == {"DRIVER", "ADMIN", "DISPATCHER", "OPS_ADMIN", "CITY_ADMIN", "SUPER_ADMIN", "SYSTEM"}
ASSUME EmailsAssumption == Nobody \notin Emails /\ "deleted" \notin Emails
ASSUME AttemptsAssumption == MaxAttempts \in Nat
ASSUME UpdatesAssumption == \A update \in Updates : update.role \in AdminRoles \cup {"keep"}

VARIABLES
    admins,  \* [Admins -> row, or NoAdmin]
    otp,     \* emails with a key auth:otp:<email>
    seen,    \* revocationCache: [Users -> "none", "ok" or "revoked"]
    requests \* requests so far

accountVars == <<admins, otp, seen>>

NoAdmin == [role |-> "none"]
NewAdmin(role, city) == [role |-> role, city |-> city, isActive |-> TRUE, fails |-> 0, locked |-> FALSE]

Quiet == \A c \in Calls : calls[c] = Idle

-----------------------------------------------------------------------------
(* Tokens.                                                                  *)

Login(d, row) ==
    [sub |-> d, type |-> "driver", role |-> "DRIVER", city |-> row.city,
     isActive |-> row.isActive, age |-> 0, cut |-> FALSE]
AdminLogin(a, row) ==
    [sub |-> a, type |-> "admin", role |-> row.role, city |-> row.city,
     isActive |-> row.isActive, age |-> 0, cut |-> FALSE]

(* isTokenRevoked: the process's memory, else Redis, else (on an error) no  *)
Accepts(t) ==
    \/ seen[t.sub] = "ok" /\ NoFault /\ UNCHANGED seen
    \/ seen[t.sub] = "none" /\ revoked[t.sub] = 0 /\ NoFault /\ seen' = [seen EXCEPT ![t.sub] = "ok"]
    \/ seen[t.sub] = "none" /\ Fault /\ UNCHANGED seen
Refuse(t) ==
    /\ seen[t.sub] = "none" /\ revoked[t.sub] > 0
    /\ seen' = [seen EXCEPT ![t.sub] = "revoked"]
    /\ UNCHANGED <<storeVars, admins, otp>>
Forget(u) ==
    /\ seen[u] # "none"
    /\ seen' = [seen EXCEPT ![u] = "none"]
    /\ UNCHANGED <<storeVars, admins, otp>>

(* AuthGuard("jwt") and PolicyGuard                                         *)
Request(t, permission, driver) ==
    Accepts(t) /\ Authorize(t, permission, [driver |-> driver, city |-> NoCity])

(* half a day: no request lasts that long                                   *)
Expiry_Early(age) == 0
Expiry(age) == IF age \in {0, 3} THEN 0 ELSE age + 1
HalfDay ==
    /\ Quiet
    /\ tokens' = {[t EXCEPT !.age = 1] : t \in {u \in tokens : u.age = 0}}
    /\ revoked' = [u \in Users |-> Expiry(revoked[u])]
    /\ seen' = [u \in Users |-> "none"]
    /\ otp' = {}
    /\ UNCHANGED <<drivers, presence, calls, missed, faults, admins>>
(* a key that has lived two half days may go at any time                    *)
RevocationExpires(u) ==
    /\ revoked[u] = 3
    /\ revoked' = [revoked EXCEPT ![u] = 0]
    /\ UNCHANGED <<drivers, presence, tokens, calls, missed, faults, accountVars>>

-----------------------------------------------------------------------------
(* Drivers sign in.                                                         *)

RequestEmailOtp(e) ==
    /\ \A a \in Admins : admins[a] = NoAdmin \/ MailOf[a] # e
    /\ e \notin otp
    /\ otp' = otp \cup {e}
    /\ UNCHANGED <<storeVars, admins, seen>>
OtpExpires(e) ==
    /\ e \in otp
    /\ otp' = otp \ {e}
    /\ UNCHANGED <<storeVars, admins, seen>>

(* verifyEmailOtp with the code that was sent; it stays valid to the end    *)
VerifyEmailOtp(c, e) ==
    /\ e \in otp
    /\ Begin(c, "verify", "find", Nobody, e, Nobody, {})
    /\ UNCHANGED <<drivers, presence, revoked, tokens, missed, faults, accountVars>>
(* createDriverFromAuth: look the email up, insert if there is none (the    *)
(* insertion fails when the model has no id left)                           *)
FreeIds == {d \in Drivers : drivers[d] = NoRow}
WithEmail(e) == {d \in Drivers : drivers[d].email = e}
FindByEmail(c) ==
    /\ At(c, "find")
    /\ IF WithEmail(calls[c].arg) = {} THEN Goto(c, "create")
       ELSE \E d \in WithEmail(calls[c].arg) :
              calls' = [calls EXCEPT ![c].pc = "delOtp", ![c].id = d, ![c].row = drivers[d]]
    /\ UNCHANGED <<drivers, presence, revoked, tokens, missed, faults, accountVars>>
CreateDriverFromAuth(c) ==
    /\ At(c, "create")
    /\ \/ FreeIds = {} /\ Return(c) /\ UNCHANGED drivers
       \/ \E d \in FreeIds :
            LET row == NewDriver(calls[c].arg, FALSE, TRUE)
            IN  /\ drivers' = [drivers EXCEPT ![d] = row]
                /\ calls' = [calls EXCEPT ![c].pc = "delOtp", ![c].id = d, ![c].row = row]
    /\ UNCHANGED <<presence, revoked, tokens, missed, faults, accountVars>>
DeleteOtp(c) ==
    /\ At(c, "delOtp")
    /\ otp' = otp \ {calls[c].arg}
    /\ Goto(c, "lift")
    /\ UNCHANGED <<drivers, presence, revoked, tokens, missed, faults, admins, seen>>
(* DEL revoked_token:<id>, then a token from the entity that was loaded     *)
LiftRevocation(c) ==
    /\ At(c, "lift")
    /\ LET d == calls[c].id
       IN  /\ revoked' = [revoked EXCEPT ![d] = 0]
           /\ tokens' = {IF t.sub = d THEN [t EXCEPT !.cut = FALSE] ELSE t : t \in tokens}
                          \cup {Login(d, calls[c].row)}
    /\ Return(c)
    /\ UNCHANGED <<drivers, presence, missed, faults, accountVars>>

(* loginWithGoogle: an unknown account becomes an inactive driver           *)
LoginWithGoogle(c, e) ==
    /\ Begin(c, "google", "findSub", Nobody, e, Nobody, {})
    /\ UNCHANGED <<drivers, presence, revoked, tokens, missed, faults, accountVars>>
GoogleAccounts(e) == {d \in WithEmail(e) : drivers[d].google}
FindByGoogleSub(c) ==
    /\ At(c, "findSub")
    /\ IF GoogleAccounts(calls[c].arg) = {}
       THEN Goto(c, "createGoogle") /\ UNCHANGED tokens
       ELSE \E d \in GoogleAccounts(calls[c].arg) :
              /\ tokens' = tokens \cup (IF drivers[d].isActive THEN {Login(d, drivers[d])} ELSE {})
              /\ Return(c)
    /\ UNCHANGED <<drivers, presence, revoked, missed, faults, accountVars>>
CreateGooglePendingDriver(c) ==
    /\ At(c, "createGoogle")
    /\ \/ FreeIds = {} /\ UNCHANGED drivers
       \/ \E d \in FreeIds :
            drivers' = [drivers EXCEPT ![d] = NewDriver(calls[c].arg, TRUE, FALSE)]
    /\ Return(c)
    /\ UNCHANGED <<presence, revoked, tokens, missed, faults, accountVars>>

(* POST /auth/login, where ALLOW_LEGACY_DRIVER_ID_LOGIN is set              *)
LegacyLogin(d) ==
    /\ Exists(d) /\ drivers[d].isActive
    /\ tokens' = tokens \cup {Login(d, drivers[d])}
    /\ UNCHANGED <<drivers, presence, revoked, calls, missed, faults, accountVars>>

RefreshToken(t) ==
    /\ Accepts(t)
    /\ \/ /\ t.type = "driver" /\ Exists(t.sub)
          /\ tokens' = tokens \cup {Login(t.sub, drivers[t.sub])}
       \/ /\ t.type = "admin"
          /\ tokens' = tokens \cup {AdminLogin(t.sub, admins[t.sub])}
    /\ UNCHANGED <<drivers, presence, revoked, calls, missed, admins, otp>>

(* logout; the sign-out of an administrator changes nothing                 *)
Logout(c, t) ==
    /\ t.type = "driver" /\ Accepts(t)
    /\ Begin(c, "logout", "offline", t.sub, TRUE, Nobody, {})
    /\ UNCHANGED <<drivers, presence, revoked, tokens, missed, admins, otp>>

-----------------------------------------------------------------------------
(* Registration and the administrators' calls on drivers.                   *)

Profiles == [named : BOOLEAN, city : Cities \cup {NoCity}]
(* POST /auth/register asks for no token; PATCH /drivers/me/profile does    *)
RegisterDriver(c, e) ==
    /\ \E d \in WithEmail(e), data \in Profiles :
         Begin(c, "completeProfile", "load", d, data, Nobody, {})
    /\ UNCHANGED <<drivers, presence, revoked, tokens, missed, faults, accountVars>>
UpdateMyProfile(c, t) ==
    /\ t.type = "driver" /\ Accepts(t)
    /\ \E data \in Profiles : Begin(c, "completeProfile", "load", t.sub, data, Nobody, {})
    /\ UNCHANGED <<drivers, presence, revoked, tokens, missed, admins, otp>>

(* PATCH .../activate, deactivate, :id/status, enable, disable, approve and *)
(* reject, DELETE /drivers/:id: the permission is asked, not the city       *)
AdminCall(c, t, d) ==
    /\ \/ /\ Request(t, "ADMIN_UPDATE_DRIVER_STATUS", d)
          /\ \/ \E active \in BOOLEAN : Begin(c, "setActive", "load", d, active, t, {})
             \/ Begin(c, "enable", "peek", d, TRUE, t, {})
             \/ Begin(c, "disable", "peek", d, FALSE, t, {})
             \/ \E op \in {"approve", "reject"} : Begin(c, op, "load", d, TRUE, t, {})
       \/ /\ Request(t, "ADMIN_DELETE_DRIVER", d)
          /\ Begin(c, "remove", "delete", d, TRUE, t, {})
    /\ UNCHANGED <<drivers, presence, revoked, tokens, missed, admins, otp>>
BulkUpdate(c, t) ==
    /\ Request(t, "ADMIN_UPDATE_DRIVER_STATUS", Nobody)
    /\ \E active \in BOOLEAN : Begin(c, "bulk", "next", Nobody, active, t, Drivers)
    /\ UNCHANGED <<drivers, presence, revoked, tokens, missed, admins, otp>>
CreateDriver(t, d) ==
    /\ Request(t, "ADMIN_CREATE_DRIVER", Nobody)
    /\ d \in FreeIds
    /\ \E e \in Emails, city \in Cities \cup {NoCity} :
         drivers' = [drivers EXCEPT ![d] =
                       [NewDriver(e, FALSE, TRUE) EXCEPT !.named = TRUE, !.city = city]]
    /\ UNCHANGED <<presence, revoked, tokens, calls, missed, admins, otp>>

-----------------------------------------------------------------------------
(* Administrators.                                                          *)

AdminOps == {"adminLogin", "updateAdmin", "removeAdmin", "password"}

StartAdminLogin(c, a) ==
    /\ admins[a] # NoAdmin
    /\ \E right \in BOOLEAN : Begin(c, "adminLogin", "load", a, right, Nobody, {})
    /\ UNCHANGED <<drivers, presence, revoked, tokens, missed, faults, accountVars>>
AdminRequest(c, t, a) ==
    /\ admins[a] # NoAdmin
    /\ \/ /\ Request(t, "ADMIN_UPDATE_ADMIN", Nobody)
          /\ \E update \in Updates : Begin(c, "updateAdmin", "load", a, update, t, {})
       \/ /\ Request(t, "SUPER_ADMIN_DELETE_ADMIN", Nobody)
          /\ Begin(c, "removeAdmin", "load", a, TRUE, t, {})
       \/ /\ \/ Request(t, "SUPER_ADMIN_RESET_ADMIN_PASSWORD", Nobody)
             \/ a = t.sub /\ Request(t, "ADMIN_UPDATE_ADMIN", Nobody)
          /\ Begin(c, "password", "load", a, TRUE, t, {})
    /\ UNCHANGED <<drivers, presence, revoked, tokens, missed, admins, otp>>
(* create: the email is unique, so the second of two inserts fails          *)
CreateAdmin(t, a) ==
    /\ Request(t, "SUPER_ADMIN_CREATE_ADMIN", Nobody)
    /\ admins[a] = NoAdmin
    /\ \E city \in Cities : admins' = [admins EXCEPT ![a] = NewAdmin("ADMIN", city)]
    /\ UNCHANGED <<drivers, presence, revoked, tokens, calls, missed, otp>>

(* what update and remove refuse, from the claims of the caller             *)
UpdateRefused(row, update, by) ==
    /\ by.role # "SUPER_ADMIN"
    /\ by.city # row.city \/ update.role = "SUPER_ADMIN"
RemoveRefused(row, by) == by.role # "SUPER_ADMIN" \/ row.role = "SUPER_ADMIN"
AdminLoad(c) ==
    /\ At(c, "load") /\ calls[c].op \in AdminOps
    /\ LET row == admins[calls[c].id]
           refused == CASE calls[c].op = "adminLogin" -> ~row.isActive \/ row.locked
                        [] calls[c].op = "updateAdmin" -> UpdateRefused(row, calls[c].arg, calls[c].by)
                        [] calls[c].op = "removeAdmin" -> RemoveRefused(row, calls[c].by)
                        [] OTHER -> FALSE
       IN  IF refused THEN Return(c)
           ELSE calls' = [calls EXCEPT ![c].pc = "save", ![c].row = row]
    /\ UNCHANGED <<drivers, presence, revoked, tokens, missed, faults, accountVars>>

RecordFailedLogin(row) ==
    LET n == row.fails + 1
    IN  [row EXCEPT !.fails = IF n > MaxAttempts THEN MaxAttempts ELSE n,
                    !.locked = @ \/ n >= MaxAttempts]
(* lockedUntil becomes undefined, which save() leaves as it is in the row   *)
ResetFailedLoginAttempts(row, current) == [row EXCEPT !.fails = 0, !.locked = current.locked]
(* Object.assign, then save(): a city loaded as the relation beats a new    *)
(* cityId, so only an account without one gets a city                       *)
Updated(row, update) ==
    [row EXCEPT !.role = IF update.role = "keep" THEN @ ELSE update.role,
                !.city = IF update.city = "keep" \/ @ # NoCity THEN @ ELSE update.city,
                !.isActive = IF update.active = "keep" THEN @ ELSE update.active = "on"]

(* the claims of older tokens are stale                                     *)
NeedsInvalidation_City(row, update) ==
    (update.city # "keep" /\ update.city # row.city) \/ update.active = "off"
NeedsInvalidation(row, update) ==
    \/ update.role # "keep" /\ update.role # row.role
    \/ update.city # "keep" /\ update.city # row.city
    \/ update.active = "off"

SaveAdmin(c, row) == admins' = [admins EXCEPT ![calls[c].id] = row]
AdminSave(c) ==
    /\ At(c, "save") /\ calls[c].op \in AdminOps
    /\ LET call == calls[c]
           token == IF call.op = "adminLogin" /\ call.arg THEN {AdminLogin(call.id, call.row)} ELSE {}
       IN  /\ CASE call.op = "adminLogin" ->
                     SaveAdmin(c, IF call.arg THEN ResetFailedLoginAttempts(call.row, admins[call.id])
                                  ELSE RecordFailedLogin(call.row))
                [] call.op = "updateAdmin" -> SaveAdmin(c, Updated(call.row, call.arg))
                [] call.op = "removeAdmin" -> SaveAdmin(c, [call.row EXCEPT !.isActive = FALSE])
                [] OTHER -> SaveAdmin(c, call.row)
           /\ tokens' = tokens \cup token
           /\ IF call.op = "updateAdmin" /\ NeedsInvalidation(call.row, call.arg)
              THEN Goto(c, "revoke") ELSE Return(c)
    /\ UNCHANGED <<drivers, presence, revoked, missed, faults, otp, seen>>
LockExpires(a) ==
    /\ admins[a] # NoAdmin /\ admins[a].locked
    /\ admins' = [admins EXCEPT ![a].locked = FALSE]
    /\ UNCHANGED <<storeVars, otp, seen>>

-----------------------------------------------------------------------------
AccountStep(c) ==
    \/ StoreStep(c) /\ UNCHANGED accountVars
    \/ FindByEmail(c) \/ CreateDriverFromAuth(c) \/ DeleteOtp(c) \/ LiftRevocation(c)
    \/ FindByGoogleSub(c) \/ CreateGooglePendingDriver(c)
    \/ AdminLoad(c) \/ AdminSave(c)

(* the process dies with the calls it was serving                           *)
Crash ==
    /\ Fault
    /\ calls' = [c \in Calls |-> Idle]
    /\ missed' = missed \cup {calls[c].id : c \in {b \in Calls : At(b, "revoke")}}
    /\ seen' = [u \in Users |-> "none"]
    /\ UNCHANGED <<drivers, presence, revoked, tokens, admins, otp>>

Clocks ==
    \/ \E u \in Users : Forget(u) \/ RevocationExpires(u)
    \/ \E t \in tokens : Refuse(t)
    \/ \E e \in Emails : OtpExpires(e)
    \/ \E a \in Admins : LockExpires(a)

DriverRequest ==
    \/ \E c \in Calls :
         \/ \E e \in Emails : VerifyEmailOtp(c, e) \/ LoginWithGoogle(c, e) \/ RegisterDriver(c, e)
         \/ \E t \in tokens :
              \/ Logout(c, t) \/ UpdateMyProfile(c, t)
              \/ t.type = "admin" /\ (BulkUpdate(c, t) \/ \E d \in Drivers : AdminCall(c, t, d))
    \/ \E e \in Emails : RequestEmailOtp(e)
    \/ \E d \in Drivers : LegacyLogin(d)
    \/ \E t \in tokens : RefreshToken(t) \/ \E d \in Drivers : CreateDriver(t, d)

AdministratorRequest ==
    \/ \E c \in Calls, a \in Admins :
         StartAdminLogin(c, a) \/ \E t \in tokens : AdminRequest(c, t, a)
    \/ \E t \in tokens : RefreshToken(t) \/ \E a \in Admins : CreateAdmin(t, a)

Ask == requests < MaxRequests /\ requests' = requests + 1

-----------------------------------------------------------------------------
(* A driver whose row says APPROVED has a complete profile and was approved *)
(* by an administrator, however the whole-entity saves of registration,     *)
(* approval, (de)activation and deletion overlap                            *)
(* (driver-registration.service.ts:138, 84).                                *)
ApprovedIsComplete ==
    \A d \in Drivers :
        Exists(d) /\ drivers[d].registrationStatus = "APPROVED" =>
            IsProfileComplete(drivers[d]) /\ drivers[d].approvedBy # Nobody

(* A token that was revoked by a disable, a sign-out or a change of role is *)
(* revoked until it has expired by itself or its user has signed in again   *)
(* by email: the key outlives the token ("Force invalidation in Redis for   *)
(* 24 hours (or your JWT TTL)", drivers.service.ts:145).                    *)
RevocationOutlivesTokens == \A t \in tokens : t.cut => revoked[t.sub] > 0

(* A token of an administrator that is not revoked carries the role and the *)
(* city of the account, but for the moment between the save and the         *)
(* revocation and for a revocation Redis did not take ("If role or city     *)
(* changes, the old JWT claims are dangerous/stale", admin.service.ts:252). *)
Revoking(a) == \E c \in Calls : At(c, "revoke") /\ calls[c].id = a
AdminClaimsCurrent ==
    \A t \in tokens :
        t.type = "admin" /\ revoked[t.sub] = 0 /\ ~Revoking(t.sub) /\ t.sub \notin missed =>
            t.role = admins[t.sub].role /\ t.city = admins[t.sub].city
=============================================================================

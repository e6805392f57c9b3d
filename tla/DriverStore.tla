---------------------------- MODULE DriverStore ----------------------------
(***************************************************************************)
(* The drivers table, the driver keys of Redis and the calls of            *)
(* DriversService, DriverRegistrationService and DriverAdminApplication-   *)
(* Service that write them.  A call loads an entity, changes it in memory  *)
(* and saves all of it, with other calls in between; the Redis writes      *)
(* follow the save and may fail.  save() of an entity whose row is gone    *)
(* inserts it again; save() itself is one step of the database.            *)
(***************************************************************************)
EXTENDS Authorization, FiniteSets

CONSTANTS
    Drivers,     \* ids of rows of the table drivers
    Admins,      \* ids of rows of the table admin_users
    Cities,
    Calls,       \* bound: requests and jobs in progress
    GeoLimit,    \* drivers a search returns at most, 50 in the code
    MaxFaults    \* bound: Redis errors, crashes and lost connections

(* both are uuids of their tables                                          *)
ASSUME IdsAssumption == Drivers \cap Admins = {} /\ Nobody \notin Drivers \cup Admins

Users == Drivers \cup Admins

VARIABLES
    drivers,   \* [Drivers -> row, NoRow before it and Deleted after it]
    presence,  \* Redis: drivers:geo, drivers:status and the keys driver:online:*
    revoked,   \* [Users -> age of revoked_token:<id> in half days, 0 when there is none]
    tokens,    \* the JWTs in circulation
    calls,     \* [Calls -> call, or Idle]
    missed,    \* history: users whose revocation was not written
    faults     \* faults so far

storeVars == <<drivers, presence, revoked, tokens, calls, missed, faults>>

NoRow == [email |-> Nobody]
Deleted == [email |-> "deleted"]
Exists(d) == drivers[d] \notin {NoRow, Deleted}
Idle == [op |-> "idle"]
Statuses == {"AVAILABLE", "BUSY", "OFFLINE"}

(* a new row with the defaults of the entity: `named' is a name and a phone *)
NewDriver(email, google, active) ==
    [email |-> email, google |-> google, named |-> FALSE, city |-> NoCity, isActive |-> active,
     registrationStatus |-> "PROFILE_INCOMPLETE", approvedBy |-> Nobody,
     status |-> "AVAILABLE", located |-> FALSE]

Fault == faults < MaxFaults /\ faults' = faults + 1
NoFault == faults' = faults

-----------------------------------------------------------------------------
(* RedisService.                                                            *)

UpdateDriverLocation(d) ==
    [presence EXCEPT !.geo = @ \cup {d}, !.status[d] = "AVAILABLE", !.online = @ \cup {d}]
Unlisted(d, status) ==
    [presence EXCEPT !.geo = @ \ {d}, !.status[d] = status, !.online = @ \ {d}]
MarkDriverBusy(d) == Unlisted(d, "BUSY")
MarkDriverOffline(d) == Unlisted(d, "OFFLINE")

(* safeExecute: a failing pipeline is retried, then skipped without an error *)
SafeExecute(p) == (presence' = p /\ NoFault) \/ (Fault /\ UNCHANGED presence)

(* the first GeoLimit of S in the order of a rank: a distance from the      *)
(* pickup, or the time of the last activity                                 *)
First(S, rank) == {d \in S : Cardinality({e \in S : rank[e] < rank[d]}) < GeoLimit}

(* GEOSEARCH ... COUNT counts the drivers of drivers:geo; status and online *)
(* are asked about those it returned only                                   *)
FindAvailableDrivers(rank) ==
    {d \in First(presence.geo, rank) \cap presence.online : presence.status[d] = "AVAILABLE"}

(* SET revoked_token:<id> EX 86400                                          *)
Revoke(u) ==
    /\ revoked' = [revoked EXCEPT ![u] = 1]
    /\ tokens' = {IF t.sub = u THEN [t EXCEPT !.cut = TRUE] ELSE t : t \in tokens}
    /\ missed' = missed \ {u}
    /\ NoFault
RevokeFails(u) ==
    /\ Fault
    /\ missed' = missed \cup {u}
    /\ UNCHANGED <<revoked, tokens>>

-----------------------------------------------------------------------------
(* What dispatch sees.                                                      *)

Fit(d) ==
    /\ Exists(d)
    /\ drivers[d].isActive
    /\ drivers[d].status = "AVAILABLE"
    /\ drivers[d].registrationStatus = "APPROVED"

FindAvailableFromDb(rank) == First({d \in Drivers : Fit(d) /\ drivers[d].located}, rank)
(* findAvailable around a pickup that every driver is near, by what Redis   *)
(* does: answer; skip the search (safeExecute's null, an empty result); or  *)
(* skip the pipeline after the search, whose null answer throws             *)
FindAvailable(redis, rank) ==
    CASE redis = "throws" -> First({d \in Drivers : Fit(d)}, rank)
      [] redis = "skips" -> FindAvailableFromDb(rank)
      [] redis = "answers" -> IF FindAvailableDrivers(rank) = {} THEN FindAvailableFromDb(rank)
                              ELSE {d \in FindAvailableDrivers(rank) : Fit(d)}

-----------------------------------------------------------------------------
(* The changes a call makes to the entity it loaded.                        *)

SetActive(row, active) == [row EXCEPT !.isActive = active]
UpdateLocation(row) == [row EXCEPT !.located = TRUE]
UpdateStatus(row, status) == [row EXCEPT !.status = status]

IsProfileComplete(row) == row.named /\ row.city # NoCity
(* completeProfile with the fields of the request; a complete profile goes  *)
(* back to the administrators whatever its registration status was          *)
CompleteProfile(row, data) ==
    LET filled == [row EXCEPT !.named = @ \/ data.named,
                              !.city = IF data.city = NoCity THEN @ ELSE data.city]
    IN  IF IsProfileComplete(filled)
        THEN [filled EXCEPT !.registrationStatus = "PENDING_APPROVAL"]
        ELSE filled

ApproveDriver(row, admin) ==
    [row EXCEPT !.registrationStatus = "APPROVED", !.isActive = TRUE, !.approvedBy = admin]
RejectDriver(row) == [row EXCEPT !.registrationStatus = "REJECTED"]

Toggles == {"setActive", "enable", "disable", "bulk"}
StatusOps == {"updateStatus", "sweep"}
Changed(call) ==
    CASE call.op \in Toggles -> SetActive(call.row, call.arg)
      [] call.op = "updateLocation" -> UpdateLocation(call.row)
      [] call.op \in StatusOps -> UpdateStatus(call.row, call.arg)
      [] call.op = "completeProfile" -> CompleteProfile(call.row, call.arg)
      [] call.op = "approve" -> ApproveDriver(call.row, call.by.sub)
      [] call.op = "reject" -> RejectDriver(call.row)

-----------------------------------------------------------------------------
(* The steps of a call.                                                     *)

DriverOps == Toggles \cup StatusOps \cup {"updateLocation", "completeProfile", "approve", "reject"}

Begin(c, op, pc, id, arg, by, todo) ==
    /\ calls[c] = Idle
    /\ calls' = [calls EXCEPT ![c] = [op |-> op, pc |-> pc, id |-> id, row |-> NoRow,
                                      arg |-> arg, by |-> by, todo |-> todo]]
At(c, pc) == calls[c] # Idle /\ calls[c].pc = pc
Goto(c, pc) == calls' = [calls EXCEPT ![c].pc = pc]
(* the call returns or throws; a bulk update goes on with its next driver   *)
Return(c) == calls' = [calls EXCEPT ![c] = IF @.todo = {} THEN Idle ELSE [@ EXCEPT !.pc = "next"]]

SameCity(by, row) == by.role = "SUPER_ADMIN" \/ by.city = row.city

(* bulkUpdateDriverStatus: an iteration looks at the driver first           *)
BulkNext(c) ==
    /\ At(c, "next")
    /\ \E d \in calls[c].todo :
         LET call == [calls[c] EXCEPT !.id = d, !.todo = @ \ {d}, !.pc = "load"]
             proceeds == /\ Exists(d)
                         /\ drivers[d].isActive # call.arg
                         /\ SameCity(call.by, drivers[d])
         IN  calls' = [calls EXCEPT ![c] = IF proceeds THEN call
                                           ELSE IF call.todo = {} THEN Idle
                                           ELSE [call EXCEPT !.pc = "next"]]
    /\ UNCHANGED <<drivers, presence, revoked, tokens, missed, faults>>

(* enableDriver and disableDriver: nothing to do when it is so already      *)
Peek(c) ==
    /\ At(c, "peek")
    /\ LET row == drivers[calls[c].id]
       IN  IF ~Exists(calls[c].id) \/ row.isActive = calls[c].arg THEN Return(c) ELSE Goto(c, "load")
    /\ UNCHANGED <<drivers, presence, revoked, tokens, missed, faults>>

(* findOne or findById, and what the operation checks on the row            *)
MayApprove_Unchecked(row) == TRUE
MayApprove(row) == row.registrationStatus = "PENDING_APPROVAL"
Load(c) ==
    /\ At(c, "load") /\ calls[c].op \in DriverOps
    /\ LET row == drivers[calls[c].id]
           refused == \/ ~Exists(calls[c].id)
                      \/ calls[c].op \in {"approve", "reject"} /\ ~MayApprove(row)
                      \/ calls[c].op = "bulk" /\ ~SameCity(calls[c].by, row)
       IN  IF refused THEN Return(c)
           ELSE calls' = [calls EXCEPT ![c].pc = "save", ![c].row = row]
    /\ UNCHANGED <<drivers, presence, revoked, tokens, missed, faults>>

Save(c) ==
    /\ At(c, "save") /\ calls[c].op \in DriverOps
    /\ drivers' = [drivers EXCEPT ![calls[c].id] = Changed(calls[c])]
    /\ IF calls[c].op \in Toggles /\ ~calls[c].arg THEN Goto(c, "offline")
       ELSE IF calls[c].op \in StatusOps \cup {"updateLocation"}
            THEN calls' = [calls EXCEPT ![c].pc = "publish", ![c].row = Changed(calls[c])]
       ELSE Return(c)
    /\ UNCHANGED <<presence, revoked, tokens, missed, faults>>

(* updateStatus and updateLocation tell Redis what they saved               *)
Published(row, d, op) ==
    CASE row.status = "AVAILABLE" /\ row.located -> UpdateDriverLocation(d)
      [] row.status = "BUSY" /\ op \in StatusOps -> MarkDriverBusy(d)
      [] row.status = "OFFLINE" /\ op \in StatusOps -> MarkDriverOffline(d)
      [] OTHER -> presence
Publish(c) ==
    /\ At(c, "publish")
    /\ SafeExecute(Published(calls[c].row, calls[c].id, calls[c].op))
    /\ IF calls[c].op = "sweep" THEN Goto(c, "delKey") ELSE Return(c)
    /\ UNCHANGED <<drivers, revoked, tokens, missed>>

(* the end of a disable, a removal and a sign-out                           *)
Offline(c) ==
    /\ At(c, "offline")
    /\ SafeExecute(MarkDriverOffline(calls[c].id))
    /\ IF calls[c].op = "remove" THEN Return(c) ELSE Goto(c, "revoke")
    /\ UNCHANGED <<drivers, revoked, tokens, missed>>
RevokeToken(c) ==
    /\ At(c, "revoke")
    /\ Revoke(calls[c].id) \/ RevokeFails(calls[c].id)
    /\ IF calls[c].op = "disable" THEN Goto(c, "again") ELSE Return(c)
    /\ UNCHANGED <<drivers, presence>>
(* disableDriver writes the key a second time                               *)
RevokeAgain(c) ==
    /\ At(c, "again")
    /\ Revoke(calls[c].id) \/ RevokeFails(calls[c].id)
    /\ Return(c)
    /\ UNCHANGED <<drivers, presence>>

(* remove: the DELETE, then Redis; no token is revoked                      *)
Remove(c) ==
    /\ At(c, "delete")
    /\ IF Exists(calls[c].id)
       THEN Goto(c, "offline") /\ drivers' = [drivers EXCEPT ![calls[c].id] = Deleted]
       ELSE Return(c) /\ UNCHANGED drivers
    /\ UNCHANGED <<presence, revoked, tokens, missed, faults>>

OnlineExpires(d) ==
    /\ d \in presence.online
    /\ presence' = [presence EXCEPT !.online = @ \ {d}]
    /\ UNCHANGED <<drivers, revoked, tokens, calls, missed, faults>>

StoreStep(c) ==
    \/ BulkNext(c) \/ Peek(c) \/ Load(c) \/ Save(c) \/ Publish(c)
    \/ Offline(c) \/ RevokeToken(c) \/ RevokeAgain(c) \/ Remove(c)
=============================================================================

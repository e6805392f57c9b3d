--------------------------- MODULE DriverSessions ---------------------------
(***************************************************************************)
(* The WebSocket gateway: a driver's socket, the duplicate-session and     *)
(* connection-rate tables of the process, the messages of the phone, and   *)
(* the presence keys of Redis with the job that looks at them.  A gateway  *)
(* of a namespace has no server.sockets.sockets, so a connection that      *)
(* finds a tracked session throws and is closed itself, and the job sees   *)
(* no connected driver.                                                    *)
(***************************************************************************)
EXTENDS Accounts

CONSTANTS
    Phones,       \* drivers that use the app
    MaxConnects   \* connection attempts a minute, 30 in the code

ASSUME PhonesAssumption == Phones \subseteq Drivers

VARIABLES
    socket,    \* [Phones -> "none", "open", or "half": the phone has lost it, the server has not noticed]
    tracked,   \* drivers with a session in driverSessions
    jwt,       \* [Phones -> half days the token of its socket has lived; at 2 it has expired]
    attempts,  \* [Phones -> connectionAttempts of the last minute]
    ttlKey,    \* [Phones -> driver:presence:ttl:<id>: "absent", "alive" or "last" (in its last second)]
    sweep      \* keys the running processExpiredPresence has yet to look at

sessionVars == <<socket, tracked, jwt, attempts, ttlKey, sweep>>

-----------------------------------------------------------------------------
(* Connections.                                                             *)

(* handleConnection verifies the JWT and asks nobody whether it is revoked  *)
HandleConnection(d) ==
    /\ socket[d] # "open"
    /\ attempts[d] < MaxConnects
    /\ attempts' = [attempts EXCEPT ![d] = @ + 1]
    /\ \E t \in tokens :
         /\ t.sub = d
         /\ IF d \in tracked THEN UNCHANGED <<socket, tracked, jwt>>
            ELSE /\ socket' = [socket EXCEPT ![d] = "open"] /\ tracked' = tracked \cup {d}
                 /\ jwt' = [jwt EXCEPT ![d] = t.age]
    /\ UNCHANGED <<storeVars, accountVars, ttlKey, sweep>>
AttemptAges(d) ==
    /\ attempts[d] > 0
    /\ attempts' = [attempts EXCEPT ![d] = @ - 1]
    /\ UNCHANGED <<storeVars, accountVars, socket, tracked, jwt, ttlKey, sweep>>

PhoneLost(d) ==
    /\ socket[d] = "open"
    /\ socket' = [socket EXCEPT ![d] = "half"]
    /\ UNCHANGED <<storeVars, accountVars, tracked, jwt, attempts, ttlKey, sweep>>

(* the phone closes its socket, or the ping timeout finds it lost: the      *)
(* session is forgotten and the presence key is set; without Redis the      *)
(* driver is OFFLINE at once                                                *)
Untrack_Kept(d) == tracked
Untrack(d) == tracked \ {d}
HandleDisconnect(d) ==
    /\ socket' = [socket EXCEPT ![d] = "none"]
    /\ tracked' = Untrack(d)
    /\ \/ ttlKey' = [ttlKey EXCEPT ![d] = "alive"] /\ UNCHANGED <<calls, faults>>
       \/ \E c \in Calls : Fault /\ Begin(c, "updateStatus", "load", d, "OFFLINE", Nobody, {}) /\ UNCHANGED ttlKey
    /\ UNCHANGED <<drivers, presence, revoked, tokens, missed, accountVars, jwt, attempts, sweep>>
PhoneCloses(d) == socket[d] = "open" /\ HandleDisconnect(d)
PingTimeout(d) == socket[d] = "half" /\ HandleDisconnect(d)

-----------------------------------------------------------------------------
(* Messages of the phone and the requests that say the same.                *)

(* WebSocketJwtGuard verifies the token of the handshake at every message;  *)
(* one refused leaves the socket open                                       *)
CanActivate(d) == socket[d] = "open" /\ jwt[d] < 2

(* no look at the status of the driver: it is AVAILABLE in Redis            *)
HandleLocation(d) ==
    /\ CanActivate(d)
    /\ SafeExecute(UpdateDriverLocation(d))
    /\ UNCHANGED <<drivers, revoked, tokens, calls, missed, accountVars, sessionVars>>
HandleHeartbeat(d) ==
    /\ CanActivate(d)
    /\ \/ presence' = [presence EXCEPT !.online = @ \cup {d}] /\ NoFault
       \/ Fault /\ UNCHANGED presence
    /\ UNCHANGED <<drivers, revoked, tokens, calls, missed, accountVars, sessionVars>>
HandleStatus(c, d, status) ==
    /\ CanActivate(d)
    /\ Begin(c, "updateStatus", "load", d, status, Nobody, {})
    /\ UNCHANGED <<drivers, presence, revoked, tokens, missed, faults, accountVars, sessionVars>>
PatchLocation(c, t) ==
    /\ t.type = "driver" /\ Request(t, "DRIVER_UPDATE_OWN_LOCATION", t.sub)
    /\ Begin(c, "updateLocation", "load", t.sub, TRUE, Nobody, {})
    /\ UNCHANGED <<drivers, presence, revoked, tokens, missed, admins, otp, sessionVars>>
PatchStatus(c, t, status) ==
    /\ t.type = "driver" /\ Request(t, "DRIVER_UPDATE_DELIVERY_STATUS", t.sub)
    /\ Begin(c, "updateStatus", "load", t.sub, status, Nobody, {})
    /\ UNCHANGED <<drivers, presence, revoked, tokens, missed, admins, otp, sessionVars>>

-----------------------------------------------------------------------------
(* processExpiredPresence: SCAN, then key by key.  TTL answers 0 in the     *)
(* last second of a key and -2 when it is gone.                             *)

TtlPasses(d) ==
    /\ ttlKey[d] # "absent"
    /\ ttlKey' = [ttlKey EXCEPT ![d] = IF @ = "alive" THEN "last" ELSE "absent"]
    /\ UNCHANGED <<storeVars, accountVars, socket, tracked, jwt, attempts, sweep>>
Scan ==
    /\ sweep = {} /\ \A c \in Calls : calls[c].op # "sweep"
    /\ sweep' = {d \in Phones : ttlKey[d] # "absent"}
    /\ UNCHANGED <<storeVars, accountVars, socket, tracked, jwt, attempts, ttlKey>>
CheckTtl(d) ==
    /\ d \in sweep /\ \A c \in Calls : calls[c].op # "sweep"
    /\ sweep' = sweep \ {d}
    /\ IF ttlKey[d] = "alive" THEN UNCHANGED calls
       ELSE \E c \in Calls : Begin(c, "sweep", "load", d, "OFFLINE", Nobody, {})
    /\ UNCHANGED <<drivers, presence, revoked, tokens, missed, faults, accountVars, socket, tracked, jwt, attempts, ttlKey>>
DeleteTtlKey(c) ==
    /\ At(c, "delKey")
    /\ ttlKey' = [ttlKey EXCEPT ![calls[c].id] = "absent"]
    /\ Return(c)
    /\ UNCHANGED <<drivers, presence, revoked, tokens, missed, faults, accountVars, socket, tracked, jwt, attempts, sweep>>

(* the memory of the process goes with its sockets                          *)
ProcessDies ==
    /\ Crash
    /\ socket' = [d \in Phones |-> "none"] /\ tracked' = {}
    /\ attempts' = [d \in Phones |-> 0] /\ sweep' = {}
    /\ UNCHANGED <<jwt, ttlKey>>

HalfDayPasses ==
    /\ HalfDay
    /\ jwt' = [d \in Phones |-> IF jwt[d] < 2 THEN jwt[d] + 1 ELSE 2]
    /\ UNCHANGED <<socket, tracked, attempts, ttlKey, sweep>>

-----------------------------------------------------------------------------
(* a person, or the network, does something (bounded by MaxRequests)        *)
SessionRequest ==
    \/ \E d \in Phones : PhoneCloses(d) \/ PhoneLost(d)
    \/ \E c \in Calls :
        \/ \E d \in Phones, status \in Statuses : HandleStatus(c, d, status)
        \/ \E t \in tokens : PatchLocation(c, t) \/ \E status \in Statuses : PatchStatus(c, t, status)
SessionStep ==
    \/ \E d \in Phones :
         \/ HandleConnection(d) \/ AttemptAges(d) \/ PingTimeout(d)
         \/ HandleLocation(d) \/ HandleHeartbeat(d) \/ TtlPasses(d) \/ CheckTtl(d)
    \/ \E d \in Drivers : OnlineExpires(d) /\ UNCHANGED <<accountVars, sessionVars>>
    \/ Scan \/ ProcessDies
    \/ \E c \in Calls : DeleteTtlKey(c) \/ (StoreStep(c) /\ UNCHANGED <<accountVars, sessionVars>>)
-----------------------------------------------------------------------------
(* a process that has just started, with no revocation in Redis             *)
Started ==
    /\ revoked = [u \in Users |-> 0] /\ calls = [c \in Calls |-> Idle]
    /\ missed = {} /\ faults = 0 /\ requests = 0
    /\ otp = {} /\ seen = [u \in Users |-> "none"]
    /\ socket = [d \in Phones |-> "none"] /\ tracked = {} /\ jwt = [d \in Phones |-> 2]
    /\ attempts = [d \in Phones |-> 0]
    /\ ttlKey = [d \in Phones |-> "absent"] /\ sweep = {}

(* the accounts that init-superadmin and the seed of a city leave           *)
SeededAdmins == {NewAdmin("SUPER_ADMIN", NoCity)} \cup {NewAdmin("ADMIN", city) : city \in Cities}
SystemInit ==
    /\ Started
    /\ admins \in [Admins -> {NoAdmin} \cup SeededAdmins]
    /\ drivers = [d \in Drivers |-> NoRow]
    /\ tokens = {}
    /\ presence = [geo |-> {}, online |-> {}, status |-> [d \in Drivers |-> "OFFLINE"]]

(* accounts and sessions together                                           *)
AccountRequest == Ask /\ (DriverRequest \/ AdministratorRequest)
AccountNext ==
    \/ UNCHANGED sessionVars /\ AccountRequest
    \/ UNCHANGED <<sessionVars, requests>> /\ (Clocks \/ \E c \in Calls : AccountStep(c))
    \/ HalfDayPasses /\ UNCHANGED requests
SessionNext == (Ask /\ SessionRequest) \/ (SessionStep /\ UNCHANGED requests)
systemVars == <<storeVars, accountVars, sessionVars, requests>>
SystemSpec == SystemInit /\ [][AccountNext \/ SessionNext]_systemVars
=============================================================================

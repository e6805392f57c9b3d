-------------------------- MODULE MCDriverSessions --------------------------
(***************************************************************************)
(* One of three stories, chosen at the start: the accounts of drivers, the *)
(* accounts of administrators, or the sessions of a registered driver; the *)
(* other two stand still.                                                  *)
(***************************************************************************)
EXTENDS DriverSessions, TLC

CONSTANTS a1, a2, d1, d2, SessionRequests

VARIABLE focus

vars == <<storeVars, accountVars, sessionVars, requests, focus>>

MCMailOf == [a \in Admins |-> a]
Keep == [role |-> "keep", city |-> "keep", active |-> "keep"]
MCUpdates == {[Keep EXCEPT !.role = "SUPER_ADMIN"], [Keep EXCEPT !.role = "ADMIN"],
              [Keep EXCEPT !.city = "c2"], [Keep EXCEPT !.active = "off"], [Keep EXCEPT !.active = "on"]}

Super == NewAdmin("SUPER_ADMIN", NoCity)
OnlySuper == (a1 :> Super) @@ (a2 :> NoAdmin)
Working(e) ==
    [NewDriver(e, FALSE, TRUE) EXCEPT !.named = TRUE, !.city = "c1",
                                      !.registrationStatus = "APPROVED", !.approvedBy = a1]

Init ==
    /\ Started
    /\ focus \in {"drivers", "admins", "sessions"}
    /\ admins \in IF focus = "admins" THEN {OnlySuper, [OnlySuper EXCEPT ![a2] = NewAdmin("ADMIN", "c1")]}
                  ELSE {OnlySuper}
    /\ IF focus = "sessions"
       THEN /\ drivers = (d1 :> Working("rider")) @@ (d2 :> Working("other"))
            /\ tokens = {[Login(d1, drivers[d1]) EXCEPT !.age = 1]}
            /\ presence = [geo |-> {d2}, online |-> {d2}, status |-> [d \in Drivers |-> "AVAILABLE"]]
       ELSE /\ drivers = [d \in Drivers |-> NoRow]
            /\ tokens = IF focus = "drivers" THEN {AdminLogin(a1, Super)} ELSE {}
            /\ presence = [geo |-> {}, online |-> {}, status |-> [d \in Drivers |-> "OFFLINE"]]

AccountFocus ==
    /\ focus # "sessions" /\ UNCHANGED sessionVars
    /\ \/ focus = "drivers" /\ Ask /\ DriverRequest
       \/ focus = "admins" /\ Ask /\ AdministratorRequest
       \/ (Clocks \/ HalfDayPasses \/ ProcessDies \/ \E c \in Calls : AccountStep(c)) /\ UNCHANGED requests
SignsInAgain == \E d \in Phones : LegacyLogin(d) /\ UNCHANGED sessionVars
SessionFocus ==
    /\ focus = "sessions"
    /\ \/ Ask /\ requests < SessionRequests /\ (SessionRequest \/ HalfDayPasses)
       \/ (SessionStep \/ SignsInAgain) /\ UNCHANGED requests

Next == UNCHANGED focus /\ (AccountFocus \/ SessionFocus)

(* the phone keeps trying, signing in and reporting; socket.io finds a lost socket; a   *)
(* minute ends                                                              *)
Stay == focus = "sessions" /\ UNCHANGED <<requests, focus>>
Fairness ==
    \A d \in Phones :
        /\ WF_vars(LegacyLogin(d) /\ UNCHANGED sessionVars /\ Stay)
        /\ WF_vars(HandleConnection(d) /\ Stay)
        /\ WF_vars(HandleLocation(d) /\ Stay)
        /\ WF_vars(PingTimeout(d) /\ Stay)
        /\ WF_vars(AttemptAges(d) /\ Stay)
Spec == Init /\ [][Next]_vars /\ Fairness

(***************************************************************************)
(* A driver that may work is found by dispatch, again and again, while its *)
(* phone reconnects and reports its position: whatever became of its       *)
(* socket, of the keys of Redis and of the calls that wrote them, two      *)
(* things only keep it out of an answer of Redis for good: as many nearer  *)
(* entries of drivers:geo as a search returns, and an open socket whose    *)
(* token has expired (websocket.gateway.ts:140, redis.service.ts:169,      *)
(* websocket.guard.ts:17).                                                 *)
(***************************************************************************)
Ranks == {rank \in [Drivers -> 1 .. Cardinality(Drivers)] : \A d, e \in Drivers : rank[d] = rank[e] => d = e}
Crowded(d, rank) == Cardinality({e \in presence.geo : rank[e] < rank[d]}) >= GeoLimit
MessagesRefused(d) == socket[d] = "open" /\ ~CanActivate(d)
FitIsFound ==
    \A d \in Phones, rank \in Ranks :
        focus = "sessions" /\ Fit(d)
            ~> \/ ~Fit(d) \/ Crowded(d, rank) \/ MessagesRefused(d)
               \/ d \in FindAvailable("answers", rank)
=============================================================================

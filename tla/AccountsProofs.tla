--------------------------- MODULE AccountsProofs ---------------------------
(***************************************************************************)
(* Proofs about accounts, tokens and sessions together, for every number   *)
(* of drivers, administrators, calls, requests and faults.                 *)
(***************************************************************************)
EXTENDS DriverSessions, TLAPS

USE IdsAssumption, EmailsAssumption, AttemptsAssumption, UpdatesAssumption, PhonesAssumption

-----------------------------------------------------------------------------
(* What a row, a token and a call may be.                                   *)

CityNames == Cities \cup {NoCity} \cup {update.city : update \in Updates}

(* A row awaits approval only with a complete profile, and is approved only *)
(* with one and by somebody.                                                *)
Earned(row) ==
    /\ row.registrationStatus \in {"PENDING_APPROVAL", "APPROVED"} => IsProfileComplete(row)
    /\ row.registrationStatus = "APPROVED" => row.approvedBy # Nobody
DriverFields ==
    [email : Emails, google : BOOLEAN, named : BOOLEAN, city : Cities \cup {NoCity},
     isActive : BOOLEAN,
     registrationStatus : {"PROFILE_INCOMPLETE", "PENDING_APPROVAL", "APPROVED", "REJECTED"},
     approvedBy : Users \cup {Nobody}, status : Statuses, located : BOOLEAN]
DriverRows == {row \in DriverFields : Earned(row)}

AdminRows ==
    [role : AdminRoles, city : CityNames, isActive : BOOLEAN, fails : Nat, locked : BOOLEAN]

Claims ==
    [sub : Users, type : {"driver", "admin"}, role : AdminRoles, city : CityNames,
     isActive : BOOLEAN, age : {0, 1}, cut : BOOLEAN]
Tokens == {t \in Claims : t.sub \in IF t.type = "driver" THEN Drivers ELSE Admins}

Ops == DriverOps \cup AdminOps \cup {"verify", "google", "logout", "remove"}
Nameless == {"next", "find", "create", "findSub", "createGoogle"}
Pcs == Nameless \cup {"peek", "load", "save", "publish", "delKey", "offline", "revoke", "again",
                      "delete", "delOtp", "lift"}
CallFields ==
    [op : Ops, pc : Pcs, id : Users \cup {Nobody}, row : DriverRows \cup AdminRows \cup {NoRow},
     arg : BOOLEAN \cup Statuses \cup Emails \cup Profiles \cup Updates,
     by : Tokens \cup {Nobody}, todo : SUBSET Drivers]

(* Where a call is says what it is and whose row it has in hand.            *)
Fits(op, pc) ==
    /\ pc \in {"find", "create", "delOtp", "lift"} => op = "verify"
    /\ pc \in {"findSub", "createGoogle"} => op = "google"
CallOK(k) ==
    /\ Fits(k.op, k.pc)
    /\ k.op # "bulk" => k.todo = {}
    /\ k.op \in AdminOps => k.id \in Admins /\ k.pc \in {"load", "save", "revoke"}
    /\ k.op \notin AdminOps /\ k.pc \notin Nameless => k.id \in Drivers
    /\ k.op \in AdminOps /\ k.pc = "save" => k.row \in AdminRows
    /\ k.op \in DriverOps /\ k.pc = "save" => k.row \in DriverRows
    /\ k.pc \in {"delOtp", "lift"} => k.row \in DriverRows
    /\ k.op \in {"verify", "google"} => k.arg \in Emails
    /\ k.op \in Toggles \cup {"adminLogin"} => k.arg \in BOOLEAN
    /\ k.op \in StatusOps => k.arg \in Statuses
    /\ k.op = "completeProfile" => k.arg \in Profiles
    /\ k.op = "updateAdmin" => k.arg \in Updates
    /\ k.op = "approve" => k.by \in Tokens
    /\ k.op = "approve" /\ k.pc = "save" => k.row.registrationStatus = "PENDING_APPROVAL"
GoodCalls == {k \in CallFields : CallOK(k)}

StoreInv ==
    /\ drivers \in [Drivers -> {NoRow, Deleted} \cup DriverRows]
    /\ admins \in [Admins -> {NoAdmin} \cup AdminRows]
    /\ tokens \subseteq Tokens
    /\ revoked \in [Users -> 0 .. 3]
    /\ calls \in [Calls -> {Idle} \cup GoodCalls]

-----------------------------------------------------------------------------
(* A cut token that can still expire twice has a key that can as well.      *)
CutInv ==
    \A t \in tokens : t.cut =>
        /\ revoked[t.sub] \in {1, 2}
        /\ t.age = 0 => revoked[t.sub] = 1

(* An administrator that is named anywhere has an account.                  *)
AdminInv ==
    /\ \A t \in tokens : t.type = "admin" => admins[t.sub] # NoAdmin
    /\ \A c \in Calls : calls[c] # Idle /\ calls[c].op \in AdminOps => admins[calls[c].id] # NoAdmin

(* Nothing stale is left of an account once its key is older than half a    *)
(* day: the rows the calls have in hand and the tokens say what the account *)
(* says.  Younger keys outlive what is stale.                               *)
SameClaims(x, row) == x.role = row.role /\ x.city = row.city
InHand(k, a) == k # Idle /\ k.op \in AdminOps /\ k.pc = "save" /\ k.id = a
Settled(a) == a \notin missed /\ ~Revoking(a) /\ revoked[a] # 1
ClaimsInv ==
    \A a \in Admins : Settled(a) =>
        /\ \A t \in tokens :
             t.type = "admin" /\ t.sub = a /\ (revoked[a] = 2 => t.age = 0)
               => SameClaims(t, admins[a])
        /\ \A c \in Calls : InHand(calls[c], a) => SameClaims(calls[c].row, admins[a])

AccountsInv == StoreInv /\ CutInv /\ AdminInv /\ ClaimsInv

-----------------------------------------------------------------------------
(* What the operators on rows and tokens return.                            *)

(* Every change a driver's call makes to a row it loaded (Changed) leaves a *)
(* row whose approval was earned.                                           *)
LEMMA ChangedIsRow ==
    ASSUME NEW k \in GoodCalls, k.op \in DriverOps, k.pc = "save"
    PROVE  Changed(k) \in DriverRows
<1> DEFINE row == k.row
<1>1. row \in DriverFields /\ Earned(row) /\ k \in CallFields /\ CallOK(k)
  BY DEF GoodCalls, CallOK, DriverRows
<1> HIDE DEF row
<1>a. row = k.row
  BY DEF row
<1>2. CASE k.op \in Toggles
  <2>1. k.arg \in BOOLEAN
    BY <1>1, <1>2 DEF CallOK
  <2>2. Changed(k) = SetActive(row, k.arg)
    BY <1>2, <1>a DEF Changed, Toggles, StatusOps
  <2> QED
    BY <1>1, <2>1, <2>2 DEF SetActive, DriverFields, DriverRows, Earned, IsProfileComplete
<1>3. CASE k.op = "updateLocation"
  <2>1. Changed(k) = UpdateLocation(row)
    BY <1>3, <1>a DEF Changed, Toggles, StatusOps
  <2> QED
    BY <1>1, <2>1 DEF UpdateLocation, DriverFields, DriverRows, Earned, IsProfileComplete
<1>4. CASE k.op \in StatusOps
  <2>1. Changed(k) = UpdateStatus(row, k.arg) /\ k.arg \in Statuses
    BY <1>1, <1>4, <1>a DEF Changed, Toggles, StatusOps, CallOK
  <2> QED
    BY <1>1, <2>1 DEF UpdateStatus, DriverFields, DriverRows, Earned, IsProfileComplete
<1>5. CASE k.op = "completeProfile"
  <2> DEFINE data == k.arg
             filled == [row EXCEPT !.named = @ \/ data.named,
                                   !.city = IF data.city = NoCity THEN @ ELSE data.city]
  <2>1. data.named \in BOOLEAN /\ data.city \in Cities \cup {NoCity}
    BY <1>1, <1>5 DEF CallOK, Profiles
  <2>2. Changed(k) = CompleteProfile(row, data)
    BY <1>5, <1>a DEF Changed, Toggles, StatusOps
  <2> HIDE DEF data
  <2>3. filled \in DriverFields
    BY <1>1, <2>1 DEF DriverFields
  <2>4. filled.registrationStatus = row.registrationStatus /\ filled.approvedBy = row.approvedBy
    BY <1>1 DEF DriverFields
  <2>5. IsProfileComplete(row) => IsProfileComplete(filled)
    BY <1>1, <2>1 DEF DriverFields, IsProfileComplete
  <2>6. CompleteProfile(row, data) = IF IsProfileComplete(filled)
                                     THEN [filled EXCEPT !.registrationStatus = "PENDING_APPROVAL"]
                                     ELSE filled
    BY DEF CompleteProfile
  <2> HIDE DEF filled
  <2>7. Earned(filled) \/ ~IsProfileComplete(row)
    BY <1>1, <2>4, <2>5 DEF Earned
  <2>8. CASE IsProfileComplete(filled)
    <3>1. CompleteProfile(row, data) = [filled EXCEPT !.registrationStatus = "PENDING_APPROVAL"]
      BY <2>6, <2>8
    <3> QED
      BY <2>2, <2>3, <2>8, <3>1 DEF DriverFields, DriverRows, Earned, IsProfileComplete
  <2>9. CASE ~IsProfileComplete(filled)
    <3>1. CompleteProfile(row, data) = filled /\ ~IsProfileComplete(row)
      BY <2>5, <2>6, <2>9
    <3> QED
      BY <1>1, <2>2, <2>3, <2>4, <3>1 DEF DriverRows, Earned
  <2> QED
    BY <2>8, <2>9
<1>6. CASE k.op = "approve"
  <2>1. Changed(k) = ApproveDriver(row, k.by.sub)
    BY <1>6, <1>a DEF Changed, Toggles, StatusOps
  <2>2. k.by \in Tokens /\ row.registrationStatus = "PENDING_APPROVAL"
    BY <1>1, <1>6, <1>a DEF CallOK
  <2>3. k.by.sub \in Users
    BY <2>2 DEF Tokens, Claims
  <2>4. k.by.sub # Nobody
    BY <2>3 DEF Users
  <2>5. IsProfileComplete(row)
    BY <1>1, <2>2 DEF Earned
  <2> QED
    BY <1>1, <2>1, <2>3, <2>4, <2>5 DEF ApproveDriver, DriverFields, DriverRows, Earned, IsProfileComplete
<1>7. CASE k.op = "reject"
  <2>1. Changed(k) = RejectDriver(row)
    BY <1>7, <1>a DEF Changed, Toggles, StatusOps
  <2> QED
    BY <1>1, <2>1 DEF RejectDriver, DriverFields, DriverRows, Earned, IsProfileComplete
<1> QED
  BY <1>2, <1>3, <1>4, <1>5, <1>6, <1>7 DEF DriverOps

(* A new row (NewDriver) is neither approved nor awaiting approval.         *)
LEMMA NewIsRow ==
    ASSUME NEW e \in Emails, NEW google \in BOOLEAN, NEW active \in BOOLEAN
    PROVE  NewDriver(e, google, active) \in DriverRows
BY DEF NewDriver, DriverRows, DriverFields, Earned, Statuses

(* An existing row is a row, and the markers are not.                       *)
LEMMA ExistingIsRow ==
    ASSUME StoreInv, NEW d \in Drivers, Exists(d)
    PROVE  drivers[d] \in DriverRows
BY DEF StoreInv, Exists

LEMMA MailedIsRow ==
    ASSUME StoreInv, NEW e \in Emails, NEW d \in WithEmail(e)
    PROVE  d \in Drivers /\ drivers[d] \in DriverRows
<1>1. d \in Drivers /\ drivers[d].email = e
  BY DEF WithEmail
<1>2. drivers[d] # NoRow /\ drivers[d] # Deleted
  BY <1>1 DEF NoRow, Deleted
<1> QED
  BY <1>1, <1>2 DEF StoreInv

(* The token of a driver's sign-in, and of an administrator's.              *)
LEMMA LoginIsToken ==
    ASSUME NEW d \in Drivers, NEW row \in DriverRows
    PROVE  /\ Login(d, row) \in Tokens
           /\ Login(d, row).type = "driver"
           /\ ~Login(d, row).cut
BY DEF Login, Tokens, Claims, DriverRows, DriverFields, Users, AdminRoles, CityNames

LEMMA AdminLoginIsToken ==
    ASSUME NEW a \in Admins, NEW row \in AdminRows
    PROVE  /\ AdminLogin(a, row) \in Tokens
           /\ AdminLogin(a, row).type = "admin"
           /\ AdminLogin(a, row).sub = a
           /\ ~AdminLogin(a, row).cut
           /\ SameClaims(AdminLogin(a, row), row)
BY DEF AdminLogin, Tokens, Claims, AdminRows, Users, SameClaims

LEMMA AdminRowIsAccount ==
    ASSUME NEW row \in AdminRows
    PROVE  row # NoAdmin
BY DEF AdminRows, NoAdmin, AdminRoles

-----------------------------------------------------------------------------
(* How a call moves.                                                        *)

LEMMA CallIsGood ==
    ASSUME StoreInv, NEW c \in Calls, calls[c] # Idle
    PROVE  calls[c] \in GoodCalls
BY DEF StoreInv

(* An arriving request starts a call (Begin) whose fields fit its operation. *)
LEMMA BeginIsGood ==
    ASSUME NEW op \in Ops, NEW pc \in Pcs, NEW id \in Users \cup {Nobody},
           NEW arg \in BOOLEAN \cup Statuses \cup Emails \cup Profiles \cup Updates,
           NEW by \in Tokens \cup {Nobody}, NEW todo \in SUBSET Drivers,
           Fits(op, pc), op # "bulk" => todo = {},
           op \in AdminOps => id \in Admins /\ pc = "load",
           op \notin AdminOps /\ pc \notin Nameless => id \in Drivers,
           pc \notin {"save", "delOtp", "lift"},
           op \in {"verify", "google"} => arg \in Emails,
           op \in Toggles \cup {"adminLogin"} => arg \in BOOLEAN,
           op \in StatusOps => arg \in Statuses,
           op = "completeProfile" => arg \in Profiles,
           op = "updateAdmin" => arg \in Updates,
           op = "approve" => by \in Tokens
    PROVE  [op |-> op, pc |-> pc, id |-> id, row |-> NoRow, arg |-> arg, by |-> by, todo |-> todo]
             \in GoodCalls
<1> DEFINE k == [op |-> op, pc |-> pc, id |-> id, row |-> NoRow, arg |-> arg, by |-> by, todo |-> todo]
<1>1. k \in CallFields
  BY DEF CallFields
<1>2. k.op = op /\ k.pc = pc /\ k.id = id /\ k.arg = arg /\ k.by = by /\ k.todo = todo
  OBVIOUS
<1> HIDE DEF k
<1>3. CallOK(k)
  BY <1>2 DEF CallOK
<1>4. k \in GoodCalls
  BY <1>1, <1>3 DEF GoodCalls
<1> QED
  BY <1>4 DEF k

(* A call that returns (Return) is over, but for a bulk update that has     *)
(* drivers left.                                                            *)
LEMMA ReturnIsGood ==
    ASSUME NEW k \in GoodCalls, k.todo # {}
    PROVE  /\ [k EXCEPT !.pc = "next"] \in GoodCalls
           /\ k.op = "bulk"
           /\ [k EXCEPT !.pc = "next"].op = k.op
           /\ [k EXCEPT !.pc = "next"].pc = "next"
           /\ [k EXCEPT !.pc = "next"].id = k.id
<1> DEFINE n == [k EXCEPT !.pc = "next"]
<1>1. k \in CallFields /\ CallOK(k) /\ k.op = "bulk"
  BY DEF GoodCalls, CallOK
<1>2. n \in CallFields
  BY <1>1 DEF CallFields, Pcs, Nameless
<1>3. /\ n.op = k.op /\ n.pc = "next" /\ n.id = k.id /\ n.row = k.row /\ n.arg = k.arg
      /\ n.by = k.by /\ n.todo = k.todo
  BY <1>1 DEF CallFields
<1> HIDE DEF n
<1>4. CallOK(n)
  BY <1>1, <1>3 DEF CallOK, Fits, Nameless, AdminOps, Toggles, StatusOps
<1>5. n \in GoodCalls
  BY <1>2, <1>4 DEF GoodCalls
<1> QED
  BY <1>1, <1>3, <1>5 DEF n

LEMMA GotoIsGood ==
    ASSUME NEW k \in GoodCalls, NEW pc \in Pcs,
           k.op \in AdminOps => pc = "revoke",
           k.op \notin AdminOps /\ pc \notin Nameless => k.id \in Drivers,
           pc # "save", Fits(k.op, pc), pc \in {"delOtp", "lift"} => k.row \in DriverRows
    PROVE  /\ [k EXCEPT !.pc = pc] \in GoodCalls
           /\ [k EXCEPT !.pc = pc].op = k.op
           /\ [k EXCEPT !.pc = pc].pc = pc
           /\ [k EXCEPT !.pc = pc].id = k.id
<1> DEFINE n == [k EXCEPT !.pc = pc]
<1>1. k \in CallFields /\ CallOK(k)
  BY DEF GoodCalls
<1>2. n \in CallFields
  BY <1>1 DEF CallFields
<1>3. /\ n.op = k.op /\ n.pc = pc /\ n.id = k.id /\ n.row = k.row /\ n.arg = k.arg
      /\ n.by = k.by /\ n.todo = k.todo
  BY <1>1 DEF CallFields
<1> HIDE DEF n
<1>4. CallOK(n)
  BY <1>1, <1>3 DEF CallOK
<1>5. n \in GoodCalls
  BY <1>2, <1>4 DEF GoodCalls
<1> QED
  BY <1>3, <1>5 DEF n

(* A call takes a row into its hands: to save it, or to sign its owner in.  *)
LEMMA HoldIsGood ==
    ASSUME NEW k \in GoodCalls, NEW n \in CallFields,
           n.op = k.op, n.arg = k.arg, n.by = k.by, n.todo = k.todo,
           n.pc \in {"save", "publish", "delOtp"},
           n.op \in AdminOps => n.pc = "save" /\ n.id \in Admins /\ n.row \in AdminRows,
           n.op \notin AdminOps => n.id \in Drivers /\ n.row \in DriverRows,
           n.pc = "delOtp" => n.op = "verify",
           n.op = "approve" /\ n.pc = "save" => n.row.registrationStatus = "PENDING_APPROVAL"
    PROVE  n \in GoodCalls
<1>1. CallOK(k)
  BY DEF GoodCalls
<1>2. CallOK(n)
  BY <1>1 DEF CallOK, Fits, DriverOps, AdminOps, Toggles, StatusOps
<1> QED
  BY <1>2 DEF GoodCalls

-----------------------------------------------------------------------------
(* Most steps leave keys and accounts alone: they move one call and issue   *)
(* tokens from current rows.                                                *)

CallTable == [Calls -> {Idle} \cup GoodCalls]
Tame ==
    \A c \in Calls :
        /\ calls'[c] # Idle /\ calls'[c].op \in AdminOps => admins[calls'[c].id] # NoAdmin
        /\ InHand(calls'[c], calls'[c].id) =>
             calls'[c] = calls[c] \/ SameClaims(calls'[c].row, admins[calls'[c].id])
        /\ At(c, "revoke") =>
             calls'[c] # Idle /\ calls'[c].pc = "revoke" /\ calls'[c].id = calls[c].id
Genuine(t) ==
    /\ t \in Tokens /\ ~t.cut
    /\ t.type = "admin" => admins[t.sub] # NoAdmin /\ SameClaims(t, admins[t.sub])
Steady ==
    /\ drivers' \in [Drivers -> {NoRow, Deleted} \cup DriverRows]
    /\ calls' \in CallTable /\ Tame
    /\ \A t \in tokens' : t \in tokens \/ Genuine(t)
    /\ revoked' = revoked /\ missed' = missed /\ admins' = admins

LEMMA SteadyKeeps ==
    ASSUME AccountsInv, Steady
    PROVE  AccountsInv'
<1> USE DEF AccountsInv
<1>1. StoreInv'
  BY DEF Steady, StoreInv, CallTable, Genuine
<1>2. CutInv'
  BY DEF Steady, CutInv, Genuine
<1>3. AdminInv'
  BY DEF Steady, AdminInv, Genuine, Tame
<1>4. ASSUME NEW a \in Admins, Settled(a)'
      PROVE  Settled(a)
  BY <1>4 DEF Settled, Revoking, Steady, Tame, At
<1>5. ASSUME NEW a \in Admins, Settled(a)', NEW t \in tokens', t.type = "admin", t.sub = a,
             revoked'[a] = 2 => t.age = 0
      PROVE  SameClaims(t, admins'[a])
  BY <1>4, <1>5 DEF Steady, ClaimsInv, Genuine
<1>6. ASSUME NEW a \in Admins, Settled(a)', NEW c \in Calls, InHand(calls'[c], a)
      PROVE  SameClaims(calls'[c].row, admins'[a])
  <2>1. calls'[c].id = a
    BY <1>6 DEF InHand
  <2> QED
    BY <1>4, <1>6, <2>1 DEF Steady, ClaimsInv, Tame
<1>7. ClaimsInv'
  BY <1>5, <1>6 DEF ClaimsInv
<1> QED
  BY <1>1, <1>2, <1>3, <1>7

(* One call moves to n.                                                     *)
LEMMA MoveIsTame ==
    ASSUME AccountsInv, NEW c \in Calls, NEW n \in {Idle} \cup GoodCalls,
           calls' = [calls EXCEPT ![c] = n], ~At(c, "revoke"),
           n # Idle /\ n.op \in AdminOps =>
             admins[n.id] # NoAdmin /\ (n.pc = "save" => SameClaims(n.row, admins[n.id]))
    PROVE  calls' \in CallTable /\ Tame
<1>1. calls \in CallTable /\ AdminInv
  BY DEF AccountsInv, StoreInv, CallTable
<1>2. calls' \in CallTable
  BY <1>1 DEF CallTable
<1>3. calls'[c] = n /\ \A b \in Calls \ {c} : calls'[b] = calls[b]
  BY <1>1 DEF CallTable
<1>4. Tame
  BY <1>1, <1>3 DEF Tame, AdminInv, InHand, At
<1> QED
  BY <1>2, <1>4

LEMMA StayIsTame ==
    ASSUME AccountsInv, calls' = calls
    PROVE  calls' \in CallTable /\ Tame
BY DEF AccountsInv, StoreInv, AdminInv, CallTable, Tame, InHand, At

LEMMA BeginMoves ==
    ASSUME AccountsInv, NEW c \in Calls, NEW op, NEW pc, NEW id, NEW arg, NEW by, NEW todo,
           Begin(c, op, pc, id, arg, by, todo),
           [op |-> op, pc |-> pc, id |-> id, row |-> NoRow, arg |-> arg, by |-> by, todo |-> todo]
             \in GoodCalls,
           pc # "save", op \in AdminOps => admins[id] # NoAdmin
    PROVE  calls' \in CallTable /\ Tame
<1> DEFINE n == [op |-> op, pc |-> pc, id |-> id, row |-> NoRow, arg |-> arg, by |-> by, todo |-> todo]
<1>1. n \in GoodCalls /\ n.op = op /\ n.pc = pc /\ n.id = id
  OBVIOUS
<1>2. calls' = [calls EXCEPT ![c] = n] /\ calls[c] = Idle
  BY DEF Begin
<1> HIDE DEF n
<1> QED
  BY <1>1, <1>2, MoveIsTame DEF At

LEMMA ReturnMoves ==
    ASSUME AccountsInv, NEW c \in Calls, calls[c] # Idle, calls[c].pc # "revoke", Return(c)
    PROVE  calls' \in CallTable /\ Tame
<1> DEFINE n == IF calls[c].todo = {} THEN Idle ELSE [calls[c] EXCEPT !.pc = "next"]
<1>1. calls[c] \in GoodCalls
  BY CallIsGood DEF AccountsInv
<1>2. n = Idle \/ (n \in GoodCalls /\ n.op = "bulk")
  BY <1>1, ReturnIsGood
<1>3. calls' = [calls EXCEPT ![c] = n]
  BY DEF Return
<1> HIDE DEF n
<1>4. "bulk" \notin AdminOps
  BY DEF AdminOps
<1> QED
  BY <1>2, <1>3, <1>4, MoveIsTame DEF At

LEMMA GotoMoves ==
    ASSUME AccountsInv, NEW c \in Calls, NEW pc \in Pcs, calls[c] # Idle, calls[c].pc # "revoke",
           calls[c].op \in AdminOps => pc = "revoke",
           calls[c].op \notin AdminOps /\ pc \notin Nameless => calls[c].id \in Drivers,
           pc # "save", Fits(calls[c].op, pc),
           pc \in {"delOtp", "lift"} => calls[c].row \in DriverRows,
           Goto(c, pc)
    PROVE  calls' \in CallTable /\ Tame
<1> DEFINE n == [calls[c] EXCEPT !.pc = pc]
<1>1. calls[c] \in GoodCalls
  BY CallIsGood DEF AccountsInv
<1>2. n \in GoodCalls /\ n.op = calls[c].op /\ n.id = calls[c].id /\ n.pc = pc
  BY <1>1, GotoIsGood
<1>3. calls' = [calls EXCEPT ![c] = n]
  BY DEF Goto
<1>4. n.op \in AdminOps => admins[n.id] # NoAdmin
  BY <1>2 DEF AccountsInv, AdminInv
<1> HIDE DEF n
<1> QED
  BY <1>2, <1>3, <1>4, MoveIsTame DEF At

(* A call takes the current row of an account, or a driver's row, in hand.  *)
LEMMA HoldMoves ==
    ASSUME AccountsInv, NEW c \in Calls, NEW pc \in {"save", "publish", "delOtp"},
           NEW id \in Users, NEW row \in DriverRows \cup AdminRows,
           calls[c] # Idle, calls[c].pc # "revoke",
           calls[c].op \in AdminOps =>
             pc = "save" /\ id \in Admins /\ row \in AdminRows /\ row = admins[id],
           calls[c].op \notin AdminOps => id \in Drivers /\ row \in DriverRows,
           pc = "delOtp" => calls[c].op = "verify",
           calls[c].op = "approve" /\ pc = "save" => row.registrationStatus = "PENDING_APPROVAL",
           calls' = [calls EXCEPT ![c] = [calls[c] EXCEPT !.pc = pc, !.id = id, !.row = row]]
    PROVE  calls' \in CallTable /\ Tame
<1> DEFINE n == [calls[c] EXCEPT !.pc = pc, !.id = id, !.row = row]
<1> DEFINE k == calls[c]
<1>1. k \in GoodCalls
  BY CallIsGood DEF AccountsInv
<1>2. n = [k EXCEPT !.pc = pc, !.id = id, !.row = row] /\ calls' = [calls EXCEPT ![c] = n]
  OBVIOUS
<1>3. k.op \in AdminOps => pc = "save" /\ id \in Admins /\ row \in AdminRows /\ row = admins[id]
  OBVIOUS
<1>4. /\ k.op \notin AdminOps => id \in Drivers /\ row \in DriverRows
      /\ pc = "delOtp" => k.op = "verify"
      /\ k.op = "approve" /\ pc = "save" => row.registrationStatus = "PENDING_APPROVAL"
  OBVIOUS
<1> HIDE DEF n, k
<1>5. n \in GoodCalls /\ n.op = k.op /\ n.pc = pc /\ n.id = id /\ n.row = row
  <2>1. k \in CallFields
    BY <1>1 DEF GoodCalls
  <2>2. n \in CallFields
    BY <1>2, <2>1 DEF CallFields, Pcs, Nameless
  <2>3. /\ n.op = k.op /\ n.pc = pc /\ n.id = id /\ n.row = row
        /\ n.arg = k.arg /\ n.by = k.by /\ n.todo = k.todo
    BY <1>2, <2>1 DEF CallFields
  <2>4. n.op \in AdminOps => n.pc = "save" /\ n.id \in Admins /\ n.row \in AdminRows
    BY <1>3, <2>3
  <2>5. /\ n.op \notin AdminOps => n.id \in Drivers /\ n.row \in DriverRows
        /\ n.pc = "delOtp" => n.op = "verify"
        /\ n.op = "approve" /\ n.pc = "save" => n.row.registrationStatus = "PENDING_APPROVAL"
    BY <1>4, <2>3
  <2> QED
    BY <1>1, <2>2, <2>3, <2>4, <2>5, HoldIsGood
<1>6. n.op \in AdminOps => admins[n.id] # NoAdmin /\ SameClaims(n.row, admins[n.id])
  BY <1>3, <1>5, AdminRowIsAccount DEF SameClaims
<1> QED
  BY <1>2, <1>5, <1>6, MoveIsTame DEF At

-----------------------------------------------------------------------------
(* The steps of a driver's call.                                            *)

LEMMA QuietIsSteady ==
    ASSUME AccountsInv, calls' \in CallTable /\ Tame, drivers' = drivers, tokens' = tokens,
           revoked' = revoked, missed' = missed, admins' = admins
    PROVE  Steady
BY DEF Steady, AccountsInv, StoreInv

LEMMA HereIsGood ==
    ASSUME AccountsInv, NEW c \in Calls, calls[c] # Idle
    PROVE  calls[c] \in CallFields /\ CallOK(calls[c])
BY CallIsGood DEF AccountsInv, GoodCalls

LEMMA BulkNextSteady ==
    ASSUME AccountsInv, NEW c \in Calls, BulkNext(c), admins' = admins
    PROVE  Steady
<1>1. calls[c] # Idle /\ calls[c].pc = "next"
  BY DEF BulkNext, At
<1> DEFINE k == calls[c]
<1>2. k \in CallFields /\ CallOK(k)
  BY <1>1, HereIsGood
<1>3. PICK d \in k.todo :
        LET call == [k EXCEPT !.id = d, !.todo = @ \ {d}, !.pc = "load"]
            proceeds == /\ Exists(d)
                        /\ drivers[d].isActive # call.arg
                        /\ SameCity(call.by, drivers[d])
        IN  calls' = [calls EXCEPT ![c] = IF proceeds THEN call
                                          ELSE IF call.todo = {} THEN Idle
                                          ELSE [call EXCEPT !.pc = "next"]]
  BY DEF BulkNext
<1> DEFINE call == [k EXCEPT !.id = d, !.todo = @ \ {d}, !.pc = "load"]
           resting == [call EXCEPT !.pc = "next"]
<1>4. k.op = "bulk" /\ d \in Drivers
  <2>1. k.op # "bulk" => k.todo = {}
    BY <1>2 DEF CallOK
  <2> QED
    BY <1>2, <1>3, <2>1 DEF CallFields
<1>5. call \in CallFields /\ resting \in CallFields
  <2>1. d \in Users \cup {Nobody} /\ k.todo \ {d} \in SUBSET Drivers
    BY <1>2, <1>4 DEF CallFields, Users
  <2>2. call \in CallFields
    BY <1>2, <2>1 DEF CallFields, Pcs
  <2> HIDE DEF call
  <2> QED
    BY <2>2 DEF CallFields, Pcs, Nameless
<1>6. call.op = "bulk" /\ call.id = d /\ call.pc = "load" /\ call.arg = k.arg
  BY <1>2, <1>4 DEF CallFields
<1>7. resting.op = "bulk" /\ resting.id = d /\ resting.pc = "next" /\ resting.arg = k.arg
  BY <1>2, <1>4 DEF CallFields
<1>8. \E n \in {Idle, call, resting} : calls' = [calls EXCEPT ![c] = n]
  BY <1>3
<1> HIDE DEF call, resting
<1>9. k.arg \in BOOLEAN
  BY <1>2, <1>4 DEF CallOK, Toggles
<1>10. call \in GoodCalls /\ resting \in GoodCalls
  <2>1. CallOK(call)
    BY <1>4, <1>6, <1>9 DEF CallOK, Fits, AdminOps, StatusOps
  <2>2. CallOK(resting)
    BY <1>4, <1>7, <1>9 DEF CallOK, Fits, AdminOps, StatusOps
  <2> QED
    BY <1>5, <2>1, <2>2 DEF GoodCalls
<1>11. "bulk" \notin AdminOps /\ ~At(c, "revoke")
  BY <1>1 DEF AdminOps, At
<1>12. calls' \in CallTable /\ Tame
  BY <1>6, <1>7, <1>8, <1>10, <1>11, MoveIsTame
<1> QED
  BY <1>12, QuietIsSteady DEF BulkNext

LEMMA PeekSteady ==
    ASSUME AccountsInv, NEW c \in Calls, Peek(c), admins' = admins
    PROVE  Steady
<1>1. calls[c] # Idle /\ calls[c].pc = "peek"
  BY DEF Peek, At
<1>2. calls[c].op \notin AdminOps /\ calls[c].id \in Drivers
  BY <1>1, HereIsGood DEF CallOK, Nameless
<1>3. CASE Return(c)
  BY <1>1, <1>3, ReturnMoves, QuietIsSteady DEF Peek
<1>4. CASE Goto(c, "load")
  <2>1. calls' \in CallTable /\ Tame
    BY <1>1, <1>2, <1>4, GotoMoves DEF Pcs, Fits
  <2> QED
    BY <2>1, QuietIsSteady DEF Peek
<1> QED
  BY <1>3, <1>4 DEF Peek

LEMMA LoadSteady ==
    ASSUME AccountsInv, NEW c \in Calls, Load(c), admins' = admins
    PROVE  Steady
<1> DEFINE k == calls[c]
           row == drivers[k.id]
<1>1. k # Idle /\ k.pc = "load" /\ k.op \in DriverOps
  BY DEF Load, At
<1>2. k \in CallFields /\ CallOK(k)
  BY <1>1, HereIsGood
<1>3. k.op \notin AdminOps
  BY <1>1 DEF DriverOps, AdminOps, Toggles, StatusOps
<1>4. k.id \in Drivers
  BY <1>1, <1>2, <1>3 DEF CallOK, Nameless
<1>5. CASE Return(c)
  BY <1>1, <1>5, ReturnMoves, QuietIsSteady DEF Load
<1>6. CASE ~Return(c)
  <2>1. /\ calls' = [calls EXCEPT ![c].pc = "save", ![c].row = row]
        /\ Exists(k.id)
        /\ k.op = "approve" => MayApprove(row)
    BY <1>6 DEF Load
  <2>2. row \in DriverRows
    BY <1>4, <2>1, ExistingIsRow DEF AccountsInv
  <2>3. k.op = "approve" => row.registrationStatus = "PENDING_APPROVAL"
    BY <2>1 DEF MayApprove
  <2>4. calls' = [calls EXCEPT ![c] = [calls[c] EXCEPT !.pc = "save", !.id = k.id, !.row = row]]
    <3>1. [k EXCEPT !.pc = "save", !.row = row] = [k EXCEPT !.pc = "save", !.id = k.id, !.row = row]
      BY <1>2 DEF CallFields
    <3> QED
      BY <2>1, <3>1
  <2>5. k.id \in Users
    BY <1>4 DEF Users
  <2> HIDE DEF row
  <2>6. calls' \in CallTable /\ Tame
    BY <1>1, <1>3, <1>4, <2>2, <2>3, <2>4, <2>5, HoldMoves
  <2> QED
    BY <2>6, QuietIsSteady DEF Load
<1> QED
  BY <1>5, <1>6

LEMMA SaveSteady ==
    ASSUME AccountsInv, NEW c \in Calls, Save(c), admins' = admins
    PROVE  Steady
<1> DEFINE k == calls[c]
           row == Changed(k)
<1>1. k # Idle /\ k.pc = "save" /\ k.op \in DriverOps
  BY DEF Save, At
<1>2. k \in CallFields /\ CallOK(k) /\ k \in GoodCalls
  BY <1>1, HereIsGood, CallIsGood DEF AccountsInv
<1>3. k.op \notin AdminOps
  BY <1>1 DEF DriverOps, AdminOps, Toggles, StatusOps
<1>4. k.id \in Drivers
  BY <1>1, <1>2, <1>3 DEF CallOK, Nameless
<1>5. row \in DriverRows
  BY <1>1, <1>2, ChangedIsRow
<1>6. drivers' = [drivers EXCEPT ![k.id] = row]
  BY DEF Save
<1>7. ASSUME Return(c)
      PROVE  calls' \in CallTable /\ Tame
  BY <1>1, <1>7, ReturnMoves
<1>8. ASSUME Goto(c, "offline")
      PROVE  calls' \in CallTable /\ Tame
  BY <1>1, <1>3, <1>4, <1>8, GotoMoves DEF Pcs, Fits
<1>9. ASSUME calls' = [calls EXCEPT ![c].pc = "publish", ![c].row = row]
      PROVE  calls' \in CallTable /\ Tame
  <2>1. calls' = [calls EXCEPT ![c] = [calls[c] EXCEPT !.pc = "publish", !.id = k.id, !.row = row]]
    <3>1. [k EXCEPT !.pc = "publish", !.row = row] = [k EXCEPT !.pc = "publish", !.id = k.id, !.row = row]
      BY <1>2 DEF CallFields
    <3> QED
      BY <1>9, <3>1
  <2>2. k.id \in Users
    BY <1>4 DEF Users
  <2> HIDE DEF row
  <2> QED
    BY <1>1, <1>3, <1>4, <1>5, <2>1, <2>2, HoldMoves
<1>10. calls' \in CallTable /\ Tame
  BY <1>7, <1>8, <1>9 DEF Save
<1> HIDE DEF row
<1>11. drivers' \in [Drivers -> {NoRow, Deleted} \cup DriverRows]
  BY <1>4, <1>5, <1>6 DEF AccountsInv, StoreInv
<1> QED
  BY <1>10, <1>11 DEF Steady, Save

LEMMA PublishSteady ==
    ASSUME AccountsInv, NEW c \in Calls, Publish(c), admins' = admins
    PROVE  Steady
<1>1. calls[c] # Idle /\ calls[c].pc = "publish"
  BY DEF Publish, At
<1>2. calls[c].op \notin AdminOps /\ calls[c].id \in Drivers
  BY <1>1, HereIsGood DEF CallOK, Nameless
<1>3. Return(c) => calls' \in CallTable /\ Tame
  BY <1>1, ReturnMoves
<1>4. Goto(c, "delKey") => calls' \in CallTable /\ Tame
  BY <1>1, <1>2, GotoMoves DEF Pcs, Fits
<1> QED
  BY <1>3, <1>4, QuietIsSteady DEF Publish

LEMMA OfflineSteady ==
    ASSUME AccountsInv, NEW c \in Calls, Offline(c), admins' = admins
    PROVE  Steady
<1>1. calls[c] # Idle /\ calls[c].pc = "offline"
  BY DEF Offline, At
<1>2. calls[c].op \notin AdminOps /\ calls[c].id \in Drivers
  BY <1>1, HereIsGood DEF CallOK, Nameless
<1>3. Return(c) => calls' \in CallTable /\ Tame
  BY <1>1, ReturnMoves
<1>4. Goto(c, "revoke") => calls' \in CallTable /\ Tame
  BY <1>1, <1>2, GotoMoves DEF Pcs, Fits
<1> QED
  BY <1>3, <1>4, QuietIsSteady DEF Offline

LEMMA RemoveSteady ==
    ASSUME AccountsInv, NEW c \in Calls, Remove(c), admins' = admins
    PROVE  Steady
<1>1. calls[c] # Idle /\ calls[c].pc = "delete"
  BY DEF Remove, At
<1>2. calls[c].op \notin AdminOps /\ calls[c].id \in Drivers
  BY <1>1, HereIsGood DEF CallOK, Nameless
<1>3. Return(c) => calls' \in CallTable /\ Tame
  BY <1>1, ReturnMoves
<1>4. Goto(c, "offline") => calls' \in CallTable /\ Tame
  BY <1>1, <1>2, GotoMoves DEF Pcs, Fits
<1>5. drivers' \in [Drivers -> {NoRow, Deleted} \cup DriverRows]
  BY <1>2 DEF Remove, AccountsInv, StoreInv
<1> QED
  BY <1>3, <1>4, <1>5 DEF Steady, Remove

-----------------------------------------------------------------------------
(* The steps that write a revocation.                                       *)

(* SET revoked_token:<id> cuts every token of the user; a failed SET leaves *)
(* the user in the history of missed revocations.  Either way the account   *)
(* is no longer one whose claims are promised to be current.                *)
LEMMA RevocationKeeps ==
    ASSUME AccountsInv, NEW u \in Users, Revoke(u) \/ RevokeFails(u),
           drivers' = drivers, admins' = admins,
           calls' \in CallTable,
           \A b \in Calls :
             /\ calls'[b] # Idle /\ calls'[b].op \in AdminOps => calls'[b] = calls[b]
             /\ At(b, "revoke") /\ calls[b].id # u => calls'[b] = calls[b]
    PROVE  AccountsInv'
<1>1. \A t \in tokens' : \E s \in tokens :
        t = s \/ (Revoke(u) /\ s.sub = u /\ t = [s EXCEPT !.cut = TRUE])
  BY DEF Revoke, RevokeFails
<1>2. \A t \in tokens' : /\ t \in Tokens
                         /\ \E s \in tokens : /\ t.sub = s.sub /\ t.type = s.type /\ t.role = s.role
                                              /\ t.city = s.city /\ t.age = s.age
                                              /\ t.cut => s.cut \/ (Revoke(u) /\ s.sub = u)
  <2>1. ASSUME NEW s \in Tokens
        PROVE  LET t == [s EXCEPT !.cut = TRUE]
               IN  /\ t \in Tokens
                   /\ t.sub = s.sub /\ t.type = s.type /\ t.role = s.role
                   /\ t.city = s.city /\ t.age = s.age
    BY DEF Tokens, Claims
  <2>2. tokens \subseteq Tokens
    BY DEF AccountsInv, StoreInv
  <2> SUFFICES ASSUME NEW t \in tokens'
               PROVE  /\ t \in Tokens
                      /\ \E s \in tokens : /\ t.sub = s.sub /\ t.type = s.type /\ t.role = s.role
                                           /\ t.city = s.city /\ t.age = s.age
                                           /\ t.cut => s.cut \/ (Revoke(u) /\ s.sub = u)
    OBVIOUS
  <2>3. PICK s \in tokens : t = s \/ (Revoke(u) /\ s.sub = u /\ t = [s EXCEPT !.cut = TRUE])
    BY <1>1
  <2>4. s \in Tokens
    BY <2>2
  <2>5. CASE t = s
    BY <2>4, <2>5
  <2>6. CASE Revoke(u) /\ s.sub = u /\ t = [s EXCEPT !.cut = TRUE]
    <3>1. /\ t \in Tokens
          /\ t.sub = s.sub /\ t.type = s.type /\ t.role = s.role
          /\ t.city = s.city /\ t.age = s.age
      BY <2>1, <2>4, <2>6
    <3> QED
      BY <2>6, <3>1
  <2> QED
    BY <2>3, <2>5, <2>6
<1>3. Revoke(u) => revoked' = [revoked EXCEPT ![u] = 1]
  BY DEF Revoke
<1>4. RevokeFails(u) => revoked' = revoked
  BY DEF RevokeFails
<1>5. StoreInv'
  BY <1>2, <1>3, <1>4 DEF AccountsInv, StoreInv, CallTable
<1>6. \A v \in Users : revoked'[v] = IF v = u /\ Revoke(u) THEN 1 ELSE revoked[v]
  BY <1>3, <1>4 DEF AccountsInv, StoreInv
<1>7. CutInv'
  <2>1. \A t \in tokens : t.sub \in Users
    BY DEF AccountsInv, StoreInv, Tokens, Claims
  <2> QED
    BY <1>2, <1>6, <2>1 DEF AccountsInv, CutInv
<1>8. AdminInv'
  BY <1>2 DEF AccountsInv, AdminInv
<1>9. ASSUME NEW a \in Admins, Settled(a)'
      PROVE  a # u /\ Settled(a) /\ revoked'[a] = revoked[a]
  <2>1. a \in Users
    BY DEF Users
  <2>2. a # u
    BY <1>6, <1>9, <2>1 DEF Settled, Revoke, RevokeFails
  <2>3. a \notin missed
    BY <1>9, <2>2 DEF Settled, Revoke, RevokeFails
  <2>4. ~Revoking(a)
    BY <1>9, <2>2 DEF Settled, Revoking, At
  <2> QED
    BY <1>6, <1>9, <2>1, <2>2, <2>3, <2>4 DEF Settled
<1>10. ASSUME NEW a \in Admins, Settled(a)', NEW t \in tokens', t.type = "admin", t.sub = a,
              revoked'[a] = 2 => t.age = 0
       PROVE  SameClaims(t, admins'[a])
  <2>1. PICK s \in tokens : /\ t.sub = s.sub /\ t.type = s.type /\ t.role = s.role
                            /\ t.city = s.city /\ t.age = s.age
    BY <1>2
  <2>2. SameClaims(s, admins[a])
    BY <1>9, <1>10, <2>1 DEF AccountsInv, ClaimsInv
  <2> QED
    BY <2>1, <2>2 DEF SameClaims
<1>11. ASSUME NEW a \in Admins, Settled(a)', NEW c \in Calls, InHand(calls'[c], a)
       PROVE  SameClaims(calls'[c].row, admins'[a])
  <2>1. calls'[c] = calls[c]
    BY <1>11 DEF InHand
  <2> QED
    BY <1>9, <1>11, <2>1 DEF AccountsInv, ClaimsInv
<1>12. ClaimsInv'
  BY <1>10, <1>11 DEF ClaimsInv
<1> QED
  BY <1>5, <1>7, <1>8, <1>12 DEF AccountsInv

LEMMA RevokeTokenKeeps ==
    ASSUME AccountsInv, NEW c \in Calls, RevokeToken(c) \/ RevokeAgain(c), admins' = admins
    PROVE  AccountsInv'
<1> DEFINE k == calls[c]
<1>1. k # Idle /\ k.pc \in {"revoke", "again"}
  BY DEF RevokeToken, RevokeAgain, At
<1>2. k \in CallFields /\ CallOK(k) /\ k \in GoodCalls
  BY <1>1, HereIsGood, CallIsGood DEF AccountsInv
<1>3. k.id \in Users
  BY <1>1, <1>2 DEF CallOK, Users, Nameless
<1>4. \E n \in {Idle} \cup GoodCalls :
         calls' = [calls EXCEPT ![c] = n] /\ (n # Idle => n.op \notin AdminOps)
  <2>1. CASE Return(c)
    <3> DEFINE n == IF k.todo = {} THEN Idle ELSE [k EXCEPT !.pc = "next"]
    <3>1. n = Idle \/ (n \in GoodCalls /\ n.op = "bulk")
      BY <1>2, ReturnIsGood
    <3>2. calls' = [calls EXCEPT ![c] = n]
      BY <2>1 DEF Return
    <3> HIDE DEF n
    <3> QED
      BY <3>1, <3>2 DEF AdminOps
  <2>2. CASE ~Return(c)
    <3> DEFINE n == [k EXCEPT !.pc = "again"]
    <3>1. k.op = "disable" /\ calls' = [calls EXCEPT ![c] = n]
      BY <2>2 DEF RevokeToken, RevokeAgain, Goto
    <3>2. "disable" \notin AdminOps /\ "again" \in Pcs /\ Fits(k.op, "again")
      BY DEF AdminOps, Pcs, Fits
    <3>3. k.id \in Drivers
      BY <1>1, <1>2, <3>1, <3>2 DEF CallOK, Nameless
    <3>4. n \in GoodCalls /\ n.op = "disable"
      BY <1>2, <3>1, <3>2, <3>3, GotoIsGood
    <3> QED
      BY <3>1, <3>2, <3>4
  <2> QED
    BY <2>1, <2>2
<1>5. PICK n \in {Idle} \cup GoodCalls :
         calls' = [calls EXCEPT ![c] = n] /\ (n # Idle => n.op \notin AdminOps)
  BY <1>4
<1>6. calls \in CallTable
  BY DEF AccountsInv, StoreInv, CallTable
<1>7. calls' \in CallTable /\ calls'[c] = n /\ \A b \in Calls \ {c} : calls'[b] = calls[b]
  BY <1>5, <1>6 DEF CallTable
<1>8. \A b \in Calls :
        /\ calls'[b] # Idle /\ calls'[b].op \in AdminOps => calls'[b] = calls[b]
        /\ At(b, "revoke") /\ calls[b].id # k.id => calls'[b] = calls[b]
  BY <1>5, <1>7
<1>9. drivers' = drivers /\ (Revoke(k.id) \/ RevokeFails(k.id))
  BY DEF RevokeToken, RevokeAgain
<1> QED
  BY <1>3, <1>7, <1>8, <1>9, RevocationKeeps

-----------------------------------------------------------------------------
(* Signing in.                                                              *)

LEMMA FindByEmailSteady ==
    ASSUME AccountsInv, NEW c \in Calls, FindByEmail(c)
    PROVE  Steady
<1> DEFINE k == calls[c]
<1>1. k # Idle /\ k.pc = "find"
  BY DEF FindByEmail, At
<1>2. k \in CallFields /\ CallOK(k)
  BY <1>1, HereIsGood
<1>3. k.op = "verify" /\ k.op \notin AdminOps /\ k.arg \in Emails
  BY <1>1, <1>2 DEF CallOK, Fits, AdminOps
<1>4. ASSUME Goto(c, "create")
      PROVE  calls' \in CallTable /\ Tame
  BY <1>1, <1>3, <1>4, GotoMoves DEF Pcs, Nameless, Fits
<1>5. ASSUME NEW d \in WithEmail(k.arg),
             calls' = [calls EXCEPT ![c].pc = "delOtp", ![c].id = d, ![c].row = drivers[d]]
      PROVE  calls' \in CallTable /\ Tame
  <2> DEFINE row == drivers[d]
  <2>1. d \in Drivers /\ row \in DriverRows
    BY <1>3, MailedIsRow DEF AccountsInv
  <2>2. calls' = [calls EXCEPT ![c] = [calls[c] EXCEPT !.pc = "delOtp", !.id = d, !.row = row]]
    BY <1>5
  <2>3. d \in Users
    BY <2>1 DEF Users
  <2> HIDE DEF row
  <2> QED
    BY <1>1, <1>3, <2>1, <2>2, <2>3, HoldMoves
<1>6. calls' \in CallTable /\ Tame
  BY <1>4, <1>5 DEF FindByEmail
<1> QED
  BY <1>6, QuietIsSteady DEF FindByEmail, accountVars

LEMMA CreateDriverFromAuthSteady ==
    ASSUME AccountsInv, NEW c \in Calls, CreateDriverFromAuth(c)
    PROVE  Steady
<1> DEFINE k == calls[c]
           row == NewDriver(k.arg, FALSE, TRUE)
<1>1. k # Idle /\ k.pc = "create"
  BY DEF CreateDriverFromAuth, At
<1>2. k.op = "verify" /\ k.op \notin AdminOps /\ k.arg \in Emails
  BY <1>1, HereIsGood DEF CallOK, Fits, AdminOps
<1>3. row \in DriverRows
  BY <1>2, NewIsRow
<1>4. CASE Return(c) /\ UNCHANGED drivers
  BY <1>1, <1>4, ReturnMoves, QuietIsSteady DEF CreateDriverFromAuth, accountVars
<1>5. CASE ~(Return(c) /\ UNCHANGED drivers)
  <2>1. PICK d \in FreeIds :
          /\ drivers' = [drivers EXCEPT ![d] = row]
          /\ calls' = [calls EXCEPT ![c].pc = "delOtp", ![c].id = d, ![c].row = row]
    BY <1>5 DEF CreateDriverFromAuth
  <2>2. d \in Drivers /\ d \in Users
    BY DEF FreeIds, Users
  <2> HIDE DEF row
  <2>3. calls' = [calls EXCEPT ![c] = [calls[c] EXCEPT !.pc = "delOtp", !.id = d, !.row = row]]
    BY <2>1
  <2>4. calls' \in CallTable /\ Tame
    BY <1>1, <1>2, <1>3, <2>2, <2>3, HoldMoves
  <2>5. drivers' \in [Drivers -> {NoRow, Deleted} \cup DriverRows]
    BY <1>3, <2>1, <2>2 DEF AccountsInv, StoreInv
  <2> QED
    BY <2>4, <2>5 DEF Steady, CreateDriverFromAuth, accountVars
<1> QED
  BY <1>4, <1>5

LEMMA DeleteOtpSteady ==
    ASSUME AccountsInv, NEW c \in Calls, DeleteOtp(c)
    PROVE  Steady
<1>1. calls[c] # Idle /\ calls[c].pc = "delOtp"
  BY DEF DeleteOtp, At
<1>2. /\ calls[c].op = "verify" /\ calls[c].op \notin AdminOps
      /\ calls[c].id \in Drivers /\ calls[c].row \in DriverRows
  BY <1>1, HereIsGood DEF CallOK, Fits, AdminOps, Nameless
<1>3. calls' \in CallTable /\ Tame
  BY <1>1, <1>2, GotoMoves DEF DeleteOtp, Pcs, Fits
<1> QED
  BY <1>3, QuietIsSteady DEF DeleteOtp

(* DEL revoked_token:<id> happens for a driver, whose tokens are no longer  *)
(* cut; the administrators' keys and tokens are untouched.                  *)
LEMMA LiftRevocationKeeps ==
    ASSUME AccountsInv, NEW c \in Calls, LiftRevocation(c)
    PROVE  AccountsInv'
<1> DEFINE d == calls[c].id
           new == Login(d, calls[c].row)
<1>1. calls[c] # Idle /\ calls[c].pc = "lift"
  BY DEF LiftRevocation, At
<1>2. d \in Drivers /\ calls[c].row \in DriverRows
  BY <1>1, HereIsGood DEF CallOK, Fits, AdminOps, Nameless
<1>3. new \in Tokens /\ new.type = "driver" /\ ~new.cut
  BY <1>2, LoginIsToken
<1>4. calls' \in CallTable /\ Tame
  BY <1>1, ReturnMoves DEF LiftRevocation
<1>5. /\ revoked' = [revoked EXCEPT ![d] = 0]
      /\ tokens' = {IF t.sub = d THEN [t EXCEPT !.cut = FALSE] ELSE t : t \in tokens} \cup {new}
      /\ drivers' = drivers /\ missed' = missed /\ admins' = admins
  BY DEF LiftRevocation, accountVars
<1> HIDE DEF new
<1>6. ASSUME NEW t \in tokens'
      PROVE  t \in Tokens /\ ((t \in tokens /\ t.sub # d) \/ (~t.cut /\ t.type = "driver"))
  <2>1. CASE t = new
    BY <1>3, <2>1
  <2>2. CASE t # new
    <3>1. PICK s \in tokens : t = IF s.sub = d THEN [s EXCEPT !.cut = FALSE] ELSE s
      BY <1>5, <2>2
    <3>2. s \in Tokens
      BY DEF AccountsInv, StoreInv
    <3>3. s.sub = d => s.type = "driver"
      BY <1>2, <3>2 DEF Tokens, Claims
    <3>4. CASE s.sub = d
      BY <3>1, <3>2, <3>3, <3>4 DEF Tokens, Claims
    <3> QED
      BY <3>1, <3>2, <3>4
  <2> QED
    BY <2>1, <2>2
<1>7. StoreInv'
  BY <1>2, <1>4, <1>5, <1>6 DEF AccountsInv, StoreInv, CallTable, Users
<1>8. \A u \in Users \ {d} : revoked'[u] = revoked[u]
  BY <1>5 DEF AccountsInv, StoreInv
<1>9. CutInv'
  <2>1. \A t \in tokens : t.sub \in Users
    BY DEF AccountsInv, StoreInv, Tokens, Claims
  <2> QED
    BY <1>6, <1>8, <2>1 DEF AccountsInv, CutInv
<1>10. AdminInv'
  BY <1>4, <1>5, <1>6 DEF AccountsInv, AdminInv, Tame
<1>11. ASSUME NEW a \in Admins
       PROVE  revoked'[a] = revoked[a] /\ (Settled(a)' => Settled(a))
  <2>1. a \in Users \ {d}
    BY <1>2 DEF Users
  <2> QED
    BY <1>4, <1>5, <1>8, <2>1 DEF Settled, Revoking, Tame, At
<1>12. ASSUME NEW a \in Admins, Settled(a)', NEW t \in tokens', t.type = "admin", t.sub = a,
              revoked'[a] = 2 => t.age = 0
       PROVE  SameClaims(t, admins'[a])
  BY <1>5, <1>6, <1>11, <1>12 DEF AccountsInv, ClaimsInv
<1>13. ASSUME NEW a \in Admins, Settled(a)', NEW b \in Calls, InHand(calls'[b], a)
       PROVE  SameClaims(calls'[b].row, admins'[a])
  <2>1. calls'[b].id = a
    BY <1>13 DEF InHand
  <2> QED
    BY <1>4, <1>5, <1>11, <1>13, <2>1 DEF AccountsInv, ClaimsInv, Tame
<1>14. ClaimsInv'
  BY <1>12, <1>13 DEF ClaimsInv
<1> QED
  BY <1>7, <1>9, <1>10, <1>14 DEF AccountsInv

LEMMA FindByGoogleSubSteady ==
    ASSUME AccountsInv, NEW c \in Calls, FindByGoogleSub(c)
    PROVE  Steady
<1>1. calls[c] # Idle /\ calls[c].pc = "findSub"
  BY DEF FindByGoogleSub, At
<1>2. calls[c].op = "google" /\ calls[c].op \notin AdminOps /\ calls[c].arg \in Emails
  BY <1>1, HereIsGood DEF CallOK, Fits, AdminOps
<1>3. Return(c) => calls' \in CallTable /\ Tame
  BY <1>1, ReturnMoves
<1>4. Goto(c, "createGoogle") => calls' \in CallTable /\ Tame
  BY <1>1, <1>2, GotoMoves DEF Pcs, Nameless, Fits
<1>5. ASSUME NEW d \in GoogleAccounts(calls[c].arg)
      PROVE  Genuine(Login(d, drivers[d]))
  <2>1. d \in Drivers /\ drivers[d] \in DriverRows
    BY <1>2, MailedIsRow DEF GoogleAccounts, AccountsInv
  <2> QED
    BY <2>1, LoginIsToken DEF Genuine
<1>6. \A t \in tokens' : t \in tokens \/ Genuine(t)
  BY <1>5 DEF FindByGoogleSub
<1> QED
  BY <1>3, <1>4, <1>6 DEF Steady, FindByGoogleSub, accountVars, AccountsInv, StoreInv

LEMMA CreateGooglePendingDriverSteady ==
    ASSUME AccountsInv, NEW c \in Calls, CreateGooglePendingDriver(c)
    PROVE  Steady
<1> DEFINE row == NewDriver(calls[c].arg, TRUE, FALSE)
<1>1. calls[c] # Idle /\ calls[c].pc = "createGoogle"
  BY DEF CreateGooglePendingDriver, At
<1>2. row \in DriverRows
  BY <1>1, HereIsGood, NewIsRow DEF CallOK, Fits
<1>3. calls' \in CallTable /\ Tame
  BY <1>1, ReturnMoves DEF CreateGooglePendingDriver
<1>4. drivers' = drivers \/ \E d \in FreeIds : drivers' = [drivers EXCEPT ![d] = row]
  BY DEF CreateGooglePendingDriver
<1> HIDE DEF row
<1>5. drivers' \in [Drivers -> {NoRow, Deleted} \cup DriverRows]
  BY <1>2, <1>4 DEF AccountsInv, StoreInv
<1> QED
  BY <1>3, <1>5 DEF Steady, CreateGooglePendingDriver, accountVars

-----------------------------------------------------------------------------
(* The administrators' calls.                                               *)

LEMMA AdminLoadSteady ==
    ASSUME AccountsInv, NEW c \in Calls, AdminLoad(c)
    PROVE  Steady
<1> DEFINE k == calls[c]
           row == admins[k.id]
<1>1. k # Idle /\ k.pc = "load" /\ k.op \in AdminOps
  BY DEF AdminLoad, At
<1>2. k \in CallFields /\ k.id \in Admins
  BY <1>1, HereIsGood DEF CallOK
<1>3. row \in AdminRows
  BY <1>1, <1>2 DEF AccountsInv, StoreInv, AdminInv
<1>4. CASE Return(c)
  BY <1>1, <1>4, ReturnMoves, QuietIsSteady DEF AdminLoad, accountVars
<1>5. CASE calls' = [calls EXCEPT ![c].pc = "save", ![c].row = row]
  <2>1. calls' = [calls EXCEPT ![c] = [calls[c] EXCEPT !.pc = "save", !.id = k.id, !.row = row]]
    <3>1. [k EXCEPT !.pc = "save", !.row = row] = [k EXCEPT !.pc = "save", !.id = k.id, !.row = row]
      BY <1>2 DEF CallFields
    <3> QED
      BY <1>5, <3>1
  <2>2. k.id \in Users /\ k.op # "approve" /\ row = admins[k.id]
    BY <1>1, <1>2 DEF Users, AdminOps
  <2> HIDE DEF row
  <2>3. calls' \in CallTable /\ Tame
    BY <1>1, <1>2, <1>3, <2>1, <2>2, HoldMoves
  <2> QED
    BY <2>3, QuietIsSteady DEF AdminLoad, accountVars
<1> QED
  BY <1>4, <1>5 DEF AdminLoad

(* What a sign-in saves, wrong password or right, has the same claims.      *)
LEMMA LoginIsAccount ==
    ASSUME NEW row \in AdminRows, NEW current \in AdminRows
    PROVE  /\ RecordFailedLogin(row) \in AdminRows /\ SameClaims(RecordFailedLogin(row), row)
           /\ ResetFailedLoginAttempts(row, current) \in AdminRows
           /\ SameClaims(ResetFailedLoginAttempts(row, current), row)
<1> DEFINE n == row.fails + 1
           fails == IF n > MaxAttempts THEN MaxAttempts ELSE n
           locked == row.locked \/ n >= MaxAttempts
<1>1. fails \in Nat /\ locked \in BOOLEAN
  BY DEF AdminRows
<1>2. RecordFailedLogin(row) = [row EXCEPT !.fails = fails, !.locked = locked]
  BY DEF RecordFailedLogin
<1> HIDE DEF fails, locked
<1>3. RecordFailedLogin(row) \in AdminRows /\ SameClaims(RecordFailedLogin(row), row)
  BY <1>1, <1>2 DEF AdminRows, SameClaims
<1>4. /\ ResetFailedLoginAttempts(row, current) \in AdminRows
      /\ SameClaims(ResetFailedLoginAttempts(row, current), row)
  BY DEF ResetFailedLoginAttempts, AdminRows, SameClaims
<1> QED
  BY <1>3, <1>4

(* What update saves is an account; it has other claims than the row that   *)
(* was loaded only when NeedsInvalidation says so.                          *)
LEMMA UpdatedIsAccount ==
    ASSUME NEW row \in AdminRows, NEW update \in Updates
    PROVE  /\ Updated(row, update) \in AdminRows
           /\ ~NeedsInvalidation(row, update) => SameClaims(Updated(row, update), row)
<1> DEFINE role == IF update.role = "keep" THEN row.role ELSE update.role
           city == IF update.city = "keep" \/ row.city # NoCity THEN row.city ELSE update.city
           active == IF update.active = "keep" THEN row.isActive ELSE update.active = "on"
<1>3. role \in AdminRoles /\ city \in CityNames /\ active \in BOOLEAN
  BY DEF AdminRows, CityNames
<1>4. ~NeedsInvalidation(row, update) => role = row.role /\ city = row.city
  BY DEF NeedsInvalidation
<1>5. Updated(row, update) = [row EXCEPT !.role = role, !.city = city, !.isActive = active]
  BY DEF Updated
<1> HIDE DEF role, city, active
<1>6. Updated(row, update) \in AdminRows
  BY <1>3, <1>5 DEF AdminRows
<1>7. ~NeedsInvalidation(row, update) => SameClaims(Updated(row, update), row)
  BY <1>4, <1>5 DEF AdminRows, SameClaims
<1> QED
  BY <1>6, <1>7

LEMMA AdminSaveKeeps ==
    ASSUME AccountsInv, NEW c \in Calls, AdminSave(c)
    PROVE  AccountsInv'
<1> DEFINE k == calls[c]
           a0 == k.id
<1>1. k # Idle /\ k.pc = "save" /\ k.op \in AdminOps
  BY DEF AdminSave, At
<1>2. k \in CallFields /\ CallOK(k) /\ k \in GoodCalls
  BY <1>1, HereIsGood, CallIsGood DEF AccountsInv
<1>3. a0 \in Admins /\ k.row \in AdminRows /\ k.todo = {}
  BY <1>1, <1>2 DEF CallOK, AdminOps
<1>4. admins[a0] \in AdminRows
  BY <1>1, <1>3 DEF AccountsInv, StoreInv, AdminInv
<1>5. PICK n \in AdminRows :
        /\ admins' = [admins EXCEPT ![a0] = n]
        /\ SameClaims(n, k.row) \/ (k.op = "updateAdmin" /\ NeedsInvalidation(k.row, k.arg))
  <2>1. CASE k.op = "adminLogin"
    <3>1. \/ admins' = [admins EXCEPT ![a0] = ResetFailedLoginAttempts(k.row, admins[a0])]
          \/ admins' = [admins EXCEPT ![a0] = RecordFailedLogin(k.row)]
      BY <2>1 DEF AdminSave, SaveAdmin
    <3> QED
      BY <1>3, <1>4, <3>1, LoginIsAccount
  <2>2. CASE k.op = "updateAdmin"
    <3>1. k.arg \in Updates
      BY <1>2, <2>2 DEF CallOK
    <3>2. admins' = [admins EXCEPT ![a0] = Updated(k.row, k.arg)]
      BY <2>2 DEF AdminSave, SaveAdmin
    <3> QED
      BY <1>3, <1>4, <2>2, <3>1, <3>2, UpdatedIsAccount
  <2>3. CASE k.op = "removeAdmin"
    <3>1. admins' = [admins EXCEPT ![a0] = [k.row EXCEPT !.isActive = FALSE]]
      BY <2>3 DEF AdminSave, SaveAdmin
    <3>2. [k.row EXCEPT !.isActive = FALSE] \in AdminRows /\ SameClaims([k.row EXCEPT !.isActive = FALSE], k.row)
      BY <1>3 DEF AdminRows, SameClaims
    <3> QED
      BY <3>1, <3>2
  <2>4. CASE k.op = "password"
    <3>1. admins' = [admins EXCEPT ![a0] = k.row]
      BY <2>4 DEF AdminSave, SaveAdmin
    <3> QED
      BY <1>3, <3>1 DEF SameClaims
  <2> QED
    BY <1>1, <2>1, <2>2, <2>3, <2>4 DEF AdminOps
<1>6. /\ drivers' = drivers /\ revoked' = revoked /\ missed' = missed
      /\ \A t \in tokens' : t \in tokens \/ t = AdminLogin(a0, k.row)
  BY DEF AdminSave
<1>7. PICK m \in {Idle} \cup GoodCalls :
        /\ calls' = [calls EXCEPT ![c] = m]
        /\ m = Idle \/ (m.op = k.op /\ m.id = a0 /\ m.pc = "revoke")
        /\ k.op = "updateAdmin" /\ NeedsInvalidation(k.row, k.arg) => m # Idle
  <2>1. CASE k.op = "updateAdmin" /\ NeedsInvalidation(k.row, k.arg)
    <3> DEFINE m == [k EXCEPT !.pc = "revoke"]
    <3>1. calls' = [calls EXCEPT ![c] = m]
      BY <2>1 DEF AdminSave, Goto
    <3>2. "revoke" \in Pcs /\ Fits(k.op, "revoke")
      BY DEF Pcs, Fits
    <3>3. m \in GoodCalls /\ m.op = k.op /\ m.pc = "revoke" /\ m.id = k.id
      BY <1>1, <1>2, <3>2, GotoIsGood
    <3>4. m # Idle
      BY <1>1, <3>3 DEF Idle, AdminOps
    <3> HIDE DEF m
    <3> QED
      BY <3>1, <3>3, <3>4
  <2>2. CASE ~(k.op = "updateAdmin" /\ NeedsInvalidation(k.row, k.arg))
    BY <1>3, <2>2 DEF AdminSave, Return
  <2> QED
    BY <2>1, <2>2
<1>8. calls \in CallTable
  BY DEF AccountsInv, StoreInv, CallTable
<1>9. calls' \in CallTable /\ calls'[c] = m /\ \A b \in Calls \ {c} : calls'[b] = calls[b]
  BY <1>7, <1>8 DEF CallTable
<1>10. /\ admins'[a0] = n /\ n # NoAdmin
       /\ \A a \in Admins \ {a0} : admins'[a] = admins[a]
  BY <1>3, <1>5, AdminRowIsAccount DEF AccountsInv, StoreInv
<1> DEFINE new == AdminLogin(a0, k.row)
<1>11. new \in Tokens /\ new.type = "admin" /\ new.sub = a0 /\ ~new.cut /\ SameClaims(new, k.row)
  BY <1>3, AdminLoginIsToken
<1> HIDE DEF new
<1>12. \A t \in tokens' : t \in tokens \/ t = new
  BY <1>6 DEF new
<1>13. StoreInv'
  BY <1>3, <1>5, <1>6, <1>9, <1>11, <1>12 DEF AccountsInv, StoreInv, CallTable
<1>14. CutInv'
  BY <1>6, <1>11, <1>12 DEF AccountsInv, CutInv
<1>15. AdminInv'
  <2>1. \A t \in tokens' : t.type = "admin" => admins'[t.sub] # NoAdmin
    <3>1. \A t \in tokens : t.type = "admin" => t.sub \in Admins
      BY DEF AccountsInv, StoreInv, Tokens, Claims
    <3> QED
      BY <1>10, <1>11, <1>12, <3>1 DEF AccountsInv, AdminInv
  <2>2. ASSUME NEW b \in Calls, calls'[b] # Idle, calls'[b].op \in AdminOps
        PROVE  admins'[calls'[b].id] # NoAdmin
    <3>1. CASE b = c
      BY <1>7, <1>9, <1>10, <2>2, <3>1
    <3>2. CASE b # c
      <4>1. calls'[b] = calls[b]
        BY <1>9, <3>2
      <4>2. calls[b].id \in Admins
        BY <2>2, <4>1, HereIsGood DEF CallOK
      <4> QED
        BY <1>10, <2>2, <4>1, <4>2 DEF AccountsInv, AdminInv
    <3> QED
      BY <3>1, <3>2
  <2> QED
    BY <2>1, <2>2 DEF AdminInv
<1>16. ASSUME NEW a \in Admins, Settled(a)'
       PROVE  Settled(a) /\ (a = a0 => SameClaims(n, k.row) /\ m = Idle)
  <2>1. Settled(a)
    <3>1. \A b \in Calls : At(b, "revoke") => calls'[b] = calls[b]
      BY <1>1, <1>9 DEF At
    <3> QED
      BY <1>6, <1>16, <3>1 DEF Settled, Revoking, At
  <2>2. a = a0 => m = Idle
    BY <1>7, <1>9, <1>16 DEF Settled, Revoking, At
  <2> QED
    BY <1>5, <1>7, <2>1, <2>2
<1>17. InHand(k, a0)
  BY <1>1 DEF InHand
<1>18. ASSUME NEW a \in Admins, Settled(a)'
       PROVE  a = a0 => SameClaims(k.row, admins[a0]) /\ SameClaims(k.row, n)
                        /\ SameClaims(admins[a0], n)
  BY <1>16, <1>17, <1>18 DEF AccountsInv, ClaimsInv, SameClaims
<1>19. ASSUME NEW a \in Admins, Settled(a)', NEW t \in tokens', t.type = "admin", t.sub = a,
              revoked'[a] = 2 => t.age = 0
       PROVE  SameClaims(t, admins'[a])
  <2>1. CASE t = new
    BY <1>10, <1>11, <1>18, <1>19, <2>1 DEF SameClaims
  <2>2. CASE t \in tokens
    <3>1. SameClaims(t, admins[a])
      BY <1>6, <1>16, <1>19, <2>2 DEF AccountsInv, ClaimsInv
    <3> QED
      BY <1>10, <1>18, <1>19, <3>1 DEF SameClaims
  <2> QED
    BY <1>12, <2>1, <2>2
<1>20. ASSUME NEW a \in Admins, Settled(a)', NEW b \in Calls, InHand(calls'[b], a)
       PROVE  SameClaims(calls'[b].row, admins'[a])
  <2>1. b # c
    BY <1>7, <1>9, <1>20 DEF InHand
  <2>2. calls'[b] = calls[b]
    BY <1>9, <2>1
  <2>3. SameClaims(calls[b].row, admins[a])
    BY <1>16, <1>20, <2>2 DEF AccountsInv, ClaimsInv
  <2> QED
    BY <1>10, <1>18, <1>20, <2>2, <2>3 DEF SameClaims
<1>21. ClaimsInv'
  BY <1>19, <1>20 DEF ClaimsInv
<1> QED
  BY <1>13, <1>14, <1>15, <1>21 DEF AccountsInv

(* An account is made, or changes without its claims.                       *)
LEMMA AccountKeeps ==
    ASSUME AccountsInv, NEW a0 \in Admins, NEW n \in AdminRows,
           admins' = [admins EXCEPT ![a0] = n],
           admins[a0] = NoAdmin \/ SameClaims(n, admins[a0]),
           drivers' = drivers, tokens' = tokens, revoked' = revoked, missed' = missed, calls' = calls
    PROVE  AccountsInv'
<1>1. /\ admins'[a0] = n /\ n # NoAdmin
      /\ \A a \in Admins \ {a0} : admins'[a] = admins[a]
  BY AdminRowIsAccount DEF AccountsInv, StoreInv
<1>2. StoreInv' /\ CutInv'
  BY DEF AccountsInv, StoreInv, CutInv
<1>3. \A t \in tokens : t.type = "admin" => t.sub \in Admins
  BY DEF AccountsInv, StoreInv, Tokens, Claims
<1>4. ASSUME NEW c \in Calls, calls[c] # Idle, calls[c].op \in AdminOps
      PROVE  calls[c].id \in Admins
  BY <1>4, HereIsGood DEF CallOK
<1>5. AdminInv'
  BY <1>1, <1>3, <1>4 DEF AccountsInv, AdminInv
<1>6. \A a \in Admins : Settled(a)' => Settled(a)
  BY DEF Settled, Revoking, At
<1>7. ASSUME NEW a \in Admins, Settled(a)', NEW t \in tokens', t.type = "admin", t.sub = a,
             revoked'[a] = 2 => t.age = 0
      PROVE  SameClaims(t, admins'[a])
  <2>1. SameClaims(t, admins[a]) /\ admins[a] # NoAdmin
    BY <1>6, <1>7 DEF AccountsInv, ClaimsInv, AdminInv
  <2> QED
    BY <1>1, <2>1 DEF SameClaims
<1>8. ASSUME NEW a \in Admins, Settled(a)', NEW c \in Calls, InHand(calls'[c], a)
      PROVE  SameClaims(calls'[c].row, admins'[a])
  <2>1. SameClaims(calls[c].row, admins[a]) /\ admins[a] # NoAdmin
    BY <1>6, <1>8 DEF AccountsInv, ClaimsInv, AdminInv, InHand
  <2> QED
    BY <1>1, <2>1 DEF SameClaims
<1>9. ClaimsInv'
  BY <1>7, <1>8 DEF ClaimsInv
<1> QED
  BY <1>2, <1>5, <1>9 DEF AccountsInv

LEMMA LockExpiresKeeps ==
    ASSUME AccountsInv, NEW a \in Admins, LockExpires(a)
    PROVE  AccountsInv'
<1> DEFINE n == [admins[a] EXCEPT !.locked = FALSE]
<1>1. admins[a] \in AdminRows
  BY DEF LockExpires, AccountsInv, StoreInv
<1>2. n \in AdminRows /\ SameClaims(n, admins[a])
  BY <1>1 DEF AdminRows, SameClaims
<1>3. admins' = [admins EXCEPT ![a] = n]
  BY DEF LockExpires
<1> HIDE DEF n
<1> QED
  BY <1>2, <1>3, AccountKeeps DEF LockExpires, storeVars

LEMMA CreateAdminKeeps ==
    ASSUME AccountsInv, NEW t \in tokens, NEW a \in Admins, CreateAdmin(t, a)
    PROVE  AccountsInv'
<1>1. PICK city \in Cities : admins' = [admins EXCEPT ![a] = NewAdmin("ADMIN", city)]
  BY DEF CreateAdmin
<1>2. NewAdmin("ADMIN", city) \in AdminRows
  BY DEF NewAdmin, AdminRows, AdminRoles, CityNames
<1> QED
  BY <1>1, <1>2, AccountKeeps DEF CreateAdmin

-----------------------------------------------------------------------------
(* Time and crashes.                                                        *)

LEMMA RevocationExpiresKeeps ==
    ASSUME AccountsInv, NEW u \in Users, RevocationExpires(u)
    PROVE  AccountsInv'
<1>1. /\ revoked[u] = 3 /\ revoked' = [revoked EXCEPT ![u] = 0]
      /\ drivers' = drivers /\ tokens' = tokens /\ calls' = calls /\ missed' = missed /\ admins' = admins
  BY DEF RevocationExpires, accountVars
<1>2. \A v \in Users : revoked'[v] = IF v = u THEN 0 ELSE revoked[v]
  BY <1>1 DEF AccountsInv, StoreInv
<1>3. StoreInv' /\ AdminInv'
  BY <1>1 DEF AccountsInv, StoreInv, AdminInv
<1>4. CutInv'
  <2>1. \A t \in tokens : t.sub \in Users
    BY DEF AccountsInv, StoreInv, Tokens, Claims
  <2> QED
    BY <1>1, <1>2, <2>1 DEF AccountsInv, CutInv
<1>5. ASSUME NEW a \in Admins, Settled(a)'
      PROVE  Settled(a) /\ (revoked[a] = 2 => revoked'[a] = 2)
  <2>1. a \in Users
    BY DEF Users
  <2> QED
    BY <1>1, <1>2, <1>5, <2>1 DEF Settled, Revoking, At
<1>6. ClaimsInv'
  BY <1>1, <1>5 DEF AccountsInv, ClaimsInv
<1> QED
  BY <1>3, <1>4, <1>6 DEF AccountsInv

(* Half a day later the tokens that were young are old and the old ones are *)
(* gone, and a key is one step closer to its end: what was cut while the    *)
(* key was new is gone before the key.                                      *)
LEMMA HalfDayKeeps ==
    ASSUME AccountsInv, HalfDay
    PROVE  AccountsInv'
<1>1. /\ tokens' = {[t EXCEPT !.age = 1] : t \in {s \in tokens : s.age = 0}}
      /\ revoked' = [u \in Users |-> Expiry(revoked[u])]
      /\ drivers' = drivers /\ calls' = calls /\ missed' = missed /\ admins' = admins
      /\ \A c \in Calls : calls[c] = Idle
  BY DEF HalfDay, Quiet
<1>2. \A u \in Users : revoked[u] \in 0 .. 3 /\ revoked'[u] = Expiry(revoked[u])
  BY <1>1 DEF AccountsInv, StoreInv
<1>3. \A u \in Users : revoked'[u] \in 0 .. 3 /\ (revoked'[u] = 2 <=> revoked[u] = 1) /\ revoked'[u] # 1
  BY <1>2 DEF Expiry
<1>4. ASSUME NEW t \in tokens'
      PROVE  /\ t \in Tokens /\ t.age = 1
             /\ \E s \in tokens : /\ s.age = 0 /\ s.sub = t.sub /\ s.type = t.type
                                  /\ s.role = t.role /\ s.city = t.city /\ s.cut = t.cut
  <2>1. PICK s \in tokens : s.age = 0 /\ t = [s EXCEPT !.age = 1]
    BY <1>1
  <2>2. s \in Tokens
    BY DEF AccountsInv, StoreInv
  <2>3. t \in Tokens /\ t.age = 1
    BY <2>1, <2>2 DEF Tokens, Claims
  <2>4. /\ s.sub = t.sub /\ s.type = t.type /\ s.role = t.role /\ s.city = t.city /\ s.cut = t.cut
    BY <2>1, <2>2 DEF Tokens, Claims
  <2> QED
    BY <2>1, <2>3, <2>4
<1>5. StoreInv'
  <2>1. revoked' \in [Users -> 0 .. 3]
    BY <1>1, <1>3
  <2> QED
    BY <1>1, <1>4, <2>1 DEF AccountsInv, StoreInv
<1>6. CutInv'
  <2> SUFFICES ASSUME NEW t \in tokens', t.cut
               PROVE  revoked'[t.sub] \in {1, 2} /\ (t.age = 0 => revoked'[t.sub] = 1)
    BY DEF CutInv
  <2>1. PICK s \in tokens : s.age = 0 /\ s.sub = t.sub /\ s.cut
    BY <1>4
  <2>2. t.sub \in Users /\ t.age = 1
    BY <1>4 DEF Tokens, Claims
  <2>3. revoked[t.sub] = 1
    BY <2>1 DEF AccountsInv, CutInv
  <2> QED
    BY <1>3, <2>2, <2>3
<1>7. AdminInv'
  BY <1>1, <1>4 DEF AccountsInv, AdminInv
<1>8. ClaimsInv'
  <2>1. ASSUME NEW a \in Admins, Settled(a)', NEW t \in tokens', t.type = "admin", t.sub = a,
               revoked'[a] = 2 => t.age = 0
        PROVE  SameClaims(t, admins'[a])
    <3>1. PICK s \in tokens : /\ s.age = 0 /\ s.sub = t.sub /\ s.type = t.type
                              /\ s.role = t.role /\ s.city = t.city
      BY <1>4
    <3>2. a \in Users /\ t.age = 1
      BY <1>4 DEF Users
    <3>3. revoked[a] # 1
      BY <1>3, <2>1, <3>2
    <3>4. Settled(a)
      BY <1>1, <2>1, <3>3 DEF Settled, Revoking, At
    <3>5. SameClaims(s, admins[a])
      BY <2>1, <3>1, <3>4 DEF AccountsInv, ClaimsInv
    <3> QED
      BY <1>1, <3>1, <3>5 DEF SameClaims
  <2>2. \A c \in Calls, a \in Admins : ~InHand(calls'[c], a)
    BY <1>1 DEF InHand
  <2> QED
    BY <2>1, <2>2 DEF ClaimsInv
<1> QED
  BY <1>5, <1>6, <1>7, <1>8 DEF AccountsInv

LEMMA CrashKeeps ==
    ASSUME AccountsInv, Crash
    PROVE  AccountsInv'
<1>1. /\ drivers' = drivers /\ tokens' = tokens /\ revoked' = revoked /\ admins' = admins
      /\ calls' = [c \in Calls |-> Idle]
      /\ missed' = missed \cup {calls[c].id : c \in {b \in Calls : At(b, "revoke")}}
  BY DEF Crash
<1>2. StoreInv' /\ CutInv'
  BY <1>1 DEF AccountsInv, StoreInv, CutInv
<1>3. AdminInv'
  BY <1>1 DEF AccountsInv, AdminInv
<1>4. \A a \in Admins : Settled(a)' => Settled(a)
  BY <1>1 DEF Settled, Revoking
<1>5. ClaimsInv'
  BY <1>1, <1>4 DEF AccountsInv, ClaimsInv, InHand
<1> QED
  BY <1>2, <1>3, <1>5 DEF AccountsInv

LEMMA ClocksKeep ==
    ASSUME AccountsInv, Clocks
    PROVE  AccountsInv'
<1>1. ASSUME NEW u \in Users, Forget(u) \/ RevocationExpires(u)
      PROVE  AccountsInv'
  <2>1. CASE Forget(u)
    BY <2>1, StayIsTame, QuietIsSteady, SteadyKeeps DEF Forget, storeVars
  <2> QED
    BY <1>1, <2>1, RevocationExpiresKeeps
<1>2. ASSUME NEW t \in tokens, Refuse(t)
      PROVE  AccountsInv'
  BY <1>2, StayIsTame, QuietIsSteady, SteadyKeeps DEF Refuse, storeVars
<1>3. ASSUME NEW e \in Emails, OtpExpires(e)
      PROVE  AccountsInv'
  BY <1>3, StayIsTame, QuietIsSteady, SteadyKeeps DEF OtpExpires, storeVars
<1> QED
  BY <1>1, <1>2, <1>3, LockExpiresKeeps DEF Clocks

-----------------------------------------------------------------------------
(* Requests.                                                                *)

LEMMA BeginDriverCall ==
    ASSUME AccountsInv, NEW c \in Calls,
           NEW op \in (DriverOps \ {"bulk"}) \cup {"logout", "remove"},
           NEW pc \in {"peek", "load", "offline", "delete"}, NEW d \in Drivers,
           NEW arg \in BOOLEAN \cup Statuses \cup Profiles, NEW by \in Tokens \cup {Nobody},
           op \in Toggles => arg \in BOOLEAN, op \in StatusOps => arg \in Statuses,
           op = "completeProfile" => arg \in Profiles, op = "approve" => by \in Tokens,
           Begin(c, op, pc, d, arg, by, {})
    PROVE  calls' \in CallTable /\ Tame
<1>1. op \in Ops /\ op \notin AdminOps /\ op # "bulk" /\ op \notin {"verify", "google", "adminLogin", "updateAdmin"}
  BY DEF Ops, DriverOps, AdminOps, Toggles, StatusOps
<1>2. pc \in Pcs /\ pc \notin Nameless /\ pc \notin {"save", "delOtp", "lift"} /\ Fits(op, pc)
  BY DEF Pcs, Nameless, Fits
<1>3. d \in Users \cup {Nobody} /\ {} \in SUBSET Drivers
  BY DEF Users
<1>4. [op |-> op, pc |-> pc, id |-> d, row |-> NoRow, arg |-> arg, by |-> by, todo |-> {}] \in GoodCalls
  BY <1>1, <1>2, <1>3, BeginIsGood
<1> QED
  BY <1>1, <1>2, <1>4, BeginMoves

LEMMA BeginSignIn ==
    ASSUME AccountsInv, NEW c \in Calls, NEW e \in Emails,
           \/ Begin(c, "verify", "find", Nobody, e, Nobody, {})
           \/ Begin(c, "google", "findSub", Nobody, e, Nobody, {})
    PROVE  calls' \in CallTable /\ Tame
<1>1. {"verify", "google"} \subseteq Ops /\ "verify" \notin AdminOps /\ "google" \notin AdminOps
  BY DEF Ops, AdminOps
<1>2. /\ {"find", "findSub"} \subseteq Pcs /\ {"find", "findSub"} \subseteq Nameless
      /\ Fits("verify", "find") /\ Fits("google", "findSub")
      /\ "verify" \notin Toggles \cup StatusOps /\ "google" \notin Toggles \cup StatusOps
  BY DEF Pcs, Nameless, Fits, Toggles, StatusOps
<1>3. [op |-> "verify", pc |-> "find", id |-> Nobody, row |-> NoRow, arg |-> e, by |-> Nobody,
       todo |-> {}] \in GoodCalls
  BY <1>1, <1>2, BeginIsGood
<1>4. [op |-> "google", pc |-> "findSub", id |-> Nobody, row |-> NoRow, arg |-> e, by |-> Nobody,
       todo |-> {}] \in GoodCalls
  BY <1>1, <1>2, BeginIsGood
<1>5. CASE Begin(c, "verify", "find", Nobody, e, Nobody, {})
  BY <1>1, <1>3, <1>5, BeginMoves
<1>6. CASE Begin(c, "google", "findSub", Nobody, e, Nobody, {})
  BY <1>1, <1>4, <1>6, BeginMoves
<1> QED
  BY <1>5, <1>6

LEMMA BeginBulk ==
    ASSUME AccountsInv, NEW c \in Calls, NEW active \in BOOLEAN, NEW t \in Tokens,
           Begin(c, "bulk", "next", Nobody, active, t, Drivers)
    PROVE  calls' \in CallTable /\ Tame
<1>1. "bulk" \in Ops /\ "bulk" \notin AdminOps /\ "bulk" \notin StatusOps
  BY DEF Ops, DriverOps, Toggles, AdminOps, StatusOps
<1>2. "next" \in Pcs /\ "next" \in Nameless /\ Fits("bulk", "next")
  BY DEF Pcs, Nameless, Fits
<1>3. [op |-> "bulk", pc |-> "next", id |-> Nobody, row |-> NoRow, arg |-> active, by |-> t,
       todo |-> Drivers] \in GoodCalls
  BY <1>1, <1>2, BeginIsGood
<1> QED
  BY <1>1, <1>3, BeginMoves

LEMMA BeginAdminCall ==
    ASSUME AccountsInv, NEW c \in Calls, NEW op \in AdminOps, NEW a \in Admins, admins[a] # NoAdmin,
           NEW arg \in BOOLEAN \cup Updates, NEW by \in Tokens \cup {Nobody},
           op = "adminLogin" => arg \in BOOLEAN, op = "updateAdmin" => arg \in Updates,
           Begin(c, op, "load", a, arg, by, {})
    PROVE  calls' \in CallTable /\ Tame
<1>1. op \in Ops /\ op \notin Toggles \cup StatusOps \cup {"bulk", "verify", "google", "approve", "completeProfile"}
  BY DEF Ops, AdminOps, Toggles, StatusOps
<1>2. "load" \in Pcs /\ Fits(op, "load") /\ a \in Users
  BY DEF Pcs, Fits, Users
<1>3. [op |-> op, pc |-> "load", id |-> a, row |-> NoRow, arg |-> arg, by |-> by, todo |-> {}] \in GoodCalls
  BY <1>1, <1>2, BeginIsGood
<1> QED
  BY <1>1, <1>3, BeginMoves

LEMMA TokenOwner ==
    ASSUME AccountsInv, NEW t \in tokens
    PROVE  /\ t \in Tokens
           /\ t.type = "driver" => t.sub \in Drivers
           /\ t.type = "admin" => t.sub \in Admins /\ admins[t.sub] # NoAdmin
BY DEF AccountsInv, StoreInv, AdminInv, Tokens, Claims

LEMMA RefreshTokenSteady ==
    ASSUME AccountsInv, NEW t \in tokens, RefreshToken(t)
    PROVE  Steady
<1>1. t.type = "driver" /\ Exists(t.sub) => Genuine(Login(t.sub, drivers[t.sub]))
  <2> SUFFICES ASSUME t.type = "driver", Exists(t.sub)
               PROVE  Genuine(Login(t.sub, drivers[t.sub]))
    OBVIOUS
  <2>1. t.sub \in Drivers
    BY TokenOwner
  <2>2. drivers[t.sub] \in DriverRows
    BY <2>1, ExistingIsRow DEF AccountsInv
  <2> QED
    BY <2>1, <2>2, LoginIsToken DEF Genuine
<1>2. t.type = "admin" => Genuine(AdminLogin(t.sub, admins[t.sub]))
  <2> SUFFICES ASSUME t.type = "admin"
               PROVE  Genuine(AdminLogin(t.sub, admins[t.sub]))
    OBVIOUS
  <2>1. t.sub \in Admins /\ admins[t.sub] # NoAdmin
    BY TokenOwner
  <2>2. admins[t.sub] \in AdminRows
    BY <2>1 DEF AccountsInv, StoreInv
  <2> QED
    BY <2>1, <2>2, AdminLoginIsToken DEF Genuine
<1>3. \A s \in tokens' : s \in tokens \/ Genuine(s)
  BY <1>1, <1>2 DEF RefreshToken
<1>4. calls' \in CallTable /\ Tame
  BY StayIsTame DEF RefreshToken
<1> QED
  BY <1>3, <1>4 DEF Steady, RefreshToken, AccountsInv, StoreInv

LEMMA DriverRequestKeeps ==
    ASSUME AccountsInv, DriverRequest
    PROVE  AccountsInv'
<1> USE SteadyKeeps
<1>1. ASSUME NEW c \in Calls, NEW e \in Emails, VerifyEmailOtp(c, e) \/ LoginWithGoogle(c, e)
      PROVE  AccountsInv'
  <2>1. calls' \in CallTable /\ Tame
    BY <1>1, BeginSignIn DEF VerifyEmailOtp, LoginWithGoogle
  <2> QED
    BY <1>1, <2>1, QuietIsSteady DEF VerifyEmailOtp, LoginWithGoogle, accountVars
<1>2. ASSUME NEW c \in Calls, NEW e \in Emails, RegisterDriver(c, e)
      PROVE  AccountsInv'
  <2>1. PICK d \in WithEmail(e), data \in Profiles :
          Begin(c, "completeProfile", "load", d, data, Nobody, {})
    BY <1>2 DEF RegisterDriver
  <2>2. d \in Drivers
    BY DEF WithEmail
  <2>3. calls' \in CallTable /\ Tame
    BY <2>1, <2>2, BeginDriverCall DEF DriverOps, Toggles, StatusOps
  <2> QED
    BY <1>2, <2>3, QuietIsSteady DEF RegisterDriver, accountVars
<1>3. ASSUME NEW c \in Calls, NEW t \in tokens, Logout(c, t)
      PROVE  AccountsInv'
  <2>1. t.sub \in Drivers /\ Begin(c, "logout", "offline", t.sub, TRUE, Nobody, {})
    BY <1>3, TokenOwner DEF Logout
  <2>2. "logout" \in (DriverOps \ {"bulk"}) \cup {"logout", "remove"} /\ "logout" \notin StatusOps
    BY DEF StatusOps
  <2>3. calls' \in CallTable /\ Tame
    BY <2>1, <2>2, BeginDriverCall
  <2> QED
    BY <1>3, <2>3, QuietIsSteady DEF Logout
<1>4. ASSUME NEW c \in Calls, NEW t \in tokens, UpdateMyProfile(c, t)
      PROVE  AccountsInv'
  <2>1. PICK data \in Profiles : Begin(c, "completeProfile", "load", t.sub, data, Nobody, {})
    BY <1>4 DEF UpdateMyProfile
  <2>2. t.sub \in Drivers
    BY <1>4, TokenOwner DEF UpdateMyProfile
  <2>3. calls' \in CallTable /\ Tame
    BY <2>1, <2>2, BeginDriverCall DEF DriverOps, Toggles, StatusOps
  <2> QED
    BY <1>4, <2>3, QuietIsSteady DEF UpdateMyProfile
<1>5. ASSUME NEW c \in Calls, NEW t \in tokens, BulkUpdate(c, t)
      PROVE  AccountsInv'
  <2>1. calls' \in CallTable /\ Tame
    BY <1>5, TokenOwner, BeginBulk DEF BulkUpdate
  <2> QED
    BY <1>5, <2>1, QuietIsSteady DEF BulkUpdate
<1>6. ASSUME NEW c \in Calls, NEW t \in tokens, NEW d \in Drivers, AdminCall(c, t, d)
      PROVE  AccountsInv'
  <2>1. PICK op \in {"setActive", "enable", "disable", "approve", "reject", "remove"},
             pc \in {"load", "peek", "delete"}, active \in BOOLEAN :
          Begin(c, op, pc, d, active, t, {})
    BY <1>6 DEF AdminCall
  <2>2. t \in Tokens
    BY TokenOwner
  <2>3. /\ op \in (DriverOps \ {"bulk"}) \cup {"logout", "remove"}
        /\ op \notin StatusOps /\ op # "completeProfile"
    BY DEF DriverOps, Toggles, StatusOps
  <2>4. calls' \in CallTable /\ Tame
    BY <2>1, <2>2, <2>3, BeginDriverCall
  <2> QED
    BY <1>6, <2>4, QuietIsSteady DEF AdminCall
<1>7. ASSUME NEW e \in Emails, RequestEmailOtp(e)
      PROVE  AccountsInv'
  BY <1>7, StayIsTame, QuietIsSteady DEF RequestEmailOtp, storeVars
<1>8. ASSUME NEW d \in Drivers, LegacyLogin(d)
      PROVE  AccountsInv'
  <2>1. drivers[d] \in DriverRows
    BY <1>8, ExistingIsRow DEF LegacyLogin, AccountsInv
  <2>2. Genuine(Login(d, drivers[d]))
    BY <2>1, LoginIsToken DEF Genuine
  <2>3. calls' \in CallTable /\ Tame
    BY <1>8, StayIsTame DEF LegacyLogin
  <2>4. Steady
    BY <1>8, <2>2, <2>3 DEF Steady, LegacyLogin, accountVars, AccountsInv, StoreInv
  <2> QED
    BY <2>4
<1>9. ASSUME NEW t \in tokens, RefreshToken(t)
      PROVE  AccountsInv'
  BY <1>9, RefreshTokenSteady
<1>10. ASSUME NEW t \in tokens, NEW d \in Drivers, CreateDriver(t, d)
       PROVE  AccountsInv'
  <2>1. PICK e \in Emails, city \in Cities \cup {NoCity} :
          drivers' = [drivers EXCEPT ![d] =
                        [NewDriver(e, FALSE, TRUE) EXCEPT !.named = TRUE, !.city = city]]
    BY <1>10 DEF CreateDriver
  <2> DEFINE new == NewDriver(e, FALSE, TRUE)
             row == [new EXCEPT !.named = TRUE, !.city = city]
  <2>2. new \in DriverFields /\ new.registrationStatus = "PROFILE_INCOMPLETE"
    BY NewIsRow DEF DriverRows, NewDriver
  <2> HIDE DEF new
  <2>3. row \in DriverFields /\ row.registrationStatus = "PROFILE_INCOMPLETE"
    BY <2>2 DEF DriverFields
  <2>4. drivers' = [drivers EXCEPT ![d] = row]
    BY <2>1 DEF new
  <2> HIDE DEF row
  <2>5. row \in DriverRows
    BY <2>3 DEF DriverRows, Earned
  <2>6. drivers' \in [Drivers -> {NoRow, Deleted} \cup DriverRows]
    BY <2>4, <2>5 DEF AccountsInv, StoreInv
  <2>7. calls' \in CallTable /\ Tame
    BY <1>10, StayIsTame DEF CreateDriver
  <2>8. Steady
    BY <1>10, <2>6, <2>7 DEF Steady, CreateDriver
  <2> QED
    BY <2>8
<1> QED
  BY <1>1, <1>2, <1>3, <1>4, <1>5, <1>6, <1>7, <1>8, <1>9, <1>10 DEF DriverRequest

LEMMA AdministratorRequestKeeps ==
    ASSUME AccountsInv, AdministratorRequest
    PROVE  AccountsInv'
<1>1. ASSUME NEW c \in Calls, NEW a \in Admins, StartAdminLogin(c, a)
      PROVE  AccountsInv'
  <2>1. admins[a] # NoAdmin /\ \E right \in BOOLEAN : Begin(c, "adminLogin", "load", a, right, Nobody, {})
    BY <1>1 DEF StartAdminLogin
  <2>2. calls' \in CallTable /\ Tame
    BY <2>1, BeginAdminCall DEF AdminOps
  <2> QED
    BY <1>1, <2>2, QuietIsSteady, SteadyKeeps DEF StartAdminLogin, accountVars
<1>2. ASSUME NEW c \in Calls, NEW a \in Admins, NEW t \in tokens, AdminRequest(c, t, a)
      PROVE  AccountsInv'
  <2>1. admins[a] # NoAdmin /\ t \in Tokens
    BY <1>2, TokenOwner DEF AdminRequest
  <2>2. ASSUME NEW update \in Updates, Begin(c, "updateAdmin", "load", a, update, t, {})
        PROVE  calls' \in CallTable /\ Tame
    BY <2>1, <2>2, BeginAdminCall DEF AdminOps
  <2>3. ASSUME NEW op \in {"removeAdmin", "password"}, Begin(c, op, "load", a, TRUE, t, {})
        PROVE  calls' \in CallTable /\ Tame
    <3>1. op \in AdminOps
      BY DEF AdminOps
    <3> QED
      BY <2>1, <2>3, <3>1, BeginAdminCall
  <2>4. calls' \in CallTable /\ Tame
    BY <1>2, <2>2, <2>3 DEF AdminRequest
  <2> QED
    BY <1>2, <2>4, QuietIsSteady, SteadyKeeps DEF AdminRequest
<1>3. ASSUME NEW t \in tokens, RefreshToken(t)
      PROVE  AccountsInv'
  BY <1>3, RefreshTokenSteady, SteadyKeeps
<1> QED
  BY <1>1, <1>2, <1>3, CreateAdminKeeps DEF AdministratorRequest

-----------------------------------------------------------------------------
(* The steps of calls and sessions, and the specification.                  *)

LEMMA StoreStepKeeps ==
    ASSUME AccountsInv, NEW c \in Calls, StoreStep(c), admins' = admins
    PROVE  AccountsInv'
BY BulkNextSteady, PeekSteady, LoadSteady, SaveSteady, PublishSteady, OfflineSteady, RemoveSteady,
   SteadyKeeps, RevokeTokenKeeps DEF StoreStep

LEMMA AccountStepKeeps ==
    ASSUME AccountsInv, NEW c \in Calls, AccountStep(c)
    PROVE  AccountsInv'
<1>1. CASE StoreStep(c) /\ UNCHANGED accountVars
  BY <1>1, StoreStepKeeps DEF accountVars
<1> QED
  BY <1>1, FindByEmailSteady, CreateDriverFromAuthSteady, DeleteOtpSteady, FindByGoogleSubSteady,
     CreateGooglePendingDriverSteady, AdminLoadSteady, SteadyKeeps, LiftRevocationKeeps, AdminSaveKeeps
     DEF AccountStep

(* Nothing but a call of updateStatus or updateLocation comes of a session. *)
LEMMA SessionCall ==
    ASSUME AccountsInv, NEW c \in Calls, NEW d \in Drivers, NEW by \in Tokens \cup {Nobody},
           \/ \E status \in Statuses, op \in StatusOps : Begin(c, op, "load", d, status, by, {})
           \/ Begin(c, "updateLocation", "load", d, TRUE, by, {})
    PROVE  calls' \in CallTable /\ Tame
<1>1. /\ StatusOps \cup {"updateLocation"} \subseteq (DriverOps \ {"bulk"}) \cup {"logout", "remove"}
      /\ "updateLocation" \notin StatusOps \cup Toggles
      /\ \A op \in StatusOps : op \notin Toggles \cup {"completeProfile", "approve"}
  BY DEF DriverOps, Toggles, StatusOps
<1>2. ASSUME NEW status \in Statuses, NEW op \in StatusOps, Begin(c, op, "load", d, status, by, {})
      PROVE  calls' \in CallTable /\ Tame
  BY <1>1, <1>2, BeginDriverCall
<1>3. CASE Begin(c, "updateLocation", "load", d, TRUE, by, {})
  BY <1>1, <1>3, BeginDriverCall
<1> QED
  BY <1>2, <1>3

LEMMA SessionKeeps ==
    ASSUME AccountsInv, SessionRequest \/ SessionStep
    PROVE  AccountsInv'
<1> USE SteadyKeeps, QuietIsSteady
<1>0. Nobody \in Tokens \cup {Nobody} /\ "OFFLINE" \in Statuses /\ "updateStatus" \in StatusOps /\ "sweep" \in StatusOps
  BY DEF Statuses, StatusOps
<1>1. ASSUME NEW d \in Phones, HandleDisconnect(d)
      PROVE  AccountsInv'
  <2>1. ASSUME NEW c \in Calls, Begin(c, "updateStatus", "load", d, "OFFLINE", Nobody, {})
        PROVE  calls' \in CallTable /\ Tame
    BY <1>0, <2>1, SessionCall
  <2>2. calls' \in CallTable /\ Tame
    BY <1>1, <2>1, StayIsTame DEF HandleDisconnect
  <2> QED
    BY <1>1, <2>2 DEF HandleDisconnect, accountVars
<1>2. ASSUME NEW d \in Phones, PhoneLost(d) \/ HandleConnection(d) \/ AttemptAges(d) \/ TtlPasses(d) \/ Scan
      PROVE  AccountsInv'
  BY <1>2, StayIsTame DEF PhoneLost, HandleConnection, AttemptAges, TtlPasses, Scan, storeVars, accountVars
<1>3. ASSUME NEW d \in Phones, HandleLocation(d) \/ HandleHeartbeat(d)
      PROVE  AccountsInv'
  BY <1>3, StayIsTame DEF HandleLocation, HandleHeartbeat, accountVars
<1>4. ASSUME NEW c \in Calls, NEW d \in Phones, NEW status \in Statuses, HandleStatus(c, d, status)
      PROVE  AccountsInv'
  <2>1. calls' \in CallTable /\ Tame
    BY <1>0, <1>4, SessionCall DEF HandleStatus
  <2> QED
    BY <1>4, <2>1 DEF HandleStatus, accountVars
<1>5. ASSUME NEW c \in Calls, NEW t \in tokens, PatchLocation(c, t)
      PROVE  AccountsInv'
  <2>1. t.sub \in Drivers /\ Begin(c, "updateLocation", "load", t.sub, TRUE, Nobody, {})
    BY <1>5, TokenOwner DEF PatchLocation
  <2>2. calls' \in CallTable /\ Tame
    BY <1>0, <2>1, SessionCall
  <2> QED
    BY <1>5, <2>2 DEF PatchLocation
<1>6. ASSUME NEW c \in Calls, NEW t \in tokens, NEW status \in Statuses, PatchStatus(c, t, status)
      PROVE  AccountsInv'
  <2>1. t.sub \in Drivers /\ Begin(c, "updateStatus", "load", t.sub, status, Nobody, {})
    BY <1>6, TokenOwner DEF PatchStatus
  <2>2. calls' \in CallTable /\ Tame
    BY <1>0, <2>1, SessionCall
  <2> QED
    BY <1>6, <2>2 DEF PatchStatus
<1>7. ASSUME NEW d \in Phones, CheckTtl(d)
      PROVE  AccountsInv'
  <2>1. ASSUME NEW c \in Calls, Begin(c, "sweep", "load", d, "OFFLINE", Nobody, {})
        PROVE  calls' \in CallTable /\ Tame
    BY <1>0, <2>1, SessionCall
  <2>2. calls' \in CallTable /\ Tame
    BY <1>7, <2>1, StayIsTame DEF CheckTtl
  <2> QED
    BY <1>7, <2>2 DEF CheckTtl, accountVars
<1>8. ASSUME NEW d \in Drivers, OnlineExpires(d), UNCHANGED <<accountVars, sessionVars>>
      PROVE  AccountsInv'
  BY <1>8, StayIsTame DEF OnlineExpires, accountVars
<1>9. ASSUME NEW c \in Calls, DeleteTtlKey(c)
      PROVE  AccountsInv'
  <2>1. calls' \in CallTable /\ Tame
    BY <1>9, ReturnMoves DEF DeleteTtlKey, At
  <2> QED
    BY <1>9, <2>1 DEF DeleteTtlKey, accountVars
<1>10. ASSUME NEW c \in Calls, StoreStep(c), UNCHANGED <<accountVars, sessionVars>>
       PROVE  AccountsInv'
  BY <1>10, StoreStepKeeps DEF accountVars
<1>11. CASE Scan
  BY <1>11, StayIsTame DEF Scan, storeVars, accountVars
<1>12. CASE ProcessDies
  BY <1>12, CrashKeeps DEF ProcessDies
<1>13. CASE SessionRequest
  BY <1>1, <1>2, <1>4, <1>5, <1>6, <1>13 DEF SessionRequest, PhoneCloses
<1>14. CASE SessionStep
  BY <1>1, <1>2, <1>3, <1>7, <1>8, <1>9, <1>10, <1>11, <1>12, <1>14 DEF SessionStep, PingTimeout
<1> QED
  BY <1>13, <1>14

LEMMA AccountsInit ==
    ASSUME SystemInit
    PROVE  AccountsInv
<1>1. SeededAdmins \subseteq AdminRows
  <2>1. ASSUME NEW role \in {"SUPER_ADMIN", "ADMIN"}, NEW city \in Cities \cup {NoCity}
        PROVE  NewAdmin(role, city) \in AdminRows
    BY DEF NewAdmin, AdminRows, AdminRoles, CityNames
  <2> QED
    BY <2>1 DEF SeededAdmins
<1>2. StoreInv
  BY <1>1 DEF SystemInit, Started, StoreInv
<1>3. CutInv /\ AdminInv /\ ClaimsInv
  BY DEF SystemInit, Started, CutInv, AdminInv, ClaimsInv, InHand
<1> QED
  BY <1>2, <1>3 DEF AccountsInv

(* Whatever requests, calls, sessions, clocks and crashes do, in any order, *)
(* the rows, tokens, keys and calls in progress stay as AccountsInv says.   *)
THEOREM AccountsInvariant == SystemSpec => []AccountsInv
<1>1. SystemInit => AccountsInv
  BY AccountsInit
<1>2. ASSUME AccountsInv, [AccountNext \/ SessionNext]_systemVars
      PROVE  AccountsInv'
  <2>1. CASE AccountNext
    BY <1>2, <2>1, DriverRequestKeeps, AdministratorRequestKeeps, ClocksKeep, AccountStepKeeps, HalfDayKeeps
    DEF AccountNext, AccountRequest, HalfDayPasses
  <2>2. CASE SessionNext
    BY <1>2, <2>2, SessionKeeps DEF SessionNext
  <2>3. CASE UNCHANGED systemVars
    BY <1>2, <2>3, StayIsTame, QuietIsSteady, SteadyKeeps DEF systemVars, storeVars, accountVars
  <2> QED
    BY <1>2, <2>1, <2>2, <2>3
<1> QED
  BY <1>1, <1>2, PTL DEF SystemSpec

(* An approved driver has a complete profile and somebody who approved it,  *)
(* however whole-entity saves overlap: an approval is of a row that was     *)
(* loaded PENDING_APPROVAL, and no save in progress holds a row that is     *)
(* approved or pending without having earned it                             *)
(* (driver-registration.service.ts:138).                                    *)
THEOREM ApprovalIsEarned == SystemSpec => []ApprovedIsComplete
<1>1. AccountsInv => ApprovedIsComplete
  BY ExistingIsRow DEF AccountsInv, ApprovedIsComplete, DriverRows, Earned
<1> QED
  BY <1>1, AccountsInvariant, PTL

(* A token that a disable, a sign-out or a change of role has revoked stays *)
(* revoked until it expires or its user signs in again by email             *)
(* (drivers.service.ts:145).                                                *)
THEOREM RevokedStaysRevoked == SystemSpec => []RevocationOutlivesTokens
<1>1. AccountsInv => RevocationOutlivesTokens
  BY DEF AccountsInv, CutInv, RevocationOutlivesTokens
<1> QED
  BY <1>1, AccountsInvariant, PTL

(* A token of an administrator that works carries the account's role and    *)
(* city, whatever sign-ins, updates and removals overlapped, but for a      *)
(* revocation that is still to come or that Redis did not take              *)
(* (admin.service.ts:252).                                                  *)
THEOREM ClaimsAreCurrent == SystemSpec => []AdminClaimsCurrent
<1>1. ASSUME AccountsInv
      PROVE  AdminClaimsCurrent
  <2> SUFFICES ASSUME NEW t \in tokens, t.type = "admin", revoked[t.sub] = 0, ~Revoking(t.sub),
                      t.sub \notin missed
               PROVE  t.role = admins[t.sub].role /\ t.city = admins[t.sub].city
    BY DEF AdminClaimsCurrent
  <2>1. t.sub \in Admins
    BY <1>1, TokenOwner
  <2>2. Settled(t.sub)
    BY DEF Settled
  <2>3. SameClaims(t, admins[t.sub])
    BY <1>1, <2>1, <2>2 DEF AccountsInv, ClaimsInv
  <2> QED
    BY <2>3 DEF SameClaims
<1> QED
  BY <1>1, AccountsInvariant, PTL
=============================================================================

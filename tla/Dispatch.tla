------------------------------ MODULE Dispatch ------------------------------
(***************************************************************************)
(* Offers, deliveries and drivers: how a delivery finds its driver.          *)
(*                                                                          *)
(* acceptOffer, assignDriver and updateStatus are database transactions.    *)
(* The first one waits for row locks in between, so it is two steps here:   *)
(* it locks its offer, and later it updates the competing offers and the    *)
(* delivery and commits.  createOfferForDriver, rejectOffer and             *)
(* triggerNextCandidate run without a transaction: every read is a step and *)
(* every save is a step, and what was read may be stale when it is used.    *)
(***************************************************************************)
EXTENDS Naturals, FiniteSets

CONSTANTS
  Drivers,
  Deliveries,
  Requests,    \* concurrent HTTP requests that create or reject offers
  NoDriver,    \* delivery.driverId IS NULL
  NoDelivery,
  MaxOffers,   \* bound: offers ever created
  MaxManual    \* bound: manual assignments by PATCH deliveries/:id/assign

ASSUME MaxOffersAssumption == MaxOffers \in Nat
ASSUME MaxManualAssumption == MaxManual \in Nat
ASSUME NoneAssumption == NoDriver \notin Drivers /\ NoDelivery \notin Deliveries

VARIABLES
  dStatus,     \* deliveries.status
  dDriver,     \* deliveries.driver_id
  drStatus,    \* drivers.status
  oStatus,     \* driver_offers.status, "ABSENT" before the INSERT
  oDelivery,   \* driver_offers.delivery_id
  oDriver,     \* driver_offers.driver_id
  past,        \* offers whose expires_at has passed
  locked,      \* offers row-locked by a running acceptOffer
  req,         \* the requests that run without a transaction
  seen,        \* seen[r]: driver status held by an entity loaded in a location update
  manual,      \* manual assignments so far
  won,         \* history: offers an acceptOffer committed
  beaten       \* history: offers that existed when a competing one was accepted

offerVars    == <<oStatus, oDelivery, oDriver, past, locked>>
deliveryVars == <<dStatus, dDriver>>
history      == <<won, beaten>>
vars == <<offerVars, deliveryVars, drStatus, req, seen, manual, history>>

Offers           == 1..MaxOffers
DeliveryStatuses == {"PENDING", "ASSIGNED", "PICKED_UP", "IN_TRANSIT",
                     "DELIVERED", "FAILED", "CANCELLED"}
DriverStatuses   == {"AVAILABLE", "BUSY", "OFFLINE"}
OfferStatuses    == {"ABSENT", "PENDING", "ACCEPTED", "REJECTED", "EXPIRED"}

IdleReq == [op |-> "idle", offer |-> 0, driver |-> NoDriver, delivery |-> NoDelivery]

TypeOK ==
  /\ dStatus \in [Deliveries -> DeliveryStatuses]
  /\ dDriver \in [Deliveries -> Drivers \cup {NoDriver}]
  /\ drStatus \in [Drivers -> DriverStatuses]
  /\ oStatus \in [Offers -> OfferStatuses]
  /\ oDelivery \in [Offers -> Deliveries \cup {NoDelivery}]
  /\ oDriver \in [Offers -> Drivers \cup {NoDriver}]
  /\ past \in SUBSET Offers
  /\ locked \in SUBSET Offers
  /\ req \in [Requests -> [op : {"idle", "chosen", "checked", "reject", "next"},
                           offer : Offers \cup {0},
                           driver : Drivers \cup {NoDriver},
                           delivery : Deliveries \cup {NoDelivery}]]
  /\ seen \in [Drivers -> DriverStatuses \cup {"none"}]
  /\ manual \in 0..MaxManual
  /\ won \in SUBSET Offers
  /\ beaten \in SUBSET Offers

Init ==
  /\ dStatus = [x \in Deliveries |-> "PENDING"]
  /\ dDriver = [x \in Deliveries |-> NoDriver]
  /\ drStatus = [d \in Drivers |-> "AVAILABLE"]
  /\ oStatus = [o \in Offers |-> "ABSENT"]
  /\ oDelivery = [o \in Offers |-> NoDelivery]
  /\ oDriver = [o \in Offers |-> NoDriver]
  /\ past = {}
  /\ locked = {}
  /\ req = [r \in Requests |-> IdleReq]
  /\ seen = [d \in Drivers |-> "none"]
  /\ manual = 0
  /\ won = {}
  /\ beaten = {}

(* DriverCapabilityService: of its seven checks the status is the one this *)
(* module can see fail.  A driver that is inactive, not APPROVED or without *)
(* a vehicle number counts as OFFLINE here; the zone and document checks    *)
(* always pass; the limit of three deliveries reads a Redis field no code   *)
(* writes.                                                                  *)
CheckDeliveryAcceptanceCapability(d) == drStatus[d] = "AVAILABLE"

OffersOf(x) == {o \in Offers : oStatus[o] # "ABSENT" /\ oDelivery[o] = x}

-----------------------------------------------------------------------------
(* createOfferForDriver: read the driver and the delivery, then save.       *)

(* The dispatch webhook or POST deliveries/:id/offers names both.           *)
CreateOffer(r, d, x) ==
  /\ req[r].op = "idle"
  /\ req' = [req EXCEPT ![r] = [op |-> "chosen", offer |-> 0, driver |-> d, delivery |-> x]]
  /\ UNCHANGED <<offerVars, deliveryVars, drStatus, seen, manual, history>>

CheckOffer(r) ==
  /\ req[r].op = "chosen"
  /\ req' = [req EXCEPT ![r] =
       IF CheckDeliveryAcceptanceCapability(req[r].driver) /\ dStatus[req[r].delivery] = "PENDING"
       THEN [@ EXCEPT !.op = "checked"] ELSE IdleReq]
  /\ UNCHANGED <<offerVars, deliveryVars, drStatus, seen, manual, history>>

SaveOffer(r) ==
  /\ req[r].op = "checked"
  /\ \E o \in Offers :
       /\ oStatus[o] = "ABSENT"
       /\ \A p \in Offers : p < o => oStatus[p] # "ABSENT"
       /\ oStatus' = [oStatus EXCEPT ![o] = "PENDING"]
       /\ oDelivery' = [oDelivery EXCEPT ![o] = req[r].delivery]
       /\ oDriver' = [oDriver EXCEPT ![o] = req[r].driver]
  /\ req' = [req EXCEPT ![r] = IdleReq]
  /\ UNCHANGED <<past, locked, deliveryVars, drStatus, seen, manual, history>>

-----------------------------------------------------------------------------
(* acceptOffer: one transaction.                                            *)

(* A seeded fault: the status of the locked offer is not looked at.         *)
AcceptLocks_NoStatusCheck(o) ==
  /\ o \notin locked
  /\ oStatus[o] # "ABSENT"
  /\ o \notin past
  /\ CheckDeliveryAcceptanceCapability(oDriver[o])
  /\ locked' = locked \cup {o}
  /\ UNCHANGED <<oStatus, oDelivery, oDriver, past, deliveryVars, drStatus, req, seen,
                 manual, history>>

(* SELECT ... FOR UPDATE on the offer and the checks on it.                 *)
AcceptLocks(o) ==
  /\ o \notin locked
  /\ oStatus[o] = "PENDING"
  /\ o \notin past
  /\ CheckDeliveryAcceptanceCapability(oDriver[o])
  /\ locked' = locked \cup {o}
  /\ UNCHANGED <<oStatus, oDelivery, oDriver, past, deliveryVars, drStatus, req, seen,
                 manual, history>>

(* A seeded fault: the offers of the same driver are rejected instead.      *)
Competing_SameDriver(o) ==
  {p \in Offers \ {o} : oDriver[p] = oDriver[o] /\ oStatus[p] = "PENDING"}

(* The PENDING offers the UPDATE of step 3 turns to REJECTED.               *)
Competing(o) == {p \in OffersOf(oDelivery[o]) \ {o} : oStatus[p] = "PENDING"}

(* The UPDATE waits for row locks, then the transaction commits.  The       *)
(* delivery's status is not looked at.                                      *)
AcceptCommits(o) ==
  /\ o \in locked
  /\ Competing(o) \cap locked = {}
  /\ oStatus' = [p \in Offers |-> IF p = o THEN "ACCEPTED"
                                  ELSE IF p \in Competing(o) THEN "REJECTED"
                                  ELSE oStatus[p]]
  /\ locked' = locked \ {o}
  /\ dStatus' = [dStatus EXCEPT ![oDelivery[o]] = "ASSIGNED"]
  /\ dDriver' = [dDriver EXCEPT ![oDelivery[o]] = oDriver[o]]
  /\ drStatus' = [drStatus EXCEPT ![oDriver[o]] = "BUSY"]
  /\ won' = won \cup {o}
  /\ beaten' = beaten \cup (OffersOf(oDelivery[o]) \ (won \cup {o}))
  /\ UNCHANGED <<oDelivery, oDriver, past, req, seen, manual>>

(* Anything thrown in the transaction rolls it back: a lost connection, or  *)
(* PostgreSQL breaking the deadlock of two accepts that wait for each       *)
(* other's offer.                                                           *)
AcceptRollsBack(o) ==
  /\ o \in locked
  /\ locked' = locked \ {o}
  /\ UNCHANGED <<oStatus, oDelivery, oDriver, past, deliveryVars, drStatus, req, seen,
                 manual, history>>

-----------------------------------------------------------------------------
(* rejectOffer and triggerNextCandidate.                                    *)

RejectReads(r, o) ==
  /\ req[r].op = "idle"
  /\ oStatus[o] = "PENDING"
  /\ req' = [req EXCEPT ![r] = [IdleReq EXCEPT !.op = "reject", !.offer = o]]
  /\ UNCHANGED <<offerVars, deliveryVars, drStatus, seen, manual, history>>

(* save() writes the loaded entity back, whatever the row says by now.      *)
RejectSaves(r) ==
  /\ req[r].op = "reject"
  /\ req[r].offer \notin locked
  /\ oStatus' = [oStatus EXCEPT ![req[r].offer] = "REJECTED"]
  /\ req' = [req EXCEPT ![r].op = "next"]
  /\ UNCHANGED <<oDelivery, oDriver, past, locked, deliveryVars, drStatus, seen, manual,
                 history>>

(* Drivers that have had no offer for delivery x and are available.         *)
Candidates(x) ==
  {d \in Drivers : drStatus[d] = "AVAILABLE" /\ \A o \in OffersOf(x) : oDriver[o] # d}

TriggerNextCandidate(r) ==
  /\ req[r].op = "next"
  /\ LET x == oDelivery[req[r].offer]
     IN \/ /\ dStatus[x] # "PENDING" \/ Candidates(x) = {}
           /\ req' = [req EXCEPT ![r] = IdleReq]
        \/ /\ dStatus[x] = "PENDING"
           /\ \E d \in Candidates(x) :
                req' = [req EXCEPT ![r] =
                          [op |-> "chosen", offer |-> 0, driver |-> d, delivery |-> x]]
  /\ UNCHANGED <<offerVars, deliveryVars, drStatus, seen, manual, history>>

(* A request that dies between two of its steps.                            *)
RequestDies(r) ==
  /\ req[r].op # "idle"
  /\ req' = [req EXCEPT ![r] = IdleReq]
  /\ UNCHANGED <<offerVars, deliveryVars, drStatus, seen, manual, history>>

-----------------------------------------------------------------------------
(* Expiry.                                                                  *)

OfferTimePasses(o) ==
  /\ oStatus[o] # "ABSENT" /\ o \notin past
  /\ past' = past \cup {o}
  /\ UNCHANGED <<oStatus, oDelivery, oDriver, locked, deliveryVars, drStatus, req, seen,
                 manual, history>>

Overdue == {o \in past : oStatus[o] = "PENDING"}

ExpireOffers ==
  /\ Overdue # {} /\ Overdue \cap locked = {}
  /\ oStatus' = [o \in Offers |-> IF o \in Overdue THEN "EXPIRED" ELSE oStatus[o]]
  /\ UNCHANGED <<oDelivery, oDriver, past, locked, deliveryVars, drStatus, req, seen,
                 manual, history>>

-----------------------------------------------------------------------------
(* The delivery's own life cycle and the driver's status.                   *)

allowedTransitions ==
  [PENDING    |-> {"ASSIGNED", "CANCELLED"},
   ASSIGNED   |-> {"PICKED_UP", "FAILED", "CANCELLED"},
   PICKED_UP  |-> {"IN_TRANSIT", "DELIVERED", "FAILED"},
   IN_TRANSIT |-> {"DELIVERED", "FAILED"},
   DELIVERED  |-> {}, FAILED |-> {}, CANCELLED |-> {}]

UpdateStatus(x, s) ==
  /\ s \in allowedTransitions[dStatus[x]]
  /\ dStatus' = [dStatus EXCEPT ![x] = s]
  /\ UNCHANGED <<offerVars, dDriver, drStatus, req, seen, manual, history>>

(* verifyOtp: assignment gave the delivery its OTP; any status but          *)
(* DELIVERED becomes DELIVERED when the driver enters it.                   *)
VerifyOtp(x) ==
  /\ dDriver[x] # NoDriver /\ dStatus[x] # "DELIVERED"
  /\ dStatus' = [dStatus EXCEPT ![x] = "DELIVERED"]
  /\ UNCHANGED <<offerVars, dDriver, drStatus, req, seen, manual, history>>

(* assignDriver: no check of the status or of a driver already there.       *)
AssignDriver(x, d) ==
  /\ manual < MaxManual
  /\ manual' = manual + 1
  /\ dStatus' = [dStatus EXCEPT ![x] = "ASSIGNED"]
  /\ dDriver' = [dDriver EXCEPT ![x] = d]
  /\ UNCHANGED <<offerVars, drStatus, req, seen, history>>

(* DriversService.updateStatus: any status may follow any other.            *)
DriverUpdatesStatus(d, s) ==
  /\ drStatus' = [drStatus EXCEPT ![d] = s]
  /\ UNCHANGED <<offerVars, deliveryVars, req, seen, manual, history>>

(* DriversService.updateLocation loads the driver and saves it: the save    *)
(* writes back every column that differs, status included.                  *)
LocationReads(d) ==
  /\ seen[d] = "none"
  /\ seen' = [seen EXCEPT ![d] = drStatus[d]]
  /\ UNCHANGED <<offerVars, deliveryVars, drStatus, req, manual, history>>

LocationSaves(d) ==
  /\ seen[d] # "none"
  /\ drStatus' = [drStatus EXCEPT ![d] = seen[d]]
  /\ seen' = [seen EXCEPT ![d] = "none"]
  /\ UNCHANGED <<offerVars, deliveryVars, req, manual, history>>

-----------------------------------------------------------------------------
RequestStep(r) ==
  \/ \E d \in Drivers, x \in Deliveries : CreateOffer(r, d, x)
  \/ \E o \in Offers : RejectReads(r, o)
  \/ CheckOffer(r) \/ SaveOffer(r)
  \/ RejectSaves(r) \/ TriggerNextCandidate(r)
  \/ RequestDies(r)

AcceptStep(o) == AcceptLocks(o) \/ AcceptCommits(o) \/ AcceptRollsBack(o)

DriverStep(d) ==
  \/ \E s \in DriverStatuses : DriverUpdatesStatus(d, s)
  \/ LocationReads(d) \/ LocationSaves(d)

DeliveryStep(x) ==
  \/ \E s \in DeliveryStatuses : UpdateStatus(x, s)
  \/ VerifyOtp(x)
  \/ \E d \in Drivers : AssignDriver(x, d)

Next ==
  \/ \E r \in Requests : RequestStep(r)
  \/ \E o \in Offers : AcceptStep(o) \/ OfferTimePasses(o)
  \/ ExpireOffers
  \/ \E d \in Drivers : DriverStep(d)
  \/ \E x \in Deliveries : DeliveryStep(x)

Spec == Init /\ [][Next]_vars

-----------------------------------------------------------------------------
(* Properties.                                                              *)

(* Of the offers that are out for a delivery when one of them is accepted,  *)
(* no other is ever accepted: the row locks and the UPDATE of acceptOffer   *)
(* decide one winner, whatever rejections, expiries and late saves follow.  *)
LosersStayLosers ==
  /\ won \cap beaten = {}
  /\ \A o \in beaten : oStatus[o] \notin {"PENDING", "ACCEPTED"} /\ o \notin locked

(* A rejected or expired offer never comes back to life, in spite of        *)
(* rejectOffer saving an entity it loaded earlier.                          *)
DeadOffersStayDead ==
  [][\A o \in Offers : oStatus[o] \in {"REJECTED", "EXPIRED"} =>
                         oStatus'[o] \in {"REJECTED", "EXPIRED"}]_vars

(* No double assignment: accepting an offer never takes a delivery away     *)
(* from the driver who has it (acceptOffer).                                *)
NoDoubleAssignment ==
  [][\A x \in Deliveries : dDriver[x] # NoDriver /\ won' # won => dDriver'[x] = dDriver[x]]_vars
=============================================================================

------------------------------ MODULE Delivery ------------------------------
(***************************************************************************)
(* The life of one delivery: the row in the deliveries table and everything *)
(* that writes it.                                                          *)
(*                                                                          *)
(* assignDriver, updateStatus and verifyOtp lock the row in a transaction,  *)
(* so each is one step; what they promise().then(...) after the commit runs *)
(* later, outside it.  generateDeliveryOtp and the SLA monitor load the     *)
(* entity, change a column and save it without a lock: the save writes back *)
(* every column that differs from the row, with the values loaded earlier.  *)
(* A property set to undefined is not written at all.                       *)
(***************************************************************************)
EXTENDS Naturals, EventHandlers

CONSTANTS
  Drivers,
  Calls,            \* HTTP calls in flight: status updates, OTP checks, OTP requests
  Monitors,         \* processes running the SLA cron
  OTP_MAX_ATTEMPTS,
  MaxAssignments,   \* bound: assignments
  MaxCalls,         \* bound: calls ever begun
  MaxFaults         \* bound: crashes

ASSUME OtpAssumption    == OTP_MAX_ATTEMPTS \in Nat \ {0}
ASSUME BoundsAssumption == MaxAssignments \in Nat /\ MaxCalls \in Nat /\ MaxFaults \in Nat
ASSUME DriverAssumption == NoDriver \notin Drivers

VARIABLES
  row,         \* the deliveries row
  overdue,     \* which of expected_pickup_at and expected_delivery_at have passed
  published,   \* the events of this order in the outbox
  call,        \* the state of each HTTP call
  stats,       \* driver_stats: the counters of each driver
  monitor,     \* the state of each SLA monitor
  slaLock,     \* the Redis key sla-checker:lock exists
  assigned,    \* assignments so far
  begun,       \* calls so far
  faults,      \* crashes so far
  wrong,       \* history: wrong OTPs entered since the OTP was issued
  verified     \* history: the right OTP was entered

bounds  == <<assigned, begun, faults>>
history == <<wrong, verified>>
vars    == <<row, overdue, published, call, stats, monitor, slaLock, bounds, history>>

Statuses == {"PENDING", "ASSIGNED", "PICKED_UP", "IN_TRANSIT", "DELIVERED", "FAILED",
             "CANCELLED"}
Deadlines == {"pickup", "delivery"}
Counters == {"DELIVERED", "FAILED", "CANCELLED"}
Stats    == [Counters -> Nat]
Rows     == [status : Statuses, driver : Drivers \cup {NoDriver}, otp : BOOLEAN,
             attempts : 0..OTP_MAX_ATTEMPTS, locked : BOOLEAN, breached : BOOLEAN]

(* Only the assignment's own event carries the driver.                      *)
OutboxEvents == [type : {"DELIVERY_ASSIGNED_V1", "DELIVERY_PICKUP_CONFIRMED_V1",
                         "DELIVERY_DROPOFF_CONFIRMED_V1", "DELIVERY_FAILED_V1",
                         "DELIVERY_CANCELLED_V1", "PROOF_ACCEPTED_V1"},
                 driver : Drivers \cup {NoDriver}, order : BOOLEAN]

NewRow == [status |-> "PENDING", driver |-> NoDriver, otp |-> FALSE, attempts |-> 0,
           locked |-> FALSE, breached |-> FALSE]
NoStats == [k \in Counters |-> 0]

IdleCall    == [phase |-> "idle", row |-> NewRow, stats |-> NoStats]
IdleMonitor == [phase |-> "idle", row |-> NewRow, found |-> FALSE]

TypeOK ==
  /\ row \in Rows
  /\ overdue \in SUBSET Deadlines
  /\ published \in SUBSET OutboxEvents
  /\ call \in [Calls -> [phase : {"idle", "hook", "count", "otp"}, row : Rows, stats : Stats]]
  /\ stats \in [Drivers -> Stats]
  /\ monitor \in [Monitors -> [phase : {"idle", "locked", "second", "saving", "unlocking"}, row : Rows, found : BOOLEAN]]
  /\ slaLock \in BOOLEAN
  /\ assigned \in 0..MaxAssignments
  /\ begun \in 0..MaxCalls
  /\ faults \in 0..MaxFaults
  /\ wrong \in 0..OTP_MAX_ATTEMPTS
  /\ verified \in BOOLEAN

Init ==
  /\ row = NewRow
  /\ overdue = {}
  /\ published = {}
  /\ call = [c \in Calls |-> IdleCall]
  /\ stats = [d \in Drivers |-> NoStats]
  /\ monitor = [m \in Monitors |-> IdleMonitor]
  /\ slaLock = FALSE
  /\ assigned = 0 /\ begun = 0 /\ faults = 0
  /\ wrong = 0 /\ verified = FALSE

-----------------------------------------------------------------------------
(* Tables of the deliveries service.                                        *)

\* seeded fault: an assigned delivery may be delivered without a pickup
allowedTransitions_NoPickup ==
  [PENDING    |-> {"ASSIGNED", "CANCELLED"},
   ASSIGNED   |-> {"PICKED_UP", "DELIVERED", "FAILED", "CANCELLED"},
   PICKED_UP  |-> {"IN_TRANSIT", "DELIVERED", "FAILED"},
   IN_TRANSIT |-> {"DELIVERED", "FAILED"},
   DELIVERED  |-> {}, FAILED |-> {}, CANCELLED |-> {}]

allowedTransitions ==
  [PENDING    |-> {"ASSIGNED", "CANCELLED"},
   ASSIGNED   |-> {"PICKED_UP", "FAILED", "CANCELLED"},
   PICKED_UP  |-> {"IN_TRANSIT", "DELIVERED", "FAILED"},
   IN_TRANSIT |-> {"DELIVERED", "FAILED"},
   DELIVERED  |-> {}, FAILED |-> {}, CANCELLED |-> {}]

isVendureStatus(s) == s \in {"ASSIGNED", "PICKED_UP", "DELIVERED", "FAILED", "CANCELLED"}

getVendureEventType(s) ==
  CASE s = "ASSIGNED"  -> "DELIVERY_ASSIGNED_V1"
    [] s = "PICKED_UP" -> "DELIVERY_PICKUP_CONFIRMED_V1"
    [] s = "DELIVERED" -> "DELIVERY_DROPOFF_CONFIRMED_V1"
    [] s = "FAILED"    -> "DELIVERY_FAILED_V1"
    [] s = "CANCELLED" -> "DELIVERY_CANCELLED_V1"

OrderEvent(s, d) == [type |-> getVendureEventType(s), driver |-> d, order |-> TRUE]

(* DeliveryEventsNotifier.notify: the proof of a pickup or of a delivery,   *)
(* for the driver; no seller order in the payload.                          *)
Notified(out, s, d) ==
  IF d # NoDriver /\ s \in {"PICKED_UP", "DELIVERED"}
  THEN Published(out, [type |-> "PROOF_ACCEPTED_V1", driver |-> d, order |-> FALSE])
  ELSE out

(* What a change to the status s puts into the outbox; the payload has no   *)
(* driverId.                                                                *)
Publish(s) ==
  published' = LET out == Notified(published, s, row.driver)
               IN  IF isVendureStatus(s) THEN Published(out, OrderEvent(s, NoDriver)) ELSE out

(* The DTO admits every status but PENDING; the default branch is dead.     *)
mapStringToDeliveryStatus(s) == IF s = "PENDING" THEN "ASSIGNED" ELSE s

-----------------------------------------------------------------------------
(* assignDriver, and the delivery part of acceptOffer.                      *)
AssignDriver(d) ==
  /\ assigned < MaxAssignments
  /\ assigned' = assigned + 1
  /\ row' = [row EXCEPT !.status = "ASSIGNED", !.driver = d, !.otp = TRUE, !.attempts = 0]
  /\ published' = Published(published, OrderEvent("ASSIGNED", d))
  /\ wrong' = 0
  /\ UNCHANGED <<overdue, call, stats, monitor, slaLock, begun, faults, verified>>

(* The hooks after the commit see the entity the transaction returned.      *)
StartCall(c) ==
  /\ call[c].phase = "idle"
  /\ begun < MaxCalls
  /\ begun' = begun + 1

Returns(c, entity) ==
  call' = [call EXCEPT ![c] =
    IF entity.status \in Counters /\ entity.driver # NoDriver
    THEN [phase |-> "hook", row |-> entity, stats |-> NoStats] ELSE IdleCall]

(* updateStatusInternal: the same status again returns the row and still    *)
(* runs the hooks; slaBreachAt = undefined is not written.                  *)
UpdateStatus(c, s) ==
  /\ StartCall(c)
  /\ LET to == mapStringToDeliveryStatus(s)
         new == [row EXCEPT !.status = to]
     IN \/ /\ row.status = to
           /\ Returns(c, row)
           /\ UNCHANGED <<row, published>>
        \/ /\ to \in allowedTransitions[row.status]
           /\ row' = new
           /\ Publish(s)
           /\ Returns(c, new)
  /\ UNCHANGED <<overdue, stats, monitor, slaLock, assigned, faults, history>>

(* verifyOtp with the right code: any status but DELIVERED becomes          *)
(* DELIVERED.  deliveryOtp = undefined is not written, the OTP stays.       *)
VerifyOtp(c) ==
  /\ StartCall(c)
  /\ \/ /\ row.status = "DELIVERED"
        /\ Returns(c, row)
        /\ UNCHANGED <<row, published, verified>>
     \/ /\ row.status # "DELIVERED" /\ row.otp /\ ~ row.locked
        /\ LET new == [row EXCEPT !.status = "DELIVERED", !.attempts = 0]
           IN row' = new /\ Returns(c, new)
        /\ Publish("DELIVERED")
        /\ verified' = TRUE
  /\ UNCHANGED <<overdue, stats, monitor, slaLock, assigned, faults, wrong>>

(* The proof is published outside the transaction (manager null) and stays  *)
(* in the outbox when the transaction of the change fails afterwards.       *)
ChangeFails(s) ==
  /\ faults < MaxFaults
  /\ faults' = faults + 1
  /\ row.driver # NoDriver
  /\ \/ s \in allowedTransitions[row.status] \cap {"PICKED_UP", "DELIVERED"}
     \/ s = "DELIVERED" /\ row.status # "DELIVERED" /\ row.otp /\ ~ row.locked
  /\ published' = Notified(published, s, row.driver)
  /\ UNCHANGED <<row, overdue, call, stats, monitor, slaLock, assigned, begun, history>>

(* The exception thrown after the save rolls the transaction back.          *)
RolledBack(old, new) == old

VerifyWrongOtp ==
  /\ row.status # "DELIVERED" /\ row.otp /\ ~ row.locked
  /\ wrong < OTP_MAX_ATTEMPTS
  /\ wrong' = wrong + 1
  /\ row' = RolledBack(row, [row EXCEPT !.attempts = @ + 1,
                                        !.locked = row.attempts + 1 >= OTP_MAX_ATTEMPTS])
  /\ UNCHANGED <<overdue, published, call, stats, monitor, slaLock, bounds, verified>>

-----------------------------------------------------------------------------
(* The projection hooks: driver_stats is read, incremented and saved.       *)

HookReads(c) ==
  /\ call[c].phase = "hook"
  /\ call' = [call EXCEPT ![c] = [@ EXCEPT !.phase = "count", !.stats = stats[call[c].row.driver]]]
  /\ UNCHANGED <<row, overdue, published, stats, monitor, slaLock, bounds, history>>

HookSaves(c) ==
  /\ call[c].phase = "count"
  /\ stats' = [stats EXCEPT ![call[c].row.driver] =
                 [call[c].stats EXCEPT ![call[c].row.status] = @ + 1]]
  /\ call' = [call EXCEPT ![c] = IdleCall]
  /\ UNCHANGED <<row, overdue, published, monitor, slaLock, bounds, history>>

-----------------------------------------------------------------------------
(* generateDeliveryOtp.                                                     *)
GenerateOtpReads(c) ==
  /\ StartCall(c)
  /\ row.driver # NoDriver
  /\ row.status \notin {"DELIVERED", "CANCELLED"}
  /\ call' = [call EXCEPT ![c] = [phase |-> "otp", row |-> row, stats |-> NoStats]]
  /\ UNCHANGED <<row, overdue, published, stats, monitor, slaLock, assigned, faults, history>>

GenerateOtpSaves(c) ==
  /\ call[c].phase = "otp"
  /\ row' = [call[c].row EXCEPT !.otp = TRUE, !.attempts = 0]
  /\ wrong' = 0
  /\ call' = [call EXCEPT ![c] = IdleCall]
  /\ UNCHANGED <<overdue, published, stats, monitor, slaLock, bounds, verified>>

(* The process serving the call dies after a commit.                        *)
CallDies(c) ==
  /\ call[c].phase # "idle"
  /\ faults < MaxFaults
  /\ faults' = faults + 1
  /\ call' = [call EXCEPT ![c] = IdleCall]
  /\ UNCHANGED <<row, overdue, published, stats, monitor, slaLock, assigned, begun, history>>

-----------------------------------------------------------------------------
(* SlaMonitorService.checkSlaBreaches.                                      *)

(* Either deadline may be missing, so they pass in any order.               *)
DeadlinePasses(t) ==
  /\ t \notin overdue
  /\ overdue' = overdue \cup {t}
  /\ UNCHANGED <<row, published, call, stats, monitor, slaLock, bounds, history>>

(* The where clauses of the two finds.                                      *)
PickupLate(r)   == r.status = "ASSIGNED" /\ "pickup" \in overdue /\ ~ r.breached
DeliveryLate(r) == r.status \in {"PICKED_UP", "IN_TRANSIT"} /\ "delivery" \in overdue /\ ~ r.breached

(* SET sla-checker:lock 1 EX 55 NX.                                         *)
MonitorLocks(m) ==
  /\ monitor[m].phase = "idle"
  /\ ~ slaLock
  /\ slaLock' = TRUE
  /\ monitor' = [monitor EXCEPT ![m].phase = "locked"]
  /\ UNCHANGED <<row, overdue, published, call, stats, bounds, history>>

MonitorFindsPickup(m) ==
  /\ monitor[m].phase = "locked"
  /\ monitor' = [monitor EXCEPT ![m] =
       IF PickupLate(row) THEN [phase |-> "second", row |-> row, found |-> TRUE]
                          ELSE [IdleMonitor EXCEPT !.phase = "second"]]
  /\ UNCHANGED <<row, overdue, published, call, stats, slaLock, bounds, history>>

(* A row both finds return is kept once, as the second one saw it.          *)
MonitorFindsDelivery(m) ==
  /\ monitor[m].phase = "second"
  /\ monitor' = [monitor EXCEPT ![m] =
       CASE DeliveryLate(row)  -> [phase |-> "saving", row |-> row, found |-> TRUE]
         [] ~ DeliveryLate(row) /\ monitor[m].found -> [monitor[m] EXCEPT !.phase = "saving"]
         [] OTHER              -> [IdleMonitor EXCEPT !.phase = "unlocking"]]
  /\ UNCHANGED <<row, overdue, published, call, stats, slaLock, bounds, history>>

MonitorSaves(m) ==
  /\ monitor[m].phase = "saving"
  /\ row' = [monitor[m].row EXCEPT !.breached = TRUE]
  /\ monitor' = [monitor EXCEPT ![m] = [IdleMonitor EXCEPT !.phase = "unlocking"]]
  /\ UNCHANGED <<overdue, published, call, stats, slaLock, bounds, history>>

(* The finally block deletes the key, whoever set it.                       *)
MonitorUnlocks(m) ==
  /\ monitor[m].phase = "unlocking"
  /\ slaLock' = FALSE
  /\ monitor' = [monitor EXCEPT ![m] = IdleMonitor]
  /\ UNCHANGED <<row, overdue, published, call, stats, bounds, history>>

MonitorDies(m) ==
  /\ monitor[m].phase # "idle"
  /\ faults < MaxFaults
  /\ faults' = faults + 1
  /\ monitor' = [monitor EXCEPT ![m] = IdleMonitor]
  /\ UNCHANGED <<row, overdue, published, call, stats, slaLock, assigned, begun, history>>

LockExpires_Never == slaLock /\ UNCHANGED vars   \* seeded fault: SET without EX

(* 55 seconds pass, with or without the monitor that set the key.           *)
LockExpires ==
  /\ slaLock
  /\ slaLock' = FALSE
  /\ UNCHANGED <<row, overdue, published, call, stats, monitor, bounds, history>>

-----------------------------------------------------------------------------
CallStep(c) ==
  \/ \E s \in Statuses \ {"PENDING"} : UpdateStatus(c, s)
  \/ VerifyOtp(c) \/ GenerateOtpReads(c) \/ GenerateOtpSaves(c)
  \/ HookReads(c) \/ HookSaves(c) \/ CallDies(c)

MonitorRuns(m) ==
  \/ MonitorFindsPickup(m) \/ MonitorFindsDelivery(m) \/ MonitorSaves(m) \/ MonitorUnlocks(m)

MonitorStep(m) == MonitorLocks(m) \/ MonitorRuns(m) \/ MonitorDies(m)

Next ==
  \/ \E d \in Drivers : AssignDriver(d)
  \/ \E c \in Calls : CallStep(c)
  \/ VerifyWrongOtp
  \/ \E s \in {"PICKED_UP", "DELIVERED"} : ChangeFails(s)
  \/ \E t \in Deadlines : DeadlinePasses(t)
  \/ \E m \in Monitors : MonitorStep(m)
  \/ LockExpires

Spec == Init /\ [][Next]_vars

(* Some process's cron finds the free key in the end, a monitor that runs   *)
(* goes on, a call that has loaded a row saves it, and Redis expires keys.  *)
Fairness ==
  /\ WF_vars(\E m \in Monitors : MonitorLocks(m))
  /\ \A m \in Monitors : WF_vars(MonitorRuns(m))
  /\ \A c \in Calls : WF_vars(GenerateOtpSaves(c) \/ HookReads(c) \/ HookSaves(c))
  /\ WF_vars(LockExpires)

FairSpec == Spec /\ Fairness

-----------------------------------------------------------------------------
(* Properties.                                                              *)

(* Whatever status the row shows, Vendure hears of it: its event is in the  *)
(* outbox, under a type whose registered handler reports that very status,  *)
(* although the OTP request and the SLA monitor write back rows they loaded *)
(* long before (updateStatusInternal, checkSlaBreaches,                     *)
(* generateDeliveryOtp, registerHandlers).  Only an ASSIGNED that came      *)
(* through updateStatus is lost: its payload names no driver, its handler   *)
(* throws, and it holds the key of the event assignDriver would publish.    *)
StatusAnnounced ==
  row.status \in {"ASSIGNED", "PICKED_UP", "DELIVERED", "FAILED", "CANCELLED"} =>
    \E e \in published :
      \/ HandleEvent(e, "answers") = row.status
      \/ row.status = "ASSIGNED" /\ e = OrderEvent("ASSIGNED", NoDriver)

(* A delivery is DELIVERED only if it was picked up before or the right OTP *)
(* was entered, through stale saves and reassignments (verifyOtp,           *)
(* allowedTransitions).                                                     *)
DeliveredHasProof ==
  row.status = "DELIVERED" =>
    verified \/ \E e \in published : e.type = "DELIVERY_PICKUP_CONFIRMED_V1"

(* A late pickup or delivery is marked as an SLA breach unless it stops     *)
(* being late by its status, although monitors die holding the Redis lock,  *)
(* delete each other's, and stale rows are saved over the mark              *)
(* (checkSlaBreaches).                                                      *)
BreachIsMarked ==
  (PickupLate(row) \/ DeliveryLate(row)) ~> ~ (PickupLate(row) \/ DeliveryLate(row))
=============================================================================

--------------------------- MODULE DeliveryProofs ---------------------------
(***************************************************************************)
(* Proofs about Delivery, for any number of drivers, calls and monitors.    *)
(*                                                                          *)
(* A row is written back from copies loaded long before, so what holds of   *)
(* the row must hold of every copy too: Sound says it of one row, and the   *)
(* inductive invariant of the row and of every copy.                        *)
(***************************************************************************)
EXTENDS Delivery, TLAPS

Announced == {"ASSIGNED", "PICKED_UP", "DELIVERED", "FAILED", "CANCELLED"}

(* The event of a status is out.                                            *)
Out(s, out) == \E e \in out : e.order /\ e.type = getVendureEventType(s)

(* What is known of a row once some events are out and the OTP verified.    *)
Sound(r, out, otpSeen) ==
  /\ r.status \in Announced => Out(r.status, out)
  /\ r.status = "IN_TRANSIT" => Out("PICKED_UP", out)
  /\ r.status = "DELIVERED" => Out("PICKED_UP", out) \/ otpSeen

RowSound     == Sound(row, published, verified)
CallsSound   == \A c \in Calls : Sound(call[c].row, published, verified)
MonitorSound == \A m \in Monitors : Sound(monitor[m].row, published, verified)
HooksSound   == \A c \in Calls : call[c].phase \in {"hook", "count"} =>
                  call[c].row.driver \in Drivers /\ call[c].row.status \in Counters

IInv == TypeOK /\ RowSound /\ CallsSound /\ MonitorSound /\ HooksSound

-----------------------------------------------------------------------------
(* The events only accumulate, and a verified OTP stays verified, so a copy *)
(* stays sound.                                                             *)
LEMMA SoundGrows ==
  ASSUME NEW r, NEW out, NEW out2, NEW o \in BOOLEAN, NEW o2 \in BOOLEAN,
         Sound(r, out, o), out \subseteq out2, o => o2
  PROVE  Sound(r, out2, o2)
  BY DEF Sound, Out

(* publish drops an event only when the outbox holds one with its key.      *)
LEMMA PublishedKeeps ==
  ASSUME NEW out \in SUBSET OutboxEvents, NEW e \in OutboxEvents
  PROVE  /\ Published(out, e) \in SUBSET OutboxEvents
         /\ out \subseteq Published(out, e)
         /\ \E f \in Published(out, e) : f.type = e.type /\ f.order = e.order
  <1>1. Published(out, e) \in SUBSET OutboxEvents /\ out \subseteq Published(out, e)
    BY DEF Published
  <1>2. CASE \E f \in out : generateIdempotencyKey(f) = generateIdempotencyKey(e)
    BY <1>2 DEF Published, generateIdempotencyKey
  <1>3. CASE ~ \E f \in out : generateIdempotencyKey(f) = generateIdempotencyKey(e)
    BY <1>3 DEF Published
  <1>4. QED BY <1>1, <1>2, <1>3

LEMMA OrderEventTyped ==
  ASSUME NEW s \in Announced, NEW d \in Drivers \cup {NoDriver}
  PROVE  /\ OrderEvent(s, d) \in OutboxEvents
         /\ OrderEvent(s, d).order = TRUE /\ OrderEvent(s, d).type = getVendureEventType(s)
  BY DEF OrderEvent, OutboxEvents, getVendureEventType, Announced

LEMMA NotifiedKeeps ==
  ASSUME NEW out \in SUBSET OutboxEvents, NEW s, NEW d \in Drivers \cup {NoDriver}
  PROVE  Notified(out, s, d) \in SUBSET OutboxEvents /\ out \subseteq Notified(out, s, d)
  <1> DEFINE e == [type |-> "PROOF_ACCEPTED_V1", driver |-> d, order |-> FALSE]
  <1>1. e \in OutboxEvents BY DEF OutboxEvents
  <1> HIDE DEF e
  <1>2. Published(out, e) \in SUBSET OutboxEvents /\ out \subseteq Published(out, e)
    BY <1>1, PublishedKeeps
  <1>3. Notified(out, s, d) = out \/ Notified(out, s, d) = Published(out, e)
    BY DEF Notified, e
  <1>4. QED BY <1>2, <1>3

(* What a status update publishes (Publish).                                *)
LEMMA PublishKeeps ==
  ASSUME published \in SUBSET OutboxEvents, row.driver \in Drivers \cup {NoDriver},
         NEW s \in Statuses, Publish(s)
  PROVE  /\ published' \in SUBSET OutboxEvents /\ published \subseteq published'
         /\ s \in Announced => Out(s, published')
  <1> DEFINE out == Notified(published, s, row.driver)
             e   == OrderEvent(s, NoDriver)
  <1>1. out \in SUBSET OutboxEvents /\ published \subseteq out
    BY NotifiedKeeps
  <1>2. published' = IF s \in Announced THEN Published(out, e) ELSE out
    BY DEF Publish, isVendureStatus, Announced
  <1> HIDE DEF out, e
  <1>3. CASE s \in Announced
    <2>1. e \in OutboxEvents /\ e.order = TRUE /\ e.type = getVendureEventType(s)
      BY <1>3, OrderEventTyped DEF e
    <2>2. QED BY <1>1, <1>2, <1>3, <2>1, PublishedKeeps DEF Out
  <1>4. CASE s \notin Announced
    BY <1>1, <1>2, <1>4
  <1>5. QED BY <1>3, <1>4

(* The handler registered for the event of a status reports that status,    *)
(* unless it is the ASSIGNED event without a driver.                        *)
LEMMA HandlerReports ==
  ASSUME NEW s \in Announced, NEW e \in OutboxEvents, e.order,
         e.type = getVendureEventType(s)
  PROVE  \/ HandleEvent(e, "answers") = s
         \/ s = "ASSIGNED" /\ e = OrderEvent("ASSIGNED", NoDriver)
  <1>1. CASE s = "ASSIGNED"
    <2>1. e.type = "DELIVERY_ASSIGNED_V1" BY <1>1 DEF getVendureEventType
    <2>2. CASE e.driver = NoDriver
      BY <1>1, <2>1, <2>2 DEF OutboxEvents, OrderEvent, getVendureEventType
    <2>3. CASE e.driver # NoDriver
      BY <1>1, <2>1, <2>3 DEF HandleEvent, registerHandlers, DeliveryAssignedHandler, sendToVendure
    <2>4. QED BY <2>2, <2>3
  <1>2. CASE s = "PICKED_UP"
    <2>1. e.type = "DELIVERY_PICKUP_CONFIRMED_V1" BY <1>2 DEF getVendureEventType
    <2>2. QED BY <1>2, <2>1 DEF HandleEvent, registerHandlers, DeliveryStatusForwardingHandler,
                                sendToVendure
  <1>3. CASE s = "DELIVERED"
    <2>1. e.type = "DELIVERY_DROPOFF_CONFIRMED_V1" BY <1>3 DEF getVendureEventType
    <2>2. QED BY <1>3, <2>1 DEF HandleEvent, registerHandlers, DeliveryStatusForwardingHandler,
                                sendToVendure
  <1>4. CASE s = "FAILED"
    <2>1. e.type = "DELIVERY_FAILED_V1" BY <1>4 DEF getVendureEventType
    <2>2. QED BY <1>4, <2>1 DEF HandleEvent, registerHandlers, DeliveryStatusForwardingHandler,
                                sendToVendure
  <1>5. CASE s = "CANCELLED"
    <2>1. e.type = "DELIVERY_CANCELLED_V1" BY <1>5 DEF getVendureEventType
    <2>2. QED BY <1>5, <2>1 DEF HandleEvent, registerHandlers, DeliveryCancelledHandler,
                                sendToVendure
  <1>6. QED BY <1>1, <1>2, <1>3, <1>4, <1>5 DEF Announced

(* The way into DELIVERED and IN_TRANSIT leads through a pickup             *)
(* (allowedTransitions).                                                    *)
LEMMA PickupComesFirst ==
  ASSUME NEW s \in Statuses
  PROVE  /\ "DELIVERED" \in allowedTransitions[s] => s \in {"PICKED_UP", "IN_TRANSIT"}
         /\ "IN_TRANSIT" \in allowedTransitions[s] => s = "PICKED_UP"
         /\ allowedTransitions[s] \subseteq Statuses
  <1>1. CASE s = "PENDING"    BY <1>1 DEF allowedTransitions, Statuses
  <1>2. CASE s = "ASSIGNED"   BY <1>2 DEF allowedTransitions, Statuses
  <1>3. CASE s = "PICKED_UP"  BY <1>3 DEF allowedTransitions, Statuses
  <1>4. CASE s = "IN_TRANSIT" BY <1>4 DEF allowedTransitions, Statuses
  <1>5. CASE s = "DELIVERED"  BY <1>5 DEF allowedTransitions, Statuses
  <1>6. CASE s = "FAILED"     BY <1>6 DEF allowedTransitions, Statuses
  <1>7. CASE s = "CANCELLED"  BY <1>7 DEF allowedTransitions, Statuses
  <1>8. QED BY <1>1, <1>2, <1>3, <1>4, <1>5, <1>6, <1>7 DEF Statuses

(* A new delivery has nothing to announce.                                  *)
LEMMA NewRowFacts ==
  ASSUME NEW out, NEW o
  PROVE  NewRow \in Rows /\ Sound(NewRow, out, o)
  BY OtpAssumption DEF NewRow, Rows, Statuses, Sound, Announced

(* What assignDriver saves is a row.                                        *)
LEMMA AssignedRow ==
  ASSUME NEW r \in Rows, NEW d \in Drivers
  PROVE  [r EXCEPT !.status = "ASSIGNED", !.driver = d, !.otp = TRUE, !.attempts = 0] \in Rows
  <1>1. 0 \in 0..OTP_MAX_ATTEMPTS /\ "ASSIGNED" \in Statuses
    BY OtpAssumption DEF Statuses
  <1>2. QED BY <1>1 DEF Rows

LEMMA IdleCallTyped ==
  /\ NoStats \in Stats
  /\ IdleCall \in [phase : {"idle", "hook", "count", "otp"}, row : Rows, stats : Stats]
  <1>1. NoStats \in Stats BY DEF NoStats, Stats
  <1>2. QED BY <1>1, NewRowFacts DEF IdleCall

LEMMA InitIInv == Init => IInv
  <1> SUFFICES ASSUME Init PROVE IInv OBVIOUS
  <1>1. TypeOK
    <2>1. row \in Rows /\ overdue \in SUBSET Deadlines /\ published \in SUBSET OutboxEvents
      BY NewRowFacts DEF Init
    <2>2. call \in [Calls -> [phase : {"idle", "hook", "count", "otp"}, row : Rows,
                             stats : Stats]] /\ stats \in [Drivers -> Stats]
      BY IdleCallTyped DEF Init
    <2>3. monitor \in [Monitors -> [phase : {"idle", "locked", "second", "saving", "unlocking"},
                                   row : Rows, found : BOOLEAN]]
      BY NewRowFacts DEF Init, IdleMonitor
    <2>4. assigned \in 0..MaxAssignments /\ begun \in 0..MaxCalls /\ faults \in 0..MaxFaults
          /\ wrong \in 0..OTP_MAX_ATTEMPTS
      BY BoundsAssumption, OtpAssumption DEF Init
    <2>5. slaLock \in BOOLEAN /\ verified \in BOOLEAN BY DEF Init
    <2>6. QED BY <2>1, <2>2, <2>3, <2>4, <2>5 DEF TypeOK
  <1>2. RowSound /\ CallsSound /\ MonitorSound
    BY NewRowFacts DEF Init, RowSound, CallsSound, MonitorSound, IdleCall, IdleMonitor
  <1>3. HooksSound BY DEF Init, HooksSound, IdleCall
  <1>4. QED BY <1>1, <1>2, <1>3 DEF IInv

-----------------------------------------------------------------------------
(* The entity a call returns is a typed, sound row, so the state the hooks  *)
(* start from is too (Returns).                                             *)
LEMMA ReturnsKeeps ==
  ASSUME IInv, NEW c \in Calls, NEW entity \in Rows, Returns(c, entity),
         published \subseteq published', verified' \in BOOLEAN, verified => verified',
         Sound(entity, published', verified')
  PROVE  /\ call' \in [Calls -> [phase : {"idle", "hook", "count", "otp"},
                                 row : Rows, stats : Stats]]
         /\ CallsSound' /\ HooksSound'
  <1> DEFINE Records == [phase : {"idle", "hook", "count", "otp"}, row : Rows, stats : Stats]
             Answer  == IF entity.status \in Counters /\ entity.driver # NoDriver
                        THEN [phase |-> "hook", row |-> entity, stats |-> NoStats] ELSE IdleCall
  <1>1. Answer \in Records BY IdleCallTyped
  <1>2. call \in [Calls -> Records] /\ call' = [call EXCEPT ![c] = Answer]
    BY DEF IInv, TypeOK, Returns
  <1>3. call' \in [Calls -> Records] BY <1>1, <1>2
  <1>4. Sound(Answer.row, published', verified') BY NewRowFacts DEF IdleCall
  <1>5. CallsSound'
    <2> SUFFICES ASSUME NEW d \in Calls PROVE Sound(call'[d].row, published', verified')
      BY DEF CallsSound
    <2>1. CASE d = c BY <2>1, <1>2, <1>4
    <2>2. CASE d # c BY <2>2, <1>2, SoundGrows DEF IInv, CallsSound, TypeOK
    <2>3. QED BY <2>1, <2>2
  <1>6. Answer.phase \in {"hook", "count"} =>
          Answer.row.driver \in Drivers /\ Answer.row.status \in Counters
    BY DEF IdleCall, Rows
  <1>7. HooksSound' BY <1>2, <1>6 DEF IInv, HooksSound
  <1>8. QED BY <1>3, <1>5, <1>7

(* What a step that leaves the copies alone, or only lets the events grow,  *)
(* keeps of them.                                                           *)
LEMMA CopiesKept ==
  ASSUME IInv, published \subseteq published', verified' \in BOOLEAN, verified => verified'
  PROVE  /\ call' = call => CallsSound' /\ HooksSound'
         /\ monitor' = monitor => MonitorSound'
         /\ row' = row => RowSound'
  BY SoundGrows DEF IInv, TypeOK, CallsSound, HooksSound, MonitorSound, RowSound

(* A call that ends leaves no copy behind.                                  *)
LEMMA CallEnds ==
  ASSUME IInv, NEW c \in Calls, call' = [call EXCEPT ![c] = IdleCall],
         published' = published, verified' = verified
  PROVE  /\ call' \in [Calls -> [phase : {"idle", "hook", "count", "otp"},
                                 row : Rows, stats : Stats]]
         /\ CallsSound' /\ HooksSound'
  BY NewRowFacts, IdleCallTyped DEF IInv, TypeOK, CallsSound, HooksSound, IdleCall

MonitorStates == [phase : {"idle", "locked", "second", "saving", "unlocking"}, row : Rows,
                  found : BOOLEAN]

(* A monitor's next state is typed and holds a sound copy.                  *)
LEMMA MonitorMoves ==
  ASSUME IInv, NEW m \in Monitors, NEW s \in MonitorStates,
         Sound(s.row, published, verified), monitor' = [monitor EXCEPT ![m] = s],
         published' = published, verified' = verified
  PROVE  monitor' \in [Monitors -> MonitorStates] /\ MonitorSound'
  BY DEF IInv, TypeOK, MonitorSound, MonitorStates

-----------------------------------------------------------------------------
LEMMA AssignStep ==
  ASSUME IInv, NEW d \in Drivers, AssignDriver(d)
  PROVE  IInv'
  <1>0. /\ published' \in SUBSET OutboxEvents /\ published \subseteq published'
        /\ Out("ASSIGNED", published')
    <2>1. /\ OrderEvent("ASSIGNED", d) \in OutboxEvents /\ OrderEvent("ASSIGNED", d).order = TRUE
          /\ OrderEvent("ASSIGNED", d).type = getVendureEventType("ASSIGNED")
      BY OrderEventTyped DEF Announced
    <2>2. QED BY <2>1, PublishedKeeps DEF IInv, TypeOK, AssignDriver, Out
  <1>1. TypeOK'
    <2>1. row' \in Rows
      BY AssignedRow DEF IInv, TypeOK, AssignDriver
    <2>2. published' \in SUBSET OutboxEvents BY <1>0
    <2>3. assigned' \in 0..MaxAssignments /\ wrong' \in 0..OTP_MAX_ATTEMPTS
      BY OtpAssumption, BoundsAssumption DEF IInv, TypeOK, AssignDriver
    <2>4. QED BY <2>1, <2>2, <2>3 DEF IInv, TypeOK, AssignDriver
  <1>2. published \subseteq published' BY <1>0
  <1>3. RowSound'
    BY <1>0 DEF IInv, TypeOK, Rows, AssignDriver, RowSound, Sound
  <1>4. CallsSound' /\ HooksSound' /\ MonitorSound'
    BY <1>2, CopiesKept DEF IInv, TypeOK, AssignDriver
  <1>5. QED BY <1>1, <1>3, <1>4 DEF IInv

LEMMA UpdateStep ==
  ASSUME IInv, NEW c \in Calls, NEW s \in Statuses \ {"PENDING"}, UpdateStatus(c, s)
  PROVE  IInv'
  <1> DEFINE new == [row EXCEPT !.status = s]
  <1>1. mapStringToDeliveryStatus(s) = s BY DEF mapStringToDeliveryStatus
  <1>2. new \in Rows /\ new.status = s BY DEF IInv, TypeOK, Rows
  <1>3. UNCHANGED <<overdue, stats, monitor, slaLock, assigned, faults, wrong, verified>>
        /\ begun' = begun + 1 /\ begun < MaxCalls
    BY DEF UpdateStatus, StartCall, history
  <1>4. CASE row.status = s /\ Returns(c, row) /\ UNCHANGED <<row, published>>
    <2>1. Sound(row, published', verified') BY <1>4, <1>3 DEF IInv, RowSound
    <2>2. /\ call' \in [Calls -> [phase : {"idle", "hook", "count", "otp"},
                                  row : Rows, stats : Stats]]
          /\ CallsSound' /\ HooksSound'
      BY <1>3, <1>4, <2>1, ReturnsKeeps DEF IInv, TypeOK
    <2>3. RowSound' /\ MonitorSound' BY <1>3, <1>4, CopiesKept DEF IInv, TypeOK
    <2>4. TypeOK' BY <1>3, <1>4, <2>2, BoundsAssumption DEF IInv, TypeOK
    <2>5. QED BY <2>2, <2>3, <2>4 DEF IInv
  <1>5. CASE s \in allowedTransitions[row.status] /\ row' = new /\ Publish(s) /\ Returns(c, new)
    <2>1. published \subseteq published' /\ (s \in Announced => Out(s, published'))
          /\ published' \in SUBSET OutboxEvents
      BY <1>5, PublishKeeps DEF IInv, TypeOK, Rows
    <2>2. row.status \in Statuses BY DEF IInv, TypeOK, Rows
    <2>3. s \in {"DELIVERED", "IN_TRANSIT"} => Out("PICKED_UP", published)
      BY <1>5, <2>2, PickupComesFirst DEF IInv, RowSound, Sound, Announced
    <2>4. Sound(new, published', verified') BY <1>2, <2>1, <2>3 DEF Sound, Out
    <2>5. /\ call' \in [Calls -> [phase : {"idle", "hook", "count", "otp"},
                                  row : Rows, stats : Stats]]
          /\ CallsSound' /\ HooksSound'
      BY <1>2, <1>3, <1>5, <2>1, <2>4, ReturnsKeeps DEF IInv, TypeOK
    <2>6. MonitorSound' BY <1>3, <2>1, CopiesKept DEF IInv, TypeOK
    <2>7. RowSound' BY <1>5, <2>4 DEF RowSound
    <2>8. TypeOK' BY <1>2, <1>3, <1>5, <2>1, <2>5, BoundsAssumption DEF IInv, TypeOK
    <2>9. QED BY <2>5, <2>6, <2>7, <2>8 DEF IInv
  <1>6. QED BY <1>1, <1>4, <1>5 DEF UpdateStatus

LEMMA VerifyStep ==
  ASSUME IInv, NEW c \in Calls, VerifyOtp(c)
  PROVE  IInv'
  <1> DEFINE new == [row EXCEPT !.status = "DELIVERED", !.attempts = 0]
  <1>1. new \in Rows /\ new.status = "DELIVERED"
    <2>1. row \in Rows /\ "DELIVERED" \in Statuses BY DEF IInv, TypeOK, Statuses
    <2>2. new \in Rows
      <3>1. 0 \in 0..OTP_MAX_ATTEMPTS BY OtpAssumption
      <3>2. QED BY <2>1, <3>1 DEF Rows
    <2>3. new.status = "DELIVERED" BY <2>1 DEF Rows
    <2>4. QED BY <2>2, <2>3
  <1>2. UNCHANGED <<overdue, stats, monitor, slaLock, assigned, faults, wrong>>
        /\ begun' = begun + 1 /\ begun < MaxCalls
    BY DEF VerifyOtp, StartCall
  <1>3. CASE Returns(c, row) /\ UNCHANGED <<row, published, verified>>
    <2>1. Sound(row, published', verified') BY <1>3 DEF IInv, RowSound
    <2>2. /\ call' \in [Calls -> [phase : {"idle", "hook", "count", "otp"},
                                  row : Rows, stats : Stats]]
          /\ CallsSound' /\ HooksSound'
      BY <1>3, <2>1, ReturnsKeeps DEF IInv, TypeOK
    <2>3. RowSound' /\ MonitorSound' BY <1>2, <1>3, CopiesKept DEF IInv, TypeOK
    <2>4. TypeOK' BY <1>2, <1>3, <2>2, BoundsAssumption DEF IInv, TypeOK
    <2>5. QED BY <2>2, <2>3, <2>4 DEF IInv
  <1>4. CASE row' = new /\ Returns(c, new) /\ Publish("DELIVERED") /\ verified' = TRUE
    <2>1. published \subseteq published' /\ Out("DELIVERED", published')
          /\ published' \in SUBSET OutboxEvents
      BY <1>4, PublishKeeps DEF IInv, TypeOK, Rows, Statuses, Announced
    <2>2. Sound(new, published', verified') BY <1>1, <1>4, <2>1 DEF Sound
    <2>3. /\ call' \in [Calls -> [phase : {"idle", "hook", "count", "otp"},
                                  row : Rows, stats : Stats]]
          /\ CallsSound' /\ HooksSound'
      BY <1>1, <1>4, <2>1, <2>2, ReturnsKeeps
    <2>4. MonitorSound' BY <1>2, <1>4, <2>1, CopiesKept
    <2>5. RowSound' BY <1>4, <2>2 DEF RowSound
    <2>6. TypeOK' BY <1>1, <1>2, <1>4, <2>1, <2>3, BoundsAssumption DEF IInv, TypeOK
    <2>7. QED BY <2>3, <2>4, <2>5, <2>6 DEF IInv
  <1>5. QED BY <1>3, <1>4 DEF VerifyOtp

LEMMA WrongOtpStep ==
  ASSUME IInv, VerifyWrongOtp
  PROVE  IInv'
  <1>1. UNCHANGED <<row, overdue, published, call, stats, monitor, slaLock, assigned, begun,
                    faults, verified>>
        /\ wrong' = wrong + 1 /\ wrong < OTP_MAX_ATTEMPTS
    BY DEF VerifyWrongOtp, RolledBack, bounds
  <1>2. TypeOK' BY <1>1, OtpAssumption DEF IInv, TypeOK
  <1>3. RowSound' /\ CallsSound' /\ HooksSound' /\ MonitorSound'
    BY <1>1, CopiesKept DEF IInv, TypeOK
  <1>4. QED BY <1>2, <1>3 DEF IInv

(* A change that failed leaves its proof in the outbox and nothing else.    *)
LEMMA ChangeFailsStep ==
  ASSUME IInv, NEW s \in {"PICKED_UP", "DELIVERED"}, ChangeFails(s)
  PROVE  IInv'
  <1>1. UNCHANGED <<row, overdue, call, stats, monitor, slaLock, assigned, begun, wrong, verified>>
        /\ faults' = faults + 1 /\ faults < MaxFaults
    BY DEF ChangeFails, history
  <1>2. published' \in SUBSET OutboxEvents /\ published \subseteq published'
    BY NotifiedKeeps DEF ChangeFails, IInv, TypeOK, Rows
  <1>3. TypeOK' BY <1>1, <1>2, BoundsAssumption DEF IInv, TypeOK
  <1>4. RowSound' /\ CallsSound' /\ HooksSound' /\ MonitorSound'
    BY <1>1, <1>2, CopiesKept DEF IInv, TypeOK
  <1>5. QED BY <1>3, <1>4 DEF IInv

(* The steps that only move a call on: the hooks, the OTP request, a crash. *)
LEMMA HookStep ==
  ASSUME IInv, NEW c \in Calls, HookReads(c) \/ HookSaves(c)
  PROVE  IInv'
  <1>1. UNCHANGED <<row, overdue, published, monitor, slaLock, assigned, begun, faults, wrong,
                    verified>>
    BY DEF HookReads, HookSaves, bounds, history
  <1>2. RowSound' /\ MonitorSound' BY <1>1, CopiesKept DEF IInv, TypeOK
  <1>3. call[c].row.driver \in Drivers /\ call[c].row.status \in Counters
    BY DEF IInv, HooksSound, HookReads, HookSaves
  <1>4. CASE HookReads(c)
    <2>1. stats' = stats /\ stats[call[c].row.driver] \in Stats
          /\ call' = [call EXCEPT ![c] = [@ EXCEPT !.phase = "count",
                                                   !.stats = stats[call[c].row.driver]]]
      BY <1>3, <1>4 DEF HookReads, IInv, TypeOK
    <2> DEFINE CallRows == [phase : {"idle", "hook", "count", "otp"}, row : Rows, stats : Stats]
               rec == [call[c] EXCEPT !.phase = "count", !.stats = stats[call[c].row.driver]]
    <2>a. call \in [Calls -> CallRows] BY DEF IInv, TypeOK
    <2>b. rec \in CallRows /\ rec.row = call[c].row BY <2>1, <2>a
    <2>c. call' = [call EXCEPT ![c] = rec] BY <2>1
    <2> HIDE DEF rec
    <2>2. call' \in [Calls -> CallRows] BY <2>a, <2>b, <2>c
    <2>3. \A d \in Calls : call'[d].row = call[d].row /\ (d # c => call'[d] = call[d])
      BY <2>a, <2>b, <2>c
    <2>4. CallsSound' /\ HooksSound'
      BY <1>1, <1>3, <2>3 DEF IInv, CallsSound, HooksSound
    <2>5. TypeOK' BY <1>1, <2>1, <2>2 DEF IInv, TypeOK
    <2>6. QED BY <1>2, <2>4, <2>5 DEF IInv
  <1>5. CASE HookSaves(c)
    <2>1. call[c].stats \in Stats BY DEF IInv, TypeOK
    <2>2. [call[c].stats EXCEPT ![call[c].row.status] = @ + 1] \in Stats
      BY <1>3, <2>1 DEF Stats
    <2>3. stats' \in [Drivers -> Stats]
      BY <1>5, <2>2 DEF HookSaves, IInv, TypeOK
    <2>4. /\ call' \in [Calls -> [phase : {"idle", "hook", "count", "otp"},
                                  row : Rows, stats : Stats]]
          /\ CallsSound' /\ HooksSound'
      BY <1>1, <1>5, CallEnds DEF HookSaves
    <2>5. TypeOK' BY <1>1, <2>3, <2>4 DEF IInv, TypeOK
    <2>6. QED BY <1>2, <2>4, <2>5 DEF IInv
  <1>6. QED BY <1>4, <1>5

LEMMA OtpReadsStep ==
  ASSUME IInv, NEW c \in Calls, GenerateOtpReads(c)
  PROVE  IInv'
  <1> DEFINE s == [phase |-> "otp", row |-> row, stats |-> NoStats]
  <1>1. UNCHANGED <<row, overdue, published, stats, monitor, slaLock, assigned, faults, wrong,
                    verified>>
        /\ begun' = begun + 1 /\ begun < MaxCalls /\ call' = [call EXCEPT ![c] = s]
    BY DEF GenerateOtpReads, StartCall, history
  <1>2. RowSound' /\ MonitorSound' BY <1>1, CopiesKept DEF IInv, TypeOK
  <1>3. s \in [phase : {"idle", "hook", "count", "otp"}, row : Rows, stats : Stats]
    BY IdleCallTyped DEF IInv, TypeOK
  <1>4. TypeOK' BY <1>1, <1>3, BoundsAssumption DEF IInv, TypeOK
  <1>5. CallsSound' BY <1>1 DEF IInv, TypeOK, RowSound, CallsSound
  <1>6. HooksSound' BY <1>1 DEF IInv, TypeOK, HooksSound
  <1>7. QED BY <1>2, <1>4, <1>5, <1>6 DEF IInv

LEMMA OtpSavesStep ==
  ASSUME IInv, NEW c \in Calls, GenerateOtpSaves(c)
  PROVE  IInv'
  <1>1. UNCHANGED <<overdue, published, stats, monitor, slaLock, assigned, begun, faults,
                    verified>>
        /\ call' = [call EXCEPT ![c] = IdleCall] /\ wrong' = 0
        /\ row' = [call[c].row EXCEPT !.otp = TRUE, !.attempts = 0]
    BY DEF GenerateOtpSaves, bounds
  <1>2. call[c].row \in Rows /\ Sound(call[c].row, published, verified)
    BY DEF IInv, TypeOK, CallsSound
  <1>3. row' \in Rows /\ row'.status = call[c].row.status
    <2>1. 0 \in 0..OTP_MAX_ATTEMPTS BY OtpAssumption
    <2>2. QED BY <1>1, <1>2, <2>1 DEF Rows
  <1>4. RowSound' BY <1>1, <1>2, <1>3 DEF RowSound, Sound
  <1>5. MonitorSound' BY <1>1, CopiesKept DEF IInv, TypeOK
  <1>6. /\ call' \in [Calls -> [phase : {"idle", "hook", "count", "otp"},
                                row : Rows, stats : Stats]]
        /\ CallsSound' /\ HooksSound'
    BY <1>1, CallEnds
  <1>7. TypeOK' BY <1>1, <1>3, <1>6, OtpAssumption DEF IInv, TypeOK
  <1>8. QED BY <1>4, <1>5, <1>6, <1>7 DEF IInv

LEMMA CallDiesStep ==
  ASSUME IInv, NEW c \in Calls, CallDies(c)
  PROVE  IInv'
  <1>1. UNCHANGED <<row, overdue, published, stats, monitor, slaLock, assigned, begun, wrong,
                    verified>>
        /\ call' = [call EXCEPT ![c] = IdleCall] /\ faults' = faults + 1 /\ faults < MaxFaults
    BY DEF CallDies, history
  <1>2. RowSound' /\ MonitorSound' BY <1>1, CopiesKept DEF IInv, TypeOK
  <1>3. /\ call' \in [Calls -> [phase : {"idle", "hook", "count", "otp"},
                                row : Rows, stats : Stats]]
        /\ CallsSound' /\ HooksSound'
    BY <1>1, CallEnds
  <1>4. TypeOK' BY <1>1, <1>3, BoundsAssumption DEF IInv, TypeOK
  <1>5. QED BY <1>2, <1>3, <1>4 DEF IInv

-----------------------------------------------------------------------------
(* Every step of a monitor gives it a typed state with a sound copy.        *)
LEMMA MonitorStateStep ==
  ASSUME IInv, NEW m \in Monitors, MonitorStep(m)
  PROVE  \E s \in MonitorStates : /\ monitor' = [monitor EXCEPT ![m] = s]
                                  /\ Sound(s.row, published, verified)
  <1> DEFINE Good(s) == s \in MonitorStates /\ Sound(s.row, published, verified)
  <1>1. Good(monitor[m]) /\ monitor[m] \in MonitorStates /\ row \in Rows
    BY DEF IInv, TypeOK, MonitorSound, MonitorStates
  <1>2. \A p \in {"idle", "locked", "second", "saving", "unlocking"} :
          /\ Good([monitor[m] EXCEPT !.phase = p])
          /\ Good([IdleMonitor EXCEPT !.phase = p])
          /\ Good([phase |-> p, row |-> row, found |-> TRUE])
    BY <1>1, NewRowFacts DEF MonitorStates, IdleMonitor, IInv, RowSound
  <1>3. Good(IdleMonitor) BY NewRowFacts DEF MonitorStates, IdleMonitor
  <1>4. CASE MonitorLocks(m)
    <2>1. monitor' = [monitor EXCEPT ![m] = [monitor[m] EXCEPT !.phase = "locked"]]
      BY <1>4 DEF MonitorLocks, IInv, TypeOK
    <2>2. QED BY <2>1, <1>2
  <1>5. CASE MonitorFindsPickup(m) BY <1>5, <1>2 DEF MonitorFindsPickup
  <1>6. CASE MonitorFindsDelivery(m)
    <2>1. CASE DeliveryLate(row) BY <1>6, <2>1, <1>2 DEF MonitorFindsDelivery
    <2>2. CASE ~ DeliveryLate(row) /\ monitor[m].found
      BY <1>6, <2>2, <1>2 DEF MonitorFindsDelivery
    <2>3. CASE ~ DeliveryLate(row) /\ ~ monitor[m].found
      BY <1>6, <2>3, <1>2 DEF MonitorFindsDelivery
    <2>4. QED BY <2>1, <2>2, <2>3
  <1>7. CASE MonitorSaves(m) BY <1>7, <1>2 DEF MonitorSaves
  <1>8. CASE MonitorUnlocks(m) BY <1>8, <1>3 DEF MonitorUnlocks
  <1>9. CASE MonitorDies(m) BY <1>9, <1>3 DEF MonitorDies
  <1>10. QED BY <1>4, <1>5, <1>6, <1>7, <1>8, <1>9 DEF MonitorStep, MonitorRuns

LEMMA MonitorsStep ==
  ASSUME IInv, NEW m \in Monitors, MonitorStep(m)
  PROVE  IInv'
  <1>1. UNCHANGED <<overdue, published, call, stats, assigned, begun, wrong, verified>>
    BY DEF MonitorStep, MonitorRuns, MonitorLocks, MonitorFindsPickup, MonitorFindsDelivery,
           MonitorSaves, MonitorUnlocks, MonitorDies, bounds, history
  <1>2a. slaLock' \in BOOLEAN
    BY DEF IInv, TypeOK, MonitorStep, MonitorRuns, MonitorLocks, MonitorFindsPickup,
           MonitorFindsDelivery, MonitorSaves, MonitorUnlocks, MonitorDies
  <1>2. faults' \in 0..MaxFaults
    BY BoundsAssumption
    DEF IInv, TypeOK, MonitorStep, MonitorRuns, MonitorLocks, MonitorFindsPickup,
        MonitorFindsDelivery, MonitorSaves, MonitorUnlocks, MonitorDies, bounds
  <1>3. row' \in Rows /\ RowSound'
    <2>1. CASE MonitorSaves(m)
      <3>1. monitor[m].row \in Rows /\ Sound(monitor[m].row, published, verified)
        BY DEF IInv, TypeOK, MonitorSound
      <3>2. row' = [monitor[m].row EXCEPT !.breached = TRUE] BY <2>1 DEF MonitorSaves
      <3>3. row' \in Rows /\ row'.status = monitor[m].row.status BY <3>1, <3>2 DEF Rows
      <3>4. QED BY <1>1, <3>1, <3>3 DEF RowSound, Sound
    <2>2. CASE ~ MonitorSaves(m)
      <3>1. row' = row
        BY <2>2 DEF MonitorStep, MonitorRuns, MonitorLocks, MonitorFindsPickup,
                    MonitorFindsDelivery, MonitorUnlocks, MonitorDies
      <3>2. QED BY <1>1, <3>1, CopiesKept DEF IInv, TypeOK
    <2>3. QED BY <2>1, <2>2
  <1>4. monitor' \in [Monitors -> MonitorStates] /\ MonitorSound'
    BY <1>1, MonitorStateStep, MonitorMoves
  <1>5. CallsSound' /\ HooksSound' BY <1>1, CopiesKept DEF IInv, TypeOK
  <1>6. TypeOK' BY <1>1, <1>2, <1>2a, <1>3, <1>4 DEF IInv, TypeOK, MonitorStates
  <1>7. QED BY <1>3, <1>4, <1>5, <1>6 DEF IInv

LEMMA ClockStep ==
  ASSUME IInv, LockExpires \/ \E t \in Deadlines : DeadlinePasses(t)
  PROVE  IInv'
  <1>1. UNCHANGED <<row, published, call, stats, monitor, assigned, begun, faults, wrong,
                    verified>>
    BY DEF LockExpires, DeadlinePasses, bounds, history
  <1>2. slaLock' \in BOOLEAN /\ overdue' \in SUBSET Deadlines
    BY DEF LockExpires, DeadlinePasses, IInv, TypeOK
  <1>3. RowSound' /\ CallsSound' /\ HooksSound' /\ MonitorSound'
    BY <1>1, CopiesKept DEF IInv, TypeOK
  <1>4. TypeOK' BY <1>1, <1>2 DEF IInv, TypeOK
  <1>5. QED BY <1>3, <1>4 DEF IInv

LEMMA StutterStep ==
  ASSUME IInv, UNCHANGED vars
  PROVE  IInv'
  <1>1. UNCHANGED <<row, overdue, published, call, stats, monitor, slaLock, assigned, begun,
                    faults, wrong, verified>>
    BY DEF vars, bounds, history
  <1>2. RowSound' /\ CallsSound' /\ HooksSound' /\ MonitorSound'
    BY <1>1, CopiesKept DEF IInv, TypeOK
  <1>3. TypeOK' BY <1>1 DEF IInv, TypeOK
  <1>4. QED BY <1>2, <1>3 DEF IInv

LEMMA NextKeepsIInv == IInv /\ [Next]_vars => IInv'
  <1> SUFFICES ASSUME IInv, [Next]_vars PROVE IInv' OBVIOUS
  <1>1. ASSUME NEW c \in Calls, CallStep(c) PROVE IInv'
    BY <1>1, UpdateStep, VerifyStep, HookStep, OtpReadsStep, OtpSavesStep, CallDiesStep
    DEF CallStep
  <1>2. QED
    BY <1>1, AssignStep, WrongOtpStep, ChangeFailsStep, MonitorsStep, ClockStep, StutterStep DEF Next

LEMMA IInvHolds == Spec => []IInv
  BY InitIInv, NextKeepsIInv, PTL DEF Spec

(* The row, the copies in flight, the counters and the lock keep their      *)
(* types, whatever is saved over what (Delivery entity, driver_stats).      *)
THEOREM DeliveryTypeCorrect == Spec => []TypeOK
  <1>1. IInv => TypeOK BY DEF IInv
  <1>2. QED BY IInvHolds, <1>1, PTL

(* The event of the row's status is always in the outbox and its registered *)
(* handler reports that status to Vendure, for any number of concurrent     *)
(* calls and monitors that save rows loaded earlier (updateStatusInternal,  *)
(* generateDeliveryOtp, checkSlaBreaches, registerHandlers).                *)
THEOREM StatusIsAnnounced == Spec => []StatusAnnounced
  <1>1. IInv => StatusAnnounced
    <2> SUFFICES ASSUME IInv, row.status \in Announced
                 PROVE  \E e \in published :
                          \/ HandleEvent(e, "answers") = row.status
                          \/ row.status = "ASSIGNED" /\ e = OrderEvent("ASSIGNED", NoDriver)
      BY DEF StatusAnnounced, Announced
    <2>1. PICK e \in published : e.order /\ e.type = getVendureEventType(row.status)
      BY DEF IInv, RowSound, Sound, Out
    <2>2. e \in OutboxEvents BY DEF IInv, TypeOK
    <2>3. QED BY <2>1, <2>2, HandlerReports
  <1>2. QED BY IInvHolds, <1>1, PTL

(* A delivered parcel was picked up or its OTP was entered, for any number  *)
(* of concurrent calls, monitors and reassignments (verifyOtp,              *)
(* allowedTransitions).                                                     *)
THEOREM DeliveryHasProof == Spec => []DeliveredHasProof
  <1>1. IInv => DeliveredHasProof
    BY DEF IInv, RowSound, Sound, Out, getVendureEventType, DeliveredHasProof
  <1>2. QED BY IInvHolds, <1>1, PTL
=============================================================================

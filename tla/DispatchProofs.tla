--------------------------- MODULE DispatchProofs ---------------------------
(***************************************************************************)
(* One winner per set of competing offers, for any number of drivers,      *)
(* deliveries, requests and offers.                                         *)
(*                                                                          *)
(* LosersStayLosers is not inductive: that a beaten offer is not locked and *)
(* stays closed rests on three facts about the rows.  A locked offer is     *)
(* still PENDING, an ACCEPTED offer is one some acceptOffer committed, and a *)
(* committed offer never looks unanswered again.                            *)
(***************************************************************************)
EXTENDS Dispatch, TLAPS

(* What a rejecting request holds is an offer it has read.                  *)
RejectsHoldOffers ==
  \A r \in Requests : req[r].op \in {"reject", "next"} => req[r].offer \in Offers

LockedArePending == \A o \in locked : oStatus[o] = "PENDING"

AcceptedWon == \A o \in Offers : oStatus[o] = "ACCEPTED" => o \in won

WonAreAnswered == \A o \in won : oStatus[o] \in {"ACCEPTED", "REJECTED"}

BeatenAreClosed == \A o \in beaten : oStatus[o] \in {"REJECTED", "EXPIRED"}

IInv ==
  /\ TypeOK
  /\ RejectsHoldOffers
  /\ LockedArePending
  /\ AcceptedWon
  /\ WonAreAnswered
  /\ BeatenAreClosed
  /\ won \cap beaten = {}

LEMMA InitIInv == Init => IInv
BY MaxManualAssumption
   DEF Init, IInv, TypeOK, RejectsHoldOffers, LockedArePending, AcceptedWon, WonAreAnswered,
       BeatenAreClosed, DeliveryStatuses, DriverStatuses, OfferStatuses, IdleReq

(* What a step that leaves the offers and the histories alone preserves.    *)
LEMMA OffersUntouched ==
  ASSUME IInv, TypeOK', RejectsHoldOffers',
         UNCHANGED <<oStatus, won, beaten>>, locked' \subseteq locked
  PROVE  IInv'
BY DEF IInv, TypeOK, LockedArePending, AcceptedWon, WonAreAnswered, BeatenAreClosed

(* Steps of createOfferForDriver, rejectOffer and triggerNextCandidate.     *)
LEMMA RequestStepIInv ==
  ASSUME IInv, NEW r \in Requests, RequestStep(r)
  PROVE  IInv'
<1> USE DEF IInv, offerVars, deliveryVars, history
<1>1. ASSUME NEW d \in Drivers, NEW x \in Deliveries, CreateOffer(r, d, x) PROVE IInv'
  <2>1. TypeOK'
    BY <1>1 DEF CreateOffer, TypeOK
  <2>2. RejectsHoldOffers'
    BY <1>1 DEF CreateOffer, TypeOK, RejectsHoldOffers
  <2> QED BY <1>1, <2>1, <2>2, OffersUntouched DEF CreateOffer
<1>2. ASSUME NEW o \in Offers, RejectReads(r, o) PROVE IInv'
  <2>1. TypeOK'
    BY <1>2 DEF RejectReads, TypeOK, IdleReq
  <2>2. RejectsHoldOffers'
    BY <1>2 DEF RejectReads, TypeOK, RejectsHoldOffers, IdleReq
  <2> QED BY <1>2, <2>1, <2>2, OffersUntouched DEF RejectReads
<1>3. CASE CheckOffer(r)
  <2>1. TypeOK'
    BY <1>3 DEF CheckOffer, TypeOK, IdleReq
  <2>2. RejectsHoldOffers'
    BY <1>3 DEF CheckOffer, TypeOK, RejectsHoldOffers, IdleReq
  <2> QED BY <1>3, <2>1, <2>2, OffersUntouched DEF CheckOffer
<1>4. CASE SaveOffer(r)
  <2>1. PICK o \in Offers :
          /\ oStatus[o] = "ABSENT"
          /\ oStatus' = [oStatus EXCEPT ![o] = "PENDING"]
          /\ oDelivery' = [oDelivery EXCEPT ![o] = req[r].delivery]
          /\ oDriver' = [oDriver EXCEPT ![o] = req[r].driver]
    BY <1>4 DEF SaveOffer
  <2>2. TypeOK'
    BY <1>4, <2>1 DEF SaveOffer, TypeOK, IdleReq, OfferStatuses
  <2>3. RejectsHoldOffers'
    BY <1>4 DEF SaveOffer, TypeOK, RejectsHoldOffers, IdleReq
  <2>4. o \notin locked /\ o \notin won /\ o \notin beaten
    BY <2>1 DEF LockedArePending, WonAreAnswered, BeatenAreClosed
  <2> QED
    BY <1>4, <2>1, <2>2, <2>3, <2>4
    DEF SaveOffer, TypeOK, LockedArePending, AcceptedWon, WonAreAnswered, BeatenAreClosed
<1>5. CASE RejectSaves(r)
  <2>1. req[r].offer \in Offers /\ req[r].offer \notin locked
    BY <1>5 DEF RejectSaves, RejectsHoldOffers
  <2>2. TypeOK'
    BY <1>5, <2>1 DEF RejectSaves, TypeOK, OfferStatuses
  <2>3. RejectsHoldOffers'
    BY <1>5 DEF RejectSaves, TypeOK, RejectsHoldOffers
  <2> QED
    BY <1>5, <2>1, <2>2, <2>3
    DEF RejectSaves, TypeOK, LockedArePending, AcceptedWon, WonAreAnswered, BeatenAreClosed
<1>6. CASE TriggerNextCandidate(r)
  <2>1. oDelivery[req[r].offer] \in Deliveries \cup {NoDelivery}
    BY <1>6 DEF TriggerNextCandidate, RejectsHoldOffers, TypeOK
  <2>2. TypeOK' /\ RejectsHoldOffers'
    <3>1. CASE req' = [req EXCEPT ![r] = IdleReq]
      BY <1>6, <3>1 DEF TriggerNextCandidate, TypeOK, RejectsHoldOffers, IdleReq
    <3>2. CASE \E d \in Candidates(oDelivery[req[r].offer]) :
                 req' = [req EXCEPT ![r] = [op |-> "chosen", offer |-> 0, driver |-> d,
                                            delivery |-> oDelivery[req[r].offer]]]
      BY <1>6, <2>1, <3>2 DEF TriggerNextCandidate, TypeOK, RejectsHoldOffers, Candidates
    <3> QED BY <1>6, <3>1, <3>2 DEF TriggerNextCandidate
  <2> QED BY <1>6, <2>2, OffersUntouched DEF TriggerNextCandidate
<1>7. CASE RequestDies(r)
  <2>1. TypeOK'
    BY <1>7 DEF RequestDies, TypeOK, IdleReq
  <2>2. RejectsHoldOffers'
    BY <1>7 DEF RequestDies, TypeOK, RejectsHoldOffers, IdleReq
  <2> QED BY <1>7, <2>1, <2>2, OffersUntouched DEF RequestDies
<1> QED BY <1>1, <1>2, <1>3, <1>4, <1>5, <1>6, <1>7 DEF RequestStep

(* Steps of the acceptOffer transaction.                                    *)
LEMMA AcceptStepIInv ==
  ASSUME IInv, NEW o \in Offers, AcceptStep(o)
  PROVE  IInv'
<1> USE DEF IInv, offerVars, deliveryVars, history
<1>1. CASE AcceptLocks(o)
  <2>1. TypeOK'
    BY <1>1 DEF AcceptLocks, TypeOK
  <2> QED
    BY <1>1, <2>1 DEF AcceptLocks, TypeOK, RejectsHoldOffers, LockedArePending, AcceptedWon,
                      WonAreAnswered, BeatenAreClosed
<1>2. CASE AcceptCommits(o)
  <2> DEFINE C == Competing(o)
  <2>1. /\ oStatus[o] = "PENDING"
        /\ o \notin won /\ o \notin beaten
    BY <1>2 DEF AcceptCommits, LockedArePending, WonAreAnswered, BeatenAreClosed
  <2>2. /\ C = {p \in Offers \ {o} : oDelivery[p] = oDelivery[o] /\ oStatus[p] = "PENDING"}
        /\ OffersOf(oDelivery[o])
             = {p \in Offers : oStatus[p] # "ABSENT" /\ oDelivery[p] = oDelivery[o]}
    BY DEF Competing, OffersOf
  <2>3. oStatus' = [p \in Offers |-> IF p = o THEN "ACCEPTED"
                                     ELSE IF p \in C THEN "REJECTED" ELSE oStatus[p]]
    BY <1>2 DEF AcceptCommits
  <2>a. oStatus' \in [Offers -> OfferStatuses]
    BY <2>3 DEF TypeOK, OfferStatuses
  <2>b. /\ dStatus' \in [Deliveries -> DeliveryStatuses]
        /\ dDriver' \in [Deliveries -> Drivers \cup {NoDriver}]
        /\ drStatus' \in [Drivers -> DriverStatuses]
    BY <1>2 DEF AcceptCommits, TypeOK, DeliveryStatuses, DriverStatuses
  <2>c. /\ locked' \in SUBSET Offers /\ won' \in SUBSET Offers /\ beaten' \in SUBSET Offers
        /\ UNCHANGED <<oDelivery, oDriver, past, req, seen, manual>>
    BY <1>2, <2>2 DEF AcceptCommits, TypeOK
  <2>4. TypeOK'
    BY <2>a, <2>b, <2>c DEF TypeOK
  <2> HIDE DEF C
  <2>5. LockedArePending'
    BY <1>2, <2>3 DEF AcceptCommits, TypeOK, LockedArePending, C
  <2>6. AcceptedWon' /\ RejectsHoldOffers'
    BY <1>2, <2>3 DEF AcceptCommits, AcceptedWon, RejectsHoldOffers
  <2>7. WonAreAnswered'
    BY <1>2, <2>1, <2>2, <2>3 DEF AcceptCommits, TypeOK, WonAreAnswered
  <2>8. BeatenAreClosed'
    <3> SUFFICES ASSUME NEW p \in beaten' PROVE oStatus'[p] \in {"REJECTED", "EXPIRED"}
      BY DEF BeatenAreClosed
    <3>1. p \in Offers /\ p # o
      BY <1>2, <2>1, <2>2 DEF AcceptCommits, TypeOK
    <3>2. CASE p \in beaten
      BY <3>1, <3>2, <2>3 DEF BeatenAreClosed
    <3>3. CASE p \notin beaten
      <4>1. oStatus[p] \in {"PENDING", "REJECTED", "EXPIRED"} /\ oDelivery[p] = oDelivery[o]
        BY <1>2, <2>2, <3>1, <3>3 DEF AcceptCommits, TypeOK, OfferStatuses, AcceptedWon
      <4> QED BY <2>2, <2>3, <3>1, <4>1
    <3> QED BY <3>2, <3>3
  <2>9. (won \cap beaten)' = {}
    BY <1>2, <2>1 DEF AcceptCommits
  <2> QED BY <2>4, <2>5, <2>6, <2>7, <2>8, <2>9
<1>3. CASE AcceptRollsBack(o)
  <2>1. TypeOK' /\ RejectsHoldOffers'
    BY <1>3 DEF AcceptRollsBack, TypeOK, RejectsHoldOffers
  <2> QED BY <1>3, <2>1, OffersUntouched DEF AcceptRollsBack
<1> QED BY <1>1, <1>2, <1>3 DEF AcceptStep

(* Clocks, the expiry cron, and the drivers' and deliveries' own updates.   *)
LEMMA OtherStepIInv ==
  ASSUME IInv,
         \/ \E o \in Offers : OfferTimePasses(o)
         \/ ExpireOffers
         \/ \E d \in Drivers : DriverStep(d)
         \/ \E x \in Deliveries : DeliveryStep(x)
  PROVE  IInv'
<1> USE DEF IInv, offerVars, deliveryVars, history
<1>1. CASE \E o \in Offers : OfferTimePasses(o)
  <2>1. TypeOK' /\ RejectsHoldOffers'
    BY <1>1 DEF OfferTimePasses, TypeOK, RejectsHoldOffers
  <2> QED BY <1>1, <2>1, OffersUntouched DEF OfferTimePasses
<1>2. CASE ExpireOffers
  <2>1. TypeOK'
    BY <1>2 DEF ExpireOffers, TypeOK, OfferStatuses
  <2> QED
    BY <1>2, <2>1
    DEF ExpireOffers, Overdue, TypeOK, RejectsHoldOffers, LockedArePending, AcceptedWon,
        WonAreAnswered, BeatenAreClosed
<1>3. ASSUME NEW d \in Drivers, DriverStep(d) PROVE IInv'
  <2>1. TypeOK'
    BY <1>3 DEF DriverStep, DriverUpdatesStatus, LocationReads, LocationSaves, TypeOK,
                DriverStatuses
  <2>2. RejectsHoldOffers' /\ UNCHANGED <<oStatus, won, beaten, locked>>
    BY <1>3 DEF DriverStep, DriverUpdatesStatus, LocationReads, LocationSaves, RejectsHoldOffers
  <2> QED BY <2>1, <2>2, OffersUntouched
<1>4. ASSUME NEW x \in Deliveries, DeliveryStep(x) PROVE IInv'
  <2>1. TypeOK'
    <3>1. CASE \E s \in DeliveryStatuses : UpdateStatus(x, s)
      BY <3>1 DEF UpdateStatus, TypeOK
    <3>2. CASE VerifyOtp(x)
      BY <3>2 DEF VerifyOtp, TypeOK, DeliveryStatuses
    <3>3. CASE \E d \in Drivers : AssignDriver(x, d)
      BY <3>3, MaxManualAssumption DEF AssignDriver, TypeOK, DeliveryStatuses
    <3> QED BY <1>4, <3>1, <3>2, <3>3 DEF DeliveryStep
  <2>2. RejectsHoldOffers' /\ UNCHANGED <<oStatus, won, beaten, locked>>
    BY <1>4 DEF DeliveryStep, UpdateStatus, VerifyOtp, AssignDriver, RejectsHoldOffers
  <2> QED BY <2>1, <2>2, OffersUntouched
<1> QED BY <1>1, <1>2, <1>3, <1>4

LEMMA NextIInv == IInv /\ [Next]_vars => IInv'
<1> SUFFICES ASSUME IInv, [Next]_vars PROVE IInv'
  OBVIOUS
<1>1. CASE UNCHANGED vars
  BY <1>1 DEF vars, offerVars, deliveryVars, history, IInv, TypeOK, RejectsHoldOffers,
              LockedArePending, AcceptedWon, WonAreAnswered, BeatenAreClosed
<1>2. CASE Next
  BY <1>2, RequestStepIInv, AcceptStepIInv, OtherStepIInv DEF Next
<1> QED BY <1>1, <1>2

(* The inductive invariant holds in every reachable state.                  *)
THEOREM DispatchInvariant == Spec => []IInv
<1> QED BY InitIInv, NextIInv, PTL DEF Spec

(* Every reachable state is well typed, for any bounds.                     *)
THEOREM DispatchTypeCorrect == Spec => []TypeOK
<1>1. IInv => TypeOK
  BY DEF IInv
<1> QED BY <1>1, DispatchInvariant, PTL

(* acceptOffer decides one winner among the offers that are out, whatever   *)
(* the other requests, the cron and the drivers do in between.              *)
THEOREM OneWinner == Spec => []LosersStayLosers
<1>1. IInv => LosersStayLosers
  BY DEF IInv, LosersStayLosers, BeatenAreClosed, LockedArePending
<1> QED BY <1>1, DispatchInvariant, PTL

(* A rejected or expired offer is never reopened.                           *)
THEOREM ClosedOffersStayClosed == Spec => DeadOffersStayDead
<1> DEFINE A == \A o \in Offers : oStatus[o] \in {"REJECTED", "EXPIRED"} =>
                                    oStatus'[o] \in {"REJECTED", "EXPIRED"}
<1>1. IInv /\ [Next]_vars => [A]_vars
  <2> SUFFICES ASSUME IInv, Next PROVE A
    BY DEF vars
  <2> USE DEF IInv, offerVars, deliveryVars, history
  <2>1. ASSUME NEW r \in Requests, RequestStep(r) PROVE A
    <3>1. CASE SaveOffer(r)
      BY <3>1 DEF SaveOffer, TypeOK
    <3>2. CASE RejectSaves(r)
      BY <3>2 DEF RejectSaves, TypeOK
    <3>3. CASE UNCHANGED oStatus
      BY <3>3
    <3> QED
      BY <2>1, <3>1, <3>2, <3>3
      DEF RequestStep, CreateOffer, RejectReads, CheckOffer, TriggerNextCandidate, RequestDies
  <2>2. ASSUME NEW o \in Offers, AcceptStep(o) PROVE A
    BY <2>2 DEF AcceptStep, AcceptLocks, AcceptCommits, AcceptRollsBack,
                Competing, TypeOK, LockedArePending
  <2>3. CASE ExpireOffers
    BY <2>3 DEF ExpireOffers, Overdue, TypeOK
  <2>4. CASE UNCHANGED oStatus
    BY <2>4
  <2> QED
    BY <2>1, <2>2, <2>3, <2>4
    DEF Next, OfferTimePasses, DriverStep, DriverUpdatesStatus, LocationReads, LocationSaves,
        DeliveryStep, UpdateStatus, VerifyOtp, AssignDriver
<1> QED BY <1>1, DispatchInvariant, PTL DEF Spec, DeadOffersStayDead, A
=============================================================================

---------------------------- MODULE Idempotency -----------------------------
(***************************************************************************)
(* IdempotencyInterceptor around POST /deliveries: requests that carry one *)
(* idempotency key, the Redis record of that key, and the handler, which   *)
(* inserts the delivery row of a seller order.  Every Redis command is a   *)
(* step of its own.  The record written when the handler has ended is sent *)
(* without waiting: the answer leaves first and the write arrives later,   *)
(* or never.                                                               *)
(***************************************************************************)
EXTENDS Integers, FiniteSets

CONSTANT Posts          \* requests that carry the key

VARIABLES
    record,    \* the state stored under the key, "none" when it does not exist
    post,      \* what each request is doing
    writes,    \* writes on their way to Redis
    delivery   \* the delivery row: "none" or its status

IdlePost == [step |-> "idle", answer |-> "none", ran |-> FALSE]

(* an earlier request with the key may have failed *)
IdempotencyInit ==
    /\ record \in {"none", "FAILED_RETRYABLE"}
    /\ post = [p \in Posts |-> IdlePost]
    /\ writes = {}

PostAt(p, step) == post[p].step = step
PostGoto(p, step) == post' = [post EXCEPT ![p].step = step]
PostAnswer(p, a) == post' = [post EXCEPT ![p].step = "answered", ![p].answer = a]

-----------------------------------------------------------------------------

PostArrives(p) ==
    /\ PostAt(p, "idle")
    /\ PostGoto(p, "claim")
    /\ UNCHANGED <<record, writes, delivery>>

(* SET key PROCESSING EX 300 NX *)
ClaimKey(p) ==
    /\ PostAt(p, "claim")
    /\ IF record = "none"
       THEN record' = "PROCESSING" /\ PostGoto(p, "handler")
       ELSE UNCHANGED record /\ PostGoto(p, "read")
    /\ UNCHANGED <<writes, delivery>>

(* GET key, and what the handler's answer is for the state found *)
ReadKey(p) ==
    /\ PostAt(p, "read")
    /\ \/ record = "none" /\ PostGoto(p, "reclaimGone")
       \/ record = "COMPLETED" /\ PostAnswer(p, "replayed")
       \/ record = "PROCESSING" /\ PostAnswer(p, "conflict")
       \/ record = "FAILED_RETRYABLE" /\ PostGoto(p, "reclaim")
    /\ UNCHANGED <<record, writes, delivery>>

(* the key expired between SET and GET: SET NX once more; when that fails  *)
(* too there is nothing to parse and the request ends with an error        *)
ClaimExpiredKey(p) ==
    /\ PostAt(p, "reclaimGone")
    /\ IF record = "none"
       THEN record' = "PROCESSING" /\ PostGoto(p, "handler")
       ELSE UNCHANGED record /\ PostAnswer(p, "failed")
    /\ UNCHANGED <<writes, delivery>>

(* SET key PROCESSING XX: it succeeds for any state the key is in by now;  *)
(* only when the key is gone the request is refused                        *)
ReclaimKey(p) ==
    /\ PostAt(p, "reclaim")
    /\ IF record # "none"
       THEN record' = "PROCESSING" /\ PostGoto(p, "handler")
       ELSE UNCHANGED record /\ PostAnswer(p, "conflict")
    /\ UNCHANGED <<writes, delivery>>

-----------------------------------------------------------------------------
(* The handler and what tap / catchError send to Redis *)

Send(p, state) == writes' = writes \cup {[from |-> p, state |-> state]}

HandlerSucceeds(p) ==
    /\ PostAt(p, "handler")
    /\ delivery = "none"
    /\ delivery' = "PENDING"
    /\ post' = [post EXCEPT ![p] = [step |-> "answered", answer |-> "created", ran |-> TRUE]]
    /\ Send(p, "COMPLETED")
    /\ UNCHANGED record

HandlerFailsRetryable_Completed(p) ==  \* seeded fault: the failure is stored as an answer
    /\ PostAt(p, "handler")
    /\ PostAnswer(p, "failed")
    /\ Send(p, "COMPLETED")
    /\ UNCHANGED <<record, delivery>>

(* isRetryableError: a 5xx, 429 or network error *)
HandlerFailsRetryable(p) ==
    /\ PostAt(p, "handler")
    /\ PostAnswer(p, "failed")
    /\ Send(p, "FAILED_RETRYABLE")
    /\ UNCHANGED <<record, delivery>>

(* any other error, the unique violation of sellerOrderId among them: the  *)
(* key is deleted                                                          *)
HandlerFailsForGood(p) ==
    /\ PostAt(p, "handler")
    /\ PostAnswer(p, "failed")
    /\ Send(p, "none")
    /\ UNCHANGED <<record, delivery>>

WriteArrives(w) ==
    /\ w \in writes
    /\ record' = w.state
    /\ writes' = writes \ {w}
    /\ UNCHANGED <<post, delivery>>

WriteLost(w) ==
    /\ w \in writes
    /\ writes' = writes \ {w}
    /\ UNCHANGED <<record, post, delivery>>

(* five minutes for PROCESSING, a day for the rest *)
KeyExpires ==
    /\ record # "none"
    /\ record' = "none"
    /\ UNCHANGED <<post, writes, delivery>>

PostDies(p) ==
    /\ PostAt(p, "handler")
    /\ PostGoto(p, "died")
    /\ UNCHANGED <<record, writes, delivery>>

PostProceeds(p) ==
    \/ ClaimKey(p) \/ ReadKey(p) \/ ClaimExpiredKey(p) \/ ReclaimKey(p)
    \/ HandlerSucceeds(p) \/ HandlerFailsRetryable(p) \/ HandlerFailsForGood(p)
    \/ PostDies(p)
=============================================================================

--------------------------- MODULE EventHandlers ----------------------------
(***************************************************************************)
(* What becomes of an outbox event once a worker hands it to               *)
(* HandlerRegistry: which handler is registered for its type, what that    *)
(* handler demands of the payload, and which status it reports to Vendure. *)
(* An event is the part of the outbox row they look at: its type, the      *)
(* driverId of the payload and whether the payload names the seller order  *)
(* (sellerOrderId and channelId are NOT NULL columns of the delivery, so   *)
(* they come together).                                                    *)
(***************************************************************************)

CONSTANT NoDriver    \* payload.driverId is missing; delivery.driverId IS NULL

(***************************************************************************)
(* OutboxService.publish keeps one row per idempotency key; the delivery   *)
(* is the same for all of them.                                            *)
(***************************************************************************)
generateIdempotencyKey(e) == <<e.type, e.order, IF e.order THEN NoDriver ELSE e.driver>>

Published(out, e) ==
  IF \E f \in out : generateIdempotencyKey(f) = generateIdempotencyKey(e)
  THEN out ELSE out \cup {e}

-----------------------------------------------------------------------------
(* A handler's outcome: the status Vendure has been told, "nothing" or      *)
(* "error".                                                                 *)

(* The shop's URL is not configured, it does not answer, or it does.        *)
sendToVendure(status, shop) ==
  CASE shop = "unset"   -> "nothing"
    [] shop = "down"    -> "error"
    [] shop = "answers" -> status

(* The WebSocket and the push notification tell the driver, not Vendure.    *)
DeliveryAssignedHandler(e, shop) ==
  CASE e.type \notin {"DELIVERY_ASSIGNED_V1", "DELIVERY_ASSIGNED_V2", "DELIVERY_ASSIGNED_V3"}
         \/ e.driver = NoDriver -> "error"
    [] OTHER -> IF e.order THEN sendToVendure("ASSIGNED", shop) ELSE "nothing"

DeliveryCancelledHandler(e, shop) ==
  IF e.order THEN sendToVendure("CANCELLED", shop) ELSE "error"

(* Registered for V2 and V3 too, which its switch does not know.            *)
DeliveryStatusForwardingHandler(e, shop) ==
  CASE e.type \in {"DELIVERY_ASSIGNED_V1", "PROOF_ACCEPTED_V1"} -> "nothing"
    [] e.type \in {"DELIVERY_PICKED_UP_V1", "DELIVERY_PICKUP_CONFIRMED_V1"} ->
         sendToVendure("PICKED_UP", shop)
    [] e.type \in {"DELIVERY_DROPPED_OFF_V1", "DELIVERY_DROPOFF_CONFIRMED_V1"} ->
         sendToVendure("DELIVERED", shop)
    [] e.type = "DELIVERY_FAILED_V1"    -> sendToVendure("FAILED", shop)
    [] e.type = "DELIVERY_CANCELLED_V1" -> sendToVendure("CANCELLED", shop)
    [] OTHER -> "error"

-----------------------------------------------------------------------------
registerHandlers_NoFailed(type) ==    \* seeded fault: DELIVERY_FAILED is not registered
  CASE type \in {"DELIVERY_ASSIGNED_V1", "DELIVERY_ASSIGNED_V2", "DELIVERY_ASSIGNED_V3"} ->
         "assigned"
    [] type = "DELIVERY_CANCELLED_V1" -> "cancelled"
    [] type \in {"DELIVERY_PICKUP_CONFIRMED_V1", "DELIVERY_DROPOFF_CONFIRMED_V1",
                 "PROOF_ACCEPTED_V1"} -> "forwarding"
    [] OTHER -> "none"

registerHandlers(type) ==
  CASE type \in {"DELIVERY_ASSIGNED_V1", "DELIVERY_ASSIGNED_V2", "DELIVERY_ASSIGNED_V3"} ->
         "assigned"
    [] type = "DELIVERY_CANCELLED_V1" -> "cancelled"
    [] type \in {"DELIVERY_PICKUP_CONFIRMED_V1", "DELIVERY_PICKUP_CONFIRMED_V2",
                 "DELIVERY_PICKUP_CONFIRMED_V3", "DELIVERY_DROPOFF_CONFIRMED_V1",
                 "DELIVERY_DROPOFF_CONFIRMED_V2", "DELIVERY_DROPOFF_CONFIRMED_V3",
                 "DELIVERY_FAILED_V1", "DELIVERY_FAILED_V2", "DELIVERY_FAILED_V3",
                 "PROOF_ACCEPTED_V1", "PROOF_ACCEPTED_V2", "PROOF_ACCEPTED_V3"} ->
         "forwarding"
    [] type = "DRIVER_LOCATION_UPDATED_V1" -> "location"
    [] type \in {"DRIVER_REGISTERED_V1", "DRIVER_PROFILE_COMPLETED_V1",
                 "DRIVER_APPROVAL_REQUESTED_V1"} -> "lifecycle"
    [] OTHER -> "none"

(* The location handler is handed the outbox row where it expects a         *)
(* payload, finds no status AVAILABLE in it and returns.                    *)
HandleEvent(e, shop) ==
  LET handler == registerHandlers(e.type)
  IN  CASE handler = "assigned"   -> DeliveryAssignedHandler(e, shop)
        [] handler = "cancelled"  -> DeliveryCancelledHandler(e, shop)
        [] handler = "forwarding" -> DeliveryStatusForwardingHandler(e, shop)
        [] handler \in {"location", "lifecycle"} -> "nothing"
        [] handler = "none"       -> "error"
=============================================================================

--------------------------- MODULE Authorization ---------------------------
(***************************************************************************)
(* Who may do what: the permissions a role's tokens carry and the decision *)
(* PolicyGuard takes on them.  An actor is the claims of a token           *)
(* [sub, type, role, city, isActive]; a resource names the driver and the  *)
(* city of the request, Nobody and NoCity when it names none.              *)
(***************************************************************************)
EXTENDS Naturals

Nobody == "nobody"
NoCity == "none"

DriverPermissions ==
    {"DRIVER_READ_OWN_PROFILE", "DRIVER_UPDATE_OWN_LOCATION", "DRIVER_READ_OWN_EARNINGS",
     "DRIVER_ACCEPT_DELIVERY", "DRIVER_REJECT_DELIVERY", "DRIVER_UPDATE_DELIVERY_STATUS",
     "DRIVER_CONTACT_CUSTOMER", "DRIVER_CONTACT_SELLER", "DRIVER_UPLOAD_PROOF"}
AssignmentPermissions == {"ASSIGNMENT_CREATE", "ASSIGNMENT_REASSIGN"}
AdminPermissions ==
    {"ADMIN_READ_DRIVER_ANY", "ADMIN_UPDATE_DRIVER_STATUS", "ADMIN_CREATE_DRIVER",
     "ADMIN_DELETE_DRIVER", "ADMIN_READ_DELIVERY_ANY", "ADMIN_READ_ADMIN_ANY",
     "ADMIN_UPDATE_ADMIN", "ADMIN_READ_AUDIT_OWN", "ADMIN_FORCE_ASSIGN_DRIVER",
     "ADMIN_CANCEL_DELIVERY", "ADMIN_RETRY_DISPATCH", "ADMIN_OVERRIDE_DELIVERY",
     "ADMIN_READ_ZONE_ANY", "ADMIN_UPDATE_ZONE_CONFIG"}
SuperPermissions ==
    {"SUPER_ADMIN_CREATE_ADMIN", "SUPER_ADMIN_DELETE_ADMIN", "SUPER_ADMIN_READ_AUDIT_ANY",
     "SUPER_ADMIN_READ_SYSTEM_STATS", "SUPER_ADMIN_RESET_ADMIN_PASSWORD",
     "SUPER_ADMIN_MANAGE_CITIES", "SUPER_ADMIN_MANAGE_ZONES"}

RolePermissions ==
    [DRIVER |-> DriverPermissions,
     ADMIN |-> AdminPermissions \cup AssignmentPermissions,
     DISPATCHER |-> {"ADMIN_READ_DELIVERY_ANY", "ADMIN_FORCE_ASSIGN_DRIVER",
                     "ADMIN_RETRY_DISPATCH"} \cup AssignmentPermissions,
     OPS_ADMIN |-> {"ADMIN_READ_DRIVER_ANY", "ADMIN_UPDATE_DRIVER_STATUS", "ADMIN_CANCEL_DELIVERY",
                    "ADMIN_OVERRIDE_DELIVERY", "ADMIN_RETRY_DISPATCH", "ADMIN_READ_DELIVERY_ANY",
                    "ASSIGNMENT_REASSIGN"},
     CITY_ADMIN |-> {"ADMIN_READ_DRIVER_ANY", "ADMIN_UPDATE_DRIVER_STATUS",
                     "ADMIN_READ_DELIVERY_ANY", "ADMIN_FORCE_ASSIGN_DRIVER",
                     "ADMIN_CANCEL_DELIVERY", "ADMIN_RETRY_DISPATCH"} \cup AssignmentPermissions,
     SUPER_ADMIN |-> SuperPermissions \cup AdminPermissions \cup AssignmentPermissions]
AssignmentRoles == {"DISPATCHER", "OPS_ADMIN", "CITY_ADMIN", "ADMIN", "SUPER_ADMIN", "SYSTEM"}
CityRoles == {"ADMIN", "CITY_ADMIN", "DISPATCHER", "OPS_ADMIN"}

(* DriverPolicy: its own data only, and only the profile when inactive      *)
DriverPolicy(actor, permission, resource) ==
    permission \in DriverPermissions =>
        /\ resource.driver = Nobody \/ actor.type # "driver" \/ resource.driver = actor.sub
        /\ actor.isActive \/ permission = "DRIVER_READ_OWN_PROFILE"

AssignmentPolicy(actor, permission) ==
    permission \in AssignmentPermissions => actor.role \in AssignmentRoles

(* evaluateAdminScope: the city is compared only when the request names one *)
AdminScope(actor, permission, resource) ==
    permission \in AdminPermissions \cup AssignmentPermissions =>
        (actor.role \in CityRoles =>
            /\ actor.city # NoCity
            /\ resource.city = NoCity \/ resource.city = actor.city)

(* AuthorizationService.authorize for requests that name no delivery        *)
Authorize(actor, permission, resource) ==
    \/ actor.role \in {"SYSTEM", "SUPER_ADMIN"}
    \/ /\ permission \in RolePermissions[actor.role]
       /\ AssignmentPolicy(actor, permission)
       /\ DriverPolicy(actor, permission, resource)
       /\ AdminScope(actor, permission, resource)
=============================================================================

--------------------------- MODULE BackendServices ---------------------------
(***************************************************************************)
(* The components of the API beside the order service and its online       *)
(* payments.  No two of them share state: each has its tables, its Redis   *)
(* keys or its memory.  What one does is therefore independent of the      *)
(* others, and interleaving two of them adds nothing to the behaviours of  *)
(* either.  A behaviour of this module is one of a single component, which *)
(* `focus' names, while the others rest in an initial state.               *)
(***************************************************************************)
EXTENDS InventoryService, CartService, RbacCache, AuthSession, OtpLogin,
        AccountLinking, CashierAccess, RateLimit

VARIABLE focus      \* the component that acts

Components == {"inventory", "cart", "rbac", "session", "otp", "linking", "desk", "rate"}

(* A component that is not in focus starts in one fixed state of those it may
   start in, so that what it leaves alone does not multiply the states. *)
AtRest ==
    /\ focus # "inventory" => \A b \in Branches : stock[b].exists
    /\ focus # "linking" =>
          /\ \A u \in Users : ~Registered(u)
          /\ customers = {}
          /\ \A g \in Accounts : claimed[g] = Nothing
    /\ focus # "desk" =>
          /\ \A u \in Staff : roles[u] = {}
          /\ \A u \in Staff : ownCustomer[u] = NoOne

BackendInit ==
    /\ focus \in Components
    /\ InventoryInit /\ CartInit /\ RbacInit /\ AuthInit /\ OtpInit /\ LinkInit /\ DeskInit /\ RateInit
    /\ AtRest

InventoryRests == UNCHANGED inventoryVars
CartRests == UNCHANGED cartVars
RbacRests == UNCHANGED rbacVars
SessionRests == UNCHANGED authVars
OtpRests == UNCHANGED otpVars
LinkingRests == UNCHANGED linkVars
DeskRests == UNCHANGED deskVars
RateRests == UNCHANGED rateVars

InventoryActs ==
    /\ focus = "inventory" /\ InventoryNext
    /\ CartRests /\ RbacRests /\ SessionRests /\ OtpRests /\ LinkingRests /\ DeskRests /\ RateRests
CartActs ==
    /\ focus = "cart" /\ CartNext
    /\ InventoryRests /\ RbacRests /\ SessionRests /\ OtpRests /\ LinkingRests /\ DeskRests /\ RateRests
RbacActs ==
    /\ focus = "rbac" /\ RbacNext
    /\ InventoryRests /\ CartRests /\ SessionRests /\ OtpRests /\ LinkingRests /\ DeskRests /\ RateRests
SessionActs ==
    /\ focus = "session" /\ AuthNext
    /\ InventoryRests /\ CartRests /\ RbacRests /\ OtpRests /\ LinkingRests /\ DeskRests /\ RateRests
OtpActs ==
    /\ focus = "otp" /\ OtpNext
    /\ InventoryRests /\ CartRests /\ RbacRests /\ SessionRests /\ LinkingRests /\ DeskRests /\ RateRests
LinkingActs ==
    /\ focus = "linking" /\ LinkNext
    /\ InventoryRests /\ CartRests /\ RbacRests /\ SessionRests /\ OtpRests /\ DeskRests /\ RateRests
DeskActs ==
    /\ focus = "desk" /\ DeskNext
    /\ InventoryRests /\ CartRests /\ RbacRests /\ SessionRests /\ OtpRests /\ LinkingRests /\ RateRests
RateActs ==
    /\ focus = "rate" /\ RateNext
    /\ InventoryRests /\ CartRests /\ RbacRests /\ SessionRests /\ OtpRests /\ LinkingRests /\ DeskRests

BackendNext ==
    (InventoryActs \/ CartActs \/ RbacActs \/ SessionActs \/ OtpActs \/ LinkingActs \/ DeskActs
     \/ RateActs) /\ UNCHANGED focus

BackendSpec == BackendInit /\ [][BackendNext]_<< inventoryVars, cartVars, rbacVars, authVars,
                                                 otpVars, linkVars, deskVars, rateVars, focus >>

(* Every component keeps its state within its types, the quantities, counts and
   reservations that the code computes included. *)
TypesOK ==
    /\ InventoryTypeOK
    /\ CartTypeOK
    /\ RbacTypeOK
    /\ AuthTypeOK
    /\ OtpTypeOK
    /\ LinkTypeOK
    /\ DeskTypeOK
    /\ RateTypeOK

=============================================================================

------------------------ MODULE BackendServicesProofs -----------------------
(* Proofs about BackendServices: each component behaves there as it does   *)
(* alone, so that what is proved of one component holds of the backend.    *)
EXTENDS BackendServices, InventoryCartProofs, AccountProofs, RequestChecksProofs

backendVars == << inventoryVars, cartVars, rbacVars, authVars, otpVars, linkVars, deskVars,
                  rateVars, focus >>

(* A step of one component leaves the variables of the others alone. *)
LEMMA BackendStep ==
  ASSUME [BackendNext]_backendVars
  PROVE  /\ [InventoryNext]_inventoryVars
         /\ [CartNext]_cartVars
         /\ [RbacNext]_rbacVars
         /\ [AuthNext]_authVars
         /\ [OtpNext]_otpVars
         /\ [LinkNext]_linkVars
         /\ [DeskNext]_deskVars
         /\ [RateNext]_rateVars
<1> USE DEF InventoryRests, CartRests, RbacRests, SessionRests, OtpRests, LinkingRests, DeskRests,
            RateRests
<1>1. CASE UNCHANGED backendVars
  BY <1>1 DEF backendVars
<1>2. CASE InventoryActs
  BY <1>2 DEF InventoryActs
<1>3. CASE CartActs
  BY <1>3 DEF CartActs
<1>4. CASE RbacActs
  BY <1>4 DEF RbacActs
<1>5. CASE SessionActs
  BY <1>5 DEF SessionActs
<1>6. CASE OtpActs
  BY <1>6 DEF OtpActs
<1>7. CASE LinkingActs
  BY <1>7 DEF LinkingActs
<1>8. CASE DeskActs
  BY <1>8 DEF DeskActs
<1>9. CASE RateActs
  BY <1>9 DEF RateActs
<1> QED
  BY <1>1, <1>2, <1>3, <1>4, <1>5, <1>6, <1>7, <1>8, <1>9 DEF BackendNext

(* The backend implements the specification of each of its components: what
   one component's theorems say of InventorySpec, CartSpec, RbacSpec, AuthSpec,
   OtpSpec, LinkSpec, DeskSpec and RateSpec holds of BackendSpec. *)
THEOREM ComponentsBehave ==
  BackendSpec => /\ InventorySpec /\ CartSpec /\ RbacSpec /\ AuthSpec
                 /\ OtpSpec /\ LinkSpec /\ DeskSpec /\ RateSpec
<1>1. BackendInit => /\ InventoryInit /\ CartInit /\ RbacInit /\ AuthInit
                     /\ OtpInit /\ LinkInit /\ DeskInit /\ RateInit
  BY DEF BackendInit
<1>2. [BackendNext]_backendVars => /\ [InventoryNext]_inventoryVars
                                   /\ [CartNext]_cartVars
                                   /\ [RbacNext]_rbacVars
                                   /\ [AuthNext]_authVars
                                   /\ [OtpNext]_otpVars
                                   /\ [LinkNext]_linkVars
                                   /\ [DeskNext]_deskVars
                                   /\ [RateNext]_rateVars
  BY BackendStep
<1>3. BackendSpec => BackendInit /\ [][BackendNext]_backendVars
  BY DEF BackendSpec, backendVars
<1> QED
  BY <1>1, <1>2, <1>3, PTL
     DEF InventorySpec, CartSpec, RbacSpec, AuthSpec, OtpSpec, LinkSpec, DeskSpec, RateSpec

(* Every component keeps its state within its types: what is reserved in stock
   or held by a cart, and the counts in Redis, never turn negative, and what a
   call under way has read is a row. *)
THEOREM TypesHold == BackendSpec => []TypesOK
<1>1. InvIInv /\ CartInv /\ RbacIInv /\ AuthIInv /\ OtpIInv /\ LinkIInv /\ DeskIInv /\ RateIInv
         => TypesOK
  BY DEF TypesOK, InvIInv, CartInv, RbacIInv, AuthIInv, OtpIInv, LinkIInv, DeskIInv, RateIInv
<1> QED
  BY <1>1, ComponentsBehave, InventoryInvariant, CartInvariant, RbacInvariant, AuthInvariant,
     OtpInvariant, LinkInvariant, DeskInvariant, RateInvariant, PTL

=============================================================================

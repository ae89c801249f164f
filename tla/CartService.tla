----------------------------- MODULE CartService -----------------------------
(***************************************************************************)
(* The carts of one customer: cart.service.ts and the checkout of          *)
(* createOrder in order.service.ts, one action per statement.  Only the    *)
(* writes of the checkout are a transaction; every other call reads and    *)
(* then writes on what it read, with nothing held between.                 *)
(*                                                                         *)
(* No constraint makes the ACTIVE cart of a customer unique; a cart has at *)
(* most one item of a variant (cartId, productVariantId).  Ids of rows are *)
(* given out in order and not used again.                                  *)
(*                                                                         *)
(* History variables: put (per variant, by how much the calls raised the   *)
(* customer's carts), ordered (what the orders took over), and of a call   *)
(* caught (its cart was checked out while it was under way).               *)
(***************************************************************************)
EXTENDS Integers, FiniteSetsExt

CONSTANTS
    Carts,          \* ids of Cart rows, numbers
    Items,          \* ids of CartItem rows, numbers
    Variants,       \* product variants
    CartCalls,      \* the calls under way at one time
    MaxPut,         \* bound: what is put of one variant
    NoCart, NoItem, NoVariant

ASSUME CartAssumption ==
    /\ MaxPut \in Nat /\ Carts \subseteq Nat /\ Items \subseteq Nat
    /\ IsFiniteSet(Carts) /\ IsFiniteSet(Items)
    /\ NoCart \notin Carts /\ NoItem \notin Items /\ NoVariant \notin Variants

VARIABLES
    cartStatus,     \* per cart id: its status, "NONE" before it is created
    cartItem,       \* per item id: the row, Unborn before and Removed after it is one
    cartCall,       \* per call: the statement it executes next, what it has read
    put,            \* per variant: by how much calls raised the carts
    ordered         \* per variant: the quantity orders were created with

cartVars == << cartStatus, cartItem, cartCall, put, ordered >>

CartRow(k, v, q) == [cart |-> k, variant |-> v, quantity |-> q]
Unborn == CartRow(NoCart, NoVariant, 0)
Removed == CartRow(NoCart, NoVariant, 1)

CartStages == {"idle", "newCart", "addFind", "addRaise", "addInsert", "updateFind", "updateSet",
               "removeDelete", "clear", "checkoutItems", "checkoutCommit"}
NoLines == [v \in Variants |-> 0]
CartCall == [at : CartStages, cart : Carts \cup {NoCart}, item : Items \cup {NoItem},
             variant : Variants \cup {NoVariant}, asked : Nat, seen : Nat,
             lines : [Variants -> Nat], caught : BOOLEAN]
NoCartCall == [at |-> "idle", cart |-> NoCart, item |-> NoItem, variant |-> NoVariant,
               asked |-> 0, seen |-> 0, lines |-> NoLines, caught |-> FALSE]

ActiveCarts == {k \in Carts : cartStatus[k] = "ACTIVE"}
Created == {k \in Carts : cartStatus[k] # "NONE"}
NextCart == {k \in Carts \ Created : \A j \in Carts \ Created : k <= j}
NextItem == LET unborn == {i \in Items : cartItem[i] = Unborn}
            IN  {i \in unborn : \A j \in unborn : i <= j}
ItemsOf(k) == {i \in Items : cartItem[i].cart = k}
ItemsFor(k, v) == {i \in ItemsOf(k) : cartItem[i].variant = v}

CartInit ==
    /\ cartStatus = [k \in Carts |-> "NONE"]
    /\ cartItem = [i \in Items |-> Unborn]
    /\ cartCall = [c \in CartCalls |-> NoCartCall]
    /\ put = [v \in Variants |-> 0]
    /\ ordered = [v \in Variants |-> 0]

CartGoto(c, stage) == cartCall' = [cartCall EXCEPT ![c].at = stage]
CartDone(c) == cartCall' = [cartCall EXCEPT ![c] = NoCartCall]
CartBegin(c, call) ==
    /\ cartCall[c].at = "idle"
    /\ cartCall' = [cartCall EXCEPT ![c] = call]

ClosedCarts == {k \in Carts : cartStatus[k] = "CHECKED_OUT"}

Raises(v, by) ==
    /\ by > 0 => put[v] + by <= MaxPut
    /\ put' = [put EXCEPT ![v] = @ + Max({by, 0})]

-----------------------------------------------------------------------------
(* createOrGetCart: an ACTIVE cart is looked for, and created if there is  *)
(* none.                                                                   *)

CartFind(c) ==
    /\ ActiveCarts = {}
    /\ CartBegin(c, [NoCartCall EXCEPT !.at = "newCart"])
    /\ UNCHANGED << cartStatus, cartItem, put, ordered >>

CartCreate(c) ==
    \E k \in NextCart :
        /\ cartCall[c].at = "newCart"
        /\ cartStatus' = [cartStatus EXCEPT ![k] = "ACTIVE"]
        /\ CartDone(c)
        /\ UNCHANGED << cartItem, put, ordered >>

-----------------------------------------------------------------------------
(* addItem, updateItem, clearCart: the status is checked first, and not    *)
(* again.                                                                  *)

OpenFor(k) == k \in ActiveCarts

AddCheck(c) ==
    \E k \in Carts, v \in Variants :
        /\ OpenFor(k)
        /\ CartBegin(c, [NoCartCall EXCEPT !.at = "addFind", !.cart = k, !.variant = v, !.asked = 1])
        /\ UNCHANGED << cartStatus, cartItem, put, ordered >>

AddFind(c) ==
    LET found == ItemsFor(cartCall[c].cart, cartCall[c].variant)
    IN  /\ cartCall[c].at = "addFind"
        /\ \/ found = {} /\ CartGoto(c, "addInsert")
           \/ \E i \in found :
                cartCall' = [cartCall EXCEPT ![c].at = "addRaise", ![c].item = i,
                                             ![c].seen = cartItem[i].quantity]
        /\ UNCHANGED << cartStatus, cartItem, put, ordered >>

(* The row gets the quantity that was read and what is added. *)
AddRaise(c) ==
    LET i == cartCall[c].item
    IN  /\ cartCall[c].at = "addRaise"
        /\ IF cartItem[i] # Removed
           THEN /\ cartItem' = [cartItem EXCEPT ![i].quantity = cartCall[c].seen + cartCall[c].asked]
                /\ Raises(cartCall[c].variant, cartCall[c].asked)
           ELSE UNCHANGED << cartItem, put >>
        /\ CartDone(c)
        /\ UNCHANGED << cartStatus, ordered >>

(* The unique constraint refuses a second row of the variant. *)
AddInsert(c) ==
    LET k == cartCall[c].cart
        v == cartCall[c].variant
    IN  /\ cartCall[c].at = "addInsert"
        /\ IF ItemsFor(k, v) = {}
           THEN \E i \in NextItem :
                  /\ cartItem' = [cartItem EXCEPT ![i] = CartRow(k, v, cartCall[c].asked)]
                  /\ Raises(v, cartCall[c].asked)
           ELSE UNCHANGED << cartItem, put >>
        /\ CartDone(c)
        /\ UNCHANGED << cartStatus, ordered >>

UpdateCheck(c) ==
    \E k \in Carts, i \in Items, n \in 1 .. MaxPut :
        /\ OpenFor(k)
        /\ cartItem[i] # Unborn
        /\ CartBegin(c, [NoCartCall EXCEPT !.at = "updateFind", !.cart = k, !.item = i, !.asked = n])
        /\ UNCHANGED << cartStatus, cartItem, put, ordered >>

(* The item is looked for in the cart whose status was checked; the update
   that follows names the item alone.  The faulty form looks in any cart. *)
InAnyCart(i, k) == cartItem[i].cart # NoCart
InCart(i, k) == cartItem[i].cart = k

UpdateFind(c) ==
    /\ cartCall[c].at = "updateFind"
    /\ IF InCart(cartCall[c].item, cartCall[c].cart) THEN CartGoto(c, "updateSet") ELSE CartDone(c)
    /\ UNCHANGED << cartStatus, cartItem, put, ordered >>

UpdateSet(c) ==
    LET i == cartCall[c].item
    IN  /\ cartCall[c].at = "updateSet"
        /\ IF cartItem[i] # Removed
           THEN /\ cartItem' = [cartItem EXCEPT ![i].quantity = cartCall[c].asked]
                /\ Raises(cartItem[i].variant, cartCall[c].asked - cartItem[i].quantity)
           ELSE UNCHANGED << cartItem, put >>
        /\ CartDone(c)
        /\ UNCHANGED << cartStatus, ordered >>

ClearCheck(c) ==
    \E k \in Carts :
        /\ OpenFor(k)
        /\ CartBegin(c, [NoCartCall EXCEPT !.at = "clear", !.cart = k])
        /\ UNCHANGED << cartStatus, cartItem, put, ordered >>

Clear(c) ==
    /\ cartCall[c].at = "clear"
    /\ cartItem' = [i \in Items |-> IF i \in ItemsOf(cartCall[c].cart) THEN Removed ELSE cartItem[i]]
    /\ CartDone(c)
    /\ UNCHANGED << cartStatus, put, ordered >>

(* removeItem asks for the cart and the item, in whatever status the cart is. *)
RemoveFind(c) ==
    \E k \in Created : \E i \in ItemsOf(k) :
        /\ CartBegin(c, [NoCartCall EXCEPT !.at = "removeDelete", !.cart = k, !.item = i])
        /\ UNCHANGED << cartStatus, cartItem, put, ordered >>

RemoveDelete(c) ==
    /\ cartCall[c].at = "removeDelete"
    /\ cartItem' = [cartItem EXCEPT ![cartCall[c].item] = Removed]
    /\ CartDone(c)
    /\ UNCHANGED << cartStatus, put, ordered >>

-----------------------------------------------------------------------------
(* createOrder.                                                            *)

(* .first() of the customer's ACTIVE carts: any of them. *)
CheckoutCart(c) ==
    \E k \in ActiveCarts :
        /\ CartBegin(c, [NoCartCall EXCEPT !.at = "checkoutItems", !.cart = k])
        /\ UNCHANGED << cartStatus, cartItem, put, ordered >>

CheckoutItems(c) ==
    LET k == cartCall[c].cart
        quantities == [i \in Items |-> cartItem[i].quantity]
        lines == [v \in Variants |-> SumFunctionOnSet(quantities, ItemsFor(k, v))]
    IN  /\ cartCall[c].at = "checkoutItems"
        /\ IF ItemsOf(k) = {} THEN CartDone(c)
           ELSE cartCall' = [cartCall EXCEPT ![c].at = "checkoutCommit", ![c].lines = lines]
        /\ UNCHANGED << cartStatus, cartItem, put, ordered >>

(* The cart is closed by an update that asks for status ACTIVE; without it
   nothing of the transaction stays.  The faulty form closes it by its id. *)
StillOpenAlways(k) == TRUE
StillOpen(k) == cartStatus[k] = "ACTIVE"

(* The other calls under way on the cart are not told that it closes. *)
Catches(c, k) ==
    cartCall' = [d \in CartCalls |->
                   IF d = c THEN NoCartCall
                   ELSE [cartCall[d] EXCEPT !.caught = @ \/ cartCall[d].cart = k]]

CheckoutCommit(c) ==
    LET k == cartCall[c].cart
    IN  /\ cartCall[c].at = "checkoutCommit"
        /\ IF StillOpen(k)
           THEN /\ cartStatus' = [cartStatus EXCEPT ![k] = "CHECKED_OUT"]
                /\ ordered' = [v \in Variants |-> ordered[v] + cartCall[c].lines[v]]
                /\ Catches(c, k)
           ELSE UNCHANGED << cartStatus, ordered >> /\ CartDone(c)
        /\ UNCHANGED << cartItem, put >>

(* A call ends early: an unknown variant, no stock for the order, a lost
   connection. *)
CartCallFails(c) ==
    /\ cartCall[c].at # "idle"
    /\ CartDone(c)
    /\ UNCHANGED << cartStatus, cartItem, put, ordered >>

CartNext ==
    \E c \in CartCalls :
        \/ CartFind(c) \/ CartCreate(c)
        \/ AddCheck(c) \/ AddFind(c) \/ AddRaise(c) \/ AddInsert(c)
        \/ UpdateCheck(c) \/ UpdateFind(c) \/ UpdateSet(c)
        \/ ClearCheck(c) \/ Clear(c) \/ RemoveFind(c) \/ RemoveDelete(c)
        \/ CheckoutCart(c) \/ CheckoutItems(c) \/ CheckoutCommit(c) \/ CartCallFails(c)

CartSpec == CartInit /\ [][CartNext]_cartVars

-----------------------------------------------------------------------------
(* Properties.                                                             *)

CartTypeOK ==
    /\ cartStatus \in [Carts -> {"NONE", "ACTIVE", "CHECKED_OUT"}]
    /\ cartItem \in [Items -> [cart : Carts \cup {NoCart}, variant : Variants \cup {NoVariant},
                               quantity : Nat]]
    /\ cartCall \in [CartCalls -> CartCall]
    /\ put \in [Variants -> Nat]
    /\ ordered \in [Variants -> Nat]

(* The orders of a customer hold no more of a variant than the customer put
   into carts, whichever checkouts, additions and second ACTIVE carts overlap:
   no cart is ordered twice (order.service.ts:409). *)
OrderedIsAdded ==
    \A v \in Variants : ordered[v] <= put[v]

(* Once a cart is CHECKED_OUT its rows are inserted, changed or removed only by
   a call on that very cart: one of removeItem, or one that was under way when
   the checkout closed the cart, and that in its last step, so once for each.
   The check of the status, the lookup of the item and the write by its id
   (cart.service.ts:304, 310, 324) are statements of their own, and so are
   those of addItem and clearCart (227, 253, 268; 392, 398). *)
ClosedCartKept ==
    [][\A i \in Items, k \in ClosedCarts :
         /\ k \in {cartItem[i].cart, cartItem'[i].cart}
         /\ cartItem'[i] # cartItem[i]
         => \E c \in CartCalls :
              /\ cartCall[c].cart = k
              /\ cartCall[c].caught \/ cartCall[c].at = "removeDelete"
              /\ cartCall'[c] = NoCartCall]_cartVars

=============================================================================

------------------------------- MODULE Coupons -------------------------------
(***************************************************************************)
(* Coupon rights of the Pricing service and the orders that spend them.    *)
(*                                                                         *)
(* A right (one campaign, one customer) is AVAILABLE, RESERVED for an      *)
(* order or USED by it: services/pricing-service/src/coupons/              *)
(* coupons.service.ts, one transaction per operation.  Orders reserves the *)
(* right before it prices the order and settles it once the order's        *)
(* outcome is stored; that call is best effort, so Pricing also asks       *)
(* Orders now and then (`reconcile') and settles by the answer.            *)
(*                                                                         *)
(* Of Orders this module keeps what a coupon can tell apart: PENDING       *)
(* stands for PENDING and RESERVED, and what Inventory and Logistics       *)
(* answer is a free choice.  create and cancel of an order overlap, can be *)
(* cut anywhere, and leave calls behind that run late, as in Checkout.     *)
(***************************************************************************)
EXTENDS Naturals, FiniteSets

CONSTANTS
  Orders,       \* orders placed with a coupon code
  Rights,       \* (campaign, customer) pairs
  Wanted,       \* Wanted[o]: the right that order o names
  Cancellable,  \* bound of the model: orders whose customer may cancel
  MaxLate,      \* bound of the model on calls left running at the same time
  None

ASSUME CouponsAssumption ==
  /\ Wanted \in [Orders -> Rights]
  /\ Cancellable \subseteq Orders
  /\ MaxLate \in Nat
  /\ None \notin Orders

VARIABLES
  right,      \* pricing_coupon_rights, None before issue
  expired,    \* rights whose campaign's valid_until has passed
  listed,     \* orders reconcile has still to ask about
  check,      \* the order reconcile asked about, and the answer
  order,      \* orders
  create,     \* next step of the create request in progress, or "idle"
  cancel,     \* next step of the cancel request, and the coupon_code it read
  late,       \* calls to Pricing whose caller gave up
  raced,      \* orders whose create and cancel ever overlapped
  unreleased  \* orders whose create gave up on a release and left it running

pricingVars == <<right, expired, listed, check>>
ordersVars == <<order, create, cancel, late, raced, unreleased>>
couponVars == <<pricingVars, ordersVars>>

Right == {[status |-> "AVAILABLE", order |-> None]}
           \cup [status: {"RESERVED", "USED"}, order: Orders]

Order == [status: {"PENDING", "CONFIRMED", "CANCELLATION_PENDING", "CANCELLED"},
          coupon: BOOLEAN, price: {"none", "list", "coupon"}]

\* The answer about an order that reconcile has in its hands.
Check == [order: Orders, status: {"PENDING", "CONFIRMED", "CANCELLATION_PENDING", "CANCELLED"}]

ASSUME NoneIsNoRow == None \notin Right \cup Order \cup Check

Idle == [step |-> "idle", coupon |-> FALSE]

CouponInit ==
  /\ right = [r \in Rights |-> None]
  /\ expired = {}
  /\ listed = {}
  /\ check = None
  /\ order = [o \in Orders |-> None]
  /\ create = [o \in Orders |-> "idle"]
  /\ cancel = [o \in Orders |-> Idle]
  /\ late = {}
  /\ raced = {}
  /\ unreleased = {}

Status(o) == IF order[o] = None THEN "none" ELSE order[o].status

Holds(r, o) == right[r] # None /\ right[r].order = o

------------------------------------------------------------------------------
\* Pricing.

\* CRM issues a right before it publishes the coupon; a repeated call finds
\* the row and leaves it as it is.
Issue(r) ==
  /\ right[r] = None
  /\ r \notin expired
  /\ right' = [right EXCEPT ![r] = [status |-> "AVAILABLE", order |-> None]]
  /\ UNCHANGED <<expired, listed, check, ordersVars>>

Expire(r) ==
  /\ r \notin expired
  /\ expired' = expired \cup {r}
  /\ UNCHANGED <<right, listed, check, ordersVars>>

\* quote(..., reserve): a right that already has this order answers the
\* prices it stored; otherwise it must be free and in date.
CanReserveUnlessUsed(r) == right[r] # None /\ right[r].status # "USED" /\ r \notin expired
CanReserve(r) == right[r] # None /\ right[r].status = "AVAILABLE" /\ r \notin expired

Granted(o) == Holds(Wanted[o], o) \/ CanReserve(Wanted[o])

Reserve(o) ==
  right' = IF Holds(Wanted[o], o) \/ ~CanReserve(Wanted[o]) THEN right
           ELSE [right EXCEPT ![Wanted[o]] = [status |-> "RESERVED", order |-> o]]

\* settle finds the right by order_id; restore frees it in any status.
Freed(row) == [row EXCEPT !.status = "AVAILABLE", !.order = None]

Settled(row, action) ==
  CASE action = "commit" /\ row.status = "RESERVED" -> [row EXCEPT !.status = "USED"]
    [] action = "release" /\ row.status = "RESERVED" -> Freed(row)
    [] action = "restore" -> Freed(row)
    [] OTHER -> row

Settle(o, action) ==
  right' = [r \in Rights |-> IF Holds(r, o) THEN Settled(right[r], action) ELSE right[r]]

\* The rows reconcile looks at, and what it does about an order's status.
RecoverableReserved(r) == right[r] # None /\ right[r].status = "RESERVED"
Recoverable(r) == right[r] # None /\ right[r].status \in {"RESERVED", "USED"}

Verdict(status) ==
  CASE status = "CONFIRMED" -> "commit"
    [] status = "CANCELLED" -> "restore"
    [] OTHER -> "none"

\* reconcile lists those rows once, asks Orders for one after the other ...
ReconcileList ==
  /\ listed = {}
  /\ check = None
  /\ listed' = {right[r].order : r \in {q \in Rights : Recoverable(q)}}
  /\ UNCHANGED <<right, expired, check, ordersVars>>

ReconcileAsk(o) ==
  /\ o \in listed
  /\ check = None
  /\ listed' = listed \ {o}
  /\ check' = [order |-> o, status |-> Status(o)]
  /\ UNCHANGED <<right, expired, ordersVars>>

\* ... and settles by an answer that may have aged meanwhile.
ReconcileSettle(o) ==
  /\ check # None
  /\ check.order = o
  /\ Settle(o, Verdict(check.status))
  /\ check' = None
  /\ UNCHANGED <<expired, listed, ordersVars>>

\* Orders did not answer, or Pricing stopped before it settled.
CouponReconcileFails ==
  /\ check # None
  /\ check' = None
  /\ listed' \in {listed, {}}
  /\ UNCHANGED <<right, expired, ordersVars>>

------------------------------------------------------------------------------
\* Orders: create.

SetCreate(o, step) == create' = [create EXCEPT ![o] = step]
SetOrder(o, field, value) == order' = [order EXCEPT ![o][field] = value]

\* The first call writes the draft; a retry takes an open order up where it is.
CreateCall(o) ==
  /\ create[o] = "idle"
  /\ \/ /\ order[o] = None
        /\ order' = [order EXCEPT ![o] =
             [status |-> "PENDING", coupon |-> FALSE, price |-> "none"]]
        /\ SetCreate(o, "code")
     \/ /\ Status(o) = "PENDING"
        /\ UNCHANGED order
        /\ SetCreate(o, IF order[o].price # "none" THEN "sell"
                        ELSE IF order[o].coupon THEN "reserve" ELSE "total")
  /\ raced' = IF cancel[o] # Idle THEN raced \cup {o} ELSE raced
  /\ UNCHANGED <<pricingVars, cancel, late, unreleased>>

\* The code is written after the draft's transaction, by the first call only.
WriteCode(o) ==
  /\ create[o] = "code"
  /\ SetOrder(o, "coupon", TRUE)
  /\ SetCreate(o, "reserve")
  /\ UNCHANGED <<pricingVars, cancel, late, raced, unreleased>>

ReserveCoupon(o) ==
  /\ create[o] = "reserve"
  /\ Reserve(o)
  /\ SetCreate(o, IF Granted(o) THEN "total" ELSE "idle")
  /\ UNCHANGED <<expired, listed, check, order, cancel, late, raced, unreleased>>

\* The total is what the customer expected: the prices are stored.
StoreItems(o) ==
  /\ create[o] = "total"
  /\ SetOrder(o, "price", IF order[o].coupon THEN "coupon" ELSE "list")
  /\ SetCreate(o, "sell")
  /\ UNCHANGED <<pricingVars, cancel, late, raced, unreleased>>

\* It is not, or it is over the limit: the right is released first.
TotalRefused(o) ==
  /\ create[o] = "total"
  /\ SetCreate(o, IF order[o].coupon THEN "release" ELSE "refuse")
  /\ UNCHANGED <<pricingVars, order, cancel, late, raced, unreleased>>

ReleaseRefused(o) ==
  /\ create[o] = "release"
  /\ Settle(o, "release")
  /\ SetCreate(o, "refuse")
  /\ UNCHANGED <<expired, listed, check, order, cancel, late, raced, unreleased>>

\* PRICE_CHANGED fails the order; TOTAL_LIMIT leaves it as it is (CreateCut).
PriceChanged(o) ==
  /\ create[o] = "refuse"
  /\ SetOrder(o, "status", "CANCELLED")
  /\ SetCreate(o, "idle")
  /\ UNCHANGED <<pricingVars, cancel, late, raced, unreleased>>

\* Inventory committed every line, or had none left.
Sell(o) ==
  /\ create[o] = "sell"
  /\ \/ SetOrder(o, "status", "CONFIRMED") /\ SetCreate(o, IF order[o].coupon THEN "commit" ELSE "idle")
     \/ SetOrder(o, "status", "CANCELLED") /\ SetCreate(o, IF order[o].coupon THEN "undo" ELSE "idle")
  /\ UNCHANGED <<pricingVars, cancel, late, raced, unreleased>>

SettleSale(o) ==
  /\ \/ create[o] = "commit" /\ Settle(o, "commit")
     \/ create[o] = "undo" /\ Settle(o, "release")
  /\ SetCreate(o, "idle")
  /\ UNCHANGED <<expired, listed, check, order, cancel, late, raced, unreleased>>

\* What a request that waits for Pricing is waiting for.
Pending(step) ==
  CASE step = "reserve" -> {"reserve"}
    [] step = "commit" -> {"commit"}
    [] step = "restore" -> {"restore"}
    [] step \in {"release", "undo"} -> {"release"}
    [] OTHER -> {}

Leave(step, o) ==
  \E L \in SUBSET (Pending(step) \X {o}) :
    late' = late \cup L /\ Cardinality(late') <= MaxLate

\* The request ends here; the call it was waiting for may still run.
CreateCut(o) ==
  /\ create[o] # "idle"
  /\ Leave(create[o], o)
  /\ unreleased' = IF create[o] = "release" /\ late' # late THEN unreleased \cup {o}
                   ELSE unreleased
  /\ SetCreate(o, "idle")
  /\ UNCHANGED <<pricingVars, order, cancel, raced>>

------------------------------------------------------------------------------
\* Orders: cancel.

SetCancel(o, step) == cancel' = [cancel EXCEPT ![o].step = step]

\* The status read here decides the path, and the code whether to settle.
CancelCall(o) ==
  /\ o \in Cancellable
  /\ cancel[o] = Idle
  /\ order[o] # None
  /\ Status(o) # "CANCELLED"
  /\ cancel' = [cancel EXCEPT ![o] =
       [step |-> IF Status(o) = "PENDING" THEN "give up" ELSE "stage",
        coupon |-> order[o].coupon]]
  /\ raced' = IF create[o] # "idle" THEN raced \cup {o} ELSE raced
  /\ UNCHANGED <<pricingVars, order, create, late, unreleased>>

EndCancel(o) == cancel' = [cancel EXCEPT ![o] = Idle]

StageCancellation(o) ==
  /\ cancel[o].step = "stage"
  /\ \/ /\ Status(o) \in {"CONFIRMED", "CANCELLATION_PENDING"}
        /\ SetOrder(o, "status", "CANCELLATION_PENDING")
        /\ SetCancel(o, "ask")
     \/ /\ Status(o) \in {"PENDING", "CANCELLED"}
        /\ EndCancel(o)
        /\ UNCHANGED order
  /\ UNCHANGED <<pricingVars, create, late, raced, unreleased>>

\* Logistics accepts (or is not asked, for a counter order), or it refuses.
AskLogistics(o) ==
  /\ cancel[o].step = "ask"
  /\ SetCancel(o, "accepted") \/ SetCancel(o, "refused")
  /\ UNCHANGED <<pricingVars, order, create, late, raced, unreleased>>

RestoreConfirmed(o) ==
  /\ cancel[o].step = "refused"
  /\ IF Status(o) = "CANCELLATION_PENDING" THEN SetOrder(o, "status", "CONFIRMED")
     ELSE UNCHANGED order
  /\ EndCancel(o)
  /\ UNCHANGED <<pricingVars, create, late, raced, unreleased>>

FinalizeCancellation(o) ==
  /\ cancel[o].step \in {"give up", "accepted"}
  /\ SetOrder(o, "status", "CANCELLED")
  /\ IF ~cancel[o].coupon THEN EndCancel(o)
     ELSE SetCancel(o, IF cancel[o].step = "give up" THEN "release" ELSE "restore")
  /\ UNCHANGED <<pricingVars, create, late, raced, unreleased>>

SettleCancellation(o) ==
  /\ cancel[o].step \in {"release", "restore"}
  /\ Settle(o, cancel[o].step)
  /\ EndCancel(o)
  /\ UNCHANGED <<expired, listed, check, order, create, late, raced, unreleased>>

CancelCut(o) ==
  /\ cancel[o] # Idle
  /\ Leave(cancel[o].step, o)
  /\ EndCancel(o)
  /\ UNCHANGED <<pricingVars, order, create, raced, unreleased>>

------------------------------------------------------------------------------
\* A call whose caller gave up reaches Pricing after all.
LateCallRuns(call) ==
  /\ late' = late \ {call}
  /\ IF call[1] = "reserve" THEN Reserve(call[2]) ELSE Settle(call[2], call[1])
  /\ UNCHANGED <<expired, listed, check, order, create, cancel, raced, unreleased>>

CouponNext ==
  \/ \E r \in Rights : Issue(r) \/ Expire(r)
  \/ \E o \in Orders :
       \/ ReconcileAsk(o) \/ ReconcileSettle(o)
       \/ CreateCall(o) \/ WriteCode(o) \/ ReserveCoupon(o) \/ StoreItems(o)
       \/ TotalRefused(o) \/ ReleaseRefused(o) \/ PriceChanged(o)
       \/ Sell(o) \/ SettleSale(o) \/ CreateCut(o)
       \/ CancelCall(o) \/ StageCancellation(o) \/ AskLogistics(o) \/ RestoreConfirmed(o)
       \/ FinalizeCancellation(o) \/ SettleCancellation(o) \/ CancelCut(o)
  \/ ReconcileList \/ CouponReconcileFails
  \/ \E call \in late : LateCallRuns(call)

\* reconcile runs by a timer, takes the rows it has not looked at for longest
\* first, and Orders answers it now and then.
CouponFairness ==
  /\ WF_couponVars(ReconcileList)
  /\ \A o \in Orders : SF_couponVars(ReconcileAsk(o)) /\ SF_couponVars(ReconcileSettle(o))

CouponSpec == CouponInit /\ [][CouponNext]_couponVars /\ CouponFairness

------------------------------------------------------------------------------
\* Properties.

CouponTypeOK ==
  /\ right \in [Rights -> Right \cup {None}]
  /\ expired \subseteq Rights
  /\ listed \subseteq Orders
  /\ check \in Check \cup {None}
  /\ order \in [Orders -> Order \cup {None}]
  /\ create \in [Orders -> {"idle", "code", "reserve", "total", "release", "refuse", "sell",
                            "commit", "undo"}]
  /\ cancel \in [Orders -> [step: {"idle", "give up", "stage", "ask", "accepted", "refused",
                                   "release", "restore"}, coupon: BOOLEAN]]
  /\ late \subseteq {"reserve", "commit", "release", "restore"} \X Orders
  /\ raced \subseteq Orders
  /\ unreleased \subseteq Orders

\* A sale at the coupon's price has the right, so no second order can be sold
\* with it, whichever of the calls that settle it were lost, late or decided by
\* an old answer ("rejects a consumed right", "rejects another order's
\* reservation").  Two ways to lose the right are left out because Orders does
\* not prevent them: a create that confirms what a cancel gave up, and a
\* release of a refused total that runs after the retry reserved again.
DiscountedSaleHoldsRight ==
  \A o \in Orders \ (raced \cup unreleased) :
    Status(o) \in {"CONFIRMED", "CANCELLATION_PENDING"} /\ order[o].price = "coupon"
      => Holds(Wanted[o], o)

\* An order that was sold at the coupon's price and never cancelled keeps the
\* right ("una orden despachada no devuelve stock ni cupón",
\* docs/entrega-definitiva-fases-7-9.md:9).  It is not so: the release of a
\* refused total may still run after the retry of create reserved again.
SoldOrderKeepsRight ==
  \A o \in Orders \ raced :
    Status(o) = "CONFIRMED" /\ order[o].price = "coupon" => Holds(Wanted[o], o)

\* In the end the right follows the order: a cancelled order gives it back and
\* a sale uses it up, although the call that does so is made once, may fail
\* unnoticed and may overtake or be overtaken by the next one.
Unsettled(o) ==
  \E r \in Rights :
    /\ Holds(r, o)
    /\ \/ Status(o) = "CANCELLED"
       \/ Status(o) = "CONFIRMED" /\ right[r].status = "RESERVED"

RightFollowsOrder == \A o \in Orders : []<>~Unsettled(o)
==============================================================================

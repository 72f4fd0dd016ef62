------------------------------ MODULE PurchasePage ------------------------------
(***************************************************************************)
(* The page on which a customer confirms his bag, and what becomes of the  *)
(* request when it is answered late, by somebody else or never.            *)
(*                                                                         *)
(* src/components/customer-checkout.tsx with the bag of                    *)
(* customer-cart-provider.tsx, the route app/api/checkout/route.ts, and    *)
(* lib/pricing/sale-error.ts; the desk of physical-sales-desk.tsx keeps    *)
(* the same references.  A request carries an Idempotency-Key; the page    *)
(* keeps key and quote for a retry until it has a result or a refusal.     *)
(*                                                                         *)
(* The bag holds units of one variant, at one branch; of Orders there is   *)
(* what became of a key (Checkout has the protocol behind it), and of      *)
(* Pricing the price that is good now.                                     *)
(***************************************************************************)
EXTENDS Integers, FiniteSetsExt

CONSTANTS
  Prices,
  MaxUnits,   \* MAX_LINE_QUANTITY
  MaxCalls,   \* bound: requests sent
  MaxVisits,  \* bound: times the page is opened
  MaxEdits,   \* bound: units put in the bag or taken out
  None        \* no price, key, page or answer

Calls == 1..MaxCalls
Keys == Calls   \* a fresh key is drawn at most once for each call

VARIABLES
  price,   \* what Pricing quotes now
  bag,     \* units in the bag: the provider's lines, and localStorage
  page,    \* the open checkout page, None when another page is open
  calls,   \* the requests sent, by number
  order,   \* what Orders knows of a key
  shown,   \* history: keys whose sale reached the browser
  left,    \* history: keys a page held when it was left or reloaded, or when a sale
           \* of an earlier visit changed its bag
  refused, \* history: keys refused while Orders might still sell
  agreed,  \* history: the price the page showed when a key was sent last
  edits, visits, \* history: counters
  kept     \* history: units the customer put in the bag and did not take out

vars == <<price, bag, page, calls, order, shown, left, refused, agreed, edits, visits, kept>>

\* key, attempt: checkoutKey, attemptedQuote.  quote: what useCartQuote has, if
\* it is valid.  held: attemptDisplay, the quote and the bag it was made for.
Page == [key: Keys \cup {None}, attempt: Prices \cup {None}, quote: Prices \cup {None},
         held: [price: Prices, units: 1..MaxUnits] \cup {None},
         pending: BOOLEAN, done: BOOLEAN]

\* where: sent, answered by Orders or before it, or no longer on its way.
\* waiting: the browser waits for the answer; live: so does the page.
Call == [key: Keys, units: 1..MaxUnits, price: Prices, where: {"sent", "answered", "over"},
         answer: {None, "sold", "refused", "unavailable"}, waiting: BOOLEAN, live: BOOLEAN]

\* Of an order that is open it is not settled whether it will be sold.
Order == [status: {"none", "open", "CONFIRMED", "FAILED"}, price: Prices \cup {None}]

FreshPage == [key |-> None, attempt |-> None, quote |-> None, held |-> None,
              pending |-> FALSE, done |-> FALSE]

Init ==
  /\ price \in Prices
  /\ bag = 0 /\ page = None
  /\ calls = [i \in {} |-> None]
  /\ order = [k \in Keys |-> [status |-> "none", price |-> None]]
  /\ shown = {} /\ left = {} /\ refused = {}
  /\ agreed = [k \in Keys |-> None]
  /\ edits = 0 /\ visits = 0 /\ kept = 0

Sent == DOMAIN calls
Open == page # None /\ ~page.done
Frozen == page.held # None /\ page.held.units = bag
Locked == page.pending \/ Frozen
Held == IF page = None THEN {} ELSE {page.key} \ {None}
Shown == IF Frozen THEN page.held.price ELSE page.quote

------------------------------------------------------------------------------
\* The page.

\* The effect that follows a change of the bag drops key and quote of an
\* attempt, and a quote is of one bag.
AfterChange(p) ==
  IF p = None THEN None ELSE [p EXCEPT !.key = None, !.attempt = None, !.quote = None]

\* A unit more, from the catalogue or the bag; a unit less.
Revise(delta) ==
  /\ edits < MaxEdits /\ bag + delta \in 0..MaxUnits
  /\ Open => ~Locked
  /\ bag' = bag + delta /\ page' = AfterChange(page)
  /\ kept' = kept + delta /\ edits' = edits + 1
  /\ UNCHANGED <<price, calls, order, shown, left, refused, agreed, visits>>

Visit ==
  /\ page = None /\ visits < MaxVisits
  /\ page' = FreshPage /\ visits' = visits + 1
  /\ UNCHANGED <<price, bag, calls, order, shown, left, refused, agreed, edits, kept>>

Quoted ==
  /\ Open /\ bag > 0
  /\ page' = [page EXCEPT !.quote = price]
  /\ UNCHANGED <<price, bag, calls, order, shown, left, refused, agreed, edits, visits, kept>>

\* validUntil passes, or a new quote fails.
QuoteEnds ==
  /\ Open /\ page.quote # None
  /\ page' = [page EXCEPT !.quote = None]
  /\ UNCHANGED <<price, bag, calls, order, shown, left, refused, agreed, edits, visits, kept>>

Number == 1 + (CHOOSE n \in 0..MaxCalls : Sent = 1..n)

Confirm ==
  LET attempt == IF page.attempt # None THEN page.attempt ELSE page.quote
      key == IF page.key # None THEN page.key ELSE Number
  IN
  /\ Open /\ bag > 0 /\ ~page.pending /\ Number \in Calls
  /\ attempt # None
  /\ page' = [page EXCEPT !.key = key, !.attempt = attempt, !.pending = TRUE,
                          !.held = [price |-> attempt, units |-> bag]]
  /\ calls' = [i \in 1..Number |-> IF i \in Sent THEN calls[i] ELSE
       [key |-> key, units |-> bag, price |-> attempt, where |-> "sent", answer |-> None,
        waiting |-> TRUE, live |-> TRUE]]
  /\ agreed' = [agreed EXCEPT ![key] = Shown]
  /\ UNCHANGED <<price, bag, order, shown, left, refused, edits, visits, kept>>

\* The customer goes to another page of the shop: the request goes on, and its
\* onSuccess will still take what was sold from the bag.
Leave ==
  /\ page # None
  /\ page' = None
  /\ left' = left \cup Held
  /\ calls' = [i \in Sent |-> [calls[i] EXCEPT !.live = FALSE]]
  /\ UNCHANGED <<price, bag, order, shown, refused, agreed, edits, visits, kept>>

\* Reloaded, or closed: nobody waits for an answer any more.
Reload ==
  /\ page' = None
  /\ left' = left \cup {calls[i].key : i \in {j \in Sent : calls[j].waiting}} \cup Held
  /\ calls' = [i \in Sent |-> [calls[i] EXCEPT !.live = FALSE, !.waiting = FALSE]]
  /\ UNCHANGED <<price, bag, order, shown, refused, agreed, edits, visits, kept>>

------------------------------------------------------------------------------
\* Answers.

\* A page that is told no forgets the attempt; of an error that may hide a sale
\* it keeps it (saleWasRejected).
AfterError(p, rejected) ==
  IF rejected THEN [p EXCEPT !.pending = FALSE, !.key = None, !.attempt = None, !.held = None]
  ELSE [p EXCEPT !.pending = FALSE]

\* onSuccess: the units that were sold leave the bag, however it is now.
Receive(i) ==
  LET c == calls[i]
      rest == IF bag > c.units THEN bag - c.units ELSE 0
  IN
  /\ c.where = "answered" /\ c.waiting
  /\ calls' = [calls EXCEPT ![i].where = "over", ![i].waiting = FALSE]
  /\ IF c.answer = "sold"
     THEN /\ shown' = shown \cup {c.key}
          /\ bag' = rest
          /\ left' = IF c.live \/ rest = bag THEN left ELSE left \cup Held
          /\ page' = IF c.live THEN [FreshPage EXCEPT !.done = TRUE]
                     ELSE IF rest = bag THEN page ELSE AfterChange(page)
     ELSE /\ page' = IF c.live THEN AfterError(page, c.answer = "refused") ELSE page
          /\ UNCHANGED <<shown, bag, left>>
  /\ UNCHANGED <<price, order, refused, agreed, edits, visits, kept>>

\* The gateway's time-out, or the connection breaks: Orders may get the request
\* yet, or be at work on it.
NoAnswer(i) ==
  /\ calls[i].waiting
  /\ calls' = [calls EXCEPT ![i].waiting = FALSE]
  /\ page' = IF calls[i].live THEN AfterError(page, FALSE) ELSE page
  /\ UNCHANGED <<price, bag, order, shown, left, refused, agreed, edits, visits, kept>>

\* The route or the gateway refuses, without asking Orders: the session ended,
\* the account was disabled.
Refuse(i) ==
  /\ calls[i].where = "sent"
  /\ calls' = [calls EXCEPT ![i].where = "answered", ![i].answer = "refused"]
  /\ refused' = refused \cup {calls[i].key}
  /\ UNCHANGED <<price, bag, page, order, shown, left, agreed, edits, visits, kept>>

Lost(i) ==
  /\ calls[i].where = "sent" /\ ~calls[i].waiting
  /\ calls' = [calls EXCEPT ![i].where = "over"]
  /\ UNCHANGED <<price, bag, page, order, shown, left, refused, agreed, edits, visits, kept>>

------------------------------------------------------------------------------
\* Orders, one request of a key at a time: what was decided is repeated; else
\* the sale is priced, once, and sold, refused for good (price, stock) or left
\* open by a failure of its own or of another service.
Outcomes(o, c) ==
  IF o.status = "CONFIRMED" THEN {[answer |-> "sold", order |-> o]}
  ELSE IF o.status = "FAILED" THEN {[answer |-> "refused", order |-> o]}
  ELSE LET priced == IF o.price = None THEN price ELSE o.price IN
    {[answer |-> a, order |-> [o EXCEPT !.status = "open"]] : a \in {"refused", "unavailable"}}
    \cup IF o.price = None /\ price # c.price
         THEN {[answer |-> "refused", order |-> [o EXCEPT !.status = "FAILED"]]}
         ELSE {[answer |-> "sold", order |-> [status |-> "CONFIRMED", price |-> priced]],
               [answer |-> "refused", order |-> [status |-> "FAILED", price |-> priced]]}
              \cup {[answer |-> a, order |-> [status |-> "open", price |-> priced]] :
                    a \in {"refused", "unavailable"}}

Create(i) ==
  LET c == calls[i] IN
  /\ c.where = "sent"
  /\ \E out \in Outcomes(order[c.key], c) :
       /\ order' = [order EXCEPT ![c.key] = out.order]
       /\ calls' = [calls EXCEPT ![i].where = IF c.waiting THEN "answered" ELSE "over",
                                 ![i].answer = out.answer]
       /\ refused' = IF out.answer = "refused" /\ out.order.status = "open"
                     THEN refused \cup {c.key} ELSE refused
  /\ UNCHANGED <<price, bag, page, shown, left, agreed, edits, visits, kept>>

PriceChanges ==
  /\ price' \in Prices \ {price}
  /\ UNCHANGED <<bag, page, calls, order, shown, left, refused, agreed, edits, visits, kept>>

Next ==
  \/ Revise(1) \/ Revise(-1) \/ Visit \/ Quoted \/ QuoteEnds \/ Confirm \/ Leave \/ Reload
  \/ \E i \in Sent : Receive(i) \/ NoAnswer(i) \/ Refuse(i) \/ Lost(i) \/ Create(i)
  \/ PriceChanges

Spec == Init /\ [][Next]_vars

------------------------------------------------------------------------------
\* Properties.

TypeOK ==
  /\ price \in Prices /\ bag \in 0..MaxUnits /\ page \in Page \cup {None}
  /\ \E n \in 0..MaxCalls : calls \in [1..n -> Call]
  /\ order \in [Keys -> Order] /\ agreed \in [Keys -> Prices \cup {None}]
  /\ shown \subseteq Keys /\ left \subseteq Keys /\ refused \subseteq Keys
  /\ edits \in 0..MaxEdits /\ visits \in 0..MaxVisits /\ kept \in Int

Sold == {k \in Keys : order[k].status = "CONFIRMED"}
Awaited == {calls[i].key : i \in {j \in Sent : calls[j].waiting}}
\* No sale is forgotten by the browser: it was shown, is awaited, or its key is
\* kept for the retry that will show it; unless the customer left the page (or
\* a sale from before he did changed the bag under it), or was refused while the
\* sale was not settled.
SalesAreKnown == Sold \subseteq shown \cup Awaited \cup Held \cup left \cup refused

\* A key is sent with one bag only, so Orders never answers that it was reused.
OneBagPerKey == \A i, j \in Sent : calls[i].key = calls[j].key => calls[i].units = calls[j].units

\* What was sold was sold at the price the page showed when it was confirmed,
\* unless the customer had left a page with an attempt under way.
PaysWhatIsShown(k) == order[k].price = agreed[k]
SoldAsShown == left = {} => \A k \in Sold : PaysWhatIsShown(k)

UnitsOf(k) == LET i == CHOOSE j \in Sent : calls[j].key = k IN calls[i].units

\* A sale takes from the bag what it sold and nothing else, though the customer
\* may have changed the bag, or sold it again, since.
BagKeepsTheRest == bag >= kept - MapThenSumSet(UnitsOf, shown)

\* "A network error or 5xx can hide an accepted order. Retain its exact request
\* and key until the same operation can be retried safely" (sale-error.ts:5-6).
\* Violated: a retry that is refused because the session ended drops the key of
\* a sale that the first request may have made.
KeyIsRetained == left = {} => Sold \subseteq shown \cup Awaited \cup Held

\* "Si cambia el importe, podrás revisar y confirmar el nuevo total"
\* (customer-checkout.tsx:155).  Violated: a total that is still displayed for a
\* dropped attempt is not the one that is sent.
NewTotalIsReviewed == \A k \in Sold : PaysWhatIsShown(k)
================================================================================

------------------------------ MODULE Promotions ------------------------------
(***************************************************************************)
(* Scheduled promotions of the Pricing service, and the prices that pages  *)
(* and carts hold on to until the `validUntil' they were quoted with       *)
(* (services/pricing-service/src/pricing/pricing.service.ts).              *)
(*                                                                         *)
(* A quote looks at the window of a promotion, not at the status alone:    *)
(* a timer moves the status after the fact (reconcilePromotionStates, two  *)
(* UPDATE statements in one transaction), while administrators create,     *)
(* edit and delete promotions.  Both the timer and a quote take the time   *)
(* before they reach the database, and reach it later.                     *)
(*                                                                         *)
(* What a promotion takes off and whom it is for is its deal.  Amounts are *)
(* cents, after rounding.                                                  *)
(***************************************************************************)
EXTENDS Integers

CONSTANTS
  Promotions,
  Deals,
  Variants,
  Targets,    \* Targets[d]: the variants that deal d is for
  Priority,   \* Priority[d]
  Discount,   \* Discount[d][v]: what d takes off v, never more than its price
  BasePrice,  \* BasePrice[v], of the catalog
  Pages,      \* pages and carts that hold a quote
  Runs,       \* runs of the timer that may overlap
  Refresh,    \* a quote is good for this long at most (30 seconds)
  MaxTime,    \* bound of the model on time
  MaxEdits    \* bound of the model on edits by administrators

VARIABLES
  now,
  promotion,  \* pricing_promotions; status NONE where there is no row
  announced,  \* the last event of a promotion in the outbox
  run,        \* runs of reconcilePromotionStates
  asked,      \* when the quote a page is waiting for took the time, or -1
  held,       \* the quote a page shows
  edits

vars == <<now, promotion, announced, run, asked, held, edits>>

Statuses == {"NONE", "DRAFT", "SCHEDULED", "ACTIVE", "EXPIRED"}
Row == [status: Statuses, deal: Deals, from: Nat, to: Nat]

Resting == [pc |-> "idle", at |-> 0, ended |-> {}]

Init ==
  /\ now = 0
  /\ \E d \in Deals :
       promotion = [p \in Promotions |-> [status |-> "NONE", deal |-> d, from |-> 0, to |-> 0]]
  /\ announced = [p \in Promotions |-> "nothing"]
  /\ run = [j \in Runs |-> Resting]
  /\ asked = [h \in Pages |-> -1]
  /\ held = [h \in Pages |-> [age |-> "outdated", until |-> 0, price |-> BasePrice]]
  /\ edits = 0

Tick ==
  /\ now < MaxTime
  /\ now' = now + 1
  /\ UNCHANGED <<promotion, announced, run, asked, held, edits>>

------------------------------------------------------------------------------
\* Quotes.

Offered(p) == promotion[p].status \in {"SCHEDULED", "ACTIVE"}

InWindow(p, t) == promotion[p].from <= t /\ t < promotion[p].to

\* The deals that count for v at time t.
DealsFor(v, t) ==
  {promotion[p].deal : p \in {q \in Promotions :
     Offered(q) /\ InWindow(q, t) /\ v \in Targets[promotion[q].deal]}}

\* selectPromotion: the highest priority, and of those the largest discount.
Beats(c, d, v) ==
  \/ Priority[c] > Priority[d]
  \/ Priority[c] = Priority[d] /\ Discount[c][v] >= Discount[d][v]

Winner(D, v) == CHOOSE c \in D : \A d \in D : Beats(c, d, v)

Price(v, t) ==
  LET D == DealsFor(v, t)
  IN  IF D = {} THEN BasePrice[v] ELSE BasePrice[v] - Discount[Winner(D, v)][v]

\* Instants after t at which a promotion for one of the variants begins or ends.
Boundaries(t) ==
  {b \in UNION {{promotion[p].from, promotion[p].to} : p \in
     {q \in Promotions :
        /\ Offered(q) /\ promotion[q].to > t
        /\ \E v \in Variants : v \in Targets[promotion[q].deal]}} : b > t}

AskQuote(h) ==
  /\ asked' = [asked EXCEPT ![h] = now]
  /\ UNCHANGED <<now, promotion, announced, run, held, edits>>

\* quoteMany: good until the next boundary, Refresh at most.
ReadQuote(h) ==
  /\ asked[h] # -1
  /\ \E until \in {asked[h] + Refresh} \cup Boundaries(asked[h]) :
       /\ \A b \in {asked[h] + Refresh} \cup Boundaries(asked[h]) : until <= b
       /\ held' = [held EXCEPT ![h] =
            [age |-> "current", until |-> until, price |-> [v \in Variants |-> Price(v, asked[h])]]]
  /\ asked' = [asked EXCEPT ![h] = -1]
  /\ UNCHANGED <<now, promotion, announced, run, edits>>

------------------------------------------------------------------------------
\* Administrators.  Their edits reach the pages with the next quote only.

Locked(p) == \E j \in Runs : p \in run[j].ended

Outdate == held' = [h \in Pages |-> [held[h] EXCEPT !.age = "outdated"]]

Edit(p, row) ==
  /\ edits < MaxEdits
  /\ edits' = edits + 1
  /\ ~Locked(p)
  /\ promotion' = [promotion EXCEPT ![p] = row]
  /\ Outdate
  /\ UNCHANGED <<now, run, asked>>

\* The window may lie in the past.
CreatePromotion(p, d, from, to) ==
  /\ promotion[p].status = "NONE"
  /\ from < to
  /\ Edit(p, [status |-> "SCHEDULED", deal |-> d, from |-> from, to |-> to])
  /\ announced' = [announced EXCEPT ![p] = "nothing"]

\* An administrator may set DRAFT or SCHEDULED, or keep the status.
UpdatePromotion(p, status, d, from, to) ==
  /\ promotion[p].status \in {"DRAFT", "SCHEDULED", "ACTIVE"}
  /\ status \in {promotion[p].status, "DRAFT", "SCHEDULED"}
  /\ from < to
  /\ Edit(p, [status |-> status, deal |-> d, from |-> from, to |-> to])
  /\ UNCHANGED announced

DeletePromotion(p) ==
  /\ promotion[p].status # "NONE"
  /\ Edit(p, [promotion[p] EXCEPT !.status = "NONE"])
  /\ UNCHANGED announced

------------------------------------------------------------------------------
\* The timer.

ReconcileStarts(j) ==
  /\ run[j].pc = "idle"
  /\ run' = [run EXCEPT ![j] = [pc |-> "expire", at |-> now, ended |-> {}]]
  /\ UNCHANGED <<now, promotion, announced, asked, held, edits>>

Ended(t) == {p \in Promotions : Offered(p) /\ promotion[p].to <= t}
Started(t) == {p \in Promotions : promotion[p].status = "SCHEDULED" /\ InWindow(p, t)}

\* The first UPDATE: rows another run has changed are waited for.
ExpireRows(j) ==
  /\ run[j].pc = "expire"
  /\ \A p \in Ended(run[j].at) : ~Locked(p)
  /\ run' = [run EXCEPT ![j].pc = "activate", ![j].ended = Ended(run[j].at)]
  /\ UNCHANGED <<now, promotion, announced, asked, held, edits>>

\* The second UPDATE, the events, and COMMIT: what is seen of both.
ActivateRows(j) ==
  /\ run[j].pc = "activate"
  /\ \A p \in Started(run[j].at) : ~Locked(p)
  /\ promotion' = [p \in Promotions |->
       IF p \in run[j].ended THEN [promotion[p] EXCEPT !.status = "EXPIRED"]
       ELSE IF p \in Started(run[j].at) THEN [promotion[p] EXCEPT !.status = "ACTIVE"]
       ELSE promotion[p]]
  /\ announced' = [p \in Promotions |->
       IF p \in run[j].ended THEN "expired"
       ELSE IF p \in Started(run[j].at) THEN "activated" ELSE announced[p]]
  /\ run' = [run EXCEPT ![j] = Resting]
  /\ UNCHANGED <<now, asked, held, edits>>

\* The transaction fails and is rolled back.
ReconcileFails(j) ==
  /\ run[j].pc # "idle"
  /\ run' = [run EXCEPT ![j] = Resting]
  /\ UNCHANGED <<now, promotion, announced, asked, held, edits>>

Times == 0..MaxTime

Next ==
  \/ Tick
  \/ \E h \in Pages : AskQuote(h) \/ ReadQuote(h)
  \/ \E p \in Promotions, d \in Deals, from, to \in Times :
       \/ CreatePromotion(p, d, from, to)
       \/ \E status \in Statuses : UpdatePromotion(p, status, d, from, to)
  \/ \E p \in Promotions : DeletePromotion(p)
  \/ \E j \in Runs :
       ReconcileStarts(j) \/ ExpireRows(j) \/ ActivateRows(j) \/ ReconcileFails(j)

\* The interval timer fires for ever, and its transactions, though each may
\* fail, do not always fail.
Fairness ==
  \A j \in Runs :
    WF_vars(ReconcileStarts(j)) /\ SF_vars(ExpireRows(j)) /\ SF_vars(ActivateRows(j))

Spec == Init /\ [][Next]_vars /\ Fairness

------------------------------------------------------------------------------
\* Properties.

TypeOK ==
  /\ now \in Nat
  /\ promotion \in [Promotions -> Row]
  /\ announced \in [Promotions -> {"nothing", "activated", "expired"}]
  /\ run \in [Runs -> [pc: {"idle", "expire", "activate"}, at: Nat, ended: SUBSET Promotions]]
  /\ asked \in [Pages -> Nat \cup {-1}]
  /\ \A h \in Pages : held[h].until \in Nat /\ held[h].age \in {"current", "outdated"}
  /\ edits \in Nat

\* A price on a page is the price Pricing would quote now, as long as it is
\* shown (until validUntil) and nobody edited a promotion since: no promotion
\* begins or ends unseen, and neither the lag of the statuses behind the
\* windows nor the run that catches up changes what anything costs.
HeldQuoteIsCurrent ==
  \A h \in Pages : held[h].age = "current" /\ now < held[h].until =>
    \A v \in Variants : held[h].price[v] = Price(v, now)

\* A promotion is only declared EXPIRED, which is final, once it is over, even
\* if an administrator extends it while a run is under way.
ExpiredIsOver == \A p \in Promotions : promotion[p].status = "EXPIRED" => promotion[p].to <= now

\* The newest event of a promotion in the outbox agrees with its status.
StatusIsAnnounced ==
  \A p \in Promotions :
    /\ promotion[p].status = "ACTIVE" => announced[p] = "activated"
    /\ promotion[p].status = "EXPIRED" => announced[p] = "expired"

\* A promotion that is over does not stay on offer.
OverIsExpired == \A p \in Promotions : (p \in Ended(now)) ~> (p \notin Ended(now))
==============================================================================

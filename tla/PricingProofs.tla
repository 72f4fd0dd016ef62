----------------------------- MODULE PricingProofs -----------------------------
(***************************************************************************)
(* Proofs about Pricing.                                                   *)
(*                                                                         *)
(* Promotions, for any promotions, deals and prices, any number of pages   *)
(* and of overlapping runs of the timer.  What a page shows stays right    *)
(* because no promotion for its variants begins or ends before the quote's *)
(* validUntil (QuoteIsSound), and because a run only takes off the market  *)
(* what is over (RunIsSound).                                              *)
(*                                                                         *)
(* Coupons, for any orders and rights and any number of calls left         *)
(* running.  Whoever was promised the coupon's price has the right         *)
(* (PriceHeld) because every request that may still give it back, and      *)
(* every answer that reconcile still holds, belongs to a cancelled order   *)
(* (GivenBackWhenGone), and a cancelled order stays so.                    *)
(***************************************************************************)
EXTENDS Promotions, Coupons, TLAPS

------------------------------------------------------------------------------
\* Promotions.

HeldShape ==
  held = [h \in Pages |-> [age |-> held[h].age, until |-> held[h].until,
                           price |-> held[h].price]]

\* The rows a run has locked are over, still on offer, and its own.
RunIsSound(j) ==
  /\ run[j].at <= now
  /\ run[j].pc # "activate" => run[j].ended = {}
  /\ \A p \in run[j].ended :
       /\ Offered(p) /\ promotion[p].to <= run[j].at
       /\ \A k \in Runs : p \in run[k].ended => k = j

QuoteIsSound(h) ==
  /\ asked[h] <= now
  /\ held[h].age = "current" /\ now < held[h].until =>
       /\ \A v \in Variants : held[h].price[v] = Price(v, now)
       /\ \A b \in Boundaries(now) : held[h].until <= b

PromotionsInv ==
  /\ TypeOK
  /\ HeldShape
  /\ \A j \in Runs : RunIsSound(j)
  /\ ExpiredIsOver
  /\ StatusIsAnnounced
  /\ \A h \in Pages : QuoteIsSound(h)

------------------------------------------------------------------------------
\* Which of the best deals the sort puts first is left open by the query, whose
\* rows come in any order; it makes no difference to the price.
THEOREM TiesCostTheSame ==
  ASSUME Priority \in [Deals -> Nat], Discount \in [Deals -> [Variants -> Nat]],
         NEW D \in SUBSET Deals, NEW v \in Variants, NEW c \in D, NEW d \in D,
         \A e \in D : Beats(c, e, v) /\ Beats(d, e, v)
  PROVE  Discount[c][v] = Discount[d][v]
<1>1. Beats(c, d, v) /\ Beats(d, c, v)
  OBVIOUS
<1>2. Priority[c] \in Nat /\ Priority[d] \in Nat /\ Discount[c][v] \in Nat /\ Discount[d][v] \in Nat
  OBVIOUS
<1> DEFINE a == Priority[c]
           b == Priority[d]
           m == Discount[c][v]
           n == Discount[d][v]
<1>3. (a > b \/ (a = b /\ m >= n)) /\ (b > a \/ (b = a /\ n >= m))
  BY <1>1 DEF Beats
<1>4. a \in Nat /\ b \in Nat /\ m \in Nat /\ n \in Nat
  BY <1>2
<1> HIDE DEF a, b, m, n
<1>5. m = n
  BY <1>3, <1>4
<1> QED BY <1>5 DEF m, n

\* Between two instants without a boundary in between nothing changes.
LEMMA Steady ==
  ASSUME TypeOK, NEW t \in Nat, NEW u \in Nat, t <= u,
         \A b \in Boundaries(t) : u < b
  PROVE  /\ \A v \in Variants : Price(v, u) = Price(v, t)
         /\ Boundaries(u) \subseteq Boundaries(t)
<1>1. \A p \in Promotions : promotion[p].from \in Nat /\ promotion[p].to \in Nat
  BY DEF TypeOK, Row
<1>2. Boundaries(u) \subseteq Boundaries(t)
  BY <1>1 DEF Boundaries
<1>3. ASSUME NEW v \in Variants, NEW q \in Promotions, Offered(q), v \in Targets[promotion[q].deal]
      PROVE  InWindow(q, u) <=> InWindow(q, t)
  <2>1. promotion[q].to > t =>
          /\ promotion[q].to \in Boundaries(t)
          /\ promotion[q].from > t => promotion[q].from \in Boundaries(t)
    BY <1>1, <1>3 DEF Boundaries
  <2>2. promotion[q].to > t => u < promotion[q].to
    BY <2>1
  <2>3. promotion[q].to > t /\ promotion[q].from > t => u < promotion[q].from
    BY <2>1
  <2> QED BY <1>1, <2>2, <2>3 DEF InWindow
<1>4. ASSUME NEW v \in Variants PROVE DealsFor(v, u) = DealsFor(v, t)
  BY <1>3 DEF DealsFor
<1> QED BY <1>2, <1>4 DEF Price

\* A step that leaves the deals on offer now, and their ends, as they are.
LEMMA QuoteKept ==
  ASSUME NEW h \in Pages, QuoteIsSound(h), now' = now, held'[h] = held[h],
         asked'[h] \in {asked[h], now, -1}, TypeOK,
         \A v \in Variants : DealsFor(v, now)' = DealsFor(v, now),
         Boundaries(now)' \subseteq Boundaries(now)
  PROVE  QuoteIsSound(h)'
<1>1. \A v \in Variants : Price(v, now)' = Price(v, now)
  BY DEF Price
<1>2. asked'[h] <= now
  BY DEF QuoteIsSound, TypeOK
<1> QED BY <1>1, <1>2 DEF QuoteIsSound

LEMMA SameDeals ==
  ASSUME promotion' = promotion, now' = now
  PROVE  /\ \A v \in Variants : DealsFor(v, now)' = DealsFor(v, now)
         /\ Boundaries(now)' \subseteq Boundaries(now)
BY DEF DealsFor, Boundaries, Offered, InWindow


\* An administrator's edit: the pages' quotes are outdated, no run has the row.
LEMMA EditKeeps ==
  ASSUME PromotionsInv, NEW p \in Promotions, NEW row \in Row, Edit(p, row),
         announced' \in [Promotions -> {"nothing", "activated", "expired"}],
         \A q \in Promotions \ {p} : announced'[q] = announced[q],
         row.status # "EXPIRED",
         row.status = "ACTIVE" => announced'[p] = "activated"
  PROVE  PromotionsInv'
<1>1. /\ promotion' = [promotion EXCEPT ![p] = row]
      /\ held' = [h \in Pages |-> [held[h] EXCEPT !.age = "outdated"]]
      /\ UNCHANGED <<now, run, asked>> /\ edits' = edits + 1 /\ ~Locked(p)
  BY DEF Edit, Outdate
<1>2. \A h \in Pages : held[h] = [age |-> held[h].age, until |-> held[h].until,
                                  price |-> held[h].price]
  BY DEF PromotionsInv, HeldShape
<1>3. \A h \in Pages : held'[h] = [age |-> "outdated", until |-> held[h].until,
                                   price |-> held[h].price]
  <2>1. ASSUME NEW f, NEW u, NEW q
        PROVE  [[age |-> f, until |-> u, price |-> q] EXCEPT !.age = "outdated"]
                 = [age |-> "outdated", until |-> u, price |-> q]
    OBVIOUS
  <2> SUFFICES ASSUME NEW h \in Pages
               PROVE  held'[h] = [age |-> "outdated", until |-> held[h].until,
                                  price |-> held[h].price]
    OBVIOUS
  <2>2. held'[h] = [held[h] EXCEPT !.age = "outdated"]
    BY <1>1
  <2>3. [held[h] EXCEPT !.age = "outdated"]
          = [[age |-> held[h].age, until |-> held[h].until, price |-> held[h].price]
               EXCEPT !.age = "outdated"]
    BY <1>2
  <2> QED BY <2>1, <2>2, <2>3
<1>4. /\ promotion' \in [Promotions -> Row] /\ promotion'[p] = row
      /\ \A q \in Promotions \ {p} : promotion'[q] = promotion[q]
  BY <1>1 DEF PromotionsInv, TypeOK
<1>5. TypeOK'
  <2>1. \A h \in Pages : held'[h].until \in Nat /\ held'[h].age \in {"current", "outdated"}
    <3>1. \A h \in Pages : held[h].until \in Nat
      BY DEF PromotionsInv, TypeOK
    <3> SUFFICES ASSUME NEW h \in Pages
                 PROVE  held'[h].until \in Nat /\ held'[h].age \in {"current", "outdated"}
      OBVIOUS
    <3>2. held'[h] = [age |-> "outdated", until |-> held[h].until, price |-> held[h].price]
      BY <1>3
    <3> QED BY <3>1, <3>2
  <2> QED BY <1>1, <1>4, <2>1 DEF PromotionsInv, TypeOK
<1>6. HeldShape'
  <2>1. held' = [h \in Pages |-> held'[h]]
    BY <1>1
  <2> QED BY <2>1, <1>3 DEF HeldShape
<1>7. ASSUME NEW j \in Runs PROVE RunIsSound(j)'
  BY <1>1, <1>4 DEF PromotionsInv, TypeOK, RunIsSound, Offered, Locked
<1>8. ExpiredIsOver' /\ StatusIsAnnounced'
  BY <1>1, <1>4 DEF PromotionsInv, ExpiredIsOver, StatusIsAnnounced
<1>9. ASSUME NEW h \in Pages PROVE QuoteIsSound(h)'
  BY <1>1, <1>3 DEF PromotionsInv, QuoteIsSound
<1> QED BY <1>5, <1>6, <1>7, <1>8, <1>9 DEF PromotionsInv

\* A run commits: what it ends is over already, what it starts was on offer.
LEMMA ActivateKeeps ==
  ASSUME PromotionsInv, NEW j \in Runs, ActivateRows(j)
  PROVE  PromotionsInv'
<1> DEFINE E == run[j].ended
           S == Started(run[j].at)
<1>1. /\ \A p \in Promotions :
           promotion'[p] = IF p \in E THEN [promotion[p] EXCEPT !.status = "EXPIRED"]
                           ELSE IF p \in S THEN [promotion[p] EXCEPT !.status = "ACTIVE"]
                           ELSE promotion[p]
      /\ announced' = [p \in Promotions |->
           IF p \in E THEN "expired" ELSE IF p \in S THEN "activated" ELSE announced[p]]
      /\ promotion' = [p \in Promotions |-> promotion'[p]]
      /\ run' = [run EXCEPT ![j] = Resting]
      /\ UNCHANGED <<now, asked, held, edits>>
      /\ \A p \in S : ~Locked(p)
  BY DEF ActivateRows
<1>2. \A p \in Promotions : promotion[p] \in Row
  BY DEF PromotionsInv, TypeOK
<1>3. \A p \in Promotions : /\ promotion'[p] \in Row
                           /\ promotion'[p].from = promotion[p].from
                           /\ promotion'[p].to = promotion[p].to
                           /\ promotion'[p].deal = promotion[p].deal
                           /\ promotion'[p].status =
                                IF p \in E THEN "EXPIRED" ELSE IF p \in S THEN "ACTIVE"
                                ELSE promotion[p].status
  BY <1>1, <1>2 DEF Row, Statuses
<1>4. \A p \in E : Offered(p) /\ promotion[p].to <= run[j].at /\ run[j].at <= now
  BY DEF PromotionsInv, RunIsSound
<1>5. E \subseteq Promotions /\ run[j].at \in Nat /\ now \in Nat
  BY DEF PromotionsInv, TypeOK
<1>6. \A p \in S : promotion[p].status = "SCHEDULED" /\ p \in Promotions
  BY DEF Started
<1>7. TypeOK'
  <2>1. run' \in [Runs -> [pc: {"idle", "expire", "activate"}, at: Nat, ended: SUBSET Promotions]]
    BY <1>1 DEF PromotionsInv, TypeOK, Resting
  <2>2. promotion' \in [Promotions -> Row]
    BY <1>1, <1>3
  <2>3. announced' \in [Promotions -> {"nothing", "activated", "expired"}]
    BY <1>1 DEF PromotionsInv, TypeOK
  <2> QED BY <1>1, <2>1, <2>2, <2>3 DEF PromotionsInv, TypeOK
<1>8. HeldShape'
  BY <1>1 DEF PromotionsInv, HeldShape
<1>9. ASSUME NEW k \in Runs PROVE RunIsSound(k)'
  <2>1. CASE k = j
    BY <1>1, <2>1, <1>5 DEF PromotionsInv, TypeOK, RunIsSound, Resting
  <2>2. CASE k # j
    <3>1. run'[k] = run[k] /\ \A i \in Runs : run'[i].ended \subseteq run[i].ended
      BY <1>1, <2>2 DEF PromotionsInv, TypeOK, Resting
    <3>2. RunIsSound(k) /\ RunIsSound(j) /\ run[k].ended \subseteq Promotions
      BY DEF PromotionsInv, TypeOK
    <3>3. \A p \in run[k].ended : p \notin E /\ p \notin S
      BY <1>1, <2>2, <3>2 DEF RunIsSound, Locked
    <3>4. \A p \in run[k].ended : promotion'[p].status = promotion[p].status
                                  /\ promotion'[p].to = promotion[p].to
      BY <1>3, <3>2, <3>3
    <3> QED BY <1>1, <3>1, <3>2, <3>4 DEF RunIsSound, Offered
  <2> QED BY <2>1, <2>2
<1>10. ExpiredIsOver'
  <2>1. \A p \in Promotions : promotion[p].to \in Nat
    BY <1>2 DEF Row
  <2> QED BY <1>1, <1>3, <1>4, <1>5, <2>1 DEF PromotionsInv, ExpiredIsOver
<1>11. StatusIsAnnounced'
  BY <1>1, <1>3 DEF PromotionsInv, StatusIsAnnounced
<1>12. \A p \in Promotions : p \in E \/ (Offered(p)' <=> Offered(p))
  BY <1>3, <1>6 DEF Offered
<1>13. \A p \in E : ~(promotion[p].to > now) /\ ~Offered(p)' /\ p \in Promotions
  <2>1. \A p \in E : ~(promotion[p].to > now)
    <3> SUFFICES ASSUME NEW p \in E PROVE ~(promotion[p].to > now)
      OBVIOUS
    <3>1. promotion[p].to <= run[j].at /\ run[j].at <= now
      BY <1>4
    <3>2. promotion[p].to \in Nat
      BY <1>2, <1>5 DEF Row
    <3> HIDE DEF E
    <3> QED BY <1>5, <3>1, <3>2
  <2> QED BY <2>1, <1>3, <1>5 DEF Offered
<1> HIDE DEF E, S
<1>14. \A v \in Variants : DealsFor(v, now)' = DealsFor(v, now)
  <2> SUFFICES ASSUME NEW v \in Variants PROVE DealsFor(v, now)' = DealsFor(v, now)
    OBVIOUS
  <2> DEFINE C(p) == Offered(p) /\ InWindow(p, now) /\ v \in Targets[promotion[p].deal]
  <2>1. \A p \in Promotions : C(p)' <=> C(p)
    <3> SUFFICES ASSUME NEW p \in Promotions PROVE C(p)' <=> C(p)
      OBVIOUS
    <3>1. InWindow(p, now)' <=> InWindow(p, now)
      BY <1>1, <1>3 DEF InWindow
    <3>2. p \in E => ~InWindow(p, now)
      BY <1>2, <1>5, <1>13 DEF InWindow, Row
    <3> QED BY <1>3, <1>12, <1>13, <3>1, <3>2
  <2>2. \A p \in Promotions : promotion'[p].deal = promotion[p].deal
    BY <1>3
  <2> QED BY <2>1, <2>2 DEF DealsFor
<1>15. Boundaries(now)' \subseteq Boundaries(now)
  <2>1. \A p \in Promotions : Offered(p)' => Offered(p)
    BY <1>12, <1>13
  <2> QED BY <1>1, <1>3, <2>1 DEF Boundaries
<1>16. ASSUME NEW h \in Pages PROVE QuoteIsSound(h)'
  BY <1>1, <1>14, <1>15, <1>16, QuoteKept DEF PromotionsInv
<1> QED BY <1>7, <1>8, <1>9, <1>10, <1>11, <1>16 DEF PromotionsInv


\* A step that touches neither promotions nor what pages show.
LEMMA OtherKeeps ==
  ASSUME PromotionsInv, UNCHANGED <<now, promotion, announced, held>>, TypeOK',
         \A h \in Pages : asked'[h] \in {asked[h], now, -1},
         \A j \in Runs : RunIsSound(j)'
  PROVE  PromotionsInv'
<1>1. HeldShape' /\ ExpiredIsOver' /\ StatusIsAnnounced'
  BY DEF PromotionsInv, HeldShape, ExpiredIsOver, StatusIsAnnounced
<1>2. ASSUME NEW h \in Pages PROVE QuoteIsSound(h)'
  BY SameDeals, QuoteKept DEF PromotionsInv
<1> QED BY <1>1, <1>2 DEF PromotionsInv

LEMMA TickKeeps == PromotionsInv /\ Tick => PromotionsInv'
<1> SUFFICES ASSUME PromotionsInv, Tick PROVE PromotionsInv'
  OBVIOUS
<1>1. now' = now + 1 /\ UNCHANGED <<promotion, announced, run, asked, held, edits>> /\ now \in Nat
  BY DEF Tick, PromotionsInv, TypeOK
<1>2. TypeOK' /\ HeldShape'
  BY <1>1 DEF PromotionsInv, TypeOK, HeldShape
<1>3. ASSUME NEW j \in Runs PROVE RunIsSound(j)'
  BY <1>1 DEF PromotionsInv, TypeOK, RunIsSound, Offered
<1>4. ExpiredIsOver' /\ StatusIsAnnounced'
  <2>1. \A p \in Promotions : promotion[p].to \in Nat
    BY DEF PromotionsInv, TypeOK, Row
  <2> QED BY <1>1, <2>1 DEF PromotionsInv, ExpiredIsOver, StatusIsAnnounced
<1>5. ASSUME NEW h \in Pages PROVE QuoteIsSound(h)'
  <2>1. QuoteIsSound(h) /\ held[h].until \in Nat
    BY DEF PromotionsInv, TypeOK
  <2>2. asked'[h] <= now'
    BY <2>1, <1>1 DEF PromotionsInv, TypeOK, QuoteIsSound
  <2>3. ASSUME held[h].age = "current", now + 1 < held[h].until
        PROVE  /\ \A v \in Variants : held[h].price[v] = Price(v, now + 1)
               /\ \A b \in Boundaries(now + 1) : held[h].until <= b
    <3>1. /\ \A v \in Variants : held[h].price[v] = Price(v, now)
          /\ \A b \in Boundaries(now) : held[h].until <= b
      BY <1>1, <2>1, <2>3 DEF QuoteIsSound
    <3>2. \A b \in Boundaries(now) : b \in Nat
      BY DEF PromotionsInv, TypeOK, Row, Boundaries
    <3>3. \A b \in Boundaries(now) : now + 1 < b
      BY <1>1, <2>1, <2>3, <3>1, <3>2
    <3>4. /\ \A v \in Variants : Price(v, now + 1) = Price(v, now)
          /\ Boundaries(now + 1) \subseteq Boundaries(now)
      BY <1>1, <3>3, Steady DEF PromotionsInv
    <3> QED BY <3>1, <3>4
  <2>4. /\ \A v \in Variants : Price(v, now)' = Price(v, now + 1)
        /\ Boundaries(now)' = Boundaries(now + 1)
    BY <1>1 DEF Price, DealsFor, Boundaries, Offered, InWindow
  <2> QED BY <1>1, <2>2, <2>3, <2>4 DEF QuoteIsSound
<1> QED BY <1>2, <1>3, <1>4, <1>5 DEF PromotionsInv

\* The quote is as of the time it took, and no boundary has passed unless
\* validUntil has.
LEMMA ReadKeeps ==
  ASSUME PromotionsInv, Refresh \in Nat, NEW h \in Pages, ReadQuote(h)
  PROVE  PromotionsInv'
<1>1. PICK until \in {asked[h] + Refresh} \cup Boundaries(asked[h]) :
        /\ \A b \in {asked[h] + Refresh} \cup Boundaries(asked[h]) : until <= b
        /\ held' = [held EXCEPT ![h] =
             [age |-> "current", until |-> until, price |-> [v \in Variants |-> Price(v, asked[h])]]]
  BY DEF ReadQuote
<1>2. /\ asked[h] \in Nat /\ asked' = [asked EXCEPT ![h] = -1] /\ now \in Nat
      /\ asked[h] <= now
      /\ UNCHANGED <<now, promotion, announced, run, edits>>
  BY DEF ReadQuote, PromotionsInv, TypeOK, QuoteIsSound
<1> DEFINE at == asked[h]
           q == [age |-> "current", until |-> until, price |-> [v \in Variants |-> Price(v, at)]]
<1>3. \A b \in Boundaries(at) : b \in Nat
  BY DEF PromotionsInv, TypeOK, Row, Boundaries
<1>4. until \in Nat
  BY <1>1, <1>2, <1>3
<1>5. held'[h] = q /\ \A i \in Pages \ {h} : held'[i] = held[i]
  BY <1>1 DEF PromotionsInv, HeldShape
<1>6. TypeOK'
  <2>1. asked' \in [Pages -> Nat \cup {-1}]
    BY <1>2 DEF PromotionsInv, TypeOK
  <2>2. \A i \in Pages : held'[i].until \in Nat /\ held'[i].age \in {"current", "outdated"}
    BY <1>4, <1>5 DEF PromotionsInv, TypeOK
  <2> QED BY <1>2, <2>1, <2>2 DEF PromotionsInv, TypeOK
<1>7. HeldShape'
  <2>1. \A i \in Pages : held'[i] = [age |-> held'[i].age, until |-> held'[i].until,
                                     price |-> held'[i].price]
    BY <1>5 DEF PromotionsInv, HeldShape
  <2>2. held' = [i \in Pages |-> held'[i]]
    BY <1>1 DEF PromotionsInv, HeldShape
  <2> QED BY <2>1, <2>2 DEF HeldShape
<1>8. ASSUME NEW j \in Runs PROVE RunIsSound(j)'
  BY <1>2 DEF PromotionsInv, RunIsSound, Offered
<1>9. ExpiredIsOver' /\ StatusIsAnnounced'
  BY <1>2 DEF PromotionsInv, ExpiredIsOver, StatusIsAnnounced
<1>10. ASSUME NEW i \in Pages \ {h} PROVE QuoteIsSound(i)'
  <2>1. asked'[i] = asked[i] /\ held'[i] = held[i]
    BY <1>2, <1>5 DEF PromotionsInv, TypeOK
  <2> QED BY <1>2, <2>1, SameDeals, QuoteKept DEF PromotionsInv
<1>11. QuoteIsSound(h)'
  <2>1. asked'[h] <= now'
    BY <1>2 DEF PromotionsInv, TypeOK
  <2>2. ASSUME now < until
        PROVE  /\ \A v \in Variants : Price(v, at) = Price(v, now)
               /\ \A b \in Boundaries(now) : until <= b
    <3>1. \A b \in Boundaries(at) : until <= b /\ now < b
      BY <1>1, <1>2, <1>3, <1>4, <2>2
    <3>2. /\ \A v \in Variants : Price(v, now) = Price(v, at)
          /\ Boundaries(now) \subseteq Boundaries(at)
      BY <1>2, <3>1, Steady DEF PromotionsInv
    <3> QED BY <3>1, <3>2
  <2>3. /\ \A v \in Variants : Price(v, now)' = Price(v, now)
        /\ Boundaries(now)' = Boundaries(now)
    BY <1>2 DEF Price, DealsFor, Boundaries, Offered, InWindow
  <2>4. held'[h].until = until /\ \A v \in Variants : held'[h].price[v] = Price(v, at)
    BY <1>5
  <2> QED BY <1>2, <2>1, <2>2, <2>3, <2>4 DEF QuoteIsSound
<1> QED BY <1>6, <1>7, <1>8, <1>9, <1>10, <1>11 DEF PromotionsInv

\* Statements of a run before it commits.
LEMMA RunKeeps ==
  ASSUME PromotionsInv, NEW j \in Runs,
         ReconcileStarts(j) \/ ExpireRows(j) \/ ReconcileFails(j)
  PROVE  PromotionsInv'
<1>1. UNCHANGED <<now, promotion, announced, asked, held, edits>>
  BY DEF ReconcileStarts, ExpireRows, ReconcileFails
<1>2. PICK c \in [pc: {"idle", "expire", "activate"}, at: Nat, ended: SUBSET Promotions] :
        /\ run' = [run EXCEPT ![j] = c]
        /\ c.at <= now
        /\ c.pc # "activate" => c.ended = {}
        /\ \A p \in c.ended : Offered(p) /\ promotion[p].to <= c.at /\ ~Locked(p)
  <2>1. CASE ReconcileStarts(j)
    <3> DEFINE c == [pc |-> "expire", at |-> now, ended |-> {}]
    <3>1. c \in [pc: {"idle", "expire", "activate"}, at: Nat, ended: SUBSET Promotions]
      BY DEF PromotionsInv, TypeOK
    <3>2. now <= now
      BY DEF PromotionsInv, TypeOK
    <3> QED BY <2>1, <3>1, <3>2 DEF ReconcileStarts
  <2>2. CASE ExpireRows(j)
    <3> DEFINE c == [run[j] EXCEPT !.pc = "activate", !.ended = Ended(run[j].at)]
    <3>1. /\ run[j] \in [pc: {"idle", "expire", "activate"}, at: Nat, ended: SUBSET Promotions]
          /\ run[j].at <= now /\ Ended(run[j].at) \in SUBSET Promotions
      BY DEF PromotionsInv, TypeOK, RunIsSound, Ended
    <3>2. /\ c \in [pc: {"idle", "expire", "activate"}, at: Nat, ended: SUBSET Promotions]
          /\ c.at = run[j].at /\ c.ended = Ended(run[j].at) /\ c.pc = "activate"
      BY <3>1
    <3>3. run' = [run EXCEPT ![j] = c]
      BY <2>2 DEF ExpireRows, PromotionsInv, TypeOK
    <3>4. \A p \in Ended(run[j].at) : Offered(p) /\ promotion[p].to <= run[j].at /\ ~Locked(p)
      BY <2>2 DEF ExpireRows, Ended
    <3> HIDE DEF c
    <3> QED BY <3>1, <3>2, <3>3, <3>4
  <2>3. CASE ReconcileFails(j)
    <3>1. Resting \in [pc: {"idle", "expire", "activate"}, at: Nat, ended: SUBSET Promotions]
      BY DEF Resting
    <3>2. Resting.at <= now /\ Resting.ended = {}
      BY DEF Resting, PromotionsInv, TypeOK
    <3> QED BY <2>3, <3>1, <3>2 DEF ReconcileFails
  <2> QED BY <2>1, <2>2, <2>3
<1>3. run'[j] = c /\ \A k \in Runs \ {j} : run'[k] = run[k]
  BY <1>2 DEF PromotionsInv, TypeOK
<1>4. TypeOK'
  BY <1>1, <1>2 DEF PromotionsInv, TypeOK
<1>5. ASSUME NEW k \in Runs PROVE RunIsSound(k)'
  <2>1. RunIsSound(k)
    BY DEF PromotionsInv
  <2>2. CASE k = j
    BY <1>1, <1>2, <1>3, <2>2 DEF RunIsSound, Offered, Locked
  <2>3. CASE k # j
    BY <1>1, <1>2, <1>3, <2>1, <2>3 DEF RunIsSound, Offered, Locked
  <2> QED BY <2>2, <2>3
<1> QED BY <1>1, <1>4, <1>5, OtherKeeps

LEMMA PromotionsStep == Refresh \in Nat /\ PromotionsInv /\ [Next]_vars => PromotionsInv'
<1> SUFFICES ASSUME Refresh \in Nat, PromotionsInv, [Next]_vars PROVE PromotionsInv'
  OBVIOUS
<1>1. ASSUME NEW h \in Pages, AskQuote(h) PROVE PromotionsInv'
  <2>1. UNCHANGED <<now, promotion, announced, run, held, edits>> /\ asked' = [asked EXCEPT ![h] = now]
    BY <1>1 DEF AskQuote
  <2>2. TypeOK' /\ \A i \in Pages : asked'[i] \in {asked[i], now, -1}
    BY <2>1 DEF PromotionsInv, TypeOK
  <2>3. ASSUME NEW j \in Runs PROVE RunIsSound(j)'
    BY <2>1 DEF PromotionsInv, RunIsSound, Offered
  <2> QED BY <2>1, <2>2, <2>3, OtherKeeps
<1>2. ASSUME NEW p \in Promotions, NEW d \in Deals, NEW from \in Times, NEW to \in Times,
             CreatePromotion(p, d, from, to)
      PROVE  PromotionsInv'
  <2> DEFINE row == [status |-> "SCHEDULED", deal |-> d, from |-> from, to |-> to]
  <2>1. row \in Row /\ row.status = "SCHEDULED"
    BY DEF Row, Statuses, Times
  <2>2. Edit(p, row) /\ announced' = [announced EXCEPT ![p] = "nothing"]
    BY <1>2 DEF CreatePromotion
  <2>3. /\ announced' \in [Promotions -> {"nothing", "activated", "expired"}]
        /\ \A q \in Promotions \ {p} : announced'[q] = announced[q]
    BY <2>2 DEF PromotionsInv, TypeOK
  <2> HIDE DEF row
  <2> QED BY <2>1, <2>2, <2>3, EditKeeps
<1>3. ASSUME NEW p \in Promotions, NEW d \in Deals, NEW from \in Times, NEW to \in Times,
             NEW status \in Statuses, UpdatePromotion(p, status, d, from, to)
      PROVE  PromotionsInv'
  <2> DEFINE row == [status |-> status, deal |-> d, from |-> from, to |-> to]
  <2>1. row \in Row /\ row.status = status
    BY DEF Row, Statuses, Times
  <2>2. Edit(p, row) /\ announced' = announced
    BY <1>3 DEF UpdatePromotion
  <2>3. status # "EXPIRED" /\ (status = "ACTIVE" => announced'[p] = "activated")
    BY <1>3, <2>2 DEF UpdatePromotion, PromotionsInv, StatusIsAnnounced
  <2> HIDE DEF row
  <2> QED BY <2>1, <2>2, <2>3, EditKeeps DEF PromotionsInv, TypeOK
<1>4. ASSUME NEW p \in Promotions, DeletePromotion(p) PROVE PromotionsInv'
  <2> DEFINE row == [promotion[p] EXCEPT !.status = "NONE"]
  <2>1. row \in Row /\ row.status = "NONE"
    BY DEF PromotionsInv, TypeOK, Row, Statuses
  <2>2. Edit(p, row) /\ announced' = announced
    BY <1>4 DEF DeletePromotion
  <2> HIDE DEF row
  <2> QED BY <2>1, <2>2, EditKeeps DEF PromotionsInv, TypeOK
<1>5. CASE UNCHANGED vars
  BY <1>5, OtherKeeps DEF vars, PromotionsInv, TypeOK, RunIsSound, Offered
<1> QED BY <1>1, <1>2, <1>3, <1>4, <1>5, TickKeeps, ReadKeeps, RunKeeps, ActivateKeeps DEF Next

LEMMA PromotionsStart == Init => PromotionsInv
<1> SUFFICES ASSUME Init PROVE PromotionsInv
  OBVIOUS
<1>1. TypeOK
  BY DEF Init, TypeOK, Row, Statuses, Resting
<1>2. HeldShape
  BY DEF Init, HeldShape
<1>3. ASSUME NEW j \in Runs PROVE RunIsSound(j)
  BY DEF Init, Resting, RunIsSound
<1>4. ExpiredIsOver /\ StatusIsAnnounced
  BY DEF Init, ExpiredIsOver, StatusIsAnnounced
<1>5. ASSUME NEW h \in Pages PROVE QuoteIsSound(h)
  BY DEF Init, QuoteIsSound
<1> QED BY <1>1, <1>2, <1>3, <1>4, <1>5 DEF PromotionsInv

LEMMA PromotionsInvariant ==
  ASSUME Refresh \in Nat
  PROVE  Spec => []PromotionsInv
<1>1. PromotionsInv /\ [Next]_vars => PromotionsInv'
  BY PromotionsStep
<1> QED BY <1>1, PromotionsStart, PTL DEF Spec

------------------------------------------------------------------------------
\* Every reachable state of Pricing's promotions has its type.
THEOREM TypeCorrect ==
  ASSUME Refresh \in Nat
  PROVE  Spec => []TypeOK
<1>1. PromotionsInv => TypeOK
  BY DEF PromotionsInv
<1> QED BY <1>1, PromotionsInvariant, PTL

\* Until its validUntil a page shows the price that Pricing would quote, unless
\* a promotion was edited: quoteMany stops at the next boundary of any promotion
\* for the variants, in force or to come, and a lagging run changes no price.
THEOREM PagesShowThePrice ==
  ASSUME Refresh \in Nat
  PROVE  Spec => []HeldQuoteIsCurrent
<1>1. PromotionsInv => HeldQuoteIsCurrent
  BY DEF PromotionsInv, QuoteIsSound, HeldQuoteIsCurrent
<1> QED BY <1>1, PromotionsInvariant, PTL

\* reconcilePromotionStates expires only what is over, although the time it
\* compares with is older than its locks, and runs may overlap.
THEOREM NothingExpiresEarly ==
  ASSUME Refresh \in Nat
  PROVE  Spec => []ExpiredIsOver
<1>1. PromotionsInv => ExpiredIsOver
  BY DEF PromotionsInv
<1> QED BY <1>1, PromotionsInvariant, PTL

\* Status and newest event of a promotion agree: they are one transaction.
THEOREM EventsFollowStatus ==
  ASSUME Refresh \in Nat
  PROVE  Spec => []StatusIsAnnounced
<1>1. PromotionsInv => StatusIsAnnounced
  BY DEF PromotionsInv
<1> QED BY <1>1, PromotionsInvariant, PTL

------------------------------------------------------------------------------
\* Coupons.

\* What exists for an order exists once it was placed.
Placed(o) ==
  \/ create[o] # "idle" \/ cancel[o] # Idle \/ o \in listed
  \/ (\E r \in Rights : Holds(r, o)) \/ (\E c \in {"reserve", "commit", "release", "restore"} : <<c, o>> \in late)
  => order[o] # None

Gone(o) == Status(o) = "CANCELLED"

\* What the next step of a create has done so far.
CreateTrue(o) ==
  /\ create[o] # "idle" => cancel[o] = Idle
  /\ create[o] \in {"code", "reserve", "total", "release", "refuse", "sell"} => Status(o) = "PENDING"
  /\ create[o] \in {"code", "reserve", "total", "release", "refuse"} => order[o].price = "none"
  /\ create[o] = "total" /\ order[o].coupon => Holds(Wanted[o], o)
  /\ create[o] = "commit" => Status(o) = "CONFIRMED"
  /\ create[o] = "undo" => Gone(o)

\* What the next step of a cancel has done so far.
CancelTrue(o) ==
  /\ cancel[o].step = "give up" => Status(o) = "PENDING"
  /\ cancel[o].step = "stage" => Status(o) \in {"CONFIRMED", "CANCELLATION_PENDING"}
  /\ cancel[o].step \in {"ask", "accepted", "refused"} => Status(o) = "CANCELLATION_PENDING"
  /\ cancel[o].step \in {"release", "restore"} => Gone(o)

\* Whatever may still give the right of an order back knows that it is cancelled.
GivenBackWhenGone(o) ==
  /\ <<"release", o>> \in late \/ <<"restore", o>> \in late => Gone(o)
  /\ check # None /\ check.order = o /\ check.status = "CANCELLED" => Gone(o)

\* Whoever was promised the coupon's price has the right, unless the order is cancelled.
PriceHeld(o) ==
  order[o] # None /\ order[o].price = "coupon" /\ ~Gone(o) => Holds(Wanted[o], o)

OrderTrue(o) == CreateTrue(o) /\ CancelTrue(o) /\ GivenBackWhenGone(o) /\ PriceHeld(o)

CouponInv ==
  /\ CouponTypeOK
  /\ \A o \in Orders : Placed(o)
  /\ \A o \in Orders \ (raced \cup unreleased) : OrderTrue(o)

CreateSteps ==
  {"idle", "code", "reserve", "total", "release", "refuse", "sell", "commit", "undo"}
Cancels == [step: {"idle", "give up", "stage", "ask", "accepted", "refused", "release", "restore"},
            coupon: BOOLEAN]
Calls == {"reserve", "commit", "release", "restore"}

LEMMA CouponConstants ==
  /\ Wanted \in [Orders -> Rights] /\ None \notin Orders
  /\ \A row \in Right \cup Order \cup Check : row # None
BY CouponsAssumption, NoneIsNoRow DEF CouponsAssumption

LEMMA OrderFields ==
  ASSUME NEW row \in Order
  PROVE  /\ row # None
         /\ row.status \in {"PENDING", "CONFIRMED", "CANCELLATION_PENDING", "CANCELLED"}
         /\ row.coupon \in BOOLEAN /\ row.price \in {"none", "list", "coupon"}
BY CouponConstants DEF Order

\* A right has one order, and one that is held is not free.
LEMMA RightFields ==
  ASSUME NEW row \in Right
  PROVE  /\ row # None
         /\ row.status \in {"AVAILABLE", "RESERVED", "USED"}
         /\ row.status = "AVAILABLE" => row = [status |-> "AVAILABLE", order |-> None]
         /\ row.status # "AVAILABLE" => row.order \in Orders
         /\ row.order \in Orders => row.status # "AVAILABLE"
BY CouponConstants DEF Right

\* What freeing a row, or settling it, makes of it.
LEMMA SettledRow ==
  ASSUME NEW row \in Right, NEW action
  PROVE  /\ Settled(row, action) \in Right
         /\ Settled(row, action).order \in {row.order, None}
         /\ action \notin {"release", "restore"} => Settled(row, action).order = row.order
<1> DEFINE Rows == [status: {"AVAILABLE", "RESERVED", "USED"}, order: Orders \cup {None}]
<1>1. Freed(row) = [status |-> "AVAILABLE", order |-> None]
  <2>1. row \in Rows
    BY DEF Right
  <2>2. Freed(row) \in Rows /\ Freed(row).status = "AVAILABLE" /\ Freed(row).order = None
    BY <2>1 DEF Freed
  <2>3. \A x \in Rows : x = [status |-> x.status, order |-> x.order]
    OBVIOUS
  <2> QED BY <2>2, <2>3
<1>2. Freed(row) \in Right /\ Freed(row).order = None
  BY <1>1 DEF Right
<1>3. row.status = "RESERVED" =>
        [row EXCEPT !.status = "USED"] \in Right /\ [row EXCEPT !.status = "USED"].order = row.order
  BY DEF Right
<1> QED BY <1>2, <1>3 DEF Settled

\* Settling an order's right leaves the others' alone, and takes it from him
\* only to give it back.
LEMMA SettleRight ==
  ASSUME CouponTypeOK, NEW o \in Orders, NEW action, Settle(o, action)
  PROVE  /\ right' \in [Rights -> Right \cup {None}]
         /\ \A r \in Rights, x \in Orders \ {o} : Holds(r, x)' <=> Holds(r, x)
         /\ \A r \in Rights : Holds(r, o)' => Holds(r, o)
         /\ action \notin {"release", "restore"} =>
              \A r \in Rights : Holds(r, o)' <=> Holds(r, o)
<1>1. right' = [r \in Rights |-> IF Holds(r, o) THEN Settled(right[r], action) ELSE right[r]]
  BY DEF Settle
<1>2. ASSUME NEW r \in Rights
      PROVE  /\ right'[r] \in Right \cup {None}
             /\ \A x \in Orders \ {o} : Holds(r, x)' <=> Holds(r, x)
             /\ Holds(r, o)' => Holds(r, o)
             /\ action \notin {"release", "restore"} => (Holds(r, o)' <=> Holds(r, o))
  <2>1. CASE Holds(r, o)
    <3>1. right[r] \in Right /\ right[r].order = o
      BY <2>1 DEF Holds, CouponTypeOK
    <3>2. right'[r] = Settled(right[r], action)
      BY <1>1, <2>1
    <3>3. /\ right'[r] \in Right /\ right'[r].order \in {o, None}
          /\ action \notin {"release", "restore"} => right'[r].order = o
      BY <3>1, <3>2, SettledRow
    <3> QED BY <3>1, <3>3, CouponConstants DEF Holds
  <2>2. CASE ~Holds(r, o)
    <3>1. right'[r] = right[r]
      BY <1>1, <2>2
    <3> QED BY <2>2, <3>1 DEF Holds, CouponTypeOK
  <2> QED BY <2>1, <2>2
<1> QED BY <1>1, <1>2

\* Reserving takes no right from anybody.
LEMMA ReserveRight ==
  ASSUME CouponTypeOK, NEW o \in Orders, Reserve(o)
  PROVE  /\ right' \in [Rights -> Right \cup {None}]
         /\ \A r \in Rights, x \in Orders \ {o} : Holds(r, x)' <=> Holds(r, x)
         /\ \A r \in Rights : Holds(r, o) => Holds(r, o)'
         /\ Granted(o) => Holds(Wanted[o], o)'
<1> DEFINE w == Wanted[o]
           row == [status |-> "RESERVED", order |-> o]
<1>1. w \in Rights /\ row \in Right /\ row # None /\ row.order = o
  BY CouponConstants DEF Right
<1>2. CASE Holds(w, o) \/ ~CanReserve(w)
  <2>1. right' = right
    BY <1>2 DEF Reserve
  <2> QED BY <1>2, <2>1 DEF CouponTypeOK, Holds, Granted
<1>3. CASE ~Holds(w, o) /\ CanReserve(w)
  <2>1. right' = [right EXCEPT ![w] = row]
    BY <1>3 DEF Reserve
  <2>2. right[w] \in Right /\ right[w].order = None
    <3>1. right[w] \in Right /\ right[w].status = "AVAILABLE"
      BY <1>1, <1>3 DEF CanReserve, CouponTypeOK
    <3>2. right[w] = [status |-> "AVAILABLE", order |-> None]
      BY <3>1, RightFields
    <3> QED BY <3>1, <3>2
  <2> HIDE DEF w, row
  <2>3. \A r \in Rights : right'[r] = IF r = w THEN row ELSE right[r]
    BY <1>1, <2>1 DEF CouponTypeOK
  <2>4. right' \in [Rights -> Right \cup {None}]
    BY <1>1, <2>1 DEF CouponTypeOK
  <2>5. \A r \in Rights, x \in Orders \ {o} : Holds(r, x)' <=> Holds(r, x)
    BY <1>1, <2>2, <2>3, CouponConstants DEF Holds
  <2>6. \A r \in Rights : Holds(r, o) => Holds(r, o)'
    BY <1>1, <2>3 DEF Holds
  <2>7. Holds(w, o)'
    BY <1>1, <2>3 DEF Holds
  <2> QED BY <2>4, <2>5, <2>6, <2>7 DEF w
<1> QED BY <1>2, <1>3

\* A step of one order: what the others hold and do stays.
LEMMA OrderStep ==
  ASSUME CouponInv, NEW o \in Orders, NEW row \in Order \cup {None}, NEW step \in CreateSteps,
         NEW c \in Cancels,
         order' = [order EXCEPT ![o] = row], create' = [create EXCEPT ![o] = step],
         cancel' = [cancel EXCEPT ![o] = c],
         right' \in [Rights -> Right \cup {None}],
         UNCHANGED <<expired, listed, unreleased>>,
         check' \in {check, None}, late' \subseteq late, raced' \in {raced, raced \cup {o}},
         \A r \in Rights, x \in Orders \ {o} : Holds(r, x)' <=> Holds(r, x),
         Placed(o)',
         o \notin raced' \cup unreleased =>
           CreateTrue(o)' /\ CancelTrue(o)' /\ PriceHeld(o)' /\ (Gone(o) => Gone(o)')
  PROVE  CouponInv'
<1>1. CouponTypeOK
  BY DEF CouponInv
<1>2. CouponTypeOK'
  <2>1. order' \in [Orders -> Order \cup {None}]
    BY <1>1 DEF CouponTypeOK
  <2>2. create' \in [Orders -> CreateSteps] /\ cancel' \in [Orders -> Cancels]
    BY <1>1 DEF CouponTypeOK, CreateSteps, Cancels
  <2> QED BY <1>1, <2>1, <2>2 DEF CouponTypeOK, CreateSteps, Cancels
<1>3. ASSUME NEW x \in Orders \ {o}
      PROVE  /\ order'[x] = order[x] /\ create'[x] = create[x] /\ cancel'[x] = cancel[x]
             /\ x \in raced' <=> x \in raced
             /\ \A r \in Rights : Holds(r, x)' <=> Holds(r, x)
             /\ Holds(Wanted[x], x)' <=> Holds(Wanted[x], x)
  BY <1>1, CouponConstants DEF CouponTypeOK
<1>4. ASSUME NEW x \in Orders \ {o}
      PROVE  Placed(x)'
  BY <1>3 DEF CouponInv, Placed
<1>5. ASSUME NEW x \in Orders \ {o}, x \notin raced' \cup unreleased'
      PROVE  OrderTrue(x)'
  <2>1. OrderTrue(x)
    BY <1>3, <1>5 DEF CouponInv
  <2> QED BY <1>3, <2>1 DEF OrderTrue, CreateTrue, CancelTrue, GivenBackWhenGone, PriceHeld, Gone, Status
<1>6. o \notin raced' \cup unreleased' => OrderTrue(o)'
  <2> SUFFICES ASSUME o \notin raced' \cup unreleased'
               PROVE  GivenBackWhenGone(o)'
    BY DEF OrderTrue
  <2>1. GivenBackWhenGone(o) /\ (Gone(o) => Gone(o)')
    BY DEF CouponInv, OrderTrue
  <2> QED BY <2>1 DEF GivenBackWhenGone
<1> QED BY <1>2, <1>4, <1>5, <1>6 DEF CouponInv

\* An order that was placed has a row.
LEMMA PlacedRow ==
  ASSUME CouponInv, NEW o \in Orders,
         \/ create[o] # "idle" \/ cancel[o] # Idle \/ o \in listed \/ order[o] # None
         \/ (\E r \in Rights : Holds(r, o))
         \/ (\E k \in Calls : <<k, o>> \in late)
  PROVE  order[o] # None /\ order[o] \in Order /\ Status(o) = order[o].status
BY DEF CouponInv, CouponTypeOK, Placed, Status, Calls

\* What is not changed is as it was at every order.
LEMMA SameAtOrder ==
  ASSUME CouponTypeOK, NEW o \in Orders
  PROVE  /\ order = [order EXCEPT ![o] = order[o]] /\ order[o] \in Order \cup {None}
         /\ create = [create EXCEPT ![o] = create[o]] /\ create[o] \in CreateSteps
         /\ cancel = [cancel EXCEPT ![o] = cancel[o]] /\ cancel[o] \in Cancels
         /\ right \in [Rights -> Right \cup {None}]
         /\ Wanted[o] \in Rights
BY CouponConstants DEF CouponTypeOK, CreateSteps, Cancels

\* The order a step worked on, afterwards.
LEMMA AfterStep ==
  ASSUME CouponTypeOK, NEW o \in Orders, NEW row \in Order,
         order' = [order EXCEPT ![o] = row]
  PROVE  /\ order'[o] = row /\ row # None /\ Placed(o)'
         /\ Status(o)' = row.status /\ (Gone(o)' <=> row.status = "CANCELLED")
<1>1. order'[o] = row
  BY DEF CouponTypeOK
<1>2. row # None
  BY OrderFields
<1>3. Status(o)' = row.status
  BY <1>1, <1>2 DEF Status
<1> QED BY <1>1, <1>2, <1>3 DEF Gone, Placed

\* A field of a row is written.
LEMMA SetOrderRow ==
  ASSUME CouponTypeOK, NEW o \in Orders, order[o] \in Order
  PROVE  /\ SetOrder(o, "coupon", TRUE) =>
              \E row \in Order : /\ order' = [order EXCEPT ![o] = row] /\ row.coupon
                                 /\ row.status = order[o].status /\ row.price = order[o].price
         /\ \A p \in {"list", "coupon"} : SetOrder(o, "price", p) =>
              \E row \in Order : /\ order' = [order EXCEPT ![o] = row] /\ row.price = p
                                 /\ row.status = order[o].status /\ row.coupon = order[o].coupon
         /\ \A s \in {"CONFIRMED", "CANCELLATION_PENDING", "CANCELLED"} : SetOrder(o, "status", s) =>
              \E row \in Order : /\ order' = [order EXCEPT ![o] = row] /\ row.status = s
                                 /\ row.price = order[o].price /\ row.coupon = order[o].coupon
<1>1. SetOrder(o, "coupon", TRUE) =>
        \E row \in Order : /\ order' = [order EXCEPT ![o] = row] /\ row.coupon
                           /\ row.status = order[o].status /\ row.price = order[o].price
  <2> DEFINE row == [order[o] EXCEPT !.coupon = TRUE]
  <2>1. row \in Order /\ row.coupon /\ row.status = order[o].status /\ row.price = order[o].price
    BY DEF Order
  <2>2. SetOrder(o, "coupon", TRUE) => order' = [order EXCEPT ![o] = row]
    BY DEF SetOrder
  <2> QED BY <2>1, <2>2
<1>2. ASSUME NEW p \in {"list", "coupon"}
      PROVE  SetOrder(o, "price", p) =>
               \E row \in Order : /\ order' = [order EXCEPT ![o] = row] /\ row.price = p
                                  /\ row.status = order[o].status /\ row.coupon = order[o].coupon
  <2> DEFINE row == [order[o] EXCEPT !.price = p]
  <2>1. row \in Order /\ row.price = p /\ row.status = order[o].status /\ row.coupon = order[o].coupon
    BY DEF Order
  <2>2. SetOrder(o, "price", p) => order' = [order EXCEPT ![o] = row]
    BY DEF SetOrder
  <2> QED BY <2>1, <2>2
<1>3. ASSUME NEW s \in {"CONFIRMED", "CANCELLATION_PENDING", "CANCELLED"}
      PROVE  SetOrder(o, "status", s) =>
               \E row \in Order : /\ order' = [order EXCEPT ![o] = row] /\ row.status = s
                                  /\ row.price = order[o].price /\ row.coupon = order[o].coupon
  <2> DEFINE row == [order[o] EXCEPT !.status = s]
  <2>1. row \in Order /\ row.status = s /\ row.price = order[o].price /\ row.coupon = order[o].coupon
    BY DEF Order
  <2>2. SetOrder(o, "status", s) => order' = [order EXCEPT ![o] = row]
    BY DEF SetOrder
  <2> QED BY <2>1, <2>2
<1> QED BY <1>1, <1>2, <1>3

\* A step of an order that leaves Pricing alone.
LEMMA OrdersSideStep ==
  ASSUME CouponInv, NEW o \in Orders, NEW row \in Order, NEW step \in CreateSteps, NEW c \in Cancels,
         order' = [order EXCEPT ![o] = row], create' = [create EXCEPT ![o] = step],
         cancel' = [cancel EXCEPT ![o] = c],
         UNCHANGED <<pricingVars, late, unreleased>>, raced' \in {raced, raced \cup {o}},
         o \notin raced' \cup unreleased =>
           CreateTrue(o)' /\ CancelTrue(o)' /\ PriceHeld(o)' /\ (Gone(o) => row.status = "CANCELLED")
  PROVE  CouponInv'
<1>1. CouponTypeOK /\ UNCHANGED <<right, expired, listed, check>>
  BY DEF CouponInv, pricingVars
<1>2. right' \in [Rights -> Right \cup {None}] /\ \A r \in Rights, x \in Orders : Holds(r, x)' <=> Holds(r, x)
  BY <1>1, SameAtOrder DEF Holds
<1>3. Placed(o)' /\ (Gone(o)' <=> row.status = "CANCELLED")
  BY <1>1, AfterStep
<1> QED BY <1>1, <1>2, <1>3, OrderStep

LEMMA CreateCallStep ==
  ASSUME CouponInv, NEW o \in Orders, CreateCall(o)
  PROVE  CouponInv'
<1>1. /\ CouponTypeOK /\ create[o] = "idle"
      /\ raced' = IF cancel[o] # Idle THEN raced \cup {o} ELSE raced
      /\ UNCHANGED <<pricingVars, cancel, late, unreleased>>
  BY DEF CreateCall, CouponInv
<1>2. UNCHANGED right
  BY <1>1 DEF pricingVars
<1>3. PICK c \in Cancels : c = cancel[o] /\ cancel' = [cancel EXCEPT ![o] = c]
  BY <1>1, SameAtOrder
<1>4. o \notin raced' \cup unreleased => cancel[o] = Idle /\ OrderTrue(o)
  BY <1>1 DEF CouponInv
<1>5. CASE /\ order[o] = None
           /\ order' = [order EXCEPT ![o] = [status |-> "PENDING", coupon |-> FALSE, price |-> "none"]]
           /\ SetCreate(o, "code")
  <2>1. PICK row \in Order : /\ row.status = "PENDING" /\ row.price = "none"
                             /\ order' = [order EXCEPT ![o] = row]
    BY <1>5 DEF Order
  <2>2. create' = [create EXCEPT ![o] = "code"] /\ "code" \in CreateSteps
    BY <1>5 DEF SetCreate, CreateSteps
  <2>3. /\ order'[o] = row /\ Status(o)' = "PENDING"
        /\ create'[o] = "code" /\ cancel'[o] = cancel[o]
    BY <1>1, <2>1, <2>2, AfterStep DEF CouponTypeOK
  <2>4. ~Gone(o)
    BY <1>5 DEF Gone, Status
  <2>5. o \notin raced' \cup unreleased => CreateTrue(o)' /\ CancelTrue(o)' /\ PriceHeld(o)'
    BY <1>4, <2>1, <2>3 DEF CreateTrue, CancelTrue, PriceHeld, Idle
  <2> QED BY <1>1, <1>3, <2>1, <2>2, <2>4, <2>5, OrdersSideStep
<1>6. CASE Status(o) = "PENDING" /\ order' = order
           /\ SetCreate(o, IF order[o].price # "none" THEN "sell"
                           ELSE IF order[o].coupon THEN "reserve" ELSE "total")
  <2>1. order[o] \in Order /\ order[o].status = "PENDING" /\ order[o] # None
    BY <1>1, <1>6 DEF Status, CouponTypeOK
  <2>2. PICK row \in Order : row = order[o] /\ order' = [order EXCEPT ![o] = row]
    BY <1>1, <1>6, <2>1, SameAtOrder
  <2>3. PICK step \in {"sell", "reserve", "total"} :
          /\ create' = [create EXCEPT ![o] = step]
          /\ step # "sell" => order[o].price = "none"
          /\ step = "total" => ~order[o].coupon
    BY <1>6 DEF SetCreate
  <2>4. step \in CreateSteps
    BY DEF CreateSteps
  <2>5. /\ order'[o] = row /\ Status(o)' = "PENDING"
        /\ create'[o] = step /\ cancel'[o] = cancel[o]
    BY <1>1, <2>1, <2>2, <2>3, AfterStep DEF CouponTypeOK
  <2>6. Holds(Wanted[o], o)' <=> Holds(Wanted[o], o)
    BY <1>2 DEF Holds
  <2>7. ~Gone(o)
    BY <1>6 DEF Gone
  <2>8. o \notin raced' \cup unreleased => CreateTrue(o)' /\ CancelTrue(o)' /\ PriceHeld(o)'
    <3> SUFFICES ASSUME o \notin raced' \cup unreleased
                 PROVE  CreateTrue(o)' /\ CancelTrue(o)' /\ PriceHeld(o)'
      OBVIOUS
    <3>1. cancel'[o] = Idle /\ PriceHeld(o)
      BY <1>4, <2>5 DEF OrderTrue
    <3>2. CreateTrue(o)'
      BY <2>2, <2>3, <2>5, <3>1 DEF CreateTrue
    <3>3. CancelTrue(o)'
      BY <3>1 DEF CancelTrue, Idle
    <3>4. PriceHeld(o)'
      BY <2>1, <2>2, <2>5, <2>6, <2>7, <3>1 DEF PriceHeld
    <3> QED BY <3>2, <3>3, <3>4
  <2> QED BY <1>1, <1>3, <2>2, <2>3, <2>4, <2>7, <2>8, OrdersSideStep
<1> QED BY <1>5, <1>6 DEF CreateCall

\* Steps of a create between its calls.
LEMMA CreateGoesOn ==
  ASSUME CouponInv, NEW o \in Orders, NEW row \in Order, NEW step \in CreateSteps,
         create[o] \notin {"idle", "undo"},
         order' = [order EXCEPT ![o] = row], create' = [create EXCEPT ![o] = step],
         UNCHANGED <<pricingVars, cancel, late, raced, unreleased>>,
         o \notin raced \cup unreleased /\ OrderTrue(o) =>
           CreateTrue(o)' /\ (row.price = "coupon" /\ row.status # "CANCELLED" => Holds(Wanted[o], o))
  PROVE  CouponInv'
<1>1. CouponTypeOK /\ UNCHANGED right
  BY DEF CouponInv, pricingVars
<1>2. PICK c \in Cancels : c = cancel[o] /\ cancel' = [cancel EXCEPT ![o] = c]
  BY <1>1, SameAtOrder
<1>3. /\ order'[o] = row /\ create'[o] = step /\ cancel'[o] = cancel[o]
      /\ Status(o)' = row.status /\ (Gone(o)' <=> row.status = "CANCELLED")
  BY <1>1, AfterStep DEF CouponTypeOK
<1>4. Holds(Wanted[o], o)' <=> Holds(Wanted[o], o)
  BY <1>1 DEF Holds
<1>5. ASSUME o \notin raced' \cup unreleased
      PROVE  CreateTrue(o)' /\ CancelTrue(o)' /\ PriceHeld(o)' /\ (Gone(o) => row.status = "CANCELLED")
  <2>1. OrderTrue(o)
    BY <1>5 DEF CouponInv
  <2>2. CreateTrue(o)' /\ (row.price = "coupon" /\ row.status # "CANCELLED" => Holds(Wanted[o], o))
    BY <1>5, <2>1
  <2>3. cancel'[o] = Idle
    BY <1>2, <1>3, <2>1 DEF OrderTrue, CreateTrue
  <2>4. CancelTrue(o)'
    BY <2>3 DEF CancelTrue, Idle
  <2>5. PriceHeld(o)'
    BY <1>3, <1>4, <2>2 DEF PriceHeld
  <2>6. ~Gone(o)
    BY <1>1, <2>1, SameAtOrder DEF OrderTrue, CreateTrue, Gone, CreateSteps
  <2> QED BY <2>2, <2>4, <2>5, <2>6
<1> QED BY <1>1, <1>2, <1>5, OrdersSideStep

LEMMA WriteCodeStep ==
  ASSUME CouponInv, NEW o \in Orders, WriteCode(o)
  PROVE  CouponInv'
<1>1. /\ create[o] = "code" /\ SetOrder(o, "coupon", TRUE)
      /\ create' = [create EXCEPT ![o] = "reserve"] /\ "reserve" \in CreateSteps
      /\ UNCHANGED <<pricingVars, cancel, late, raced, unreleased>>
  BY DEF WriteCode, SetCreate, CreateSteps
<1>2. order[o] \in Order /\ Status(o) = order[o].status /\ CouponTypeOK
  BY <1>1, PlacedRow DEF CouponInv
<1>3. PICK row \in Order : /\ order' = [order EXCEPT ![o] = row]
                           /\ row.status = order[o].status /\ row.price = order[o].price
  BY <1>1, <1>2, SetOrderRow
<1>4. order'[o] = row /\ Status(o)' = row.status /\ create'[o] = "reserve" /\ cancel' = cancel
  BY <1>1, <1>2, <1>3, AfterStep DEF CouponTypeOK
<1>5. OrderTrue(o) => CreateTrue(o)' /\ row.price = "none"
  BY <1>1, <1>2, <1>3, <1>4 DEF OrderTrue, CreateTrue
<1> QED BY <1>1, <1>3, <1>5, CreateGoesOn

LEMMA StoreItemsStep ==
  ASSUME CouponInv, NEW o \in Orders, StoreItems(o)
  PROVE  CouponInv'
<1>1. /\ create[o] = "total"
      /\ create' = [create EXCEPT ![o] = "sell"] /\ "sell" \in CreateSteps
      /\ UNCHANGED <<pricingVars, cancel, late, raced, unreleased>>
  BY DEF StoreItems, SetCreate, CreateSteps
<1>2. order[o] \in Order /\ Status(o) = order[o].status /\ CouponTypeOK
  BY <1>1, PlacedRow DEF CouponInv
<1>3. PICK row \in Order : /\ order' = [order EXCEPT ![o] = row]
                           /\ row.status = order[o].status
                           /\ row.price = "coupon" => order[o].coupon
  BY <1>2, SetOrderRow DEF StoreItems
<1>4. order'[o] = row /\ Status(o)' = row.status /\ create'[o] = "sell" /\ cancel' = cancel
  BY <1>1, <1>2, <1>3, AfterStep DEF CouponTypeOK
<1>5. OrderTrue(o) => CreateTrue(o)'
  BY <1>1, <1>2, <1>3, <1>4 DEF OrderTrue, CreateTrue
<1>6. OrderTrue(o) => (row.price = "coupon" => Holds(Wanted[o], o))
  BY <1>1, <1>3 DEF OrderTrue, CreateTrue
<1> QED BY <1>1, <1>3, <1>5, <1>6, CreateGoesOn

LEMMA TotalRefusedStep ==
  ASSUME CouponInv, NEW o \in Orders, TotalRefused(o)
  PROVE  CouponInv'
<1>1. /\ create[o] = "total" /\ UNCHANGED order
      /\ UNCHANGED <<pricingVars, cancel, late, raced, unreleased>>
  BY DEF TotalRefused
<1>2. PICK step \in {"release", "refuse"} : create' = [create EXCEPT ![o] = step]
  BY DEF TotalRefused, SetCreate
<1>3. order[o] \in Order /\ Status(o) = order[o].status /\ CouponTypeOK /\ step \in CreateSteps
  BY <1>1, PlacedRow DEF CouponInv, CreateSteps
<1>4. PICK row \in Order : row = order[o] /\ order' = [order EXCEPT ![o] = row]
  BY <1>1, <1>3, SameAtOrder
<1>5. order'[o] = row /\ Status(o)' = row.status /\ create'[o] = step /\ cancel' = cancel
  BY <1>1, <1>2, <1>3, <1>4, AfterStep DEF CouponTypeOK
<1>6. OrderTrue(o) => CreateTrue(o)' /\ row.price = "none"
  BY <1>1, <1>3, <1>4, <1>5 DEF OrderTrue, CreateTrue
<1> QED BY <1>1, <1>2, <1>3, <1>4, <1>6, CreateGoesOn

LEMMA PriceChangedStep ==
  ASSUME CouponInv, NEW o \in Orders, PriceChanged(o)
  PROVE  CouponInv'
<1>1. /\ create[o] = "refuse" /\ SetOrder(o, "status", "CANCELLED")
      /\ create' = [create EXCEPT ![o] = "idle"] /\ "idle" \in CreateSteps
      /\ UNCHANGED <<pricingVars, cancel, late, raced, unreleased>>
  BY DEF PriceChanged, SetCreate, CreateSteps
<1>2. order[o] \in Order /\ CouponTypeOK
  BY <1>1, PlacedRow DEF CouponInv
<1>3. PICK row \in Order : order' = [order EXCEPT ![o] = row] /\ row.status = "CANCELLED"
  BY <1>1, <1>2, SetOrderRow
<1>4. create'[o] = "idle"
  BY <1>1, <1>2 DEF CouponTypeOK
<1>5. CreateTrue(o)'
  BY <1>4 DEF CreateTrue
<1> QED BY <1>1, <1>3, <1>5, CreateGoesOn

LEMMA SellStep ==
  ASSUME CouponInv, NEW o \in Orders, Sell(o)
  PROVE  CouponInv'
<1>1. /\ create[o] = "sell"
      /\ UNCHANGED <<pricingVars, cancel, late, raced, unreleased>>
  BY DEF Sell
<1>2. order[o] \in Order /\ Status(o) = order[o].status /\ CouponTypeOK /\ order[o] # None
  BY <1>1, PlacedRow DEF CouponInv
<1>3. PICK s \in {"CONFIRMED", "CANCELLED"} :
        /\ SetOrder(o, "status", s)
        /\ SetCreate(o, IF order[o].coupon THEN IF s = "CONFIRMED" THEN "commit" ELSE "undo"
                        ELSE "idle")
  BY DEF Sell
<1>4. PICK step \in {"commit", "undo", "idle"} :
        /\ create' = [create EXCEPT ![o] = step] /\ step \in CreateSteps
        /\ step = "commit" => s = "CONFIRMED"
        /\ step = "undo" => s = "CANCELLED"
  BY <1>3 DEF SetCreate, CreateSteps
<1>5. PICK row \in Order : /\ order' = [order EXCEPT ![o] = row] /\ row.status = s
                           /\ row.price = order[o].price
  <2>1. CASE s = "CONFIRMED"
    BY <1>2, <1>3, <2>1, SetOrderRow
  <2>2. CASE s = "CANCELLED"
    BY <1>2, <1>3, <2>2, SetOrderRow
  <2> QED BY <2>1, <2>2
<1>6. /\ order'[o] = row /\ Status(o)' = row.status /\ (Gone(o)' <=> row.status = "CANCELLED")
      /\ create'[o] = step /\ cancel' = cancel
  BY <1>1, <1>2, <1>4, <1>5, AfterStep DEF CouponTypeOK
<1>7. OrderTrue(o) => CreateTrue(o)'
  BY <1>1, <1>4, <1>5, <1>6 DEF OrderTrue, CreateTrue
<1>8. OrderTrue(o) => (row.price = "coupon" => Holds(Wanted[o], o))
  BY <1>1, <1>2, <1>5 DEF OrderTrue, CreateTrue, PriceHeld, Gone
<1> QED BY <1>1, <1>4, <1>5, <1>7, <1>8, CreateGoesOn

\* Steps of a cancel: what is not overlapped by a create decides alone.
LEMMA CancelGoesOn ==
  ASSUME CouponInv, NEW o \in Orders, NEW row \in Order, NEW c \in Cancels,
         cancel[o] # Idle,
         order' = [order EXCEPT ![o] = row], cancel' = [cancel EXCEPT ![o] = c],
         UNCHANGED <<pricingVars, create, late, raced, unreleased>>,
         row.price = order[o].price,
         o \notin raced \cup unreleased /\ OrderTrue(o) =>
           /\ CancelTrue(o)'
           /\ row.status = "CANCELLED" \/ ~Gone(o)
  PROVE  CouponInv'
<1>1. CouponTypeOK /\ UNCHANGED right
  BY DEF CouponInv, pricingVars
<1>2. PICK step \in CreateSteps : step = create[o] /\ create' = [create EXCEPT ![o] = step]
  BY <1>1, SameAtOrder
<1>3. /\ order'[o] = row /\ create'[o] = create[o] /\ cancel'[o] = c
      /\ Status(o)' = row.status /\ (Gone(o)' <=> row.status = "CANCELLED")
  BY <1>1, AfterStep DEF CouponTypeOK
<1>4. Holds(Wanted[o], o)' <=> Holds(Wanted[o], o)
  BY <1>1 DEF Holds
<1>5. order[o] # None
  BY PlacedRow
<1>6. ASSUME o \notin raced' \cup unreleased
      PROVE  CreateTrue(o)' /\ CancelTrue(o)' /\ PriceHeld(o)' /\ (Gone(o) => row.status = "CANCELLED")
  <2>1. OrderTrue(o)
    BY <1>6 DEF CouponInv
  <2>2. create[o] = "idle"
    BY <2>1 DEF OrderTrue, CreateTrue
  <2>3. CreateTrue(o)'
    BY <1>3, <2>2 DEF CreateTrue
  <2>4. CancelTrue(o)' /\ (Gone(o) => row.status = "CANCELLED")
    BY <1>6, <2>1
  <2>5. PriceHeld(o)'
    BY <1>3, <1>4, <1>5, <2>1, <2>4 DEF OrderTrue, PriceHeld
  <2> QED BY <2>3, <2>4, <2>5
<1> QED BY <1>1, <1>2, <1>6, OrdersSideStep

LEMMA CancelRecord ==
  ASSUME CouponTypeOK, NEW o \in Orders
  PROVE  /\ Idle \in Cancels /\ Idle.step = "idle"
         /\ EndCancel(o) => cancel' = [cancel EXCEPT ![o] = Idle]
         /\ \A step \in {"ask", "accepted", "refused", "release", "restore"} : SetCancel(o, step) =>
              \E c \in Cancels : c.step = step /\ cancel' = [cancel EXCEPT ![o] = c]
<1>1. Idle \in Cancels /\ Idle.step = "idle"
  BY DEF Idle, Cancels
<1>2. ASSUME NEW step \in {"ask", "accepted", "refused", "release", "restore"}, SetCancel(o, step)
      PROVE  \E c \in Cancels : c.step = step /\ cancel' = [cancel EXCEPT ![o] = c]
  <2> DEFINE c == [cancel[o] EXCEPT !.step = step]
  <2>1. c \in Cancels /\ c.step = step
    BY DEF CouponTypeOK, Cancels
  <2>2. cancel' = [cancel EXCEPT ![o] = c]
    BY <1>2 DEF SetCancel
  <2> QED BY <2>1, <2>2
<1> QED BY <1>1, <1>2 DEF EndCancel

LEMMA CancelCallStep ==
  ASSUME CouponInv, NEW o \in Orders, CancelCall(o)
  PROVE  CouponInv'
<1>1. /\ cancel[o] = Idle /\ order[o] # None /\ Status(o) # "CANCELLED" /\ CouponTypeOK
      /\ raced' = IF create[o] # "idle" THEN raced \cup {o} ELSE raced
      /\ UNCHANGED <<pricingVars, order, create, late, unreleased>>
  BY DEF CancelCall, CouponInv
<1>2. order[o] \in Order /\ Status(o) = order[o].status
  BY <1>1, PlacedRow
<1>3. PICK c \in Cancels : /\ c.step = IF Status(o) = "PENDING" THEN "give up" ELSE "stage"
                           /\ cancel' = [cancel EXCEPT ![o] = c]
  <2> DEFINE c == [step |-> IF Status(o) = "PENDING" THEN "give up" ELSE "stage",
                   coupon |-> order[o].coupon]
  <2>1. c \in Cancels /\ c.step = IF Status(o) = "PENDING" THEN "give up" ELSE "stage"
    BY <1>2, OrderFields DEF Cancels
  <2>2. cancel' = [cancel EXCEPT ![o] = c]
    BY DEF CancelCall
  <2> QED BY <2>1, <2>2
<1>4. PICK row \in Order : row = order[o] /\ order' = [order EXCEPT ![o] = row]
  BY <1>1, <1>2, SameAtOrder
<1>5. PICK step \in CreateSteps : step = create[o] /\ create' = [create EXCEPT ![o] = step]
  BY <1>1, SameAtOrder
<1>6. /\ order' = order /\ create' = create /\ cancel'[o] = c /\ Status(o)' = Status(o)
      /\ UNCHANGED right
  BY <1>1, <1>3 DEF CouponTypeOK, Status, pricingVars
<1>7. ~Gone(o)
  BY <1>1 DEF Gone
<1>8. ASSUME o \notin raced' \cup unreleased
      PROVE  CreateTrue(o)' /\ CancelTrue(o)' /\ PriceHeld(o)'
  <2>1. create[o] = "idle" /\ OrderTrue(o)
    BY <1>1, <1>8 DEF CouponInv
  <2>2. CreateTrue(o)'
    BY <1>6, <2>1 DEF CreateTrue
  <2>3. CancelTrue(o)'
    <3>1. Status(o) \in {"PENDING", "CONFIRMED", "CANCELLATION_PENDING"}
      BY <1>1, <1>2, OrderFields
    <3> QED BY <1>3, <1>6, <3>1 DEF CancelTrue
  <2>4. PriceHeld(o)'
    BY <1>6, <2>1 DEF OrderTrue, PriceHeld, Gone, Holds
  <2> QED BY <2>2, <2>3, <2>4
<1> QED BY <1>1, <1>3, <1>4, <1>5, <1>7, <1>8, OrdersSideStep

LEMMA StageCancellationStep ==
  ASSUME CouponInv, NEW o \in Orders, StageCancellation(o)
  PROVE  CouponInv'
<1>1. /\ cancel[o].step = "stage" /\ cancel[o] # Idle /\ CouponTypeOK
      /\ UNCHANGED <<pricingVars, create, late, raced, unreleased>>
  BY DEF StageCancellation, CouponInv, Idle
<1>2. order[o] \in Order /\ Status(o) = order[o].status
  BY <1>1, PlacedRow
<1>3. CASE /\ Status(o) \in {"CONFIRMED", "CANCELLATION_PENDING"}
           /\ SetOrder(o, "status", "CANCELLATION_PENDING") /\ SetCancel(o, "ask")
  <2>1. PICK row \in Order : /\ order' = [order EXCEPT ![o] = row]
                             /\ row.status = "CANCELLATION_PENDING" /\ row.price = order[o].price
    BY <1>1, <1>2, <1>3, SetOrderRow
  <2>2. PICK c \in Cancels : c.step = "ask" /\ cancel' = [cancel EXCEPT ![o] = c]
    BY <1>1, <1>3, CancelRecord
  <2>3. cancel'[o] = c /\ Status(o)' = "CANCELLATION_PENDING"
    BY <1>1, <2>1, <2>2, AfterStep DEF CouponTypeOK
  <2>4. CancelTrue(o)' /\ ~Gone(o)
    BY <1>3, <2>2, <2>3 DEF CancelTrue, Gone
  <2> QED BY <1>1, <2>1, <2>2, <2>4, CancelGoesOn
<1>4. CASE Status(o) \in {"PENDING", "CANCELLED"} /\ EndCancel(o) /\ order' = order
  <2>1. PICK row \in Order : row = order[o] /\ order' = [order EXCEPT ![o] = row]
    BY <1>1, <1>2, <1>4, SameAtOrder
  <2>2. Idle \in Cancels /\ cancel' = [cancel EXCEPT ![o] = Idle] /\ Idle.step = "idle"
    BY <1>1, <1>4, CancelRecord
  <2>3. cancel'[o] = Idle
    BY <1>1, <2>2 DEF CouponTypeOK
  <2>4. CancelTrue(o)'
    BY <2>2, <2>3 DEF CancelTrue
  <2>5. row.status = "CANCELLED" \/ ~Gone(o)
    BY <1>2, <2>1 DEF Gone
  <2> QED BY <1>1, <2>1, <2>2, <2>4, <2>5, CancelGoesOn
<1> QED BY <1>3, <1>4 DEF StageCancellation

LEMMA AskLogisticsStep ==
  ASSUME CouponInv, NEW o \in Orders, AskLogistics(o)
  PROVE  CouponInv'
<1>1. /\ cancel[o].step = "ask" /\ cancel[o] # Idle /\ CouponTypeOK
      /\ UNCHANGED <<pricingVars, order, create, late, raced, unreleased>>
  BY DEF AskLogistics, CouponInv, Idle
<1>2. order[o] \in Order /\ Status(o) = order[o].status
  BY <1>1, PlacedRow
<1>3. PICK row \in Order : row = order[o] /\ order' = [order EXCEPT ![o] = row]
  BY <1>1, <1>2, SameAtOrder
<1>4. PICK c \in Cancels : c.step \in {"accepted", "refused"} /\ cancel' = [cancel EXCEPT ![o] = c]
  BY <1>1, CancelRecord DEF AskLogistics
<1>5. cancel'[o] = c /\ Status(o)' = Status(o)
  BY <1>1, <1>4 DEF CouponTypeOK, Status
<1>6. OrderTrue(o) => CancelTrue(o)' /\ (row.status = "CANCELLED" \/ ~Gone(o))
  BY <1>1, <1>2, <1>3, <1>4, <1>5 DEF OrderTrue, CancelTrue, Gone
<1> QED BY <1>1, <1>3, <1>4, <1>6, CancelGoesOn

LEMMA RestoreConfirmedStep ==
  ASSUME CouponInv, NEW o \in Orders, RestoreConfirmed(o)
  PROVE  CouponInv'
<1>1. /\ cancel[o].step = "refused" /\ cancel[o] # Idle /\ CouponTypeOK
      /\ UNCHANGED <<pricingVars, create, late, raced, unreleased>> /\ EndCancel(o)
  BY DEF RestoreConfirmed, CouponInv, Idle
<1>2. order[o] \in Order /\ Status(o) = order[o].status
  BY <1>1, PlacedRow
<1>3. Idle \in Cancels /\ cancel' = [cancel EXCEPT ![o] = Idle] /\ Idle.step = "idle"
  BY <1>1, CancelRecord
<1>4. cancel'[o] = Idle
  BY <1>1, <1>3 DEF CouponTypeOK
<1>5. CancelTrue(o)'
  BY <1>3, <1>4 DEF CancelTrue
<1>6. PICK row \in Order : /\ order' = [order EXCEPT ![o] = row] /\ row.price = order[o].price
                           /\ row.status = "CANCELLED" => Status(o) = "CANCELLED"
                           /\ Status(o) = "CANCELLED" => row.status = "CANCELLED"
  <2>1. CASE Status(o) = "CANCELLATION_PENDING"
    BY <1>1, <1>2, <2>1, SetOrderRow DEF RestoreConfirmed
  <2>2. CASE Status(o) # "CANCELLATION_PENDING"
    BY <1>1, <1>2, <2>2, SameAtOrder DEF RestoreConfirmed
  <2> QED BY <2>1, <2>2
<1>7. row.status = "CANCELLED" \/ ~Gone(o)
  BY <1>6 DEF Gone
<1> QED BY <1>1, <1>3, <1>5, <1>6, <1>7, CancelGoesOn

LEMMA FinalizeCancellationStep ==
  ASSUME CouponInv, NEW o \in Orders, FinalizeCancellation(o)
  PROVE  CouponInv'
<1>1. /\ cancel[o].step \in {"give up", "accepted"} /\ cancel[o] # Idle /\ CouponTypeOK
      /\ SetOrder(o, "status", "CANCELLED")
      /\ UNCHANGED <<pricingVars, create, late, raced, unreleased>>
  <2>1. Idle.step = "idle" /\ CouponTypeOK
    BY DEF CouponInv, Idle
  <2>2. cancel[o].step \in {"give up", "accepted"}
    BY DEF FinalizeCancellation
  <2>3. SetOrder(o, "status", "CANCELLED")
        /\ UNCHANGED <<pricingVars, create, late, raced, unreleased>>
    BY DEF FinalizeCancellation
  <2> QED BY <2>1, <2>2, <2>3
<1>2. order[o] \in Order /\ Status(o) = order[o].status
  BY <1>1, PlacedRow
<1>3. PICK row \in Order : /\ order' = [order EXCEPT ![o] = row] /\ row.price = order[o].price
                           /\ row.status = "CANCELLED"
  BY <1>1, <1>2, SetOrderRow
<1>4. PICK c \in Cancels : /\ c.step \in {"idle", "release", "restore"}
                           /\ cancel' = [cancel EXCEPT ![o] = c]
  <2>1. CASE ~cancel[o].coupon
    BY <1>1, <2>1, CancelRecord DEF FinalizeCancellation
  <2>2. CASE cancel[o].coupon
    BY <1>1, <2>2, CancelRecord DEF FinalizeCancellation
  <2> QED BY <2>1, <2>2
<1>5. cancel'[o] = c /\ Gone(o)'
  BY <1>1, <1>3, <1>4, AfterStep DEF CouponTypeOK
<1>6. CancelTrue(o)'
  BY <1>4, <1>5 DEF CancelTrue
<1> QED BY <1>1, <1>3, <1>4, <1>6, CancelGoesOn

\* Pricing settles, or reserves, for an order that waits for it, or did.
LEMMA PricingSideStep ==
  ASSUME CouponInv, NEW o \in Orders, NEW step \in CreateSteps, NEW c \in Cancels,
         order[o] # None,
         create' = [create EXCEPT ![o] = step], cancel' = [cancel EXCEPT ![o] = c],
         UNCHANGED <<order, expired, listed, unreleased, raced>>,
         check' \in {check, None}, late' \subseteq late,
         right' \in [Rights -> Right \cup {None}],
         \A r \in Rights, x \in Orders \ {o} : Holds(r, x)' <=> Holds(r, x),
         o \notin raced \cup unreleased /\ OrderTrue(o) =>
           CreateTrue(o)' /\ CancelTrue(o)' /\ PriceHeld(o)'
  PROVE  CouponInv'
<1>1. CouponTypeOK
  BY DEF CouponInv
<1>2. PICK row \in Order : row = order[o] /\ order' = [order EXCEPT ![o] = row]
  BY <1>1, SameAtOrder, CouponConstants
<1>3. Placed(o)' /\ (Gone(o) => Gone(o)')
  BY <1>1, <1>2, AfterStep DEF Gone, Status
<1>4. o \notin raced' \cup unreleased => OrderTrue(o)
  BY DEF CouponInv
<1> QED BY <1>2, <1>3, <1>4, OrderStep

LEMMA ReserveCouponStep ==
  ASSUME CouponInv, NEW o \in Orders, ReserveCoupon(o)
  PROVE  CouponInv'
<1>1. /\ create[o] = "reserve" /\ Reserve(o) /\ CouponTypeOK
      /\ UNCHANGED <<expired, listed, check, order, cancel, late, raced, unreleased>>
  BY DEF ReserveCoupon, CouponInv
<1>2. order[o] # None
  BY <1>1, PlacedRow
<1>3. PICK step \in {"total", "idle"} : /\ create' = [create EXCEPT ![o] = step]
                                        /\ step = "idle" \/ Granted(o)
  <2>1. CASE Granted(o)
    BY <2>1 DEF ReserveCoupon, SetCreate
  <2>2. CASE ~Granted(o)
    BY <2>2 DEF ReserveCoupon, SetCreate
  <2> QED BY <2>1, <2>2
<1>4. PICK c \in Cancels : c = cancel[o] /\ cancel' = [cancel EXCEPT ![o] = c]
  BY <1>1, SameAtOrder
<1>5. /\ right' \in [Rights -> Right \cup {None}]
      /\ \A r \in Rights, x \in Orders \ {o} : Holds(r, x)' <=> Holds(r, x)
      /\ Holds(Wanted[o], o) => Holds(Wanted[o], o)'
      /\ Granted(o) => Holds(Wanted[o], o)'
  BY <1>1, ReserveRight, SameAtOrder
<1>6. create' = [create EXCEPT ![o] = step] /\ create'[o] = step
  <2>1. create' = [create EXCEPT ![o] = step]
    BY <1>3
  <2> QED BY <1>1, <2>1 DEF CouponTypeOK
<1>7. Status(o)' = Status(o)
  BY <1>1 DEF Status
<1>8. step \in CreateSteps
  BY DEF CreateSteps
<1>9. ASSUME OrderTrue(o)
      PROVE  CreateTrue(o)' /\ CancelTrue(o)' /\ PriceHeld(o)'
  <2>1. CreateTrue(o)'
    <3>1. cancel[o] = Idle /\ Status(o) = "PENDING" /\ order[o].price = "none"
      BY <1>1, <1>9 DEF OrderTrue, CreateTrue
    <3>2. step = "total" => Holds(Wanted[o], o)'
      BY <1>3, <1>5
    <3> QED BY <1>1, <1>6, <1>7, <3>1, <3>2 DEF CreateTrue
  <2>2. CancelTrue(o)'
    BY <1>1, <1>7, <1>9 DEF OrderTrue, CancelTrue, Gone
  <2>3. PriceHeld(o)'
    BY <1>1, <1>5, <1>7, <1>9 DEF OrderTrue, PriceHeld, Gone
  <2> QED BY <2>1, <2>2, <2>3
<1> QED BY <1>1, <1>2, <1>4, <1>5, <1>6, <1>8, <1>9, PricingSideStep

\* A create settles its sale, or gives back what it could not sell.
LEMMA CreateSettlesStep ==
  ASSUME CouponInv, NEW o \in Orders, ReleaseRefused(o) \/ SettleSale(o)
  PROVE  CouponInv'
<1>1. PICK action \in {"commit", "release"}, step \in {"idle", "refuse"} :
        /\ create[o] \in {"release", "commit", "undo"}
        /\ action = "release" => create[o] # "commit"
        /\ step = "refuse" => create[o] = "release"
        /\ Settle(o, action) /\ create' = [create EXCEPT ![o] = step]
        /\ UNCHANGED <<expired, listed, check, order, cancel, late, raced, unreleased>>
  BY DEF ReleaseRefused, SettleSale, SetCreate
<1>2. order[o] # None /\ CouponTypeOK /\ step \in CreateSteps
  BY <1>1, PlacedRow DEF CouponInv, CreateSteps
<1>3. PICK c \in Cancels : c = cancel[o] /\ cancel' = [cancel EXCEPT ![o] = c]
  BY <1>1, <1>2, SameAtOrder
<1>4. /\ right' \in [Rights -> Right \cup {None}]
      /\ \A r \in Rights, x \in Orders \ {o} : Holds(r, x)' <=> Holds(r, x)
      /\ action = "commit" => (Holds(Wanted[o], o)' <=> Holds(Wanted[o], o))
  BY <1>1, <1>2, SettleRight, SameAtOrder
<1>5. create'[o] = step /\ Status(o)' = Status(o)
  BY <1>1, <1>2 DEF CouponTypeOK, Status
<1>6. ASSUME OrderTrue(o)
      PROVE  CreateTrue(o)' /\ CancelTrue(o)' /\ PriceHeld(o)'
  <2>1. CreateTrue(o)'
    BY <1>1, <1>5, <1>6 DEF OrderTrue, CreateTrue
  <2>2. CancelTrue(o)'
    BY <1>1, <1>5, <1>6 DEF OrderTrue, CancelTrue, Gone
  <2>3. PriceHeld(o)'
    <3>1. CASE action = "commit"
      BY <1>1, <1>4, <1>5, <1>6, <3>1 DEF OrderTrue, PriceHeld, Gone
    <3>2. CASE create[o] = "release"
      BY <1>1, <1>6, <3>2 DEF OrderTrue, CreateTrue, PriceHeld
    <3>3. CASE create[o] = "undo"
      BY <1>1, <1>5, <1>6, <3>3 DEF OrderTrue, CreateTrue, PriceHeld, Gone
    <3> QED BY <1>1, <3>1, <3>2, <3>3
  <2> QED BY <2>1, <2>2, <2>3
<1> QED BY <1>1, <1>2, <1>3, <1>4, <1>6, PricingSideStep

LEMMA SettleCancellationStep ==
  ASSUME CouponInv, NEW o \in Orders, SettleCancellation(o)
  PROVE  CouponInv'
<1>1. /\ cancel[o].step \in {"release", "restore"} /\ Settle(o, cancel[o].step) /\ CouponTypeOK
      /\ cancel[o] # Idle /\ EndCancel(o)
      /\ UNCHANGED <<expired, listed, check, order, create, late, raced, unreleased>>
  <2>1. Idle.step = "idle" /\ CouponTypeOK
    BY DEF CouponInv, Idle
  <2> QED BY <2>1 DEF SettleCancellation
<1>2. order[o] # None
  BY <1>1, PlacedRow
<1>3. Idle \in Cancels /\ cancel' = [cancel EXCEPT ![o] = Idle] /\ Idle.step = "idle"
  BY <1>1, CancelRecord
<1>4. PICK step \in CreateSteps : step = create[o] /\ create' = [create EXCEPT ![o] = step]
  BY <1>1, SameAtOrder
<1>5. PICK action : action = cancel[o].step /\ Settle(o, action)
  BY <1>1
<1>6. /\ right' \in [Rights -> Right \cup {None}]
      /\ \A r \in Rights, x \in Orders \ {o} : Holds(r, x)' <=> Holds(r, x)
  BY <1>1, <1>5, SettleRight
<1>7. cancel'[o] = Idle /\ Status(o)' = Status(o)
  BY <1>1, <1>3 DEF CouponTypeOK, Status
<1>8. ASSUME OrderTrue(o)
      PROVE  CreateTrue(o)' /\ CancelTrue(o)' /\ PriceHeld(o)'
  <2>1. create[o] = "idle" /\ Gone(o)
    BY <1>1, <1>8 DEF OrderTrue, CreateTrue, CancelTrue
  <2>2. create'[o] = "idle" /\ Gone(o)'
    BY <1>1, <1>7, <2>1 DEF Gone
  <2> QED BY <1>3, <1>7, <2>2 DEF CreateTrue, CancelTrue, PriceHeld
<1> QED BY <1>1, <1>2, <1>3, <1>4, <1>6, <1>8, PricingSideStep

\* A call whose caller gave up, and an answer that reconcile got some time ago.
LEMMA OldSettlement ==
  ASSUME CouponInv, NEW o \in Orders, NEW action, Settle(o, action), order[o] # None,
         UNCHANGED <<order, create, cancel, expired, listed, unreleased, raced>>,
         check' \in {check, None}, late' \subseteq late,
         o \notin raced \cup unreleased /\ OrderTrue(o) /\ action \in {"release", "restore"} => Gone(o)
  PROVE  CouponInv'
<1>1. CouponTypeOK
  BY DEF CouponInv
<1>2. PICK step \in CreateSteps, c \in Cancels :
        /\ create' = [create EXCEPT ![o] = step] /\ cancel' = [cancel EXCEPT ![o] = c]
  BY <1>1, SameAtOrder
<1>3. /\ right' \in [Rights -> Right \cup {None}]
      /\ \A r \in Rights, x \in Orders \ {o} : Holds(r, x)' <=> Holds(r, x)
      /\ action \notin {"release", "restore"} => (Holds(Wanted[o], o)' <=> Holds(Wanted[o], o))
  BY <1>1, SettleRight, SameAtOrder
<1>4. Status(o)' = Status(o)
  BY DEF Status
<1>5. ASSUME o \notin raced \cup unreleased, OrderTrue(o)
      PROVE  CreateTrue(o)' /\ CancelTrue(o)' /\ PriceHeld(o)'
  <2>1. CASE action \in {"release", "restore"}
    BY <1>4, <1>5, <2>1 DEF OrderTrue, CreateTrue, CancelTrue, PriceHeld, Gone
  <2>2. CASE action \notin {"release", "restore"}
    BY <1>3, <1>4, <1>5, <2>2 DEF OrderTrue, CreateTrue, CancelTrue, PriceHeld, Gone
  <2> QED BY <2>1, <2>2
<1> QED BY <1>2, <1>3, <1>5, PricingSideStep

\* Nothing happened to a right or an order, only to what is known about them.
LEMMA BooksStep ==
  ASSUME CouponInv, CouponTypeOK', \A o \in Orders : Placed(o)',
         UNCHANGED <<right, order, create, cancel, raced, unreleased>>,
         \A o \in Orders \ (raced \cup unreleased) : OrderTrue(o) => GivenBackWhenGone(o)'
  PROVE  CouponInv'
<1>1. ASSUME NEW o \in Orders, o \notin raced' \cup unreleased'
      PROVE  OrderTrue(o)'
  <2>1. OrderTrue(o) /\ GivenBackWhenGone(o)'
    BY <1>1 DEF CouponInv
  <2>2. Status(o)' = Status(o) /\ (Gone(o)' <=> Gone(o)) /\ (Holds(Wanted[o], o)' <=> Holds(Wanted[o], o))
    BY DEF Status, Gone, Holds
  <2>3. CreateTrue(o)'
    BY <2>1, <2>2 DEF OrderTrue, CreateTrue
  <2>4. CancelTrue(o)'
    BY <2>1, <2>2 DEF OrderTrue, CancelTrue
  <2>5. PriceHeld(o)'
    BY <2>1, <2>2 DEF OrderTrue, PriceHeld
  <2> QED BY <2>1, <2>3, <2>4, <2>5 DEF OrderTrue
<1> QED BY <1>1 DEF CouponInv

LEMMA LateCallStep ==
  ASSUME CouponInv, NEW call \in late, LateCallRuns(call)
  PROVE  CouponInv'
<1>1. /\ CouponTypeOK /\ late' = late \ {call}
      /\ IF call[1] = "reserve" THEN Reserve(call[2]) ELSE Settle(call[2], call[1])
      /\ UNCHANGED <<expired, listed, check, order, create, cancel, raced, unreleased>>
  BY DEF LateCallRuns, CouponInv
<1>2. PICK k \in Calls, o \in Orders : call = <<k, o>>
  <2>1. call \in Calls \X Orders
    BY <1>1 DEF CouponTypeOK, Calls
  <2> QED BY <2>1
<1>3. order[o] # None /\ call[1] = k /\ call[2] = o
  BY <1>2, PlacedRow
<1>4. CASE k = "reserve"
  <2>1. Reserve(o)
    BY <1>1, <1>3, <1>4
  <2>2. /\ right' \in [Rights -> Right \cup {None}]
        /\ \A r \in Rights, x \in Orders \ {o} : Holds(r, x)' <=> Holds(r, x)
        /\ Holds(Wanted[o], o) => Holds(Wanted[o], o)'
    BY <1>1, <2>1, ReserveRight, SameAtOrder
  <2>3. PICK step \in CreateSteps, c \in Cancels :
          /\ create' = [create EXCEPT ![o] = step] /\ cancel' = [cancel EXCEPT ![o] = c]
    BY <1>1, SameAtOrder
  <2>4. Status(o)' = Status(o)
    BY <1>1 DEF Status
  <2>5. OrderTrue(o) => CreateTrue(o)' /\ CancelTrue(o)' /\ PriceHeld(o)'
    BY <1>1, <2>2, <2>4 DEF OrderTrue, CreateTrue, CancelTrue, PriceHeld, Gone
  <2> QED BY <1>1, <1>3, <2>2, <2>3, <2>5, PricingSideStep
<1>5. CASE k # "reserve"
  <2>1. Settle(o, k)
    BY <1>1, <1>3, <1>5
  <2>2. OrderTrue(o) /\ k \in {"release", "restore"} => Gone(o)
    BY <1>2 DEF OrderTrue, GivenBackWhenGone
  <2> QED BY <1>1, <1>3, <2>1, <2>2, OldSettlement
<1> QED BY <1>4, <1>5

LEMMA ReconcileSettleStep ==
  ASSUME CouponInv, NEW o \in Orders, ReconcileSettle(o)
  PROVE  CouponInv'
<1>1. /\ check # None /\ check.order = o /\ Settle(o, Verdict(check.status)) /\ check' = None
      /\ UNCHANGED <<expired, listed, ordersVars>>
  BY DEF ReconcileSettle
<1>2. UNCHANGED <<order, create, cancel, late, raced, unreleased>>
  BY <1>1 DEF ordersVars
<1>3. PICK action : action = Verdict(check.status) /\ Settle(o, action)
  BY <1>1
<1>4. action \in {"release", "restore"} => check.status = "CANCELLED"
  BY <1>3 DEF Verdict
<1>5. OrderTrue(o) /\ action \in {"release", "restore"} => Gone(o)
  BY <1>1, <1>4 DEF OrderTrue, GivenBackWhenGone
<1>6. CASE order[o] # None
  BY <1>1, <1>2, <1>3, <1>5, <1>6, OldSettlement
<1>7. CASE order[o] = None
  <2>1. \A r \in Rights : ~Holds(r, o)
    BY <1>7, PlacedRow
  <2>2. right' = right
    BY <1>3, <2>1 DEF Settle, CouponInv, CouponTypeOK
  <2>3. CouponTypeOK'
    BY <1>1, <1>2, <2>2 DEF CouponInv, CouponTypeOK
  <2>4. \A x \in Orders : Placed(x)'
    BY <1>1, <1>2, <2>2 DEF CouponInv, Placed, Holds
  <2>5. ASSUME NEW x \in Orders, OrderTrue(x)
        PROVE  GivenBackWhenGone(x)'
    BY <1>1, <1>2, <2>5 DEF OrderTrue, GivenBackWhenGone, Gone, Status
  <2> QED BY <1>2, <2>2, <2>3, <2>4, <2>5, BooksStep
<1> QED BY <1>6, <1>7

LEMMA IssueStep ==
  ASSUME CouponInv, NEW r \in Rights, Issue(r)
  PROVE  CouponInv'
<1> DEFINE row == [status |-> "AVAILABLE", order |-> None]
<1>1. /\ CouponTypeOK /\ right[r] = None /\ right' = [right EXCEPT ![r] = row]
      /\ UNCHANGED <<expired, listed, check, ordersVars>>
  BY DEF Issue, CouponInv
<1>2. UNCHANGED <<order, create, cancel, late, raced, unreleased>>
  BY <1>1 DEF ordersVars
<1>3. row \in Right /\ row.order = None
  BY DEF Right
<1> HIDE DEF row
<1>4. \A q \in Rights : right'[q] = IF q = r THEN row ELSE right[q]
  BY <1>1 DEF CouponTypeOK
<1>5. \A q \in Rights, x \in Orders : Holds(q, x)' <=> Holds(q, x)
  BY <1>1, <1>3, <1>4, CouponConstants DEF Holds
<1>6. CouponTypeOK'
  BY <1>1, <1>2, <1>3 DEF CouponTypeOK
<1>7. ASSUME NEW o \in Orders
      PROVE  Placed(o)'
  BY <1>1, <1>2, <1>5 DEF CouponInv, Placed
<1>8. ASSUME NEW o \in Orders, o \notin raced' \cup unreleased'
      PROVE  OrderTrue(o)'
  <2>1. OrderTrue(o)
    BY <1>2, <1>8 DEF CouponInv
  <2>2. Status(o)' = Status(o) /\ (Gone(o)' <=> Gone(o)) /\ (Holds(Wanted[o], o)' <=> Holds(Wanted[o], o))
    BY <1>2, <1>5, CouponConstants DEF Status, Gone
  <2>3. CreateTrue(o)'
    BY <1>2, <2>1, <2>2 DEF OrderTrue, CreateTrue
  <2>4. CancelTrue(o)'
    BY <1>2, <2>1, <2>2 DEF OrderTrue, CancelTrue
  <2>5. PriceHeld(o)'
    BY <1>2, <2>1, <2>2 DEF OrderTrue, PriceHeld
  <2>6. GivenBackWhenGone(o)'
    BY <1>1, <1>2, <2>1, <2>2 DEF OrderTrue, GivenBackWhenGone
  <2> QED BY <2>3, <2>4, <2>5, <2>6 DEF OrderTrue
<1> QED BY <1>6, <1>7, <1>8 DEF CouponInv

LEMMA CouponStutter ==
  ASSUME CouponInv, UNCHANGED <<right, listed, check, order, create, cancel, late, raced, unreleased>>,
         expired' \subseteq Rights
  PROVE  CouponInv'
<1>1. CouponTypeOK'
  BY DEF CouponInv, CouponTypeOK
<1>2. \A o \in Orders : Placed(o)'
  BY DEF CouponInv, Placed, Holds
<1>3. ASSUME NEW o \in Orders, OrderTrue(o)
      PROVE  GivenBackWhenGone(o)'
  BY <1>3 DEF OrderTrue, GivenBackWhenGone, Gone, Status
<1> QED BY <1>1, <1>2, <1>3, BooksStep

LEMMA ExpireStep ==
  ASSUME CouponInv, NEW r \in Rights, Expire(r)
  PROVE  CouponInv'
<1>1. /\ expired' \subseteq Rights
      /\ UNCHANGED <<right, listed, check, order, create, cancel, late, raced, unreleased>>
  BY DEF Expire, ordersVars, CouponInv, CouponTypeOK
<1> QED BY <1>1, CouponStutter

\* reconcile lists the orders that hold a right: they were placed.
LEMMA ReconcileListStep ==
  ASSUME CouponInv, ReconcileList
  PROVE  CouponInv'
<1>1. /\ CouponTypeOK /\ listed' = {right[r].order : r \in {q \in Rights : Recoverable(q)}}
      /\ UNCHANGED <<right, expired, check, order, create, cancel, late, raced, unreleased>>
  BY DEF ReconcileList, ordersVars, CouponInv
<1>2. ASSUME NEW o \in listed'
      PROVE  o \in Orders /\ order[o] # None
  <2>1. PICK r \in Rights : Recoverable(r) /\ o = right[r].order
    BY <1>1
  <2>2. right[r] \in Right /\ right[r].status # "AVAILABLE" /\ right[r] # None
    BY <1>1, <2>1 DEF CouponTypeOK, Recoverable
  <2>3. o \in Orders /\ Holds(r, o)
    BY <2>1, <2>2, RightFields DEF Holds
  <2> QED BY <2>3, PlacedRow
<1>3. CouponTypeOK'
  BY <1>1, <1>2 DEF CouponTypeOK
<1>4. ASSUME NEW o \in Orders
      PROVE  Placed(o)'
  BY <1>1, <1>2 DEF CouponInv, Placed, Holds
<1>5. ASSUME NEW o \in Orders, OrderTrue(o)
      PROVE  GivenBackWhenGone(o)'
  BY <1>1, <1>5 DEF OrderTrue, GivenBackWhenGone, Gone, Status
<1> QED BY <1>1, <1>3, <1>4, <1>5, BooksStep

\* The answer Orders gives is true when it is given.
LEMMA ReconcileAskStep ==
  ASSUME CouponInv, NEW o \in Orders, ReconcileAsk(o)
  PROVE  CouponInv'
<1>1. /\ CouponTypeOK /\ o \in listed /\ listed' = listed \ {o}
      /\ check' = [order |-> o, status |-> Status(o)]
      /\ UNCHANGED <<right, expired, order, create, cancel, late, raced, unreleased>>
  BY DEF ReconcileAsk, ordersVars, CouponInv
<1>2. order[o] \in Order /\ Status(o) = order[o].status
  BY <1>1, PlacedRow
<1>3. check' \in Check /\ check'.order = o /\ check'.status = Status(o)
  BY <1>1, <1>2, OrderFields DEF Check
<1>4. CouponTypeOK'
  BY <1>1, <1>3 DEF CouponTypeOK
<1>5. ASSUME NEW x \in Orders
      PROVE  Placed(x)'
  BY <1>1 DEF CouponInv, Placed, Holds
<1>6. ASSUME NEW x \in Orders, OrderTrue(x)
      PROVE  GivenBackWhenGone(x)'
  BY <1>1, <1>3, <1>6 DEF OrderTrue, GivenBackWhenGone, Gone, Status
<1> QED BY <1>1, <1>4, <1>5, <1>6, BooksStep

LEMMA CouponReconcileFailsStep ==
  ASSUME CouponInv, CouponReconcileFails
  PROVE  CouponInv'
<1>1. /\ CouponTypeOK /\ check' = None /\ listed' \subseteq listed
      /\ UNCHANGED <<right, expired, order, create, cancel, late, raced, unreleased>>
  BY DEF CouponReconcileFails, ordersVars, CouponInv
<1>2. CouponTypeOK'
  BY <1>1 DEF CouponTypeOK
<1>3. ASSUME NEW x \in Orders
      PROVE  Placed(x)'
  BY <1>1 DEF CouponInv, Placed, Holds
<1>4. ASSUME NEW x \in Orders, OrderTrue(x)
      PROVE  GivenBackWhenGone(x)'
  BY <1>1, <1>4 DEF OrderTrue, GivenBackWhenGone, Gone, Status
<1> QED BY <1>1, <1>2, <1>3, <1>4, BooksStep

\* A request is cut: of the calls it leaves running, one that gives the right
\* back is a cancelled order's, or is noted down.
LEMMA CutStep ==
  ASSUME CouponInv, NEW o \in Orders, NEW step \in CreateSteps, NEW c \in Cancels,
         NEW L \in SUBSET Calls,
         order[o] # None,
         create' = [create EXCEPT ![o] = step], step \in {create[o], "idle"},
         cancel' = [cancel EXCEPT ![o] = c], c \in {cancel[o], Idle},
         late' = late \cup (L \X {o}),
         UNCHANGED <<pricingVars, order, raced>>,
         unreleased' \in {unreleased, unreleased \cup {o}},
         o \notin raced \cup unreleased' /\ OrderTrue(o) /\ L \cap {"release", "restore"} # {} => Gone(o)
  PROVE  CouponInv'
<1>1. /\ CouponTypeOK /\ UNCHANGED <<right, expired, listed, check>>
      /\ Idle \in Cancels /\ Idle.step = "idle"
  BY CancelRecord DEF CouponInv, pricingVars
<1>2. \A k \in Calls, x \in Orders : <<k, x>> \in late' <=> <<k, x>> \in late \/ (x = o /\ k \in L)
  OBVIOUS
<1>3. late' \subseteq Calls \X Orders
  BY <1>1 DEF CouponTypeOK, Calls
<1>4. CouponTypeOK'
  <2>1. create' \in [Orders -> CreateSteps] /\ cancel' \in [Orders -> Cancels]
    BY <1>1 DEF CouponTypeOK, CreateSteps, Cancels
  <2>2. unreleased' \subseteq Orders
    BY <1>1 DEF CouponTypeOK
  <2> QED BY <1>1, <1>3, <2>1, <2>2 DEF CouponTypeOK, CreateSteps, Cancels, Calls
<1>5. /\ create'[o] = step /\ cancel'[o] = c
      /\ \A x \in Orders \ {o} : create'[x] = create[x] /\ cancel'[x] = cancel[x]
  BY <1>1 DEF CouponTypeOK
<1>6. ASSUME NEW x \in Orders
      PROVE  Placed(x)'
  <2>1. CASE x = o
    BY <2>1 DEF Placed
  <2>2. CASE x # o
    BY <1>1, <1>2, <1>5, <2>2 DEF CouponInv, Placed, Holds, Calls
  <2> QED BY <2>1, <2>2
<1>7. ASSUME NEW x \in Orders, x \notin raced' \cup unreleased'
      PROVE  OrderTrue(x)'
  <2>1. OrderTrue(x)
    BY <1>7 DEF CouponInv
  <2>2. Status(x)' = Status(x) /\ (Gone(x)' <=> Gone(x)) /\ (Holds(Wanted[x], x)' <=> Holds(Wanted[x], x))
    BY <1>1 DEF Status, Gone, Holds
  <2>3. CreateTrue(x)'
    BY <1>1, <1>5, <2>1, <2>2 DEF OrderTrue, CreateTrue
  <2>4. CancelTrue(x)'
    BY <1>1, <1>5, <2>1, <2>2 DEF OrderTrue, CancelTrue
  <2>5. PriceHeld(x)'
    BY <2>1, <2>2 DEF OrderTrue, PriceHeld
  <2>6. GivenBackWhenGone(x)'
    <3>1. ASSUME NEW k \in {"release", "restore"}, <<k, x>> \in late'
          PROVE  Gone(x)
      <4>1. CASE <<k, x>> \in late
        BY <2>1, <4>1 DEF OrderTrue, GivenBackWhenGone
      <4>2. CASE x = o /\ k \in L
        BY <1>7, <2>1, <4>2
      <4> QED BY <1>2, <3>1, <4>1, <4>2 DEF Calls
    <3> QED BY <1>1, <2>1, <2>2, <3>1 DEF OrderTrue, GivenBackWhenGone
  <2> QED BY <2>3, <2>4, <2>5, <2>6 DEF OrderTrue
<1> QED BY <1>4, <1>6, <1>7 DEF CouponInv

\* What a cut leaves running.
LEMMA LeftBehind ==
  ASSUME NEW step, NEW o \in Orders, Leave(step, o)
  PROVE  \E L \in SUBSET Calls : late' = late \cup (L \X {o}) /\ L \subseteq Pending(step)
<1>1. Pending(step) \subseteq Calls
  BY DEF Pending, Calls
<1>2. PICK M \in SUBSET (Pending(step) \X {o}) : late' = late \cup M
  BY DEF Leave
<1> DEFINE L == {k \in Pending(step) : <<k, o>> \in M}
<1>3. M = L \X {o}
  OBVIOUS
<1>4. L \in SUBSET Calls /\ L \subseteq Pending(step)
  BY <1>1
<1> HIDE DEF L
<1> QED BY <1>2, <1>3, <1>4

LEMMA CreateCutStep ==
  ASSUME CouponInv, NEW o \in Orders, CreateCut(o)
  PROVE  CouponInv'
<1>1. /\ CouponTypeOK /\ create[o] # "idle" /\ Leave(create[o], o)
      /\ unreleased' = IF create[o] = "release" /\ late' # late THEN unreleased \cup {o} ELSE unreleased
      /\ create' = [create EXCEPT ![o] = "idle"] /\ "idle" \in CreateSteps
      /\ UNCHANGED <<pricingVars, order, cancel, raced>>
  BY DEF CreateCut, SetCreate, CouponInv, CreateSteps
<1>2. order[o] # None
  BY <1>1, PlacedRow
<1>3. PICK c \in Cancels : c = cancel[o] /\ cancel' = [cancel EXCEPT ![o] = c]
  BY <1>1, SameAtOrder
<1>4. PICK step : step = create[o] /\ Leave(step, o)
  BY <1>1
<1>5. PICK L \in SUBSET Calls : late' = late \cup (L \X {o}) /\ L \subseteq Pending(step)
  BY <1>4, LeftBehind
<1>6. ASSUME o \notin raced \cup unreleased', OrderTrue(o), L \cap {"release", "restore"} # {}
      PROVE  Gone(o)
  <2>1. step \in {"release", "undo"}
    <3>1. PICK k \in L : k \in {"release", "restore"}
      BY <1>6
    <3>2. k \in Pending(step)
      BY <1>5
    <3>3. step \in CreateSteps
      BY <1>1, <1>4, SameAtOrder
    <3> QED BY <3>1, <3>2, <3>3 DEF Pending, CreateSteps
  <2>2. CASE step = "undo"
    BY <1>4, <1>6, <2>2 DEF OrderTrue, CreateTrue
  <2>3. CASE step = "release"
    <3>1. late' = late
      BY <1>1, <1>4, <1>6, <2>3
    <3>2. PICK k \in L : k \in {"release", "restore"}
      BY <1>6
    <3>3. <<k, o>> \in late
      BY <1>5, <3>1, <3>2
    <3> QED BY <1>6, <3>2, <3>3 DEF OrderTrue, GivenBackWhenGone
  <2> QED BY <2>1, <2>2, <2>3
<1> QED BY <1>1, <1>2, <1>3, <1>5, <1>6, CutStep

LEMMA CancelCutStep ==
  ASSUME CouponInv, NEW o \in Orders, CancelCut(o)
  PROVE  CouponInv'
<1>1. /\ CouponTypeOK /\ cancel[o] # Idle /\ Leave(cancel[o].step, o)
      /\ Idle \in Cancels /\ cancel' = [cancel EXCEPT ![o] = Idle]
      /\ UNCHANGED <<pricingVars, order, create, raced, unreleased>>
  BY CancelRecord DEF CancelCut, CouponInv
<1>2. order[o] # None
  BY <1>1, PlacedRow
<1>3. PICK s \in CreateSteps : s = create[o] /\ create' = [create EXCEPT ![o] = s]
  BY <1>1, SameAtOrder
<1>4. PICK step : step = cancel[o].step /\ Leave(step, o)
  BY <1>1
<1>5. PICK L \in SUBSET Calls : late' = late \cup (L \X {o}) /\ L \subseteq Pending(step)
  BY <1>4, LeftBehind
<1>6. ASSUME o \notin raced \cup unreleased', OrderTrue(o), L \cap {"release", "restore"} # {}
      PROVE  Gone(o)
  <2>1. step \in {"release", "restore"}
    <3>1. PICK k \in L : k \in {"release", "restore"}
      BY <1>6
    <3>2. k \in Pending(step)
      BY <1>5
    <3>3. step \in {"idle", "give up", "stage", "ask", "accepted", "refused", "release", "restore"}
      BY <1>1, <1>4 DEF CouponTypeOK
    <3> QED BY <3>1, <3>2, <3>3 DEF Pending
  <2> QED BY <1>4, <1>6, <2>1 DEF OrderTrue, CancelTrue
<1> QED BY <1>1, <1>2, <1>3, <1>5, <1>6, CutStep

LEMMA CouponStarts == CouponInit => CouponInv
<1> SUFFICES ASSUME CouponInit PROVE CouponInv
  OBVIOUS
<1>1. Idle \in Cancels /\ Idle.step = "idle"
  BY DEF Idle, Cancels
<1>2. CouponTypeOK
  BY <1>1 DEF CouponInit, CouponTypeOK, Cancels
<1>3. \A o \in Orders : Placed(o)
  BY DEF CouponInit, Placed, Holds
<1>4. \A o \in Orders : OrderTrue(o)
  BY <1>1 DEF CouponInit, OrderTrue, CreateTrue, CancelTrue, GivenBackWhenGone, PriceHeld
<1> QED BY <1>2, <1>3, <1>4 DEF CouponInv

LEMMA CouponStep == CouponInv /\ [CouponNext]_couponVars => CouponInv'
<1> SUFFICES ASSUME CouponInv, [CouponNext]_couponVars PROVE CouponInv'
  OBVIOUS
<1>1. ASSUME NEW r \in Rights, Issue(r) \/ Expire(r)
      PROVE  CouponInv'
  BY <1>1, IssueStep, ExpireStep
<1>2. ASSUME NEW o \in Orders, ReconcileAsk(o) \/ ReconcileSettle(o)
      PROVE  CouponInv'
  BY <1>2, ReconcileAskStep, ReconcileSettleStep
<1>3. ASSUME NEW o \in Orders,
             \/ CreateCall(o) \/ WriteCode(o) \/ ReserveCoupon(o) \/ StoreItems(o)
             \/ TotalRefused(o) \/ ReleaseRefused(o) \/ PriceChanged(o)
             \/ Sell(o) \/ SettleSale(o) \/ CreateCut(o)
      PROVE  CouponInv'
  BY <1>3, CreateCallStep, WriteCodeStep, ReserveCouponStep, StoreItemsStep, TotalRefusedStep,
     CreateSettlesStep, PriceChangedStep, SellStep, CreateCutStep
<1>4. ASSUME NEW o \in Orders,
             \/ CancelCall(o) \/ StageCancellation(o) \/ AskLogistics(o) \/ RestoreConfirmed(o)
             \/ FinalizeCancellation(o) \/ SettleCancellation(o) \/ CancelCut(o)
      PROVE  CouponInv'
  BY <1>4, CancelCallStep, StageCancellationStep, AskLogisticsStep, RestoreConfirmedStep,
     FinalizeCancellationStep, SettleCancellationStep, CancelCutStep
<1>5. CASE ReconcileList \/ CouponReconcileFails
  BY <1>5, ReconcileListStep, CouponReconcileFailsStep
<1>6. CASE \E call \in late : LateCallRuns(call)
  BY <1>6, LateCallStep
<1>7. CASE UNCHANGED couponVars
  <2>1. /\ UNCHANGED <<right, listed, check, order, create, cancel, late, raced, unreleased>>
        /\ expired' \subseteq Rights
    BY <1>7 DEF couponVars, pricingVars, ordersVars, CouponInv, CouponTypeOK
  <2> QED BY <2>1, CouponStutter
<1> QED BY <1>1, <1>2, <1>3, <1>4, <1>5, <1>6, <1>7 DEF CouponNext

\* The books of rights and orders agree at every step of the two services: a
\* request is where its order's status says, and whatever may still give a
\* right back belongs to a cancelled order.
THEOREM CouponInvariant == CouponSpec => []CouponInv
BY CouponStarts, CouponStep, PTL DEF CouponSpec

\* A sale at the coupon's price holds the right (coupons.service.ts), however
\* many calls that settle it were lost, late or decided by an old answer.
THEOREM DiscountedSaleIsBacked == CouponSpec => []DiscountedSaleHoldsRight
<1>1. CouponInv => DiscountedSaleHoldsRight
  <2> SUFFICES ASSUME CouponInv, NEW o \in Orders \ (raced \cup unreleased),
                      Status(o) \in {"CONFIRMED", "CANCELLATION_PENDING"}, order[o].price = "coupon"
               PROVE  Holds(Wanted[o], o)
    BY DEF DiscountedSaleHoldsRight
  <2>1. PriceHeld(o)
    BY DEF CouponInv, OrderTrue
  <2> QED BY <2>1 DEF PriceHeld, Gone, Status
<1> QED BY <1>1, CouponInvariant, PTL
==============================================================================

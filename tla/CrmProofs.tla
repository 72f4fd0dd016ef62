------------------------------- MODULE CrmProofs -------------------------------
(***************************************************************************)
(* Proofs about CRM: the purchases it counts (Purchases), the campaigns it  *)
(* sends (Campaigns), and the check of identities at its door, which the   *)
(* other services carry too (AccessStatus).                                *)
(*                                                                         *)
(* Purchases, for any orders, customers and number of messages handled at  *)
(* once: its properties rest on a transaction having read what is still so *)
(* when it commits, which holds as long as it is the only one that works   *)
(* on its order (ReadIsTrue) or its customer (CountIsTrue).                *)
(*                                                                         *)
(* Campaigns, for any limit of attempts and number of faults: a report     *)
(* tells the truth about its attempt (ReportTrue), the last one stays in   *)
(* the outbox until it is published (LastReportKept), and the campaign     *)
(* never goes back behind it (RecipientTrue).                              *)
(*                                                                         *)
(* AccessStatus, for any users, requests, sockets, times and changes of    *)
(* accounts: an answer, a cached entry and an open socket each say of some *)
(* moment that the account stood then (CurrentSince), and the time that    *)
(* has passed since is bounded by the life of each.                        *)
(***************************************************************************)
EXTENDS Purchases, Campaigns, AccessStatus, TLAPS

------------------------------------------------------------------------------
\* Purchases.

OrderOf(h) == handler[h].event.order
CustomerOf(h) == Buyer[OrderOf(h)]

\* A transaction is about an event that Orders sent.
SentBefore == \A h \in Handlers : Open(h) => handler[h].event \in sent

\* What the history variables mean.
Alone ==
  \A g, h \in Handlers : Open(g) /\ Open(h) /\ g # h =>
    /\ (OrderOf(g) = OrderOf(h) => OrderOf(h) \in raced)
    /\ (CustomerOf(g) = CustomerOf(h) => CustomerOf(h) \in mixed)

ReadIsTrue ==
  \A h \in Handlers : Open(h) /\ OrderOf(h) \notin raced /\ ~handler[h].known =>
    IF handler[h].event.type = "completed" THEN OrderOf(h) \notin ledger
    ELSE purchase[OrderOf(h)] = "none"

CountIsTrue ==
  \A h \in Handlers : handler[h].step = "counted" =>
    /\ Counts(handler[h])
    /\ CustomerOf(h) \notin mixed =>
         handler[h].counted = IF handler[h].event.type = "completed"
                              THEN Bought(CustomerOf(h)) \cup {OrderOf(h)}
                              ELSE Bought(CustomerOf(h)) \ {OrderOf(h)}

PurchasesInv ==
  /\ TypeOK /\ SentBefore /\ Alone /\ ReadIsTrue /\ CountIsTrue
  /\ CancelledIsNoSale /\ CustomerCountsPurchases

------------------------------------------------------------------------------
LEMMA OpenIsTransaction ==
  ASSUME TypeOK, NEW h \in Handlers, Open(h)
  PROVE  /\ handler[h] \in Transaction
         /\ handler[h].event \in Events /\ OrderOf(h) \in Orders
         /\ CustomerOf(h) \in Customers
BY DEF TypeOK, Open, Idle, Transaction, Events, OrderOf, CustomerOf, Customers

\* Orders sends, or a message is dropped: nothing CRM knows changes.
LEMMA SendKeeps ==
  ASSUME PurchasesInv, sent \subseteq sent', sent' \subseteq Events, queue' \subseteq sent',
         UNCHANGED <<tables, handler, raced, mixed>>
  PROVE  PurchasesInv'
<1>1. TypeOK'
  BY DEF PurchasesInv, TypeOK, tables
<1>2. SentBefore'
  BY DEF PurchasesInv, SentBefore, Open
<1>3. Alone' /\ ReadIsTrue'
  BY DEF PurchasesInv, Alone, ReadIsTrue, tables, Open, OrderOf, CustomerOf
<1>4. CountIsTrue'
  BY DEF PurchasesInv, CountIsTrue, Counts, Bought, tables, OrderOf, CustomerOf
<1>5. CancelledIsNoSale' /\ CustomerCountsPurchases'
  BY DEF PurchasesInv, CancelledIsNoSale, CustomerCountsPurchases, Bought, tables
<1> QED BY <1>1, <1>2, <1>3, <1>4, <1>5 DEF PurchasesInv

LEMMA ClaimKeeps ==
  ASSUME PurchasesInv, NEW h \in Handlers, NEW e, Claim(h, e)
  PROVE  PurchasesInv'
<1> DEFINE t == [step |-> "read", event |-> e, known |-> KnownBefore(e), counted |-> {}]
<1>1. e \in Events /\ e \in sent /\ e.order \in Orders /\ Buyer[e.order] \in Customers
  BY DEF PurchasesInv, TypeOK, Claim, Events, Customers
<1>2. t \in Transaction /\ t.event = e /\ t.step = "read" /\ t.known = KnownBefore(e)
  BY <1>1 DEF Transaction, KnownBefore
<1>3. /\ handler'[h] = t /\ \A g \in Handlers \ {h} : handler'[g] = handler[g]
      /\ handler' \in [Handlers -> Transaction \cup {Idle}]
      /\ UNCHANGED <<sent, queue, tables>>
  BY <1>2 DEF PurchasesInv, TypeOK, Claim
<1> HIDE DEF t
<1>4. raced \subseteq raced' /\ mixed \subseteq mixed'
  BY DEF Claim
<1>5. raced' \subseteq Orders /\ mixed' \subseteq Customers
  BY <1>1 DEF PurchasesInv, TypeOK, Claim
<1>6. TypeOK'
  BY <1>3, <1>5 DEF PurchasesInv, TypeOK, tables
<1>7. SentBefore'
  BY <1>1, <1>2, <1>3 DEF PurchasesInv, SentBefore, Open
<1>8. \A g \in Handlers \ {h} : Open(g) =>
        /\ (OrderOf(g) = e.order => e.order \in raced')
        /\ (CustomerOf(g) = Buyer[e.order] => Buyer[e.order] \in mixed')
  BY DEF Claim, OfOrder, OfCustomer, OrderOf, CustomerOf
<1>9. Alone'
  <2> SUFFICES ASSUME NEW f \in Handlers, NEW g \in Handlers, Open(f)', Open(g)', f # g
               PROVE  /\ (OrderOf(f) = OrderOf(g) => OrderOf(g) \in raced)'
                      /\ (CustomerOf(f) = CustomerOf(g) => CustomerOf(g) \in mixed)'
    BY DEF Alone
  <2>1. CASE f # h /\ g # h
    BY <2>1, <1>3, <1>4 DEF PurchasesInv, Alone, Open, OrderOf, CustomerOf
  <2>2. OrderOf(h)' = e.order /\ CustomerOf(h)' = Buyer[e.order]
    BY <1>2, <1>3 DEF OrderOf, CustomerOf
  <2>3. \A k \in Handlers \ {h} : OrderOf(k)' = OrderOf(k) /\ CustomerOf(k)' = CustomerOf(k)
                                  /\ (Open(k)' => Open(k))
    BY <1>3 DEF OrderOf, CustomerOf, Open
  <2>4. CASE f = h
    BY <2>4, <2>2, <2>3, <1>8
  <2>5. CASE g = h
    BY <2>5, <2>2, <2>3, <1>8
  <2> QED BY <2>1, <2>4, <2>5
<1>10. ~t.known => IF e.type = "completed" THEN e.order \notin ledger ELSE purchase[e.order] = "none"
  BY <1>1, <1>2 DEF KnownBefore, Events
<1>11. ReadIsTrue'
  BY <1>2, <1>3, <1>4, <1>10 DEF PurchasesInv, ReadIsTrue, Open, OrderOf, tables
<1>12. CountIsTrue'
  BY <1>2, <1>3, <1>4 DEF PurchasesInv, CountIsTrue, Counts, Bought, OrderOf, CustomerOf, tables
<1>13. CancelledIsNoSale' /\ CustomerCountsPurchases'
  BY <1>3, <1>4 DEF PurchasesInv, CancelledIsNoSale, CustomerCountsPurchases, Bought, tables
<1> QED BY <1>6, <1>7, <1>9, <1>11, <1>12, <1>13 DEF PurchasesInv

LEMMA RecalculateKeeps ==
  ASSUME PurchasesInv, NEW h \in Handlers, Recalculate(h)
  PROVE  PurchasesInv'
<1> DEFINE o == OrderOf(h)
           S == IF handler[h].event.type = "completed" THEN Bought(Buyer[o]) \cup {o}
                ELSE Bought(Buyer[o]) \ {o}
           t == [handler[h] EXCEPT !.step = "counted", !.counted = S]
<1>1. Open(h) /\ Counts(handler[h])
  BY DEF Recalculate, Open
<1>2. handler[h] \in Transaction /\ o \in Orders
  BY <1>1, OpenIsTransaction DEF PurchasesInv
<1>3. /\ t \in Transaction /\ t.step = "counted" /\ t.event = handler[h].event
      /\ t.known = handler[h].known /\ t.counted = S
  BY <1>2 DEF Transaction, Bought
<1>4. /\ handler'[h] = t /\ \A g \in Handlers \ {h} : handler'[g] = handler[g]
      /\ UNCHANGED <<sent, queue, tables, raced, mixed>>
  BY <1>2 DEF PurchasesInv, TypeOK, Recalculate, OrderOf, Transaction
<1> HIDE DEF t
<1>5. handler' \in [Handlers -> Transaction \cup {Idle}]
  BY <1>3, <1>4 DEF PurchasesInv, TypeOK, Recalculate
<1>6. TypeOK'
  BY <1>4, <1>5 DEF PurchasesInv, TypeOK, tables
<1>7. SentBefore' /\ Alone' /\ ReadIsTrue'
  BY <1>1, <1>3, <1>4 DEF PurchasesInv, SentBefore, Alone, ReadIsTrue, Open, OrderOf, CustomerOf, tables
<1>8. CountIsTrue'
  BY <1>1, <1>3, <1>4 DEF PurchasesInv, CountIsTrue, Counts, Bought, OrderOf, CustomerOf, tables
<1>9. CancelledIsNoSale' /\ CustomerCountsPurchases'
  BY <1>4 DEF PurchasesInv, CancelledIsNoSale, CustomerCountsPurchases, Bought, tables
<1> QED BY <1>6, <1>7, <1>8, <1>9 DEF PurchasesInv

LEMMA FailsKeeps ==
  ASSUME PurchasesInv, NEW h \in Handlers, Fails(h)
  PROVE  PurchasesInv'
<1>1. /\ handler'[h] = Idle /\ \A g \in Handlers \ {h} : handler'[g] = handler[g]
      /\ handler' \in [Handlers -> Transaction \cup {Idle}]
      /\ queue' \subseteq queue /\ UNCHANGED <<sent, tables, raced, mixed>>
  BY DEF PurchasesInv, TypeOK, Fails
<1>2. Idle.step = "idle"
  BY DEF Idle
<1>3. TypeOK'
  BY <1>1 DEF PurchasesInv, TypeOK, tables
<1>4. SentBefore' /\ Alone' /\ ReadIsTrue'
  BY <1>1, <1>2 DEF PurchasesInv, SentBefore, Alone, ReadIsTrue, Open, OrderOf, CustomerOf, tables
<1>5. CountIsTrue'
  BY <1>1, <1>2 DEF PurchasesInv, CountIsTrue, Counts, Bought, OrderOf, CustomerOf, tables
<1>6. CancelledIsNoSale' /\ CustomerCountsPurchases'
  BY <1>1 DEF PurchasesInv, CancelledIsNoSale, CustomerCountsPurchases, Bought, tables
<1> QED BY <1>3, <1>4, <1>5, <1>6 DEF PurchasesInv

\* The step the properties are about.
LEMMA CommitKeeps ==
  ASSUME PurchasesInv, NEW h \in Handlers, Commit(h)
  PROVE  PurchasesInv'
<1> DEFINE t == handler[h]
           o == OrderOf(h)
           c == CustomerOf(h)
<1>1. Open(h)
  BY DEF Commit, Open
<1>2. t \in Transaction /\ t.event \in Events /\ o \in Orders /\ c \in Customers
  BY <1>1, OpenIsTransaction DEF PurchasesInv
<1>3. /\ handler'[h] = Idle /\ \A g \in Handlers \ {h} : handler'[g] = handler[g]
      /\ handler' \in [Handlers -> Transaction \cup {Idle}]
      /\ queue' \subseteq queue /\ UNCHANGED <<sent, raced, mixed>>
      /\ processed' = processed \cup {t.event}
  BY DEF PurchasesInv, TypeOK, Commit
<1>4. Idle.step = "idle"
  BY DEF Idle
<1>5. t.event.type \in {"completed", "cancelled"} /\ t.known \in BOOLEAN
  BY <1>2 DEF Transaction, Events
<1>6. \A g \in Handlers \ {h} : Open(g) =>
        /\ OrderOf(g) \in Orders /\ CustomerOf(g) \in Customers
        /\ (OrderOf(g) \notin raced => OrderOf(g) # o)
        /\ (CustomerOf(g) \notin mixed => CustomerOf(g) # c)
  <2> SUFFICES ASSUME NEW g \in Handlers \ {h}, Open(g)
               PROVE  /\ OrderOf(g) \in Orders /\ CustomerOf(g) \in Customers
                      /\ (OrderOf(g) \notin raced => OrderOf(g) # o)
                      /\ (CustomerOf(g) \notin mixed => CustomerOf(g) # c)
    OBVIOUS
  <2>1. OrderOf(g) \in Orders /\ CustomerOf(g) \in Customers
    BY OpenIsTransaction DEF PurchasesInv
  <2>2. /\ (OrderOf(g) = o => o \in raced)
        /\ (CustomerOf(g) = c => c \in mixed)
    BY <1>1 DEF PurchasesInv, Alone
  <2> QED BY <2>1, <2>2
<1>7. Counts(t) => t.step = "counted"
  BY DEF Commit
<1>8. /\ ledger' = IF t.event.type = "cancelled" THEN ledger \cup {o} ELSE ledger
      /\ purchase' = IF ~Counts(t) THEN purchase
                     ELSE [purchase EXCEPT ![o] = IF t.event.type = "completed"
                                                  THEN "COMPLETED" ELSE "CANCELLED"]
      /\ customer' = IF ~Counts(t) THEN customer ELSE [customer EXCEPT ![c] = t.counted]
  BY DEF Commit, OrderOf, CustomerOf
<1>9. TypeOK'
  <2>1. purchase' \in [Orders -> {"none", "COMPLETED", "CANCELLED"}]
    BY <1>8 DEF PurchasesInv, TypeOK
  <2>2. t.counted \subseteq Orders
    BY <1>2 DEF Transaction
  <2>3. customer' \in [Customers -> SUBSET Orders]
    BY <1>8, <2>2 DEF PurchasesInv, TypeOK
  <2>4. ledger' \subseteq Orders
    BY <1>2, <1>8 DEF PurchasesInv, TypeOK
  <2>5. processed' \subseteq sent
    BY <1>1, <1>3 DEF PurchasesInv, TypeOK, SentBefore
  <2> QED BY <1>3, <2>1, <2>3, <2>4, <2>5 DEF PurchasesInv, TypeOK
<1>10. SentBefore' /\ Alone'
  BY <1>3, <1>4 DEF PurchasesInv, SentBefore, Alone, Open, OrderOf, CustomerOf
<1>11. \A p \in Orders \ {o} : purchase'[p] = purchase[p] /\ (p \in ledger' => p \in ledger)
  BY <1>8 DEF PurchasesInv, TypeOK
<1>12. ReadIsTrue'
  <2> SUFFICES ASSUME NEW g \in Handlers, Open(g)', OrderOf(g)' \notin raced, ~handler'[g].known
               PROVE  IF handler'[g].event.type = "completed" THEN OrderOf(g)' \notin ledger'
                      ELSE purchase'[OrderOf(g)'] = "none"
    BY <1>3 DEF ReadIsTrue
  <2>1. g # h /\ handler'[g] = handler[g] /\ Open(g) /\ OrderOf(g)' = OrderOf(g)
    BY <1>3, <1>4 DEF Open, OrderOf
  <2>2. OrderOf(g) \in Orders \ {o}
    BY <2>1, <1>6
  <2> QED BY <2>1, <2>2, <1>11 DEF PurchasesInv, ReadIsTrue
<1>13. \A d \in Customers \ {c} : Bought(d)' = Bought(d) /\ customer'[d] = customer[d]
  BY <1>8, <1>11 DEF PurchasesInv, TypeOK, Bought, CustomerOf
<1>14. CountIsTrue'
  <2> SUFFICES ASSUME NEW g \in Handlers, handler'[g].step = "counted"
               PROVE  /\ Counts(handler'[g])
                      /\ CustomerOf(g)' \notin mixed =>
                           handler'[g].counted = IF handler'[g].event.type = "completed"
                              THEN Bought(CustomerOf(g))' \cup {OrderOf(g)'}
                              ELSE Bought(CustomerOf(g))' \ {OrderOf(g)'}
    BY <1>3 DEF CountIsTrue, Counts
  <2>1. g # h /\ handler'[g] = handler[g] /\ Open(g)
    BY <1>3, <1>4 DEF Open
  <2>2. OrderOf(g)' = OrderOf(g) /\ CustomerOf(g)' = CustomerOf(g)
    BY <2>1 DEF OrderOf, CustomerOf
  <2>3. CustomerOf(g) \in Customers /\ (CustomerOf(g) \notin mixed => CustomerOf(g) # c)
    BY <2>1, <2>2, <1>6
  <2>4. CustomerOf(g) \notin mixed => Bought(CustomerOf(g))' = Bought(CustomerOf(g))
    BY <2>2, <2>3, <1>13 DEF Bought
  <2> QED BY <2>1, <2>2, <2>4 DEF PurchasesInv, CountIsTrue
<1>15. CancelledIsNoSale'
  <2>1. o \in ledger' /\ o \notin raced => purchase'[o] # "COMPLETED"
    BY <1>1, <1>2, <1>5, <1>8 DEF PurchasesInv, TypeOK, ReadIsTrue, CancelledIsNoSale, Counts
  <2> QED BY <2>1, <1>3, <1>9, <1>11 DEF PurchasesInv, CancelledIsNoSale, TypeOK
<1>16. CustomerCountsPurchases'
  <2>1. CASE ~Counts(t)
    BY <2>1, <1>3, <1>8 DEF PurchasesInv, CustomerCountsPurchases, Bought
  <2>2. CASE Counts(t)
    <3>1. purchase'[o] = IF t.event.type = "completed" THEN "COMPLETED" ELSE "CANCELLED"
      BY <2>2, <1>2, <1>8 DEF PurchasesInv, TypeOK
    <3>2. ASSUME NEW d \in Customers, d = c, NEW p \in Orders, p = o
          PROVE  /\ Bought(d)' = IF t.event.type = "completed" THEN Bought(d) \cup {p}
                                 ELSE Bought(d) \ {p}
                 /\ (d \notin mixed => customer'[d] = Bought(d)')
      <4>1. Buyer[p] = d
        BY <3>2 DEF CustomerOf
      <4>2. purchase'[p] = IF t.event.type = "completed" THEN "COMPLETED" ELSE "CANCELLED"
        BY <3>1, <3>2
      <4>3. \A q \in Orders \ {p} : purchase'[q] = purchase[q]
        BY <1>11, <3>2
      <4>4. Bought(d)' = IF t.event.type = "completed" THEN Bought(d) \cup {p}
                         ELSE Bought(d) \ {p}
        <5>1. CASE t.event.type = "completed"
          BY <5>1, <4>1, <4>2, <4>3 DEF Bought
        <5>2. CASE t.event.type # "completed"
          BY <5>2, <4>1, <4>2, <4>3 DEF Bought
        <5> QED BY <5>1, <5>2
      <4>5. customer'[d] = t.counted
        BY <2>2, <3>2, <1>8 DEF PurchasesInv, TypeOK
      <4>6. d \notin mixed => t.counted = IF t.event.type = "completed" THEN Bought(d) \cup {p}
                                          ELSE Bought(d) \ {p}
        BY <2>2, <3>2, <1>7 DEF PurchasesInv, CountIsTrue
      <4> QED BY <4>4, <4>5, <4>6
    <3>3. ASSUME NEW d \in Customers \ mixed PROVE customer'[d] = Bought(d)'
      <4>1. CASE d = c
        BY <4>1, <3>2, <1>2
      <4>2. CASE d # c
        BY <4>2, <1>13 DEF PurchasesInv, CustomerCountsPurchases
      <4> QED BY <4>1, <4>2
    <3> QED BY <3>3, <1>3 DEF CustomerCountsPurchases
  <2> QED BY <2>1, <2>2
<1> QED BY <1>9, <1>10, <1>12, <1>14, <1>15, <1>16 DEF PurchasesInv

------------------------------------------------------------------------------
LEMMA StepKeeps == PurchasesInv /\ [Next]_vars => PurchasesInv'
<1> SUFFICES ASSUME PurchasesInv, [Next]_vars PROVE PurchasesInv'
  OBVIOUS
<1>1. ASSUME NEW e \in Events, Send(e) PROVE PurchasesInv'
  BY <1>1, SendKeeps DEF Send, PurchasesInv, TypeOK
<1>2. CASE \E o \in Orders : OrderCompletes(o) \/ OrderCancelled(o)
  BY <1>1, <1>2 DEF OrderCompletes, OrderCancelled, Completed, Cancelled, Events
<1>3. ASSUME NEW e, Repeated(e) PROVE PurchasesInv'
  BY <1>3, SendKeeps DEF Repeated, PurchasesInv, TypeOK
<1>4. CASE UNCHANGED vars
  BY <1>4, SendKeeps DEF vars, PurchasesInv, TypeOK
<1> QED
  BY <1>2, <1>3, <1>4, ClaimKeeps, RecalculateKeeps, CommitKeeps, FailsKeeps DEF Next

LEMMA InitKeeps == Init => PurchasesInv
<1> SUFFICES ASSUME Init PROVE PurchasesInv
  OBVIOUS
<1>1. \A h \in Handlers : handler[h].step = "idle"
  BY DEF Init, Idle
<1>2. TypeOK
  BY DEF Init, TypeOK
<1>3. SentBefore /\ Alone /\ ReadIsTrue /\ CountIsTrue
  BY <1>1 DEF SentBefore, Alone, ReadIsTrue, CountIsTrue, Open
<1>4. CancelledIsNoSale /\ CustomerCountsPurchases
  BY DEF Init, CancelledIsNoSale, CustomerCountsPurchases, Bought
<1> QED BY <1>2, <1>3, <1>4 DEF PurchasesInv

LEMMA PurchasesInvariant == Spec => []PurchasesInv
BY InitKeeps, StepKeeps, PTL DEF Spec

\* A cancelled order is no purchase of the customer and no sale of a report,
\* unless its two events were handled at once.  (projectCompletedOrder,
\* projectCancelledOrder)
THEOREM LedgerWins == Spec => []CancelledIsNoSale
<1>1. PurchasesInv => CancelledIsNoSale
  BY DEF PurchasesInv
<1> QED BY <1>1, PurchasesInvariant, PTL

\* Number and total of a customer's purchases are those of the history, unless
\* events of his were handled at once.  (recalculateCustomer)
THEOREM CustomersAreCounted == Spec => []CustomerCountsPurchases
<1>1. PurchasesInv => CustomerCountsPurchases
  BY DEF PurchasesInv
<1> QED BY <1>1, PurchasesInvariant, PTL

------------------------------------------------------------------------------
\* A campaign as one recipient lives it.

\* The right comes before the request to mail, and the request before the mail.
RightFirst ==
  /\ flush = "publish" \/ asked # "no" => right
  /\ \/ delivery.status # "NONE" \/ mailed # {}
     \/ \E a \in Attempts : sender[a] # "none"
     => asked = "received"

\* Attempts beyond the limit are paid for by faults: a lease that ran out, or
\* an attempt that ended without recording its outcome.
AttemptsArePaid ==
  /\ delivery.status \in {"NONE", "PENDING"} => delivery.attempts = 0
  /\ delivery.status \notin {"NONE", "PENDING"} => delivery.attempts > 0
  /\ IF delivery.status = "PROCESSING"
          /\ (~delivery.leased \/ sender[delivery.attempts] = "none")
       THEN delivery.attempts < RetryLimit + faults
       ELSE delivery.attempts <= RetryLimit + faults

\* A report says what its attempt recorded: the last attempt that did is the
\* delivery's, and nothing is attempted once the mail is sent.
ReportTrue(m) ==
  /\ m \in Report /\ m.id = m.attempt /\ m.attempt <= delivery.attempts
  /\ m.willRetry = (m.outcome = "FAILED" /\ m.attempt < RetryLimit)
  /\ m.attempt = delivery.attempts \/ m.outcome = "SENT" =>
       m.attempt = delivery.attempts /\ m.outcome = delivery.status

RowTrue(row) ==
  row # NoReport => ReportTrue(row.report) /\ row.id = row.report.id /\ row.published \in BOOLEAN

ReportsTrue ==
  /\ \A m \in reports : ReportTrue(m)
  /\ RowTrue(publisher) /\ \A t \in Types : RowTrue(reportRow[t])
  /\ \A n \in applied : \E m \in reports : m.id = n

\* The report of the last attempt is in the outbox until it is published.
LastReportKept ==
  delivery.status \in Outcomes =>
    LET row == reportRow[TypeOf(delivery.status)] IN
    /\ row # NoReport /\ row.id = delivery.attempts
    /\ row.published => row.report \in reports

\* The campaign never knows more than Notification, and what it knows of the
\* last attempt is its outcome.
RecipientTrue ==
  /\ recipient.attempts <= delivery.attempts
  /\ recipient.status = "SENT" =>
       delivery.status = "SENT" /\ recipient.attempts = delivery.attempts
  /\ delivery.attempts \in applied =>
       /\ recipient.attempts = delivery.attempts
       /\ Done => recipient.status = delivery.status

CampaignInv ==
  /\ CampaignTypeOK /\ RightFirst /\ AttemptsArePaid
  /\ ReportsTrue /\ LastReportKept /\ RecipientTrue

LEMMA CampaignConstants ==
  /\ RetryLimit \in Nat /\ RetryLimit > 0 /\ MaxFaults \in Nat
  /\ \A a \in Attempts : a \in Nat /\ a > 0
BY CampaignsAssumption DEF CampaignsAssumption, Attempts

USE DEF consumed

\* The types of the records, field by field.
LEMMA CampaignTypes ==
  ASSUME CampaignTypeOK
  PROVE  /\ delivery.attempts \in Nat /\ recipient.attempts \in Nat /\ faults \in Nat
         /\ delivery.attempts # 0 => delivery.attempts \in Attempts
         /\ delivery.status \in {"NONE", "PENDING", "PROCESSING"} \cup Outcomes
         /\ delivery.leased \in BOOLEAN /\ delivery.waiting \in BOOLEAN /\ delivery.email \in BOOLEAN
         /\ recipient.status \in {"NONE", "PENDING"} \cup Outcomes
         /\ faults <= MaxFaults
BY CampaignConstants DEF CampaignTypeOK, Attempts

\* A row of the outbox is told from the absence of one by its id.
LEMMA RowExists ==
  ASSUME NEW row \in Row
  PROVE  row # NoReport /\ row.id \in Attempts /\ row.report \in Report
BY CampaignConstants DEF Row, NoReport

\* What a report says stays true while the delivery's attempt and status stay.
LEMMA ReportTrueKept ==
  ASSUME delivery'.attempts = delivery.attempts, delivery'.status = delivery.status
  PROVE  /\ \A m : ReportTrue(m) <=> ReportTrue(m)'
         /\ Done' <=> Done
BY DEF ReportTrue, Done

\* Steps that leave Notification and the reports alone.
LEMMA CrmSideStep ==
  ASSUME CampaignInv, CampaignTypeOK', RightFirst',
         UNCHANGED <<deliveryVars, reportVars, applied, dead>>, faults' >= faults,
         recipient'.attempts = recipient.attempts,
         \/ recipient'.status = recipient.status
         \/ recipient.status \in {"NONE", "PENDING"} /\ recipient'.status \in {"PENDING", "UNDELIVERABLE"}
  PROVE  CampaignInv'
<1>1. UNCHANGED <<delivery, sender, mailed, reportRow, publisher, reports, applied, dead>>
  BY DEF deliveryVars, reportVars
<1>2. CampaignTypeOK /\ faults \in Nat /\ faults' \in Nat /\ delivery.attempts \in Nat
  BY CampaignTypes DEF CampaignInv, CampaignTypeOK
<1>3. AttemptsArePaid'
  BY <1>1, <1>2, CampaignConstants DEF CampaignInv, AttemptsArePaid
<1>4. ReportsTrue' /\ LastReportKept'
  BY <1>1 DEF CampaignInv, ReportsTrue, LastReportKept, ReportTrue, RowTrue
<1>5. RecipientTrue'
  <2>1. Done => delivery.status \in Outcomes
    BY DEF Done, Outcomes
  <2> QED BY <1>1, <2>1 DEF CampaignInv, RecipientTrue, Outcomes, Done
<1> QED BY <1>3, <1>4, <1>5 DEF CampaignInv

LEMMA GiveUpTypes ==
  ASSUME CampaignTypeOK, GiveUp
  PROVE  /\ recipient' \in [status : {"NONE", "PENDING"} \cup Outcomes, attempts : Attempts \cup {0}]
         /\ recipient'.attempts = recipient.attempts
         /\ \/ recipient'.status = recipient.status
            \/ recipient.status = "PENDING" /\ recipient'.status = "UNDELIVERABLE"
BY DEF CampaignTypeOK, GiveUp, Outcomes

LEMMA FaultCounted ==
  ASSUME CampaignTypeOK, faults' = faults \/ Fault
  PROVE  faults' \in 0..MaxFaults /\ faults' \in Nat /\ faults' >= faults
         /\ (Fault => faults' = faults + 1)
BY CampaignConstants DEF CampaignTypeOK, Fault

LEMMA CustomerStep ==
  ASSUME CampaignInv, Buys \/ Expires
  PROVE  CampaignInv'
<1>1. /\ UNCHANGED <<deliveryVars, reportVars, applied, dead, crmVars, asked, faults>>
      /\ bought' \in BOOLEAN /\ expired' \in BOOLEAN
  BY DEF Buys, Expires, CampaignInv, CampaignTypeOK
<1>2. CampaignTypeOK' /\ RightFirst'
  BY <1>1 DEF CampaignInv, CampaignTypeOK, RightFirst, crmVars, deliveryVars, reportVars
<1>3. faults' >= faults /\ recipient' = recipient
  BY <1>1, CampaignTypes DEF CampaignInv, crmVars
<1> QED BY <1>1, <1>2, <1>3, CrmSideStep

LEMMA CreateCampaignStep ==
  ASSUME CampaignInv, CreateCampaign
  PROVE  CampaignInv'
<1>1. /\ recipient' = [recipient EXCEPT !.status = "PENDING"] /\ recipient.status = "NONE"
      /\ request' = [request EXCEPT !.published = FALSE]
      /\ UNCHANGED <<environment, flush, right, asked, deliveryVars, reportVars, applied, dead, faults>>
  BY DEF CreateCampaign
<1>2. CampaignTypeOK' /\ RightFirst'
  <2>1. /\ recipient' \in [status : {"NONE", "PENDING"} \cup Outcomes, attempts : Attempts \cup {0}]
        /\ request' \in [published : BOOLEAN, leased : BOOLEAN, waiting : BOOLEAN]
    BY <1>1 DEF CampaignInv, CampaignTypeOK
  <2> QED BY <1>1, <2>1 DEF CampaignInv, CampaignTypeOK, RightFirst, environment, deliveryVars,
                            reportVars
<1>3. /\ faults' >= faults /\ recipient'.attempts = recipient.attempts
      /\ recipient'.status = "PENDING"
  BY <1>1, CampaignTypes DEF CampaignInv, CampaignTypeOK
<1> QED BY <1>1, <1>2, <1>3, CrmSideStep

\* The steps of the campaign outbox.
LEMMA FlushStep ==
  ASSUME CampaignInv, Flush \/ IssueRightFails \/ FlushFails \/ CrmCrashes
  PROVE  CampaignInv'
<1>1. /\ UNCHANGED <<environment, deliveryVars, reportVars, applied, dead>>
      /\ faults' \in 0..MaxFaults /\ faults' >= faults
  <2>1. UNCHANGED <<environment, deliveryVars, reportVars, applied, dead>>
    BY DEF Flush, ClaimPending, RequestAvailable, Eligible, IssueRight, Publish, MarkPublished,
           Reschedule, IssueRightFails, FlushFails, CrmCrashes
  <2>2. faults' = faults \/ Fault
    BY DEF Flush, ClaimPending, RequestAvailable, Eligible, IssueRight, Publish, MarkPublished,
           Reschedule, IssueRightFails, FlushFails, CrmCrashes
  <2> QED BY <2>1, <2>2, FaultCounted DEF CampaignInv
<1>2. recipient' = recipient \/ GiveUp
  BY DEF Flush, ClaimPending, RequestAvailable, Eligible, IssueRight, Publish, MarkPublished,
         Reschedule, IssueRightFails, FlushFails, CrmCrashes
<1>3. request' \in [published : BOOLEAN, leased : BOOLEAN, waiting : BOOLEAN]
  BY DEF Flush, ClaimPending, RequestAvailable, Eligible, IssueRight, Publish, MarkPublished,
         Reschedule, IssueRightFails, FlushFails, CrmCrashes, CampaignInv, CampaignTypeOK
<1>4. /\ flush' \in {"idle", "eligible", "right", "publish", "mark", "reschedule"}
      /\ right' \in {right, TRUE} /\ asked' \in {asked, "published"}
      /\ flush' = "publish" => right'
      /\ asked' # asked => flush = "publish" /\ asked = "no"
  BY DEF Flush, ClaimPending, RequestAvailable, Eligible, IssueRight, Publish, MarkPublished,
         Reschedule, IssueRightFails, FlushFails, CrmCrashes, Published, AfterTimeout
<1>5. CampaignTypeOK'
  <2>1. recipient' \in [status : {"NONE", "PENDING"} \cup Outcomes, attempts : Attempts \cup {0}]
    BY <1>2, GiveUpTypes DEF CampaignInv, CampaignTypeOK
  <2>2. UNCHANGED <<bought, expired, delivery, sender, mailed, reportRow, publisher, reports, applied, dead>>
    BY <1>1 DEF environment, deliveryVars, reportVars
  <2>3. right' \in BOOLEAN /\ asked' \in {"no", "published", "received"}
    BY <1>4 DEF CampaignInv, CampaignTypeOK
  <2> QED BY <1>1, <1>3, <1>4, <2>1, <2>2, <2>3 DEF CampaignInv, CampaignTypeOK
<1>6. RightFirst'
  <2>1. delivery' = delivery /\ mailed' = mailed /\ sender' = sender
    BY <1>1 DEF deliveryVars
  <2>2. right => right'
    BY <1>4
  <2> QED BY <1>4, <2>1, <2>2 DEF CampaignInv, RightFirst
<1>7. /\ recipient'.attempts = recipient.attempts
      /\ \/ recipient'.status = recipient.status
         \/ recipient.status = "PENDING" /\ recipient'.status = "UNDELIVERABLE"
  BY <1>2, GiveUpTypes DEF CampaignInv
<1> QED BY <1>1, <1>5, <1>6, <1>7, CrmSideStep

\* A new record of the delivery.
DeliveryRecord ==
  [status : {"NONE", "PENDING", "PROCESSING"} \cup Outcomes,
   attempts : Attempts \cup {0}, leased : BOOLEAN, waiting : BOOLEAN, email : BOOLEAN]
SenderStep == {"none", "contact", "send"} \cup Outcomes

\* Steps of Notification that leave the status and the number of the attempt.
LEMMA AttemptStep ==
  ASSUME CampaignInv, UNCHANGED <<environment, crmVars, asked, reportRow, reports, applied, dead>>,
         publisher' = publisher \/ publisher' = NoReport,
         delivery' \in DeliveryRecord, sender' \in [Attempts -> SenderStep], mailed' \subseteq Attempts,
         faults' = faults \/ Fault,
         delivery'.attempts = delivery.attempts, delivery'.status = delivery.status,
         RightFirst', AttemptsArePaid'
  PROVE  CampaignInv'
<1>1. UNCHANGED <<bought, expired, recipient, request, flush, right>>
  BY DEF environment, crmVars
<1>2. CampaignTypeOK'
  <2>1. publisher' \in Row \cup {NoReport} /\ faults' \in 0..MaxFaults
    BY FaultCounted DEF CampaignInv, CampaignTypeOK
  <2> QED BY <1>1, <2>1 DEF CampaignInv, CampaignTypeOK, DeliveryRecord, SenderStep
<1>4. ReportsTrue'
  BY ReportTrueKept DEF CampaignInv, ReportsTrue, RowTrue
<1>5. LastReportKept'
  BY DEF CampaignInv, LastReportKept
<1>6. RecipientTrue'
  BY <1>1, ReportTrueKept DEF CampaignInv, RecipientTrue
<1> QED BY <1>2, <1>4, <1>5, <1>6 DEF CampaignInv

\* Notification receives the request: there is no attempt, and no report, yet.
LEMMA ReceiveStep ==
  ASSUME CampaignInv, Receive
  PROVE  CampaignInv'
<1>1. /\ asked = "published" /\ asked' = "received"
      /\ delivery' = [delivery EXCEPT !.status = "PENDING"]
      /\ dead' = [dead EXCEPT !.request = FALSE]
      /\ UNCHANGED <<environment, crmVars, sender, mailed, reportVars, applied, faults>>
  BY DEF Receive
<1>2. UNCHANGED <<bought, expired, recipient, request, flush, right, reportRow, publisher, reports>>
  BY <1>1 DEF environment, crmVars, reportVars
<1>3. /\ delivery' \in DeliveryRecord
      /\ delivery'.status = "PENDING" /\ delivery'.attempts = delivery.attempts
  BY <1>1 DEF CampaignInv, CampaignTypeOK, DeliveryRecord
<1>4. CampaignTypeOK'
  <2>1. dead' \in [request : BOOLEAN, reports : SUBSET Attempts]
    BY <1>1 DEF CampaignInv, CampaignTypeOK
  <2> QED BY <1>1, <1>2, <1>3, <2>1 DEF CampaignInv, CampaignTypeOK, DeliveryRecord
<1>5. delivery.status = "NONE" /\ delivery.attempts = 0
  BY <1>1 DEF CampaignInv, RightFirst, AttemptsArePaid
<1>6. RightFirst'
  BY <1>1, <1>2 DEF CampaignInv, RightFirst
<1>7. AttemptsArePaid'
  BY <1>1, <1>3, <1>5, CampaignTypes, CampaignConstants DEF CampaignInv, AttemptsArePaid
<1>8. \A m : ~ReportTrue(m)
  BY <1>5, CampaignConstants DEF ReportTrue, Report
<1>9. ReportsTrue'
  BY <1>1, <1>2, <1>8 DEF CampaignInv, ReportsTrue, RowTrue
<1>10. LastReportKept' /\ RecipientTrue'
  <2>1. applied' = {} /\ delivery'.status \notin Outcomes
    BY <1>1, <1>3, <1>8 DEF CampaignInv, ReportsTrue, Outcomes
  <2>2. recipient.status # "SENT"
    BY <1>5 DEF CampaignInv, RecipientTrue
  <2> QED BY <1>2, <1>3, <2>1, <2>2 DEF CampaignInv, LastReportKept, RecipientTrue
<1> QED BY <1>4, <1>6, <1>7, <1>9, <1>10 DEF CampaignInv

\* A new attempt: what was reported before is about former ones, and no mail was
\* recorded as sent.
LEMMA ClaimDeliveryStep ==
  ASSUME CampaignInv, ClaimDelivery
  PROVE  CampaignInv'
<1> DEFINE a == delivery.attempts + 1
<1>1. /\ delivery' = [delivery EXCEPT !.status = "PROCESSING", !.attempts = a,
                                      !.leased = TRUE, !.waiting = FALSE]
      /\ \E step \in {"send", "contact"} : sender' = [sender EXCEPT ![a] = step]
      /\ UNCHANGED <<environment, crmVars, asked, mailed, reportVars, applied, dead, faults>>
      /\ Claimable
  BY DEF ClaimDelivery, CampaignInv, CampaignTypeOK
<1>2. UNCHANGED <<bought, expired, recipient, request, flush, right, reportRow, publisher, reports>>
  BY <1>1 DEF environment, crmVars, reportVars
<1>3. delivery.status \in {"PENDING", "FAILED", "PROCESSING"} /\ delivery.attempts \in Nat
  BY <1>1, CampaignTypes DEF Claimable, CampaignInv
<1>4. a <= RetryLimit + faults /\ a \in Attempts
  <2>1. faults \in Nat /\ faults <= MaxFaults
    BY CampaignTypes DEF CampaignInv
  <2>2. CASE delivery.status = "PENDING"
    BY <1>3, <2>1, <2>2, CampaignConstants DEF CampaignInv, AttemptsArePaid, Attempts
  <2>3. CASE delivery.status = "FAILED"
    <3>1. delivery.attempts < RetryLimit
      BY <1>1, <2>3 DEF Claimable
    <3> QED BY <1>3, <2>1, <3>1, CampaignConstants DEF Attempts
  <2>4. CASE delivery.status = "PROCESSING"
    <3>1. delivery.attempts < RetryLimit + faults
      BY <1>1, <2>4 DEF Claimable, CampaignInv, AttemptsArePaid
    <3> QED BY <1>3, <2>1, <3>1, CampaignConstants DEF Attempts
  <2> QED BY <1>3, <2>2, <2>3, <2>4
<1>5. /\ delivery' \in DeliveryRecord /\ delivery'.status = "PROCESSING"
      /\ delivery'.attempts = a /\ delivery'.leased
  BY <1>1, <1>4 DEF CampaignInv, CampaignTypeOK, DeliveryRecord
<1>6. sender' \in [Attempts -> SenderStep] /\ sender'[a] \in {"send", "contact"}
  BY <1>1, <1>4 DEF CampaignInv, CampaignTypeOK, SenderStep
<1> HIDE DEF a
<1>7. CampaignTypeOK'
  BY <1>1, <1>2, <1>5, <1>6 DEF CampaignInv, CampaignTypeOK, DeliveryRecord, SenderStep
<1>8. RightFirst'
  BY <1>1, <1>2, <1>3 DEF CampaignInv, RightFirst
<1>9. AttemptsArePaid'
  BY <1>1, <1>4, <1>5, <1>6, CampaignConstants DEF AttemptsArePaid
<1>10. ASSUME NEW m, ReportTrue(m)
       PROVE  ReportTrue(m)' /\ m.attempt < a /\ m.id # a
  <2>1. m.attempt \in Nat /\ m.attempt <= delivery.attempts
    BY <1>10, CampaignConstants DEF ReportTrue, Report
  <2>2. m.outcome # "SENT"
    BY <1>3, <1>10 DEF ReportTrue
  <2>3. m.attempt < a
    BY <1>3, <2>1 DEF a
  <2> QED BY <1>3, <1>5, <1>10, <2>1, <2>2, <2>3 DEF ReportTrue, a
<1>11. ReportsTrue'
  BY <1>1, <1>2, <1>10 DEF CampaignInv, ReportsTrue, RowTrue
<1>12. LastReportKept'
  BY <1>5 DEF LastReportKept, Outcomes
<1>13. RecipientTrue'
  <2>1. a \notin applied
    BY <1>10 DEF CampaignInv, ReportsTrue
  <2>2. recipient.status # "SENT"
    BY <1>3 DEF CampaignInv, RecipientTrue
  <2>3. recipient.attempts <= a
    BY <1>3, CampaignTypes DEF CampaignInv, RecipientTrue, a
  <2> QED BY <1>1, <1>2, <1>5, <2>1, <2>2, <2>3 DEF RecipientTrue
<1> QED BY <1>7, <1>8, <1>9, <1>11, <1>12, <1>13 DEF CampaignInv

LEMMA RetryDueStep ==
  ASSUME CampaignInv, RetryDue
  PROVE  CampaignInv'
<1>1. /\ delivery' = [delivery EXCEPT !.waiting = FALSE]
      /\ UNCHANGED <<environment, crmVars, asked, sender, mailed, reportRow, publisher, reports,
                     applied, dead, faults>>
  BY DEF RetryDue, reportVars
<1>2. /\ delivery' \in DeliveryRecord /\ delivery'.attempts = delivery.attempts
      /\ delivery'.status = delivery.status /\ delivery'.leased = delivery.leased
  BY <1>1 DEF CampaignInv, CampaignTypeOK, DeliveryRecord
<1>3. AttemptsArePaid'
  BY <1>1, <1>2 DEF CampaignInv, AttemptsArePaid
<1>4. sender' \in [Attempts -> SenderStep] /\ mailed' \subseteq Attempts
  BY <1>1 DEF CampaignInv, CampaignTypeOK, SenderStep
<1>5. RightFirst'
  BY <1>1, <1>2 DEF CampaignInv, RightFirst, crmVars
<1> QED BY <1>1, <1>2, <1>3, <1>4, <1>5, AttemptStep

\* A lease that runs out under a worker is a fault; one whose worker is gone was
\* paid for when he went.
LEMMA LeaseEndsStep ==
  ASSUME CampaignInv, LeaseEnds
  PROVE  CampaignInv'
<1>1. /\ delivery' = [delivery EXCEPT !.leased = FALSE]
      /\ delivery.status = "PROCESSING"
      /\ IF sender[delivery.attempts] = "none" THEN faults' = faults ELSE Fault
      /\ UNCHANGED <<environment, crmVars, asked, sender, mailed, reportRow, publisher, reports,
                     applied, dead>>
  BY DEF LeaseEnds, reportVars
<1>2. /\ delivery' \in DeliveryRecord /\ delivery'.attempts = delivery.attempts
      /\ delivery'.status = delivery.status
  BY <1>1 DEF CampaignInv, CampaignTypeOK, DeliveryRecord
<1>3. AttemptsArePaid'
  <2>1. delivery.attempts < RetryLimit + faults'
    <3>1. CASE sender[delivery.attempts] = "none"
      BY <1>1, <3>1 DEF CampaignInv, AttemptsArePaid
    <3>2. CASE sender[delivery.attempts] # "none"
      <4>1. delivery.attempts <= RetryLimit + faults /\ faults' = faults + 1
        BY <1>1, <3>2, FaultCounted, CampaignTypes, CampaignConstants
           DEF CampaignInv, AttemptsArePaid
      <4> QED BY <4>1, CampaignTypes, CampaignConstants DEF CampaignInv
    <3> QED BY <3>1, <3>2
  <2>2. faults' \in Nat /\ delivery.attempts \in Nat
    BY <1>1, FaultCounted, CampaignTypes DEF CampaignInv
  <2> QED BY <1>1, <1>2, <2>1, <2>2, CampaignConstants DEF CampaignInv, AttemptsArePaid
<1>4. sender' \in [Attempts -> SenderStep] /\ mailed' \subseteq Attempts
  BY <1>1 DEF CampaignInv, CampaignTypeOK, SenderStep
<1>5. RightFirst'
  BY <1>1, <1>2 DEF CampaignInv, RightFirst, crmVars
<1> QED BY <1>1, <1>2, <1>3, <1>4, <1>5, AttemptStep

\* An attempt whose worker goes on stays as paid for as it was.
LEMMA WorkerGoesOn ==
  ASSUME CampaignInv, NEW a \in Attempts, NEW step \in SenderStep,
         sender' = [sender EXCEPT ![a] = step],
         sender[a] # "none", step # "none",
         delivery'.attempts = delivery.attempts, delivery'.status = delivery.status,
         delivery'.leased = delivery.leased, faults' = faults
  PROVE  sender' \in [Attempts -> SenderStep] /\ AttemptsArePaid'
<1>1. sender' \in [Attempts -> SenderStep]
  BY DEF CampaignInv, CampaignTypeOK, SenderStep
<1>2. delivery.attempts \in Attempts \/ delivery.status # "PROCESSING"
  BY CampaignTypes DEF CampaignInv, AttemptsArePaid
<1>3. delivery.attempts \in Attempts =>
        (sender'[delivery.attempts] = "none" <=> sender[delivery.attempts] = "none")
  BY DEF CampaignInv, CampaignTypeOK
<1> QED BY <1>1, <1>2, <1>3 DEF CampaignInv, AttemptsArePaid

LEMMA FindContactStep ==
  ASSUME CampaignInv, NEW a \in Attempts, FindContact(a)
  PROVE  CampaignInv'
<1>1. /\ delivery' = [delivery EXCEPT !.email = TRUE] \/ delivery' = delivery
      /\ sender[a] = "contact"
      /\ UNCHANGED <<environment, crmVars, asked, mailed, reportRow, publisher, reports, applied, dead,
                     faults>>
  BY DEF FindContact, reportVars
<1>2. PICK step \in {"send", "UNDELIVERABLE", "FAILED"} : sender' = [sender EXCEPT ![a] = step]
  BY DEF FindContact, SetSender
<1>3. /\ delivery' \in DeliveryRecord /\ delivery'.attempts = delivery.attempts
      /\ delivery'.status = delivery.status /\ delivery'.leased = delivery.leased
  BY <1>1 DEF CampaignInv, CampaignTypeOK, DeliveryRecord
<1>4. step \in SenderStep /\ step # "none"
  BY DEF SenderStep, Outcomes
<1>5. sender' \in [Attempts -> SenderStep] /\ AttemptsArePaid'
  BY <1>1, <1>2, <1>3, <1>4, WorkerGoesOn
<1>6. mailed' \subseteq Attempts
  BY <1>1 DEF CampaignInv, CampaignTypeOK
<1>7. RightFirst'
  BY <1>1, <1>3 DEF CampaignInv, RightFirst, crmVars
<1> QED BY <1>1, <1>3, <1>5, <1>6, <1>7, AttemptStep

LEMMA SendMailStep ==
  ASSUME CampaignInv, NEW a \in Attempts, SendMail(a)
  PROVE  CampaignInv'
<1>1. /\ sender[a] = "send"
      /\ UNCHANGED <<environment, crmVars, asked, delivery, reportRow, publisher, reports, applied, dead,
                     faults>>
      /\ mailed' \in {mailed, mailed \cup {a}}
  BY DEF SendMail, reportVars
<1>2. PICK step \in Outcomes : sender' = [sender EXCEPT ![a] = step]
  BY DEF SendMail, SetSender, Outcomes
<1>3. step \in SenderStep /\ step # "none"
  BY DEF SenderStep, Outcomes
<1>4. sender' \in [Attempts -> SenderStep] /\ AttemptsArePaid'
  BY <1>1, <1>2, <1>3, WorkerGoesOn
<1>5. mailed' \subseteq Attempts /\ delivery' \in DeliveryRecord
  BY <1>1 DEF CampaignInv, CampaignTypeOK, DeliveryRecord
<1>6. RightFirst'
  BY <1>1 DEF CampaignInv, RightFirst, crmVars
<1> QED BY <1>1, <1>4, <1>5, <1>6, AttemptStep

\* The attempt that owns the delivery records its outcome and its report.
LEMMA FinishOwnStep ==
  ASSUME CampaignInv, NEW a \in Attempts, Finish(a), MayFinish(a)
  PROVE  CampaignInv'
<1> DEFINE outcome == sender[a]
           type == TypeOf(outcome)
           again == outcome = "FAILED" /\ a < RetryLimit
           m == [id |-> a, attempt |-> a, outcome |-> outcome, willRetry |-> again]
           row == [id |-> a, published |-> FALSE, report |-> m]
<1>1. /\ outcome \in Outcomes /\ sender' = [sender EXCEPT ![a] = "none"]
      /\ delivery' = [delivery EXCEPT !.status = outcome, !.leased = FALSE, !.waiting = again]
      /\ reportRow' = [reportRow EXCEPT ![type] = row]
      /\ UNCHANGED <<environment, crmVars, asked, mailed, publisher, reports, applied, dead, faults>>
  BY DEF Finish, SetSender, IdOfReport
<1>2. UNCHANGED <<bought, expired, recipient, request, flush, right>>
  BY <1>1 DEF environment, crmVars
<1>3. delivery.status = "PROCESSING" /\ delivery.attempts = a /\ a \in Nat /\ a > 0
  BY CampaignConstants DEF MayFinish
<1>4. type \in Types /\ again \in BOOLEAN
  BY DEF Types, TypeOf
<1>5. m \in Report /\ row \in Row /\ row.id = a /\ row.report = m /\ row.published = FALSE
  BY <1>1, <1>4 DEF Report, Row
<1>6. /\ delivery' \in DeliveryRecord /\ delivery'.status = outcome
      /\ delivery'.attempts = a
  BY <1>1, <1>3, <1>4 DEF CampaignInv, CampaignTypeOK, DeliveryRecord
<1>7. m.id = a /\ m.attempt = a /\ m.outcome = outcome /\ m.willRetry = again
  OBVIOUS
<1> HIDE DEF outcome, type, again, m, row
<1>a. PICK n0 \in Report, row0 \in Row :
        /\ n0.id = a /\ n0.attempt = a /\ n0.outcome = outcome /\ n0.willRetry = again
        /\ row0 = row /\ row0.id = a /\ row0.report = n0 /\ row0.published = FALSE
  BY <1>5, <1>7
<1>8. CampaignTypeOK'
  <2>1. sender' \in [Attempts -> SenderStep]
    BY <1>1 DEF CampaignInv, CampaignTypeOK, SenderStep
  <2>2. reportRow' \in [Types -> Row \cup {NoReport}]
    BY <1>1, <1>4, <1>5 DEF CampaignInv, CampaignTypeOK
  <2> QED BY <1>1, <1>2, <1>6, <2>1, <2>2 DEF CampaignInv, CampaignTypeOK, DeliveryRecord, SenderStep
<1>9. RightFirst'
  <2>1. asked = "received"
    BY <1>3 DEF CampaignInv, RightFirst
  <2> QED BY <1>1, <1>2, <2>1 DEF CampaignInv, RightFirst
<1>10. AttemptsArePaid'
  <2>1. faults \in Nat /\ delivery.attempts <= RetryLimit + faults
    BY <1>3, CampaignTypes, CampaignConstants DEF CampaignInv, AttemptsArePaid
  <2> QED BY <1>1, <1>3, <1>6, <2>1 DEF AttemptsArePaid, Outcomes
<1>11. ASSUME NEW n, ReportTrue(n)
       PROVE  ReportTrue(n)' /\ n.id # a
  <2>1. n.attempt # a /\ n.outcome # "SENT"
    BY <1>3, <1>11 DEF ReportTrue, Report, Outcomes
  <2> QED BY <1>3, <1>6, <1>11, <2>1 DEF ReportTrue
<1>12. ReportTrue(n0)'
  BY <1>a, <1>3, <1>6 DEF ReportTrue, again
<1>13. ReportsTrue'
  <2>1. ASSUME NEW t \in Types
        PROVE  \E r : r = reportRow'[t] /\ RowTrue(r)'
    <3>1. CASE t = type
      <4>1. reportRow'[t] = row0
        BY <1>a, <1>1, <1>4, <3>1 DEF CampaignInv, CampaignTypeOK
      <4>2. RowTrue(row0)'
        BY <1>a, <1>12 DEF RowTrue
      <4> QED BY <4>1, <4>2
    <3>2. CASE t # type
      <4>1. PICK r : r = reportRow[t] /\ reportRow'[t] = r
        BY <1>1, <3>2 DEF CampaignInv, CampaignTypeOK
      <4>2. RowTrue(r)'
        BY <1>11, <4>1 DEF CampaignInv, ReportsTrue, RowTrue
      <4> QED BY <4>1, <4>2
    <3> QED BY <3>1, <3>2
  <2> QED BY <1>1, <1>11, <2>1 DEF CampaignInv, ReportsTrue, RowTrue
<1>14. LastReportKept'
  <2>1. reportRow'[TypeOf(delivery'.status)] = row
    BY <1>1, <1>4, <1>6 DEF CampaignInv, CampaignTypeOK, type
  <2> QED BY <1>5, <1>6, <2>1, RowExists DEF LastReportKept
<1>15. RecipientTrue'
  <2>1. a \notin applied
    BY <1>11 DEF CampaignInv, ReportsTrue
  <2>2. recipient.status # "SENT" /\ recipient.attempts <= a
    BY <1>3 DEF CampaignInv, RecipientTrue
  <2> QED BY <1>1, <1>2, <1>6, <2>1, <2>2 DEF RecipientTrue
<1> QED BY <1>8, <1>9, <1>10, <1>13, <1>14, <1>15 DEF CampaignInv

\* An attempt that no longer owns the delivery leaves it alone.
LEMMA FinishOtherStep ==
  ASSUME CampaignInv, NEW a \in Attempts, Finish(a), ~MayFinish(a)
  PROVE  CampaignInv'
<1>1. /\ sender[a] \in Outcomes /\ sender' = [sender EXCEPT ![a] = "none"]
      /\ UNCHANGED <<environment, crmVars, asked, delivery, mailed, reportRow, publisher, reports,
                     applied, dead, faults>>
  BY DEF Finish, SetSender
<1>2. sender' \in [Attempts -> SenderStep]
  BY <1>1 DEF CampaignInv, CampaignTypeOK, SenderStep
<1>3. AttemptsArePaid'
  <2>1. delivery.status = "PROCESSING" => sender'[delivery.attempts] = sender[delivery.attempts]
    BY <1>1 DEF MayFinish, CampaignInv, CampaignTypeOK
  <2> QED BY <1>1, <2>1 DEF CampaignInv, AttemptsArePaid
<1>4. RightFirst'
  BY <1>1 DEF CampaignInv, RightFirst, crmVars, Outcomes
<1>5. mailed' \subseteq Attempts /\ delivery' \in DeliveryRecord
  BY <1>1 DEF CampaignInv, CampaignTypeOK, DeliveryRecord
<1> QED BY <1>1, <1>2, <1>3, <1>4, <1>5, AttemptStep

\* An attempt that ends without recording its outcome is a fault.
LEMMA AttemptLost ==
  ASSUME CampaignInv, delivery' = delivery, Fault
  PROVE  AttemptsArePaid'
<1>1. faults' = faults + 1 /\ faults \in Nat /\ delivery.attempts \in Nat
  BY FaultCounted, CampaignTypes DEF CampaignInv
<1>2. delivery.attempts <= RetryLimit + faults
  BY <1>1, CampaignConstants DEF CampaignInv, AttemptsArePaid
<1> QED BY <1>1, <1>2, CampaignConstants DEF CampaignInv, AttemptsArePaid

LEMMA FinishFailsStep ==
  ASSUME CampaignInv, NEW a \in Attempts, FinishFails(a)
  PROVE  CampaignInv'
<1>1. /\ sender[a] \in Outcomes /\ Fault
      /\ UNCHANGED <<environment, crmVars, asked, delivery, mailed, reportRow, publisher, reports,
                     applied, dead>>
  BY DEF FinishFails, reportVars
<1>2. PICK step \in {"none", "FAILED"} : sender' = [sender EXCEPT ![a] = step]
  BY DEF FinishFails, SetSender
<1>3. sender' \in [Attempts -> SenderStep]
  BY <1>2 DEF CampaignInv, CampaignTypeOK, SenderStep, Outcomes
<1>4. AttemptsArePaid'
  BY <1>1, AttemptLost
<1>5. RightFirst'
  BY <1>1 DEF CampaignInv, RightFirst, crmVars, Outcomes
<1>6. mailed' \subseteq Attempts /\ delivery' \in DeliveryRecord
  BY <1>1 DEF CampaignInv, CampaignTypeOK, DeliveryRecord
<1> QED BY <1>1, <1>3, <1>4, <1>5, <1>6, AttemptStep

LEMMA NotificationCrashesStep ==
  ASSUME CampaignInv, NotificationCrashes
  PROVE  CampaignInv'
<1>1. /\ Fault /\ sender' = [a \in Attempts |-> "none"] /\ publisher' = NoReport
      /\ UNCHANGED <<environment, crmVars, asked, delivery, mailed, reportRow, reports, applied, dead>>
  BY DEF NotificationCrashes
<1>2. sender' \in [Attempts -> SenderStep]
  BY <1>1 DEF SenderStep
<1>3. AttemptsArePaid'
  BY <1>1, AttemptLost
<1>4. RightFirst'
  BY <1>1 DEF CampaignInv, RightFirst, crmVars
<1>5. mailed' \subseteq Attempts /\ delivery' \in DeliveryRecord
  BY <1>1 DEF CampaignInv, CampaignTypeOK, DeliveryRecord
<1> QED BY <1>1, <1>2, <1>3, <1>4, <1>5, AttemptStep

\* Steps of the reports: the delivery stays, and reports only get more.
LEMMA ReportSideStep ==
  ASSUME CampaignInv, CampaignTypeOK',
         UNCHANGED <<environment, request, flush, right, asked, deliveryVars, faults>>,
         ReportsTrue', LastReportKept', RecipientTrue'
  PROVE  CampaignInv'
<1>1. UNCHANGED <<right, flush, asked, delivery, sender, mailed, faults>>
  BY DEF deliveryVars
<1>2. RightFirst' /\ AttemptsArePaid'
  BY <1>1 DEF CampaignInv, RightFirst, AttemptsArePaid
<1> QED BY <1>2 DEF CampaignInv

\* The last attempt has one report.
LEMMA SameReport ==
  ASSUME NEW m, NEW n, ReportTrue(m), ReportTrue(n),
         m.id = delivery.attempts, n.id = delivery.attempts
  PROVE  m = n
<1>1. /\ m.attempt = n.attempt /\ m.outcome = n.outcome /\ m.id = n.id
      /\ m.willRetry = (m.outcome = "FAILED" /\ m.attempt < RetryLimit)
      /\ n.willRetry = (n.outcome = "FAILED" /\ n.attempt < RetryLimit)
  BY DEF ReportTrue
<1>2. m.willRetry = n.willRetry
  BY <1>1
<1>3. \A x \in Report : x = [id |-> x.id, attempt |-> x.attempt, outcome |-> x.outcome,
                            willRetry |-> x.willRetry]
  BY DEF Report
<1>4. m \in Report /\ n \in Report
  BY DEF ReportTrue
<1> QED BY <1>1, <1>2, <1>3, <1>4

LEMMA ClaimReportStep ==
  ASSUME CampaignInv, NEW t \in Types, ClaimReport(t)
  PROVE  CampaignInv'
<1>1. /\ publisher' = reportRow[t]
      /\ UNCHANGED <<environment, crmVars, asked, deliveryVars, reportRow, reports, applied, dead, faults>>
  BY DEF ClaimReport
<1>2. UNCHANGED <<bought, expired, recipient, request, flush, right, delivery, sender, mailed>>
  BY <1>1 DEF environment, crmVars, deliveryVars
<1>3. CampaignTypeOK'
  BY <1>1, <1>2 DEF CampaignInv, CampaignTypeOK
<1>4. ReportsTrue' /\ LastReportKept' /\ RecipientTrue'
  BY <1>1, <1>2 DEF CampaignInv, ReportsTrue, LastReportKept, RecipientTrue, RowTrue, ReportTrue, Done
<1> QED BY <1>1, <1>2, <1>3, <1>4, ReportSideStep DEF deliveryVars

LEMMA PublishReportStep ==
  ASSUME CampaignInv, PublishReport
  PROVE  CampaignInv'
<1>1. /\ publisher # NoReport /\ reports' = reports \cup {publisher.report}
      /\ UNCHANGED <<environment, crmVars, asked, deliveryVars, reportRow, publisher, applied, dead, faults>>
  BY DEF PublishReport
<1>2. UNCHANGED <<bought, expired, recipient, request, flush, right, delivery, sender, mailed>>
  BY <1>1 DEF environment, crmVars, deliveryVars
<1>3. CampaignTypeOK'
  <2>1. publisher.report \in Report
    BY <1>1 DEF CampaignInv, CampaignTypeOK, Row
  <2> QED BY <1>1, <1>2, <2>1 DEF CampaignInv, CampaignTypeOK
<1>4. PICK r : r = publisher.report /\ ReportTrue(r)
  BY <1>1 DEF CampaignInv, ReportsTrue, RowTrue
<1>5. \A m : ReportTrue(m) <=> ReportTrue(m)'
  BY <1>2, ReportTrueKept
<1>6. ReportsTrue'
  <2>1. \A m \in reports' : ReportTrue(m)'
    BY <1>1, <1>4, <1>5 DEF CampaignInv, ReportsTrue
  <2> QED BY <1>1, <1>5, <2>1 DEF CampaignInv, ReportsTrue, RowTrue
<1>7. LastReportKept' /\ RecipientTrue'
  BY <1>1, <1>2 DEF CampaignInv, LastReportKept, RecipientTrue, Done
<1> QED BY <1>1, <1>2, <1>3, <1>6, <1>7, ReportSideStep DEF deliveryVars

\* The row that is marked is the one that was published: should a later attempt
\* have rewritten it, its id is another.
LEMMA MarkReportStep ==
  ASSUME CampaignInv, MarkReport
  PROVE  CampaignInv'
<1>1. /\ publisher # NoReport /\ publisher.report \in reports /\ publisher' = NoReport
      /\ reportRow' = [t \in Types |-> IF reportRow[t].id = publisher.id
                         THEN [reportRow[t] EXCEPT !.published = TRUE] ELSE reportRow[t]]
      /\ UNCHANGED <<environment, crmVars, asked, deliveryVars, reports, applied, dead, faults>>
  BY DEF MarkReport
<1>2. UNCHANGED <<bought, expired, recipient, request, flush, right, delivery, sender, mailed>>
  BY <1>1 DEF environment, crmVars, deliveryVars
<1>3. publisher \in Row /\ ReportTrue(publisher.report) /\ publisher.id = publisher.report.id
  BY <1>1 DEF CampaignInv, CampaignTypeOK, ReportsTrue, RowTrue
<1>4. ASSUME NEW t \in Types
      PROVE  \/ reportRow'[t] = reportRow[t]
             \/ /\ reportRow[t] \in Row /\ reportRow[t].id = publisher.id
                /\ reportRow'[t] \in Row /\ reportRow'[t].id = reportRow[t].id
                /\ reportRow'[t].report = reportRow[t].report
  <2>1. reportRow[t] \in Row \/ reportRow[t] = NoReport
    BY DEF CampaignInv, CampaignTypeOK
  <2>2. NoReport.id # publisher.id
    BY <1>3, RowExists, CampaignConstants DEF NoReport
  <2> QED BY <1>1, <2>1, <2>2 DEF Row
<1>5. CampaignTypeOK'
  <2>1. \A t \in Types : reportRow'[t] \in Row \cup {NoReport}
    BY <1>4 DEF CampaignInv, CampaignTypeOK
  <2>2. reportRow' \in [Types -> Row \cup {NoReport}]
    BY <1>1, <2>1
  <2> QED BY <1>1, <1>2, <2>2 DEF CampaignInv, CampaignTypeOK
<1>6. \A m : ReportTrue(m) <=> ReportTrue(m)'
  BY <1>2, ReportTrueKept
<1>7. ReportsTrue'
  <2>1. ASSUME NEW t \in Types
        PROVE  \E r : r = reportRow'[t] /\ RowTrue(r)'
    <3>1. PICK r, old : r = reportRow'[t] /\ old = reportRow[t]
      OBVIOUS
    <3>2. RowTrue(old)
      BY <3>1 DEF CampaignInv, ReportsTrue
    <3>3. CASE r = old
      BY <1>6, <3>1, <3>2, <3>3 DEF RowTrue
    <3>4. CASE r # old
      <4>1. old \in Row /\ r \in Row /\ r.id = old.id /\ r.report = old.report
        BY <1>4, <3>1, <3>4
      <4>2. ReportTrue(old.report) /\ old.id = old.report.id
        BY <3>2, <4>1, RowExists DEF RowTrue
      <4>3. RowTrue(r)'
        BY <1>6, <4>1, <4>2 DEF RowTrue, Row
      <4> QED BY <3>1, <4>3
    <3> QED BY <3>3, <3>4
  <2>2. RowTrue(NoReport)'
    BY DEF RowTrue
  <2> QED BY <1>1, <1>6, <2>1, <2>2 DEF CampaignInv, ReportsTrue, RowTrue
<1>8. LastReportKept'
  <2> SUFFICES ASSUME delivery.status \in Outcomes, NEW t, t = TypeOf(delivery.status)
               PROVE  /\ reportRow'[t] # NoReport /\ reportRow'[t].id = delivery.attempts
                      /\ reportRow'[t].published => reportRow'[t].report \in reports
    BY <1>1, <1>2 DEF LastReportKept
  <2>1. t \in Types
    BY DEF Types, TypeOf
  <2>2. /\ reportRow[t] # NoReport /\ reportRow[t].id = delivery.attempts
        /\ reportRow[t].published => reportRow[t].report \in reports
    BY DEF CampaignInv, LastReportKept
  <2>3. CASE reportRow'[t] = reportRow[t]
    BY <2>2, <2>3
  <2>4. CASE reportRow'[t] # reportRow[t]
    <3>1. /\ reportRow[t].id = publisher.id /\ reportRow'[t] \in Row
          /\ reportRow'[t].id = reportRow[t].id /\ reportRow'[t].report = reportRow[t].report
      BY <1>4, <2>1, <2>4
    <3>2. ReportTrue(reportRow[t].report) /\ reportRow[t].id = reportRow[t].report.id
      BY <2>1, <2>2 DEF CampaignInv, ReportsTrue, RowTrue
    <3>3. reportRow[t].report = publisher.report
      BY <1>3, <2>2, <3>1, <3>2, SameReport
    <3> QED BY <1>1, <2>2, <3>1, <3>3, RowExists
  <2> QED BY <2>3, <2>4
<1>9. RecipientTrue'
  BY <1>1, <1>2, ReportTrueKept DEF CampaignInv, RecipientTrue
<1> QED BY <1>1, <1>2, <1>5, <1>7, <1>8, <1>9, ReportSideStep DEF deliveryVars

\* A report arrives: late, again or out of order.
LEMMA ApplyDeliveryStatusStep ==
  ASSUME CampaignInv, NEW m \in reports, ApplyDeliveryStatus(m)
  PROVE  CampaignInv'
<1>1. /\ m.id \notin applied /\ applied' = applied \cup {m.id}
      /\ recipient' = IF Applies(m) THEN [status |-> StatusOf(m), attempts |-> m.attempt]
                      ELSE recipient
      /\ UNCHANGED <<environment, request, flush, right, asked, deliveryVars, reportVars, faults>>
  BY DEF ApplyDeliveryStatus
<1>2. /\ UNCHANGED <<bought, expired, request, flush, right, delivery, sender, mailed,
                     reportRow, publisher, reports>>
      /\ dead' \in [request : BOOLEAN, reports : SUBSET Attempts]
  BY DEF ApplyDeliveryStatus, environment, deliveryVars, reportVars, CampaignInv, CampaignTypeOK
<1>3. /\ ReportTrue(m) /\ m \in Report /\ m.id = m.attempt /\ m.attempt <= delivery.attempts
      /\ m.id \in Attempts /\ m.attempt \in Nat /\ m.outcome \in Outcomes /\ m.attempt \in Attempts
  BY CampaignConstants DEF CampaignInv, ReportsTrue, ReportTrue, Report
<1>4. delivery.attempts \in Nat /\ recipient.attempts \in Nat
      /\ recipient.attempts <= delivery.attempts
  BY CampaignTypes DEF CampaignInv, RecipientTrue
<1>5. CASE ~Applies(m)
  <2>1. recipient' = recipient
    BY <1>1, <1>5
  <2>2. CampaignTypeOK'
    BY <1>1, <1>2, <1>3, <2>1 DEF CampaignInv, CampaignTypeOK
  <2>3. recipient.status = "SENT" \/ m.attempt < recipient.attempts
    BY <1>3, <1>4, <1>5 DEF Applies
  <2>4. recipient.status = "SENT" =>
          delivery.status = "SENT" /\ recipient.attempts = delivery.attempts
    BY DEF CampaignInv, RecipientTrue
  <2>5. m.attempt < recipient.attempts => m.id # delivery.attempts
    BY <1>3, <1>4
  <2>6. RecipientTrue'
    BY <1>1, <1>2, <1>4, <2>1, <2>3, <2>4, <2>5, ReportTrueKept DEF CampaignInv, RecipientTrue
  <2>7. ReportsTrue' /\ LastReportKept'
    BY <1>1, <1>2 DEF CampaignInv, ReportsTrue, LastReportKept, RowTrue, ReportTrue
  <2> QED BY <1>1, <2>2, <2>6, <2>7, ReportSideStep
<1>6. CASE Applies(m)
  <2>1. /\ recipient'.status = StatusOf(m) /\ recipient'.attempts = m.attempt
        /\ recipient' \in [status : {"NONE", "PENDING"} \cup Outcomes, attempts : Attempts \cup {0}]
    BY <1>1, <1>3, <1>6 DEF StatusOf
  <2>2. CampaignTypeOK'
    BY <1>1, <1>2, <1>3, <2>1 DEF CampaignInv, CampaignTypeOK
  <2>3. recipient.status # "SENT" /\ recipient.attempts <= m.attempt
    BY <1>6 DEF Applies
  <2>4. recipient'.status = "SENT" => delivery.status = "SENT" /\ m.attempt = delivery.attempts
    BY <1>3, <2>1 DEF StatusOf, ReportTrue
  <2>5. ASSUME m.attempt = delivery.attempts, Done
        PROVE  recipient'.status = delivery.status
    <3>1. m.outcome = delivery.status
      BY <1>3, <2>5 DEF ReportTrue
    <3>2. ~m.willRetry
      <4>1. ~(m.outcome = "FAILED" /\ m.attempt < RetryLimit)
        BY <1>3, <1>4, <2>5, <3>1, CampaignConstants DEF Done
      <4> QED BY <1>3, <4>1 DEF ReportTrue
    <3> QED BY <2>1, <3>1, <3>2 DEF StatusOf
  <2>6. delivery.attempts \in applied => m.attempt = delivery.attempts
    BY <1>3, <1>4, <2>3 DEF CampaignInv, RecipientTrue
  <2>7. RecipientTrue'
    <3>1. Done' <=> Done
      BY <1>2, ReportTrueKept
    <3> QED BY <1>1, <1>2, <1>3, <2>1, <2>4, <2>5, <2>6, <3>1 DEF RecipientTrue
  <2>8. ReportsTrue' /\ LastReportKept'
    BY <1>1, <1>2 DEF CampaignInv, ReportsTrue, LastReportKept, RowTrue, ReportTrue
  <2> QED BY <1>1, <2>2, <2>7, <2>8, ReportSideStep
<1> QED BY <1>5, <1>6

\* A consumer gives a message up: nothing else changes.
LEMMA BuryStep ==
  ASSUME CampaignInv, BuryRequest \/ \E m \in reports : BuryReport(m)
  PROVE  CampaignInv'
<1>1. UNCHANGED <<environment, crmVars, asked, deliveryVars, reportVars, applied, faults>>
  BY DEF BuryRequest, BuryReport
<1>2. dead' \in [request : BOOLEAN, reports : SUBSET Attempts]
  <2>1. \A m \in reports : m.id \in Attempts
    BY DEF CampaignInv, CampaignTypeOK, Report
  <2>2. dead \in [request : BOOLEAN, reports : SUBSET Attempts]
    BY DEF CampaignInv, CampaignTypeOK
  <2>3. ASSUME NEW n \in Attempts
        PROVE  [dead EXCEPT !.reports = @ \cup {n}] \in [request : BOOLEAN, reports : SUBSET Attempts]
    BY <2>2
  <2>4. CASE BuryRequest
    BY <2>2, <2>4 DEF BuryRequest
  <2>5. CASE \E m \in reports : BuryReport(m)
    BY <2>1, <2>3, <2>5 DEF BuryReport
  <2> QED BY <2>4, <2>5
<1>3. UNCHANGED <<bought, expired, recipient, request, flush, right, delivery, sender, mailed,
                  reportRow, publisher, reports>>
  BY <1>1 DEF environment, crmVars, deliveryVars, reportVars
<1>4. CampaignTypeOK'
  BY <1>1, <1>2, <1>3 DEF CampaignInv, CampaignTypeOK
<1>5. ReportsTrue' /\ LastReportKept' /\ RecipientTrue'
  BY <1>1, <1>3 DEF CampaignInv, ReportsTrue, LastReportKept, RecipientTrue, RowTrue, ReportTrue, Done
<1> QED BY <1>1, <1>3, <1>4, <1>5, ReportSideStep

LEMMA CampaignStep ==
  ASSUME CampaignInv, [CampaignNext]_campaignVars
  PROVE  CampaignInv'
<1>1. CASE Buys \/ Expires \/ CreateCampaign
  BY <1>1, CustomerStep, CreateCampaignStep
<1>2. CASE Flush \/ IssueRightFails \/ FlushFails \/ CrmCrashes
  BY <1>2, FlushStep
<1>3. CASE Deliver
  BY <1>3, ClaimDeliveryStep, RetryDueStep, LeaseEndsStep, FindContactStep,
     SendMailStep, FinishOwnStep, FinishOtherStep DEF Deliver
<1>4. CASE Publication
  BY <1>4, ClaimReportStep, PublishReportStep, MarkReportStep DEF Publication
<1>5. CASE NotificationCrashes \/ \E a \in Attempts : FinishFails(a)
  BY <1>5, NotificationCrashesStep, FinishFailsStep
<1>6. CASE Consumption
  BY <1>6, ReceiveStep, ApplyDeliveryStatusStep, BuryStep DEF Consumption
<1>7. CASE UNCHANGED campaignVars
  BY <1>7 DEF campaignVars, environment, crmVars, deliveryVars, reportVars, CampaignInv,
              CampaignTypeOK, RightFirst, AttemptsArePaid, ReportsTrue, ReportTrue, RowTrue,
              LastReportKept, RecipientTrue, Done
<1> QED BY <1>1, <1>2, <1>3, <1>4, <1>5, <1>6, <1>7 DEF CampaignNext, Faults

LEMMA CampaignStarts ==
  ASSUME CampaignInit
  PROVE  CampaignInv
<1>1. CampaignTypeOK
  <2>1. /\ recipient \in [status : {"NONE", "PENDING"} \cup Outcomes, attempts : Attempts \cup {0}]
        /\ request \in [published : BOOLEAN, leased : BOOLEAN, waiting : BOOLEAN]
        /\ delivery \in [status : {"NONE", "PENDING", "PROCESSING"} \cup Outcomes,
                         attempts : Attempts \cup {0}, leased : BOOLEAN, waiting : BOOLEAN,
                         email : BOOLEAN]
    BY DEF CampaignInit
  <2>2. /\ sender \in [Attempts -> {"none", "contact", "send"} \cup Outcomes]
        /\ reportRow \in [Types -> Row \cup {NoReport}] /\ publisher \in Row \cup {NoReport}
    BY DEF CampaignInit
  <2>3. faults \in 0..MaxFaults
    BY CampaignConstants DEF CampaignInit
  <2> QED BY <2>1, <2>2, <2>3 DEF CampaignInit, CampaignTypeOK
<1>2. RightFirst /\ ReportsTrue /\ LastReportKept
  BY DEF CampaignInit, RightFirst, ReportsTrue, RowTrue, LastReportKept, Outcomes, Types
<1>3. AttemptsArePaid /\ RecipientTrue
  BY CampaignConstants DEF CampaignInit, AttemptsArePaid, RecipientTrue
<1> QED BY <1>1, <1>2, <1>3 DEF CampaignInv

\* Types, and what CRM and Notification know of each other, hold in every state.
THEOREM CampaignInvariant == CampaignSpec => []CampaignInv
BY CampaignStarts, CampaignStep, PTL DEF CampaignSpec

\* No mail goes out before Pricing has given the right it speaks of.
THEOREM MailedRightExists == CampaignSpec => []MailCarriesRight
<1>1. CampaignInv => MailCarriesRight
  BY DEF CampaignInv, RightFirst, MailCarriesRight
<1> QED BY <1>1, CampaignInvariant, PTL

\* Reports may come late, again and in any order: once all have come, the
\* campaign shows the outcome that Notification recorded last.
THEOREM CampaignAgreesWithDelivery == CampaignSpec => []ReportsAgree
<1>1. CampaignInv => ReportsAgree
  <2> SUFFICES ASSUME CampaignInv, Done, \A t \in Types : reportRow[t].published,
                      \A m \in reports : m.id \in applied
               PROVE  recipient.status = delivery.status
    BY DEF ReportsAgree
  <2>1. delivery.status \in Outcomes
    BY DEF Done, Outcomes
  <2>2. PICK t \in Types : t = TypeOf(delivery.status)
    BY DEF Types, TypeOf
  <2>3. /\ reportRow[t] # NoReport /\ reportRow[t].id = delivery.attempts
        /\ reportRow[t].report \in reports
    BY <2>1, <2>2 DEF CampaignInv, LastReportKept
  <2>4. reportRow[t].id = reportRow[t].report.id
    BY <2>3 DEF CampaignInv, ReportsTrue, RowTrue
  <2>5. delivery.attempts \in applied
    BY <2>3, <2>4
  <2> QED BY <2>5 DEF CampaignInv, RecipientTrue
<1> QED BY <1>1, CampaignInvariant, PTL

------------------------------------------------------------------------------
\* The status check at the door of a service.

\* Version v of u was the account's version at some moment since t.
CurrentSince(u, v, t) ==
  /\ v <= account[u].version
  /\ v < account[u].version => since[u][v + 1] >= t

\* The versions of an account began in their order.
HistoryOrdered ==
  \A u \in Users :
    /\ \A v \in Versions : since[u][v] <= now
    /\ \A v, w \in Versions : v <= w /\ w <= account[u].version => since[u][v] <= since[u][w]

\* What a service remembers was so when the question about it was put.
CacheTrue ==
  \A u \in Users : cache[u] # None =>
    /\ cache[u].status.active
    /\ cache[u].expiresAt <= now + CacheTtl
    /\ CurrentSince(u, cache[u].status.version, cache[u].expiresAt - CacheTtl)

\* A question is no older than its time-out, its answer no older than the question.
QuestionTrue ==
  \A u \in Users : pending[u] # None =>
    /\ pending[u].startedAt <= now /\ now <= pending[u].startedAt + FetchTimeout
    /\ pending[u].answer # None =>
         /\ CurrentSince(u, pending[u].answer.version, pending[u].startedAt)
         /\ pending[u].answer.version = account[u].version => pending[u].answer = account[u]

\* Who waits has a question to wait for.
WaitersAsk ==
  \A c \in Callers : caller[c].step \in {"waiting", "checking"} =>
    caller[c].claims \in Claims /\ pending[caller[c].claims.user] # None

\* The check that opened a socket, or left it open, is as recent as its timer says.
SocketsChecked ==
  \A s \in Sockets :
    LET k == caller[s].claims IN
    /\ caller[s].step = "open" =>
         /\ k \in Claims
         /\ now <= caller[s].due /\ caller[s].due <= now + PollEvery
         /\ CurrentSince(k.user, k.version, caller[s].due + 1 - (CacheTtl + PollEvery))
    /\ caller[s].step = "checking" =>
         CurrentSince(k.user, k.version, pending[k.user].startedAt + 1 - (CacheTtl + PollEvery))

AccessInv ==
  /\ AccessTypeOK /\ HistoryOrdered /\ CacheTrue
  /\ QuestionTrue /\ WaitersAsk /\ SocketsChecked

\* ok is a decision that the identity of k stood no longer ago than CacheTtl.
RecentlyValid(k) == CurrentSince(k.user, k.version, now + 1 - CacheTtl)

LEMMA AccessConstants ==
  /\ CacheTtl \in Nat /\ CacheTtl > 0 /\ FetchTimeout \in Nat /\ FetchTimeout < CacheTtl
  /\ PollEvery \in Nat /\ PollEvery > 0 /\ MaxTime \in Nat /\ MaxVersion \in Nat
  /\ Expiries \subseteq Nat
BY AccessStatusAssumption DEF AccessStatusAssumption

LEMMA AccessTypes ==
  ASSUME AccessTypeOK
  PROVE  /\ now \in Nat
         /\ \A u \in Users : account[u] \in Status /\ account[u].version \in Nat
         /\ \A u \in Users : \A v \in Versions : since[u][v] \in Nat
         /\ \A u \in Users : cache[u] # None =>
              cache[u].status \in Status /\ cache[u].expiresAt \in Nat
         /\ \A u \in Users : pending[u] # None =>
              /\ pending[u].startedAt \in Nat
              /\ pending[u].answer # None => pending[u].answer \in Status
         /\ \A c \in Callers : caller[c] \in Caller /\ caller[c].due \in Nat
BY AccessConstants DEF AccessTypeOK, Status, Entry, Question, Versions, Caller

\* A question that is put exists.
LEMMA QuestionExists ==
  ASSUME NEW q \in Question
  PROVE  q # None
BY NoneIsAbsence

LEMMA ClaimsTypes ==
  ASSUME NEW k \in Claims
  PROVE  /\ k.user \in Users /\ k.version \in Versions /\ k.version \in Nat
         /\ k.exp \in Expiries /\ k.exp \in Nat
<1>1. k.user \in Users /\ k.version \in Versions /\ k.exp \in Expiries
  BY DEF Claims
<1>2. k.version \in Nat
  BY <1>1 DEF Versions
<1> QED BY <1>1, <1>2, AccessConstants

\* What was current since t was current since any earlier moment.
LEMMA CurrentSinceEarlier ==
  ASSUME AccessTypeOK, NEW u \in Users, NEW v \in Versions, NEW t \in Int, NEW e \in Int, e <= t,
         CurrentSince(u, v, t)
  PROVE  CurrentSince(u, v, e)
<1>1. v < account[u].version => v + 1 \in Versions
  BY AccessTypes, AccessConstants DEF Status, Versions
<1> QED BY <1>1, AccessTypes DEF CurrentSince

\* A change of the account comes after whatever was current before it.
LEMMA CurrentSinceKept ==
  ASSUME AccessTypeOK, NEW w \in Users, SetEmployeeStatus(w),
         NEW u \in Users, NEW v \in Versions, NEW t \in Int, t <= now, CurrentSince(u, v, t)
  PROVE  CurrentSince(u, v, t)'
<1>1. /\ account[w].version < MaxVersion
      /\ account' = [account EXCEPT ![w] = [active |-> ~account[w].active,
                                            version |-> account[w].version + 1]]
      /\ since' = [since EXCEPT ![w][account[w].version + 1] = now]
  BY DEF SetEmployeeStatus, AccessTypeOK
<1>2. /\ account[u].version \in Nat /\ account[w].version \in Nat /\ v \in Nat /\ now \in Nat
      /\ account[w].version + 1 \in Versions
  BY <1>1, AccessTypes, AccessConstants DEF Versions, Status
<1>3. CASE u = w
  <2>1. account'[u].version = account[u].version + 1
    BY <1>1, <1>3 DEF AccessTypeOK
  <2>2. since'[u] = [since[u] EXCEPT ![account[u].version + 1] = now]
    BY <1>1, <1>3 DEF AccessTypeOK
  <2>3. CASE v = account[u].version
    <3>1. since'[u][v + 1] = now
      BY <1>2, <1>3, <2>2, <2>3 DEF AccessTypeOK
    <3> QED BY <1>2, <2>1, <2>3, <3>1 DEF CurrentSince
  <2>4. CASE v # account[u].version
    <3>1. v < account[u].version /\ v + 1 \in Versions /\ since[u][v + 1] >= t
      BY <1>2, <1>3, <2>4, AccessConstants DEF CurrentSince, Versions
    <3>2. since'[u][v + 1] = since[u][v + 1]
      BY <1>2, <2>2, <3>1 DEF AccessTypeOK
    <3> QED BY <1>2, <2>1, <3>1, <3>2 DEF CurrentSince
  <2> QED BY <2>3, <2>4
<1>4. CASE u # w
  <2>1. account'[u] = account[u] /\ since'[u] = since[u]
    BY <1>1, <1>4 DEF AccessTypeOK
  <2> QED BY <2>1 DEF CurrentSince
<1> QED BY <1>3, <1>4

\* A positive decision, by the cache or by an answer, is about a recent past.
LEMMA CacheDecides ==
  ASSUME AccessInv, NEW k \in Claims, Fresh(k.user), Accepts(cache[k.user].status, k)
  PROVE  RecentlyValid(k)
<1>1. /\ k.user \in Users /\ cache[k.user] # None /\ cache[k.user].expiresAt > now
      /\ cache[k.user].status.version = k.version
  BY ClaimsTypes DEF Fresh, Accepts
<1>2. CurrentSince(k.user, k.version, cache[k.user].expiresAt - CacheTtl)
  BY <1>1 DEF AccessInv, CacheTrue
<1>3. now + 1 - CacheTtl <= cache[k.user].expiresAt - CacheTtl
      /\ now + 1 - CacheTtl \in Int /\ cache[k.user].expiresAt - CacheTtl \in Int
  BY <1>1, AccessTypes, AccessConstants DEF AccessInv
<1> QED BY <1>1, <1>2, <1>3, ClaimsTypes, CurrentSinceEarlier DEF AccessInv, RecentlyValid

LEMMA AnswerDecides ==
  ASSUME AccessInv, NEW k \in Claims, pending[k.user] # None, pending[k.user].answer # None,
         Accepts(pending[k.user].answer, k)
  PROVE  RecentlyValid(k)
<1>1. k.user \in Users /\ pending[k.user].answer.version = k.version
  BY ClaimsTypes DEF Accepts
<1>2. /\ CurrentSince(k.user, k.version, pending[k.user].startedAt)
      /\ now <= pending[k.user].startedAt + FetchTimeout
  BY <1>1 DEF AccessInv, QuestionTrue
<1>3. now + 1 - CacheTtl <= pending[k.user].startedAt
      /\ now + 1 - CacheTtl \in Int /\ pending[k.user].startedAt \in Int
  BY <1>1, <1>2, AccessTypes, AccessConstants DEF AccessInv
<1> QED BY <1>1, <1>2, <1>3, ClaimsTypes, CurrentSinceEarlier DEF AccessInv, RecentlyValid

\* What a decision makes of a caller.
LEMMA DecidedTypes ==
  ASSUME AccessTypeOK, NEW c \in Callers, NEW k \in Claims, NEW ok \in BOOLEAN
  PROVE  /\ Decided(c, k, ok) \in Caller
         /\ Decided(c, k, ok).step \notin {"waiting", "checking"}
         /\ c \in Sockets /\ Decided(c, k, ok).step = "open" =>
              ok /\ Decided(c, k, ok) = At("open", k, now + PollEvery)
         /\ c \in Requests => Decided(c, k, ok) = At(IF ok THEN "granted" ELSE "refused", k, 0)
<1>1. now + PollEvery \in 0..MaxTime + PollEvery /\ 0 \in 0..MaxTime + PollEvery
  BY AccessConstants DEF AccessTypeOK
<1>2. CASE c \in Requests
  <2>1. c \notin Sockets
    BY <1>2, AccessStatusAssumption DEF AccessStatusAssumption
  <2>2. Decided(c, k, ok) = At(IF ok THEN "granted" ELSE "refused", k, 0)
    BY <1>2, <2>1 DEF Decided
  <2> QED BY <1>1, <2>1, <2>2 DEF At, Caller
<1>3. CASE c \notin Requests
  <2>1. c \in Sockets
    BY <1>3 DEF Callers
  <2>2. Decided(c, k, ok) = IF ok THEN At("open", k, now + PollEvery) ELSE Closed
    BY <1>3, <2>1 DEF Decided
  <2> QED BY <1>1, <1>3, <2>1, <2>2 DEF At, Caller, Closed
<1> QED BY <1>2, <1>3

\* A socket that is left open was checked at this moment.
LEMMA OpenedSocketChecked ==
  ASSUME AccessInv, NEW k \in Claims, RecentlyValid(k)
  PROVE  /\ now <= now + PollEvery
         /\ CurrentSince(k.user, k.version, (now + PollEvery) + 1 - (CacheTtl + PollEvery))
<1>1. (now + PollEvery) + 1 - (CacheTtl + PollEvery) = now + 1 - CacheTtl
  BY AccessTypes, AccessConstants DEF AccessInv
<1> QED BY <1>1, AccessTypes, AccessConstants DEF AccessInv, RecentlyValid

\* The account changes.
LEMMA AccountStep ==
  ASSUME AccessInv, NEW w \in Users, SetEmployeeStatus(w)
  PROVE  AccessInv'
<1>1. /\ account[w].version < MaxVersion
      /\ account' = [account EXCEPT ![w] = [active |-> ~account[w].active,
                                            version |-> account[w].version + 1]]
      /\ since' = [since EXCEPT ![w][account[w].version + 1] = now]
      /\ UNCHANGED <<now, cache, pending, caller>>
  BY DEF SetEmployeeStatus, AccessInv, AccessTypeOK
<1>2. AccessTypeOK
  BY DEF AccessInv
<1>3. /\ account[w] \in Status /\ account[w].version + 1 \in Versions
      /\ account'[w] = [active |-> ~account[w].active, version |-> account[w].version + 1]
      /\ \A u \in Users \ {w} : account'[u] = account[u] /\ since'[u] = since[u]
      /\ since'[w] = [since[w] EXCEPT ![account[w].version + 1] = now]
  BY <1>1, <1>2, AccessConstants DEF AccessTypeOK, Status, Versions
<1>4. AccessTypeOK'
  <2>1. account' \in [Users -> Status]
    BY <1>1, <1>2, <1>3 DEF AccessTypeOK, Status
  <2>2. since' \in [Users -> [Versions -> 0..MaxTime]]
    BY <1>1, <1>2, <1>3 DEF AccessTypeOK
  <2> QED BY <1>1, <1>2, <2>1, <2>2 DEF AccessTypeOK
<1>5. HistoryOrdered'
  <2> SUFFICES ASSUME NEW u \in Users
               PROVE  /\ \A v \in Versions : since'[u][v] <= now
                      /\ \A v, x \in Versions : v <= x /\ x <= account'[u].version =>
                           since'[u][v] <= since'[u][x]
    BY <1>1 DEF HistoryOrdered
  <2>1. CASE u # w
    BY <1>3, <2>1 DEF AccessInv, HistoryOrdered
  <2>2. CASE u = w
    <3>1. now \in Nat /\ now <= now /\ account[w].version \in Nat
      BY <1>2, AccessTypes
    <3>2. \A v \in Versions : since'[w][v] =
            IF v = account[w].version + 1 THEN now ELSE since[w][v]
      BY <1>2, <1>3 DEF AccessTypeOK
    <3>3. \A v \in Versions : since'[w][v] <= now
      BY <3>1, <3>2 DEF AccessInv, HistoryOrdered
    <3>4. ASSUME NEW v \in Versions, NEW x \in Versions, v <= x, x <= account[w].version + 1
          PROVE  since'[w][v] <= since'[w][x]
      <4>1. v \in Nat /\ x \in Nat
        BY DEF Versions
      <4>2. CASE x = account[w].version + 1
        BY <3>2, <3>3, <4>2
      <4>3. CASE x # account[w].version + 1
        <5>1. x <= account[w].version /\ v # account[w].version + 1
          BY <3>1, <3>4, <4>1, <4>3
        <5> QED BY <3>2, <3>4, <4>3, <5>1 DEF AccessInv, HistoryOrdered
      <4> QED BY <4>2, <4>3
    <3>5. account'[w].version = account[w].version + 1
      BY <1>3
    <3> QED BY <2>2, <3>3, <3>4, <3>5
  <2> QED BY <2>1, <2>2
<1>6. CacheTrue'
  <2> SUFFICES ASSUME NEW u \in Users, cache[u] # None
               PROVE  /\ cache[u].status.active
                      /\ cache[u].expiresAt <= now + CacheTtl
                      /\ CurrentSince(u, cache[u].status.version, cache[u].expiresAt - CacheTtl)'
    BY <1>1 DEF CacheTrue, CurrentSince
  <2>1. /\ cache[u].status.active
        /\ cache[u].expiresAt <= now + CacheTtl
        /\ CurrentSince(u, cache[u].status.version, cache[u].expiresAt - CacheTtl)
    BY DEF AccessInv, CacheTrue
  <2>2. PICK v \in Versions, t \in Int :
          v = cache[u].status.version /\ t = cache[u].expiresAt - CacheTtl /\ t <= now
    BY <1>2, <2>1, AccessTypes, AccessConstants DEF Status
  <2>3. CurrentSince(u, v, t)'
    BY <1>2, <2>1, <2>2, CurrentSinceKept
  <2>4. v' = v /\ t' = t /\ cache' = cache
    BY <1>1
  <2> QED BY <1>1, <2>1, <2>2, <2>3, <2>4 DEF CurrentSince
<1>7. QuestionTrue'
  <2> SUFFICES ASSUME NEW u \in Users, pending[u] # None
               PROVE  /\ pending[u].startedAt <= now
                      /\ now <= pending[u].startedAt + FetchTimeout
                      /\ pending[u].answer # None =>
                           /\ CurrentSince(u, pending[u].answer.version, pending[u].startedAt)'
                           /\ pending[u].answer.version = account'[u].version =>
                                pending[u].answer = account'[u]
    BY <1>1 DEF QuestionTrue, CurrentSince
  <2>1. /\ pending[u].startedAt <= now
        /\ now <= pending[u].startedAt + FetchTimeout
        /\ pending[u].answer # None =>
             /\ CurrentSince(u, pending[u].answer.version, pending[u].startedAt)
             /\ pending[u].answer.version = account[u].version => pending[u].answer = account[u]
    BY DEF AccessInv, QuestionTrue
  <2>2. ASSUME pending[u].answer # None
        PROVE  /\ CurrentSince(u, pending[u].answer.version, pending[u].startedAt)'
               /\ pending[u].answer.version = account'[u].version =>
                    pending[u].answer = account'[u]
    <3>1. PICK v \in Versions, t \in Int :
            v = pending[u].answer.version /\ t = pending[u].startedAt
      BY <1>2, <2>2, AccessTypes DEF Status
    <3>2. CurrentSince(u, v, t)'
      BY <1>2, <2>1, <2>2, <3>1, CurrentSinceKept
    <3>3. v <= account[u].version /\ v \in Nat /\ account[u].version \in Nat
      BY <1>2, <2>1, <2>2, <3>1, AccessTypes DEF CurrentSince, Versions
    <3>4. CASE u = w
      <4>1. account'[u].version = account[u].version + 1
        BY <1>3, <3>4
      <4> QED BY <1>1, <3>1, <3>2, <3>3, <4>1 DEF CurrentSince
    <3>5. CASE u # w
      BY <1>1, <1>3, <2>1, <2>2, <3>1, <3>2, <3>5 DEF CurrentSince
    <3> QED BY <3>4, <3>5
  <2> QED BY <2>1, <2>2
<1>8. WaitersAsk'
  BY <1>1 DEF AccessInv, WaitersAsk
<1>9. SocketsChecked'
  <2> SUFFICES ASSUME NEW s \in Sockets, NEW k, k = caller[s].claims
               PROVE  /\ caller[s].step = "open" =>
                           /\ k \in Claims
                           /\ now <= caller[s].due /\ caller[s].due <= now + PollEvery
                           /\ CurrentSince(k.user, k.version,
                                           caller[s].due + 1 - (CacheTtl + PollEvery))'
                      /\ caller[s].step = "checking" =>
                           CurrentSince(k.user, k.version,
                                        pending[k.user].startedAt + 1 - (CacheTtl + PollEvery))'
    BY <1>1 DEF SocketsChecked, CurrentSince
  <2>a. s \in Callers
    BY DEF Callers
  <2>1. ASSUME caller[s].step = "open"
        PROVE  /\ k \in Claims
               /\ now <= caller[s].due /\ caller[s].due <= now + PollEvery
               /\ CurrentSince(k.user, k.version, caller[s].due + 1 - (CacheTtl + PollEvery))'
    <3>1. /\ k \in Claims
          /\ now <= caller[s].due /\ caller[s].due <= now + PollEvery
          /\ CurrentSince(k.user, k.version, caller[s].due + 1 - (CacheTtl + PollEvery))
      BY <2>1 DEF AccessInv, SocketsChecked
    <3>2. PICK u \in Users, v \in Versions, t \in Int :
            /\ u = k.user /\ v = k.version
            /\ t = caller[s].due + 1 - (CacheTtl + PollEvery) /\ t <= now
      BY <1>2, <2>a, <3>1, ClaimsTypes, AccessTypes, AccessConstants
    <3>3. CurrentSince(u, v, t)'
      BY <1>2, <3>1, <3>2, CurrentSinceKept
    <3> QED BY <1>1, <3>1, <3>2, <3>3 DEF CurrentSince
  <2>2. ASSUME caller[s].step = "checking"
        PROVE  CurrentSince(k.user, k.version,
                            pending[k.user].startedAt + 1 - (CacheTtl + PollEvery))'
    <3>1. k \in Claims /\ pending[k.user] # None
      BY <2>a, <2>2 DEF AccessInv, WaitersAsk
    <3>2. CurrentSince(k.user, k.version, pending[k.user].startedAt + 1 - (CacheTtl + PollEvery))
      BY <2>2 DEF AccessInv, SocketsChecked
    <3>3. k.user \in Users /\ pending[k.user].startedAt <= now
      BY <3>1, ClaimsTypes DEF AccessInv, QuestionTrue
    <3>4. PICK u \in Users, v \in Versions, t \in Int :
            /\ u = k.user /\ v = k.version
            /\ t = pending[k.user].startedAt + 1 - (CacheTtl + PollEvery) /\ t <= now
      BY <1>2, <3>1, <3>3, ClaimsTypes, AccessTypes, AccessConstants
    <3>5. CurrentSince(u, v, t)'
      BY <1>2, <3>2, <3>4, CurrentSinceKept
    <3> QED BY <1>1, <3>4, <3>5 DEF CurrentSince
  <2> QED BY <2>1, <2>2
<1> QED BY <1>4, <1>5, <1>6, <1>7, <1>8, <1>9 DEF AccessInv

\* Whatever a step does to callers, caches and questions while the account stays.
LEMMA SameAccount ==
  ASSUME UNCHANGED <<account, since>>
  PROVE  \A u, v, t : CurrentSince(u, v, t)' <=> CurrentSince(u, v, t)
BY DEF CurrentSince

\* A call of isActive.
LEMMA IsActiveStep ==
  ASSUME AccessInv, NEW c \in Callers, NEW k \in Claims, NEW step \in {"waiting", "checking"},
         IsActive(c, k, step), UNCHANGED <<now, authVars>>,
         c \in Sockets /\ step = "checking" => 
           CurrentSince(k.user, k.version, now + 1 - (CacheTtl + PollEvery))
  PROVE  AccessInv'
<1>1. AccessTypeOK /\ k.user \in Users
  BY ClaimsTypes DEF AccessInv
<1>2. UNCHANGED <<now, account, since>>
  BY DEF authVars
<1>3. CASE IsActiveAtOnce(c, k)
  <2> DEFINE ok == k.exp > now /\ Accepts(cache[k.user].status, k)
  <2>1. /\ ok \in BOOLEAN
        /\ caller' = [caller EXCEPT ![c] = Decided(c, k, ok)]
        /\ UNCHANGED <<cache, pending>>
    BY <1>3 DEF IsActiveAtOnce
  <2>2. ok => RecentlyValid(k)
    <3>1. k.exp \in Nat /\ now \in Nat
      BY <1>1, ClaimsTypes, AccessTypes
    <3> QED BY <1>3, <3>1, CacheDecides DEF IsActiveAtOnce
  <2> HIDE DEF ok
  <2>3. /\ Decided(c, k, ok) \in Caller
        /\ Decided(c, k, ok).step \notin {"waiting", "checking"}
        /\ c \in Sockets /\ Decided(c, k, ok).step = "open" =>
             ok /\ Decided(c, k, ok) = At("open", k, now + PollEvery)
    BY <1>1, <2>1, DecidedTypes
  <2>4. /\ caller'[c] = Decided(c, k, ok)
        /\ \A x \in Callers \ {c} : caller'[x] = caller[x]
        /\ caller' \in [Callers -> Caller]
    BY <1>1, <2>1, <2>3 DEF AccessTypeOK
  <2>5. AccessTypeOK'
    BY <1>1, <1>2, <2>1, <2>4 DEF AccessTypeOK
  <2>6. HistoryOrdered' /\ CacheTrue' /\ QuestionTrue'
    BY <1>2, <2>1 DEF AccessInv, HistoryOrdered, CacheTrue, QuestionTrue, CurrentSince
  <2>7. WaitersAsk'
    BY <2>1, <2>3, <2>4 DEF AccessInv, WaitersAsk
  <2>8. SocketsChecked'
    <3> SUFFICES ASSUME NEW s \in Sockets
                 PROVE  LET j == caller'[s].claims IN
                        /\ caller'[s].step = "open" =>
                             /\ j \in Claims
                             /\ now <= caller'[s].due /\ caller'[s].due <= now + PollEvery
                             /\ CurrentSince(j.user, j.version,
                                             caller'[s].due + 1 - (CacheTtl + PollEvery))
                        /\ caller'[s].step = "checking" =>
                             CurrentSince(j.user, j.version,
                                          pending[j.user].startedAt + 1 - (CacheTtl + PollEvery))
      BY <1>2, <2>1 DEF SocketsChecked, CurrentSince
    <3>1. CASE s # c
      BY <2>4, <3>1 DEF AccessInv, SocketsChecked, Callers
    <3>2. CASE s = c /\ caller'[s].step = "open"
      <4>1. RecentlyValid(k) /\ caller'[s] = At("open", k, now + PollEvery)
        BY <2>2, <2>3, <2>4, <3>2
      <4>2. caller'[s].claims = k /\ caller'[s].due = now + PollEvery
            /\ caller'[s].step # "checking"
        BY <3>2, <4>1 DEF At
      <4>3. now + PollEvery <= now + PollEvery
        BY <1>1, AccessTypes, AccessConstants
      <4> QED BY <4>1, <4>2, <4>3, OpenedSocketChecked
    <3>3. CASE s = c /\ caller'[s].step # "open"
      BY <2>3, <2>4, <3>3
    <3> QED BY <3>1, <3>2, <3>3
  <2> QED BY <2>5, <2>6, <2>7, <2>8 DEF AccessInv
<1>4. CASE IsActiveAwaits(c, k, step)
  <2> DEFINE q == [startedAt |-> now, answer |-> None]
  <2>1. /\ cache' = [cache EXCEPT ![k.user] = None]
        /\ pending' = [pending EXCEPT ![k.user] = IF pending[k.user] = None THEN q
                                                  ELSE pending[k.user]]
        /\ caller' = [caller EXCEPT ![c] = At(step, k, 0)]
    BY <1>1, <1>4 DEF IsActiveAwaits, AccessTypeOK
  <2>2. /\ caller'[c] = At(step, k, 0)
        /\ \A x \in Callers \ {c} : caller'[x] = caller[x]
    BY <1>1, <2>1 DEF AccessTypeOK
  <2>3. /\ \A u \in Users : cache'[u] = cache[u] \/ cache'[u] = None
        /\ pending'[k.user] = IF pending[k.user] = None THEN q ELSE pending[k.user]
        /\ \A u \in Users \ {k.user} : pending'[u] = pending[u]
    BY <1>1, <2>1 DEF AccessTypeOK
  <2>4. AccessTypeOK'
    <3>1. At(step, k, 0) \in Caller
      BY AccessConstants DEF At, Caller
    <3>2. q \in Question
      BY <1>1 DEF AccessTypeOK, Question
    <3> HIDE DEF q
    <3> QED BY <1>1, <1>2, <2>1, <3>1, <3>2 DEF AccessTypeOK
  <2>5. HistoryOrdered' /\ CacheTrue'
    BY <1>2, <2>3 DEF AccessInv, HistoryOrdered, CacheTrue, CurrentSince
  <2>6. QuestionTrue'
    <3> SUFFICES ASSUME NEW u \in Users, pending'[u] # None
                 PROVE  /\ pending'[u].startedAt <= now
                        /\ now <= pending'[u].startedAt + FetchTimeout
                        /\ pending'[u].answer # None =>
                             /\ CurrentSince(u, pending'[u].answer.version, pending'[u].startedAt)
                             /\ pending'[u].answer.version = account[u].version =>
                                  pending'[u].answer = account[u]
      BY <1>2 DEF QuestionTrue, CurrentSince
    <3>1. CASE pending'[u] = pending[u]
      BY <3>1 DEF AccessInv, QuestionTrue
    <3>2. CASE pending'[u] = q
      BY <1>1, <3>2, AccessTypes, AccessConstants
    <3> QED BY <2>3, <3>1, <3>2
  <2>7. pending'[k.user] # None
    <3>1. q \in Question
      BY <1>1 DEF AccessTypeOK, Question
    <3> QED BY <2>3, <3>1, QuestionExists
  <2>8. WaitersAsk'
    <3> SUFFICES ASSUME NEW x \in Callers, caller'[x].step \in {"waiting", "checking"}
                 PROVE  caller'[x].claims \in Claims /\ pending'[caller'[x].claims.user] # None
      BY DEF WaitersAsk
    <3>1. CASE x = c
      BY <2>2, <2>7, <3>1 DEF At
    <3>2. CASE x # c
      <4>1. caller[x].claims \in Claims /\ pending[caller[x].claims.user] # None
            /\ caller'[x] = caller[x]
        BY <2>2, <3>2 DEF AccessInv, WaitersAsk
      <4>2. caller[x].claims.user \in Users
        BY <4>1, ClaimsTypes
      <4> QED BY <2>3, <2>7, <4>1, <4>2
    <3> QED BY <3>1, <3>2
  <2>9. SocketsChecked'
    <3> SUFFICES ASSUME NEW s \in Sockets
                 PROVE  LET j == caller'[s].claims IN
                        /\ caller'[s].step = "open" =>
                             /\ j \in Claims
                             /\ now <= caller'[s].due /\ caller'[s].due <= now + PollEvery
                             /\ CurrentSince(j.user, j.version,
                                             caller'[s].due + 1 - (CacheTtl + PollEvery))
                        /\ caller'[s].step = "checking" =>
                             CurrentSince(j.user, j.version,
                                          pending'[j.user].startedAt + 1 - (CacheTtl + PollEvery))
      BY <1>2 DEF SocketsChecked, CurrentSince
    <3>1. CASE s # c
      <4>1. caller'[s] = caller[s] /\ s \in Callers
        BY <2>2, <3>1 DEF Callers
      <4>2. ASSUME caller[s].step = "checking"
            PROVE  pending'[caller[s].claims.user] = pending[caller[s].claims.user]
        <5>1. caller[s].claims \in Claims /\ pending[caller[s].claims.user] # None
          BY <4>1, <4>2 DEF AccessInv, WaitersAsk
        <5>2. caller[s].claims.user \in Users
          BY <5>1, ClaimsTypes
        <5> QED BY <2>3, <5>1, <5>2
      <4> QED BY <4>1, <4>2 DEF AccessInv, SocketsChecked
    <3>2. CASE s = c /\ step = "checking"
      <4>1. caller'[s].step = "checking" /\ caller'[s].claims = k
        BY <2>2, <3>2 DEF At
      <4>2. CurrentSince(k.user, k.version, now + 1 - (CacheTtl + PollEvery))
        BY <3>2
      <4>3. pending'[k.user].startedAt \in Nat /\ pending'[k.user].startedAt <= now
        BY <1>1, <1>2, <2>4, <2>6, <2>7, AccessTypes DEF AccessTypeOK, Question, QuestionTrue
      <4>4. CurrentSince(k.user, k.version,
                         pending'[k.user].startedAt + 1 - (CacheTtl + PollEvery))
        BY <1>1, <4>2, <4>3, ClaimsTypes, AccessTypes, AccessConstants, CurrentSinceEarlier
      <4> QED BY <4>1, <4>4
    <3>3. CASE s = c /\ step = "waiting"
      BY <2>2, <3>3 DEF At
    <3> QED BY <3>1, <3>2, <3>3
  <2> QED BY <2>4, <2>5, <2>6, <2>8, <2>9 DEF AccessInv
<1> QED BY <1>3, <1>4 DEF IsActive

\* The question about u ends, with an answer or without: those who awaited it go on.
LEMMA DecideAllStep ==
  ASSUME AccessInv, NEW u \in Users, NEW status, DecideAll(u, status),
         pending' = [pending EXCEPT ![u] = None], UNCHANGED <<now, authVars>>,
         \A k \in Claims : k.user = u /\ Accepts(status, k) => RecentlyValid(k),
         cache' \in [Users -> Entry \cup {None}], CacheTrue'
  PROVE  AccessInv'
<1>1. AccessTypeOK
  BY DEF AccessInv
<1>2. UNCHANGED <<now, account, since>>
  BY DEF authVars
<1>3. pending'[u] = None /\ \A w \in Users \ {u} : pending'[w] = pending[w]
  BY <1>1 DEF AccessTypeOK
<1>4. ASSUME NEW c \in Awaiting(u)
      PROVE  /\ c \in Callers /\ caller[c].claims \in Claims /\ caller[c].claims.user = u
             /\ caller'[c] = Decided(c, caller[c].claims, Accepts(status, caller[c].claims))
             /\ caller'[c] \in Caller
             /\ caller'[c].step \notin {"waiting", "checking"}
             /\ c \in Sockets /\ caller'[c].step = "open" =>
                  /\ RecentlyValid(caller[c].claims)
                  /\ caller'[c] = At("open", caller[c].claims, now + PollEvery)
  <2>1. c \in Callers /\ caller[c].claims \in Claims /\ caller[c].claims.user = u
    BY DEF Awaiting, AccessInv, WaitersAsk
  <2>2. caller'[c] = Decided(c, caller[c].claims, Accepts(status, caller[c].claims))
    BY <2>1 DEF DecideAll
  <2>3. Accepts(status, caller[c].claims) \in BOOLEAN
    BY DEF Accepts
  <2>4. PICK ok \in BOOLEAN : ok = Accepts(status, caller[c].claims)
    BY <2>3
  <2>5. ok => RecentlyValid(caller[c].claims)
    BY <2>1, <2>4
  <2>6. caller'[c] = Decided(c, caller[c].claims, ok)
    BY <2>2, <2>4
  <2> QED BY <1>1, <2>1, <2>2, <2>5, <2>6, DecidedTypes
<1>5. \A c \in Callers \ Awaiting(u) : caller'[c] = caller[c]
  BY DEF DecideAll
<1>6. AccessTypeOK'
  <2>1. \A c \in Callers : caller'[c] \in Caller
    BY <1>1, <1>4, <1>5 DEF AccessTypeOK
  <2>2. caller' \in [Callers -> Caller]
    BY <2>1 DEF DecideAll
  <2>3. pending' \in [Users -> Question \cup {None}]
    BY <1>1 DEF AccessTypeOK
  <2> QED BY <1>1, <1>2, <2>2, <2>3 DEF AccessTypeOK
<1>7. HistoryOrdered'
  BY <1>2 DEF AccessInv, HistoryOrdered
<1>8. QuestionTrue'
  BY <1>2, <1>3 DEF AccessInv, QuestionTrue, CurrentSince
<1>9. WaitersAsk'
  <2> SUFFICES ASSUME NEW c \in Callers, caller'[c].step \in {"waiting", "checking"}
               PROVE  caller'[c].claims \in Claims /\ pending'[caller'[c].claims.user] # None
    BY DEF WaitersAsk
  <2>1. c \notin Awaiting(u)
    BY <1>4
  <2>2. caller'[c] = caller[c] /\ caller[c].claims \in Claims
        /\ pending[caller[c].claims.user] # None
    BY <1>5, <2>1 DEF AccessInv, WaitersAsk
  <2>3. caller[c].claims.user \in Users /\ caller[c].claims.user # u
    BY <2>1, <2>2, ClaimsTypes DEF Awaiting
  <2> QED BY <1>3, <2>2, <2>3
<1>10. SocketsChecked'
  <2> SUFFICES ASSUME NEW s \in Sockets
               PROVE  LET j == caller'[s].claims IN
                      /\ caller'[s].step = "open" =>
                           /\ j \in Claims
                           /\ now <= caller'[s].due /\ caller'[s].due <= now + PollEvery
                           /\ CurrentSince(j.user, j.version,
                                           caller'[s].due + 1 - (CacheTtl + PollEvery))
                      /\ caller'[s].step = "checking" =>
                           CurrentSince(j.user, j.version,
                                        pending'[j.user].startedAt + 1 - (CacheTtl + PollEvery))
    BY <1>2 DEF SocketsChecked, CurrentSince
  <2>1. CASE s \in Awaiting(u) /\ caller'[s].step = "open"
    <3>1. /\ RecentlyValid(caller[s].claims) /\ caller[s].claims \in Claims
          /\ caller'[s].claims = caller[s].claims /\ caller'[s].due = now + PollEvery
      <4>1. /\ RecentlyValid(caller[s].claims) /\ caller[s].claims \in Claims
            /\ caller'[s] = At("open", caller[s].claims, now + PollEvery)
        BY <1>4, <2>1
      <4> QED BY <4>1 DEF At
    <3>2. now + PollEvery <= now + PollEvery
      BY <1>1, AccessTypes, AccessConstants
    <3> QED BY <2>1, <3>1, <3>2, OpenedSocketChecked
  <2>2. CASE s \in Awaiting(u) /\ caller'[s].step # "open"
    BY <1>4, <2>2
  <2>3. CASE s \notin Awaiting(u)
    <3>1. s \in Callers /\ caller'[s] = caller[s]
      BY <1>5, <2>3 DEF Callers
    <3>2. ASSUME caller[s].step = "checking"
          PROVE  pending'[caller[s].claims.user] = pending[caller[s].claims.user]
      <4>1. caller[s].claims \in Claims
        BY <3>1, <3>2 DEF AccessInv, WaitersAsk
      <4>2. caller[s].claims.user \in Users /\ caller[s].claims.user # u
        BY <2>3, <3>1, <3>2, <4>1, ClaimsTypes DEF Awaiting
      <4> QED BY <1>3, <4>2
    <3> QED BY <3>1, <3>2 DEF AccessInv, SocketsChecked
  <2> QED BY <2>1, <2>2, <2>3
<1> QED BY <1>6, <1>7, <1>8, <1>9, <1>10 DEF AccessInv

\* Auth answered: the entry ages from the moment the question was put.
LEMMA FetchAnsweredStep ==
  ASSUME AccessInv, NEW u \in Users, FetchAnswered(u)
  PROVE  AccessInv'
<1>1. /\ pending[u] # None /\ pending[u].answer # None
      /\ Remember(u, EntryOf(u)) /\ pending' = [pending EXCEPT ![u] = None]
      /\ DecideAll(u, pending[u].answer) /\ UNCHANGED <<now, authVars>>
  BY DEF FetchAnswered
<1>2. AccessTypeOK
  BY DEF AccessInv
<1>3. \A k \in Claims : k.user = u /\ Accepts(pending[u].answer, k) => RecentlyValid(k)
  BY <1>1, AnswerDecides
<1> DEFINE e == EntryOf(u)
<1>4. /\ e.status = pending[u].answer /\ e.expiresAt = pending[u].startedAt + CacheTtl
      /\ e \in Entry
  BY <1>1, <1>2, AccessConstants DEF EntryOf, AccessTypeOK, Question, Entry
<1>5. CASE cache' = cache
  <2>1. cache' \in [Users -> Entry \cup {None}] /\ CacheTrue'
    BY <1>1, <1>5 DEF AccessInv, AccessTypeOK, CacheTrue, authVars, CurrentSince
  <2> QED BY <1>1, <1>3, <2>1, DecideAllStep
<1>6. CASE e.status.active /\ cache' = [cache EXCEPT ![u] = e]
  <2>1. cache' \in [Users -> Entry \cup {None}]
    BY <1>2, <1>4, <1>6 DEF AccessTypeOK
  <2>2. /\ CurrentSince(u, pending[u].answer.version, pending[u].startedAt)
        /\ pending[u].startedAt <= now
    BY <1>1 DEF AccessInv, QuestionTrue
  <2>3. /\ e.expiresAt <= now + CacheTtl /\ e.expiresAt - CacheTtl = pending[u].startedAt
    BY <1>1, <1>2, <1>4, <2>2, AccessTypes, AccessConstants
  <2>4. cache'[u] = e /\ \A w \in Users \ {u} : cache'[w] = cache[w]
    BY <1>2, <1>6 DEF AccessTypeOK
  <2> HIDE DEF e
  <2>5. CacheTrue'
    <3> SUFFICES ASSUME NEW w \in Users, cache'[w] # None
                 PROVE  /\ cache'[w].status.active
                        /\ cache'[w].expiresAt <= now + CacheTtl
                        /\ CurrentSince(w, cache'[w].status.version,
                                        cache'[w].expiresAt - CacheTtl)
      BY <1>1 DEF CacheTrue, authVars, CurrentSince
    <3>1. CASE w = u
      BY <1>4, <1>6, <2>2, <2>3, <2>4, <3>1
    <3>2. CASE w # u
      BY <2>4, <3>2 DEF AccessInv, CacheTrue
    <3> QED BY <3>1, <3>2
  <2> QED BY <1>1, <1>3, <2>1, <2>5, DecideAllStep
<1> QED BY <1>1, <1>5, <1>6 DEF Remember

LEMMA FetchFailedStep ==
  ASSUME AccessInv, NEW u \in Users, FetchFailed(u)
  PROVE  AccessInv'
<1>1. /\ pending' = [pending EXCEPT ![u] = None] /\ DecideAll(u, None)
      /\ UNCHANGED <<now, authVars>> /\ cache' = cache
  BY DEF FetchFailed
<1>2. \A k \in Claims : k.user = u /\ Accepts(None, k) => RecentlyValid(k)
  BY DEF Accepts
<1>3. cache' \in [Users -> Entry \cup {None}] /\ CacheTrue'
  BY <1>1 DEF AccessInv, AccessTypeOK, CacheTrue, authVars, CurrentSince
<1> QED BY <1>1, <1>2, <1>3, DecideAllStep

\* Auth reads the account while the question is under way.
LEMMA IdentityStatusStep ==
  ASSUME AccessInv, NEW u \in Users, IdentityStatus(u)
  PROVE  AccessInv'
<1>1. /\ pending[u] # None
      /\ pending' = [pending EXCEPT ![u].answer = account[u]]
      /\ UNCHANGED <<now, account, since, cache, caller>>
  BY DEF IdentityStatus, authVars
<1>2. AccessTypeOK /\ pending[u] \in Question /\ account[u] \in Status
  BY <1>1 DEF AccessInv, AccessTypeOK
<1> DEFINE q == [pending[u] EXCEPT !.answer = account[u]]
<1>3. q \in Question /\ q.startedAt = pending[u].startedAt /\ q.answer = account[u]
  BY <1>2 DEF Question
<1>4. pending' = [pending EXCEPT ![u] = q]
  BY <1>1
<1> HIDE DEF q
<1>5. /\ pending'[u] = q /\ \A w \in Users \ {u} : pending'[w] = pending[w]
      /\ pending' \in [Users -> Question \cup {None}]
  BY <1>2, <1>3, <1>4 DEF AccessTypeOK
<1>6. AccessTypeOK'
  BY <1>1, <1>2, <1>5 DEF AccessTypeOK
<1>7. HistoryOrdered' /\ CacheTrue'
  BY <1>1 DEF AccessInv, HistoryOrdered, CacheTrue, CurrentSince
<1>8. QuestionTrue'
  <2>1. account[u].version \in Nat /\ q.startedAt <= now /\ now <= q.startedAt + FetchTimeout
    BY <1>1, <1>2, <1>3, AccessTypes DEF AccessInv, QuestionTrue
  <2>2. CurrentSince(u, q.answer.version, q.startedAt)
    BY <1>3, <2>1 DEF CurrentSince
  <2> QED BY <1>1, <1>3, <1>5, <2>1, <2>2 DEF AccessInv, QuestionTrue, CurrentSince
<1>9. WaitersAsk'
  BY <1>1, <1>3, <1>5, QuestionExists, ClaimsTypes DEF AccessInv, WaitersAsk
<1>10. SocketsChecked'
  <2>1. ASSUME NEW w \in Users
        PROVE  pending'[w].startedAt = pending[w].startedAt
    BY <1>3, <1>5
  <2>2. ASSUME NEW s \in Sockets, caller[s].step = "checking"
        PROVE  pending'[caller[s].claims.user].startedAt = pending[caller[s].claims.user].startedAt
    BY <2>1, <2>2, ClaimsTypes DEF AccessInv, WaitersAsk, Callers
  <2> QED BY <1>1, <2>2 DEF AccessInv, SocketsChecked, CurrentSince
<1> QED BY <1>6, <1>7, <1>8, <1>9, <1>10 DEF AccessInv

LEMMA EvictedStep ==
  ASSUME AccessInv, NEW u \in Users, Evicted(u)
  PROVE  AccessInv'
<1>1. /\ cache' = [cache EXCEPT ![u] = None]
      /\ UNCHANGED <<now, account, since, pending, caller>>
  BY DEF Evicted, authVars
<1>2. /\ \A w \in Users : cache'[w] = cache[w] \/ cache'[w] = None
      /\ cache' \in [Users -> Entry \cup {None}]
  BY <1>1 DEF AccessInv, AccessTypeOK
<1>3. AccessTypeOK'
  BY <1>1, <1>2 DEF AccessInv, AccessTypeOK
<1>4. HistoryOrdered' /\ QuestionTrue' /\ WaitersAsk' /\ SocketsChecked'
  BY <1>1 DEF AccessInv, HistoryOrdered, QuestionTrue, WaitersAsk, SocketsChecked, CurrentSince
<1>5. CacheTrue'
  BY <1>1, <1>2 DEF AccessInv, CacheTrue, CurrentSince
<1> QED BY <1>3, <1>4, <1>5 DEF AccessInv

\* The next check of an open socket: nothing was due before now.
LEMMA CheckSocketStep ==
  ASSUME AccessInv, NEW s \in Sockets, CheckSocket(s)
  PROVE  AccessInv'
<1> DEFINE k == caller[s].claims
<1>1. /\ caller[s].step = "open" /\ caller[s].due <= now
      /\ IsActive(s, k, "checking") /\ UNCHANGED <<now, authVars>>
  BY DEF CheckSocket
<1>2. /\ k \in Claims /\ now <= caller[s].due /\ s \in Callers
      /\ CurrentSince(k.user, k.version, caller[s].due + 1 - (CacheTtl + PollEvery))
  BY <1>1 DEF AccessInv, SocketsChecked, Callers
<1>3. caller[s].due = now
  BY <1>1, <1>2, AccessTypes DEF AccessInv
<1> QED BY <1>1, <1>2, <1>3, IsActiveStep

LEMMA HandleDisconnectStep ==
  ASSUME AccessInv, NEW s \in Sockets, HandleDisconnect(s)
  PROVE  AccessInv'
<1>1. /\ caller' = [caller EXCEPT ![s] = Closed]
      /\ UNCHANGED <<now, account, since, cache, pending>> /\ s \in Callers
  BY DEF HandleDisconnect, authVars, Callers
<1>2. Closed \in Caller /\ Closed.step = "idle"
  BY AccessConstants DEF Closed, At, Caller
<1>3. /\ caller'[s] = Closed /\ \A c \in Callers \ {s} : caller'[c] = caller[c]
      /\ caller' \in [Callers -> Caller]
  BY <1>1, <1>2 DEF AccessInv, AccessTypeOK
<1>4. AccessTypeOK'
  BY <1>1, <1>3 DEF AccessInv, AccessTypeOK
<1>5. HistoryOrdered' /\ CacheTrue' /\ QuestionTrue'
  BY <1>1 DEF AccessInv, HistoryOrdered, CacheTrue, QuestionTrue, CurrentSince
<1>6. WaitersAsk'
  BY <1>1, <1>2, <1>3 DEF AccessInv, WaitersAsk
<1>7. SocketsChecked'
  <2> SUFFICES ASSUME NEW x \in Sockets
               PROVE  LET j == caller'[x].claims IN
                      /\ caller'[x].step = "open" =>
                           /\ j \in Claims
                           /\ now <= caller'[x].due /\ caller'[x].due <= now + PollEvery
                           /\ CurrentSince(j.user, j.version,
                                           caller'[x].due + 1 - (CacheTtl + PollEvery))
                      /\ caller'[x].step = "checking" =>
                           CurrentSince(j.user, j.version,
                                        pending[j.user].startedAt + 1 - (CacheTtl + PollEvery))
    BY <1>1 DEF SocketsChecked, CurrentSince
  <2>1. CASE x = s
    BY <1>2, <1>3, <2>1
  <2>2. CASE x # s
    BY <1>3, <2>2 DEF AccessInv, SocketsChecked, Callers
  <2> QED BY <2>1, <2>2
<1> QED BY <1>4, <1>5, <1>6, <1>7 DEF AccessInv

\* The clock waits for the time-out of a question and the check of a socket.
LEMMA TickStep ==
  ASSUME AccessInv, Tick
  PROVE  AccessInv'
<1>1. /\ now < MaxTime /\ now' = now + 1
      /\ \A u \in Users : pending[u] # None => now < pending[u].startedAt + FetchTimeout
      /\ \A s \in Sockets : caller[s].step = "open" => now < caller[s].due
      /\ UNCHANGED <<account, since, cache, pending, caller>>
  BY DEF Tick, authVars
<1>2. AccessTypeOK /\ now \in Nat
  BY AccessTypes DEF AccessInv
<1>3. AccessTypeOK'
  BY <1>1, <1>2, AccessConstants DEF AccessTypeOK
<1>4. HistoryOrdered'
  BY <1>1, <1>2, AccessTypes DEF AccessInv, HistoryOrdered
<1>5. CacheTrue'
  BY <1>1, <1>2, AccessTypes, AccessConstants DEF AccessInv, CacheTrue, CurrentSince
<1>6. QuestionTrue'
  BY <1>1, <1>2, AccessTypes, AccessConstants DEF AccessInv, QuestionTrue, CurrentSince
<1>7. WaitersAsk'
  BY <1>1 DEF AccessInv, WaitersAsk
<1>8. SocketsChecked'
  <2> SUFFICES ASSUME NEW s \in Sockets
               PROVE  LET k == caller[s].claims IN
                      /\ caller[s].step = "open" =>
                           /\ k \in Claims
                           /\ now + 1 <= caller[s].due /\ caller[s].due <= now + 1 + PollEvery
                           /\ CurrentSince(k.user, k.version,
                                           caller[s].due + 1 - (CacheTtl + PollEvery))
                      /\ caller[s].step = "checking" =>
                           CurrentSince(k.user, k.version,
                                        pending[k.user].startedAt + 1 - (CacheTtl + PollEvery))
    BY <1>1 DEF SocketsChecked, CurrentSince
  <2>1. s \in Callers /\ caller[s].due \in Nat
    BY <1>2, AccessTypes DEF Callers
  <2>2. caller[s].step = "open" =>
          now + 1 <= caller[s].due /\ caller[s].due <= now + 1 + PollEvery
    BY <1>1, <1>2, <2>1, AccessConstants DEF AccessInv, SocketsChecked
  <2> QED BY <2>2 DEF AccessInv, SocketsChecked
<1> QED BY <1>3, <1>4, <1>5, <1>6, <1>7, <1>8 DEF AccessInv

LEMMA AccessStep ==
  ASSUME AccessInv, [AccessNext]_accessVars
  PROVE  AccessInv'
<1>1. CASE \E u \in Users :
         SetEmployeeStatus(u) \/ IdentityStatus(u) \/ FetchAnswered(u) \/ FetchFailed(u)
         \/ Evicted(u)
  BY <1>1, AccountStep, IdentityStatusStep, FetchAnsweredStep, FetchFailedStep, EvictedStep
<1>2. CASE \E k \in Claims : \E r \in Requests : CanActivate(r, k)
  <2>1. PICK k \in Claims, r \in Requests : CanActivate(r, k)
    BY <1>2
  <2>2. r \in Callers /\ IsActive(r, k, "waiting") /\ UNCHANGED <<now, authVars>>
    BY <2>1 DEF CanActivate, Callers
  <2> QED BY <2>2, IsActiveStep
<1>3. CASE \E k \in Claims : \E s \in Sockets : Handshake(s, k)
  <2>1. PICK k \in Claims, s \in Sockets : Handshake(s, k)
    BY <1>3
  <2>2. s \in Callers /\ IsActive(s, k, "waiting") /\ UNCHANGED <<now, authVars>>
    BY <2>1 DEF Handshake, Callers
  <2> QED BY <2>2, IsActiveStep
<1>4. CASE \E s \in Sockets : CheckSocket(s) \/ HandleDisconnect(s)
  BY <1>4, CheckSocketStep, HandleDisconnectStep
<1>5. CASE Tick
  BY <1>5, TickStep
<1>6. CASE UNCHANGED accessVars
  BY <1>6 DEF accessVars, authVars, AccessInv, AccessTypeOK, HistoryOrdered, CacheTrue,
              QuestionTrue, WaitersAsk, SocketsChecked, CurrentSince
<1> QED BY <1>1, <1>2, <1>3, <1>4, <1>5, <1>6 DEF AccessNext

LEMMA AccessStarts ==
  ASSUME AccessInit
  PROVE  AccessInv
<1>1. Closed \in Caller /\ Closed.step = "idle"
  BY AccessConstants DEF Closed, At, Caller
<1>2. AccessTypeOK
  BY <1>1, AccessConstants DEF AccessInit, AccessTypeOK, Status, Versions
<1>3. HistoryOrdered /\ CacheTrue /\ QuestionTrue
  BY DEF AccessInit, HistoryOrdered, CacheTrue, QuestionTrue
<1>4. WaitersAsk /\ SocketsChecked
  BY <1>1 DEF AccessInit, WaitersAsk, SocketsChecked, Callers
<1> QED BY <1>2, <1>3, <1>4 DEF AccessInv

\* Types, and what the check of an identity knows of the past, hold in every state.
THEOREM AccessInvariant == AccessSpec => []AccessInv
BY AccessStarts, AccessStep, PTL DEF AccessSpec

\* What an account was since a moment, in the words of the properties.
LEMMA CurrentSinceIsValidWithin ==
  ASSUME AccessInv, NEW k \in Claims, NEW t \in Int, NEW d \in Nat, now < t + d,
         CurrentSince(k.user, k.version, t)
  PROVE  ValidWithin(k, d)
<1>1. /\ k.user \in Users /\ k.version \in Versions /\ k.version \in Nat
      /\ account[k.user].version \in Nat /\ now \in Nat
  BY ClaimsTypes, AccessTypes DEF AccessInv
<1>2. CASE k.version = account[k.user].version
  BY <1>2 DEF ValidWithin
<1>3. CASE k.version # account[k.user].version
  <2>1. k.version < account[k.user].version /\ since[k.user][k.version + 1] >= t
    BY <1>1, <1>3 DEF CurrentSince
  <2>2. k.version + 1 \in Versions
    BY <1>1, <2>1, AccessTypes, AccessConstants DEF AccessInv, Status, Versions
  <2>3. since[k.user][k.version + 1] \in Nat
    BY <1>1, <2>2, AccessTypes DEF AccessInv
  <2> QED BY <1>1, <2>1, <2>3 DEF ValidWithin
<1> QED BY <1>2, <1>3

\* How long an open socket outlives its identity, whatever the account, the cache, Auth and
\* the clock do.
THEOREM OpenSocketIsBounded == AccessSpec => []OpenSocketWasValid
<1>1. AccessInv => OpenSocketWasValid
  <2> SUFFICES ASSUME AccessInv, NEW s \in Sockets, caller[s].step \in {"open", "checking"}
               PROVE  ValidWithin(caller[s].claims, CacheTtl + PollEvery + FetchTimeout)
    BY DEF OpenSocketWasValid
  <2> DEFINE k == caller[s].claims
             d == CacheTtl + PollEvery + FetchTimeout
  <2>1. s \in Callers /\ caller[s].due \in Nat /\ now \in Nat /\ d \in Nat
    BY AccessTypes, AccessConstants DEF Callers, AccessInv
  <2>2. CASE caller[s].step = "open"
    <3>1. /\ k \in Claims /\ now <= caller[s].due
          /\ CurrentSince(k.user, k.version, caller[s].due + 1 - (CacheTtl + PollEvery))
      BY <2>2 DEF AccessInv, SocketsChecked
    <3>2. /\ caller[s].due + 1 - (CacheTtl + PollEvery) \in Int
          /\ now < caller[s].due + 1 - (CacheTtl + PollEvery) + d
      BY <2>1, <3>1, AccessConstants
    <3> HIDE DEF k, d
    <3> QED BY <2>1, <3>1, <3>2, CurrentSinceIsValidWithin DEF k, d
  <2>3. CASE caller[s].step = "checking"
    <3>1. /\ k \in Claims /\ pending[k.user] # None
          /\ CurrentSince(k.user, k.version, pending[k.user].startedAt + 1 - (CacheTtl + PollEvery))
      BY <2>1, <2>3 DEF AccessInv, SocketsChecked, WaitersAsk
    <3>2. pending[k.user].startedAt \in Nat /\ now <= pending[k.user].startedAt + FetchTimeout
      BY <3>1, ClaimsTypes, AccessTypes DEF AccessInv, QuestionTrue
    <3>3. /\ pending[k.user].startedAt + 1 - (CacheTtl + PollEvery) \in Int
          /\ now < pending[k.user].startedAt + 1 - (CacheTtl + PollEvery) + d
      BY <2>1, <3>2, AccessConstants
    <3> HIDE DEF k, d
    <3> QED BY <2>1, <3>1, <3>3, CurrentSinceIsValidWithin DEF k, d
  <2> QED BY <2>2, <2>3
<1> QED BY <1>1, AccessInvariant, PTL

\* How a request is decided: at once, by the answer it awaited, or without one.
LEMMA RequestDecided ==
  ASSUME AccessInv, AccessNext, NEW r \in Requests, caller'[r] # caller[r],
         caller'[r].step \in {"granted", "refused"}
  PROVE  \E k \in Claims, ok \in BOOLEAN :
           /\ caller'[r].claims = k /\ (caller'[r].step = "granted") = ok
           /\ \/ /\ k.exp <= now \/ Fresh(k.user)
                 /\ ok = (k.exp > now /\ Accepts(cache[k.user].status, k))
              \/ /\ pending[k.user] # None /\ pending[k.user].answer # None
                 /\ ok = Accepts(pending[k.user].answer, k)
              \/ /\ ~ok /\ pending[k.user] # None /\ pending'[k.user] = None
                 /\ cache' = cache
<1>0. AccessTypeOK /\ r \in Callers /\ r \notin Sockets
  BY AccessStatusAssumption DEF AccessInv, Callers, AccessStatusAssumption
<1>1. ASSUME NEW k \in Claims, NEW ok \in BOOLEAN, caller'[r] = Decided(r, k, ok)
      PROVE  caller'[r].claims = k /\ (caller'[r].step = "granted") = ok
  BY <1>0, <1>1, DecidedTypes DEF At
<1>2. ASSUME NEW u \in Users, NEW status, DecideAll(u, status)
      PROVE  /\ caller[r].claims \in Claims /\ caller[r].claims.user = u
             /\ caller'[r] = Decided(r, caller[r].claims, Accepts(status, caller[r].claims))
             /\ Accepts(status, caller[r].claims) \in BOOLEAN
  <2>1. r \in Awaiting(u)
    BY <1>0, <1>2 DEF DecideAll
  <2> QED BY <1>0, <1>2, <2>1 DEF DecideAll, Awaiting, AccessInv, WaitersAsk, Accepts
<1>3. ASSUME NEW x \in Callers, NEW k \in Claims, NEW step \in {"waiting", "checking"},
             IsActive(x, k, step)
      PROVE  /\ k.exp <= now \/ Fresh(k.user)
             /\ caller'[r] = Decided(r, k, k.exp > now /\ Accepts(cache[k.user].status, k))
             /\ x = r
  <2>1. CASE IsActiveAtOnce(x, k)
    <3>1. /\ k.exp <= now \/ Fresh(k.user)
          /\ caller' = [caller EXCEPT ![x] = Decided(x, k, k.exp > now
                                                /\ Accepts(cache[k.user].status, k))]
      BY <2>1 DEF IsActiveAtOnce
    <3>2. x = r
      BY <1>0, <3>1 DEF AccessTypeOK
    <3> QED BY <1>0, <3>1, <3>2 DEF AccessTypeOK
  <2>2. CASE IsActiveAwaits(x, k, step)
    <3>1. caller' = [caller EXCEPT ![x] = At(step, k, 0)]
      BY <2>2 DEF IsActiveAwaits
    <3>2. x = r /\ caller'[r].step = step
      BY <1>0, <3>1 DEF AccessTypeOK, At
    <3> QED BY <3>2
  <2> QED BY <1>3, <2>1, <2>2 DEF IsActive
<1>4. CASE \E u \in Users : FetchAnswered(u)
  <2>1. PICK u \in Users : FetchAnswered(u)
    BY <1>4
  <2>2. pending[u] # None /\ pending[u].answer # None /\ DecideAll(u, pending[u].answer)
    BY <2>1 DEF FetchAnswered
  <2>3. PICK k \in Claims, ok \in BOOLEAN :
          /\ k.user = u /\ ok = Accepts(pending[u].answer, k) /\ caller'[r] = Decided(r, k, ok)
    BY <1>2, <2>2
  <2> QED BY <1>1, <2>2, <2>3
<1>5. CASE \E u \in Users : FetchFailed(u)
  <2>1. PICK u \in Users : FetchFailed(u)
    BY <1>5
  <2>2. /\ pending[u] # None /\ DecideAll(u, None)
        /\ pending'[u] = None /\ cache' = cache
    BY <1>0, <2>1 DEF FetchFailed, AccessTypeOK
  <2>3. PICK k \in Claims, ok \in BOOLEAN :
          /\ k.user = u /\ ok = Accepts(None, k) /\ caller'[r] = Decided(r, k, ok)
    BY <1>2, <2>2
  <2>4. ~ok
    BY <2>3 DEF Accepts
  <2> QED BY <1>1, <2>2, <2>3, <2>4
<1>6. ASSUME NEW x \in Callers, NEW k \in Claims, NEW step \in {"waiting", "checking"},
             IsActive(x, k, step)
      PROVE  \E j \in Claims, ok \in BOOLEAN :
               /\ caller'[r].claims = j /\ (caller'[r].step = "granted") = ok
               /\ j.exp <= now \/ Fresh(j.user)
               /\ ok = (j.exp > now /\ Accepts(cache[j.user].status, j))
  <2>1. /\ k.exp <= now \/ Fresh(k.user)
        /\ caller'[r] = Decided(r, k, k.exp > now /\ Accepts(cache[k.user].status, k))
    BY <1>3, <1>6
  <2>2. PICK ok \in BOOLEAN : ok = (k.exp > now /\ Accepts(cache[k.user].status, k))
    OBVIOUS
  <2> QED BY <1>1, <2>1, <2>2
<1>7. CASE \E k \in Claims : \E x \in Requests : CanActivate(x, k)
  BY <1>6, <1>7 DEF CanActivate, Callers
<1>8. CASE \E k \in Claims : \E x \in Sockets : Handshake(x, k)
  BY <1>6, <1>8 DEF Handshake, Callers
<1>9. CASE \E x \in Sockets : CheckSocket(x)
  <2>1. PICK x \in Sockets : CheckSocket(x)
    BY <1>9
  <2>2. x \in Callers /\ caller[x].claims \in Claims /\ IsActive(x, caller[x].claims, "checking")
    BY <2>1 DEF CheckSocket, AccessInv, SocketsChecked, Callers
  <2> QED BY <1>6, <2>2
<1>10. CASE \E x \in Sockets : HandleDisconnect(x)
  BY <1>0, <1>10 DEF HandleDisconnect, AccessTypeOK
<1>11. CASE (\E u \in Users : SetEmployeeStatus(u) \/ IdentityStatus(u) \/ Evicted(u)) \/ Tick
  BY <1>11 DEF SetEmployeeStatus, IdentityStatus, Evicted, Tick
<1> QED BY <1>4, <1>5, <1>7, <1>8, <1>9, <1>10, <1>11 DEF AccessNext

\* No request is granted to an identity that was disabled, or changed, more than
\* CacheTtl ago, nor with a token that has run out.
THEOREM GrantedIsBounded == AccessSpec => GrantedWasValid
<1>1. ASSUME AccessInv, [AccessNext]_accessVars, NEW r \in Requests,
             caller'[r].step = "granted", caller'[r] # caller[r]
      PROVE  ValidWithin(caller'[r].claims, CacheTtl) /\ caller'[r].claims.exp > now
  <2>1. AccessNext
    BY <1>1 DEF accessVars
  <2>2. PICK k \in Claims :
          /\ caller'[r].claims = k
          /\ \/ Fresh(k.user) /\ k.exp > now /\ Accepts(cache[k.user].status, k)
             \/ k.exp <= now /\ k.exp > now
             \/ /\ pending[k.user] # None /\ pending[k.user].answer # None
                /\ Accepts(pending[k.user].answer, k)
    BY <1>1, <2>1, RequestDecided
  <2>3. k.exp \in Nat /\ now \in Nat
    BY <1>1, ClaimsTypes, AccessTypes DEF AccessInv
  <2>4. RecentlyValid(k) /\ k.exp > now
    BY <1>1, <2>2, <2>3, CacheDecides, AnswerDecides DEF Accepts
  <2>5. ValidWithin(k, CacheTtl)
    <3>1. /\ now + 1 - CacheTtl \in Int /\ CacheTtl \in Nat
          /\ now < now + 1 - CacheTtl + CacheTtl
      BY <2>3, AccessConstants
    <3>2. CurrentSince(k.user, k.version, now + 1 - CacheTtl)
      BY <2>4 DEF RecentlyValid
    <3> QED BY <1>1, <3>1, <3>2, CurrentSinceIsValidWithin
  <2> QED BY <2>2, <2>4, <2>5
<1>2. ASSUME AccessInv, [AccessNext]_accessVars
      PROVE  [\A r \in Requests :
                caller'[r].step = "granted" /\ caller'[r] # caller[r] =>
                  ValidWithin(caller'[r].claims, CacheTtl)
                  /\ caller'[r].claims.exp > now]_accessVars
  BY <1>1, <1>2
<1> QED BY <1>2, AccessInvariant, PTL DEF AccessSpec, GrantedWasValid

\* An answer about a former version is younger than the change that replaced it.
LEMMA FormerVersionIsRecent ==
  ASSUME AccessInv, NEW u \in Users, NEW v \in Versions, NEW t \in Int, CurrentSince(u, v, t),
         v # account[u].version
  PROVE  since[u][account[u].version] >= t
<1>1. /\ account[u].version \in Versions /\ account[u].version \in Nat /\ v \in Nat
      /\ v < account[u].version /\ since[u][v + 1] >= t
  BY AccessTypes DEF AccessInv, CurrentSince, Status, Versions
<1>2. v + 1 \in Versions /\ v + 1 <= account[u].version
  BY <1>1, AccessConstants DEF Versions
<1>3. since[u][v + 1] <= since[u][account[u].version] /\ account[u].version <= account[u].version
  BY <1>1, <1>2 DEF AccessInv, HistoryOrdered
<1>4. since[u][v + 1] \in Nat /\ since[u][account[u].version] \in Nat
  BY <1>1, <1>2, AccessTypes DEF AccessInv
<1> QED BY <1>1, <1>3, <1>4

\* A current identity is refused only by a question without an answer, or while
\* an answer about its former version may still be cached.
THEOREM RefusalHasCause == AccessSpec => RefusedHasCause
<1>1. ASSUME AccessInv, [AccessNext]_accessVars, NEW r \in Requests, NEW k,
             k = caller'[r].claims, caller'[r].step = "refused", caller'[r] # caller[r]
      PROVE  \/ k.exp <= now
             \/ ~(account[k.user].active /\ account[k.user].version = k.version)
             \/ now < since[k.user][k.version] + CacheTtl
             \/ pending[k.user] # None /\ pending'[k.user] = None /\ cache' = cache
  <2>1. AccessNext
    BY <1>1 DEF accessVars
  <2>2. /\ k \in Claims
        /\ \/ k.exp <= now
           \/ Fresh(k.user) /\ ~(k.exp > now /\ Accepts(cache[k.user].status, k))
           \/ /\ pending[k.user] # None /\ pending[k.user].answer # None
              /\ ~Accepts(pending[k.user].answer, k)
           \/ pending[k.user] # None /\ pending'[k.user] = None /\ cache' = cache
    BY <1>1, <2>1, RequestDecided
  <2>3. /\ k.user \in Users /\ k.version \in Versions /\ k.version \in Nat
        /\ k.exp \in Nat /\ now \in Nat /\ since[k.user][k.version] \in Nat
    BY <1>1, <2>2, ClaimsTypes, AccessTypes DEF AccessInv
  <2> SUFFICES ASSUME k.exp > now,
                      account[k.user].active, account[k.user].version = k.version
               PROVE  \/ now < since[k.user][k.version] + CacheTtl
                      \/ pending[k.user] # None /\ pending'[k.user] = None /\ cache' = cache
    BY <2>3
  <2>4. CASE Fresh(k.user) /\ ~Accepts(cache[k.user].status, k)
    <3>1. /\ cache[k.user] # None /\ cache[k.user].expiresAt > now
          /\ cache[k.user].status.active /\ cache[k.user].status \in Status
          /\ cache[k.user].expiresAt \in Nat
      BY <1>1, <2>3, <2>4, AccessTypes DEF Fresh, AccessInv, CacheTrue
    <3>2. cache[k.user].status.version # k.version
      BY <2>4, <3>1, NoneIsAbsence DEF Accepts
    <3>3. CurrentSince(k.user, cache[k.user].status.version, cache[k.user].expiresAt - CacheTtl)
      BY <1>1, <2>3, <3>1 DEF AccessInv, CacheTrue
    <3>4. cache[k.user].status.version \in Versions /\ cache[k.user].expiresAt - CacheTtl \in Int
      BY <3>1, AccessConstants DEF Status
    <3>5. since[k.user][k.version] >= cache[k.user].expiresAt - CacheTtl
      BY <1>1, <2>3, <3>2, <3>3, <3>4, FormerVersionIsRecent
    <3> QED BY <2>3, <3>1, <3>5, AccessConstants
  <2>5. CASE /\ pending[k.user] # None /\ pending[k.user].answer # None
             /\ ~Accepts(pending[k.user].answer, k)
    <3>1. /\ pending[k.user].answer \in Status /\ pending[k.user].startedAt \in Nat
          /\ now <= pending[k.user].startedAt + FetchTimeout
          /\ CurrentSince(k.user, pending[k.user].answer.version, pending[k.user].startedAt)
          /\ pending[k.user].answer.version = account[k.user].version =>
               pending[k.user].answer = account[k.user]
      BY <1>1, <2>3, <2>5, AccessTypes DEF AccessInv, QuestionTrue
    <3>2. pending[k.user].answer.version # account[k.user].version
      BY <2>5, <3>1 DEF Accepts
    <3>3. since[k.user][k.version] >= pending[k.user].startedAt
      BY <1>1, <2>3, <3>1, <3>2, FormerVersionIsRecent DEF Status
    <3> QED BY <2>3, <3>1, <3>3, AccessConstants
  <2> QED BY <2>2, <2>3, <2>4, <2>5
<1>2. ASSUME AccessInv, [AccessNext]_accessVars
      PROVE  [\A r \in Requests :
                LET k == caller'[r].claims IN
                caller'[r].step = "refused" /\ caller'[r] # caller[r] =>
                  \/ k.exp <= now
                  \/ ~(account[k.user].active /\ account[k.user].version = k.version)
                  \/ now < since[k.user][k.version] + CacheTtl
                  \/ pending[k.user] # None /\ pending'[k.user] = None /\ cache' = cache]_accessVars
  BY <1>1, <1>2
<1> QED BY <1>2, AccessInvariant, PTL DEF AccessSpec, RefusedHasCause

==============================================================================

---------------------------- MODULE CheckoutProofs ----------------------------
(***************************************************************************)
(* Proofs about Checkout, for any number of orders, any carts and stocks,  *)
(* and whatever is cut, late or concurrent.                                *)
(*                                                                         *)
(* The invariant has two layers.  SaleInv relates an order, its requests,  *)
(* its events and its parcel: it is what cancellation rests on.  StockInv  *)
(* adds what Inventory holds for the order and the calls still under way.  *)
(***************************************************************************)
EXTENDS Checkout, FiniteSetTheorems, TLAPS

CreateSteps == {"price", "reserve", "assign", "mark", "commit", "rollback"}
CancelSteps == {"release", "stage", "ask", "restore", "finalize"}

SaleTypes ==
  /\ order \in [Orders -> Order \cup {None}]
  /\ create \in [Orders -> Request(CreateSteps)]
  /\ \A o \in Orders : create[o].pc = "assign" => create[o].line \in create[o].todo
  /\ cancel \in [Orders -> Request(CancelSteps)]
  /\ completed \subseteq Orders
  /\ cancelEvents \subseteq Orders \X {1}
  /\ raced \subseteq Orders
  /\ stage \in [Orders -> Life!Stages]
  /\ closed \subseteq Orders

\* The parcel of o is not out of reach and never will be.
Stopped(o) == o \in closed /\ stage[o] \notin {"open", "dispatched"}

Online(o) == order[o].channel = "ONLINE"

\* Who is at work knows the order, and an announced sale is nobody's checkout.
KnownOrders(o) ==
  /\ Running(create, o) \/ Running(cancel, o) => order[o] # None
  /\ o \in completed =>
       /\ order[o] # None
       /\ ~Running(create, o)
       /\ order[o].status \in {"CONFIRMED", "CANCELLATION_PENDING", "CANCELLED"}
  /\ Status(o) \in {"CONFIRMED", "CANCELLATION_PENDING"} => o \in completed

\* A cancellation that asked Logistics, or did not have to, may compensate.
CancelIsSound(o) ==
  /\ cancel[o].pc \in {"stage", "ask", "restore", "finalize"} => o \in completed
  /\ cancel[o].pc = "finalize" => (Online(o) => Stopped(o))
  /\ <<o, 1>> \in cancelEvents =>
       o \in completed /\ Status(o) = "CANCELLED" /\ (Online(o) => Stopped(o))
  /\ stage[o] \in {"open", "dispatched"} => o \in completed /\ Online(o)

\* What holds of an order whose create and cancel never overlapped.
WithoutRace(o) ==
  o \notin raced =>
    /\ ~(Running(create, o) /\ Running(cancel, o))
    /\ cancel[o].pc = "release" => Status(o) \in {"PENDING", "RESERVED"}
    /\ o \in completed /\ Online(o) /\ Status(o) = "CANCELLED" => Stopped(o)

SaleInv ==
  /\ SaleTypes
  /\ \A o \in Orders : KnownOrders(o) /\ CancelIsSound(o) /\ WithoutRace(o)

------------------------------------------------------------------------------
InventoryTypes ==
  /\ reservation \in [Orders \X Stocks -> Inv!Reservation \cup {None}]
  /\ operation \in [{"commit", "cancel", "rollback"} \X Orders \X Stocks ->
                      Inv!Operation \cup {None}]

CallTypes ==
  late \subseteq {"reserve", "commit", "rollback", "cancel"} \X Orders \X Stocks
                 \cup {"ask"} \X Orders \X {None}

\* The reservation of a line is there and holds nothing any more.
Settled(o, s) == reservation[Key(o, s)] # None /\ reservation[Key(o, s)].status # "RESERVED"

\* Some line was, or may still be, consumed.
MayConsume(o) ==
  \/ create[o].pc \in {"mark", "commit"}
  \/ \E s \in Stocks : OpKey("commit", o, s) \in late
  \/ Consumed(o) # {}

AllAssigned(o) == order[o] # None /\ order[o].priced /\ Lines(o) \subseteq order[o].assigned

\* How far the checkout of an order has got, by what the order records.
Progress(o) ==
  /\ order[o] # None /\ ~order[o].priced => order[o].assigned = {}
  /\ create[o].pc = "price" => ~order[o].priced
  /\ create[o].pc \in {"reserve", "assign"} =>
       /\ order[o].priced
       /\ create[o].todo \subseteq Lines(o) \ order[o].assigned
       /\ Lines(o) \ create[o].todo \subseteq order[o].assigned
  /\ create[o].pc = "rollback" => ~AllAssigned(o)
  /\ MayConsume(o) => AllAssigned(o)
  /\ \A s \in Stocks : <<"reserve", o, s>> \in late => s \in Lines(o)

FailureIsFinal(o) ==
  order[o] # None /\ order[o].failed =>
    /\ ~Running(create, o)
    /\ order[o].status = "CANCELLED"
    /\ o \notin completed
    /\ ~AllAssigned(o)

SaleIsSettled(o) ==
  /\ create[o].pc = "commit" =>
       create[o].todo \subseteq Lines(o) /\ \A s \in Lines(o) \ create[o].todo : Settled(o, s)
  /\ o \in completed => \A s \in Lines(o) : Settled(o, s)

LogIsSettled ==
  \A purpose \in {"commit", "cancel", "rollback"}, o \in Orders, s \in Stocks :
    operation[OpKey(purpose, o, s)] # None => Settled(o, s)

StockOf(o) == Progress(o) /\ FailureIsFinal(o) /\ SaleIsSettled(o)

StockInv ==
  /\ InventoryTypes
  /\ LogIsSettled
  /\ \A o \in Orders : StockOf(o)

\* What the layer says of one order.
SaleOf(o) == KnownOrders(o) /\ CancelIsSound(o) /\ WithoutRace(o)

saleVars == <<order, create, cancel, completed, cancelEvents, raced, stage, closed>>

------------------------------------------------------------------------------
\* Steps of Inventory, and calls that only Inventory sees, leave the layer alone.
LEMMA SaleSame == SaleInv /\ UNCHANGED saleVars => SaleInv'
BY DEF saleVars, SaleInv, SaleTypes, KnownOrders, CancelIsSound, WithoutRace,
       Running, Status, Online, Stopped

\* Records that requests are made of.
LEMMA RequestTypes ==
  ASSUME NEW S, NEW pc \in S \cup {"idle"}, NEW todo \in SUBSET Stocks
  PROVE  At(pc, todo) \in Request(S) /\ Idle \in Request(S)
BY DEF At, Idle, Request

\* A step of one order's request does not touch what is said of the others.
LEMMA SaleOthers ==
  ASSUME NEW x \in Orders, SaleOf(x),
         order'[x] = order[x], create'[x] = create[x], cancel'[x] = cancel[x],
         x \in completed' <=> x \in completed, x \in raced' <=> x \in raced,
         <<x, 1>> \in cancelEvents' <=> <<x, 1>> \in cancelEvents,
         stage'[x] = stage[x], x \in closed' <=> x \in closed
  PROVE  SaleOf(x)'
BY DEF SaleOf, KnownOrders, CancelIsSound, WithoutRace, Running, Status, Online, Stopped

\* A step of the create request of o leaves it at c, with o recorded as r.
LEMMA SaleCreate ==
  ASSUME SaleInv, NEW o \in Orders, NEW r \in Order, NEW c \in Request(CreateSteps),
         order' = [order EXCEPT ![o] = r], create' = [create EXCEPT ![o] = c],
         c.pc = "assign" => c.line \in c.todo,
         UNCHANGED <<cancel, cancelEvents, stage, closed>>,
         order[o] # None => r.channel = order[o].channel,
         order[o] = None \/ Running(create, o) \/ r = order[o],
         Running(create, o) \/ Status(o) \in {"none", "PENDING", "RESERVED"},
         \/ Running(create, o) /\ raced' = raced
         \/ NoteRace(o, cancel),
         \/ /\ completed' = completed
            /\ r.status \in {"PENDING", "RESERVED", "CANCELLED"} \/ r = order[o]
         \/ /\ completed' = completed \cup {o}
            /\ r.status = "CONFIRMED" /\ c.pc = "idle"
  PROVE  SaleInv'
<1> USE AbsentAssumption
<1>1. SaleTypes'
  <2>1. \A x \in Orders : create'[x] = IF x = o THEN c ELSE create[x]
    BY DEF SaleInv, SaleTypes
  <2> QED BY <2>1 DEF SaleInv, SaleTypes, NoteRace
<1>2. SaleOf(o)
  BY DEF SaleInv, SaleOf
<1>3. o \notin completed
  BY <1>2 DEF SaleOf, KnownOrders, Status
<1>4. r # None /\ order'[o] = r /\ create'[o] = c
  BY DEF SaleInv, SaleTypes
<1>5. (o \in raced' <=> o \in raced) \/ (o \in raced' /\ Running(cancel, o))
  BY DEF NoteRace
<1>6. Running(create, o) \/ Running(cancel, o) => order[o] # None
  BY <1>2 DEF SaleOf, KnownOrders
<1>7. KnownOrders(o)'
  BY <1>2, <1>3, <1>4 DEF SaleOf, KnownOrders, Running, Status
<1>8. CancelIsSound(o)'
  BY <1>2, <1>3, <1>4, <1>6 DEF SaleOf, CancelIsSound, Running, Status, Online, Stopped
<1>9. WithoutRace(o)'
  BY <1>2, <1>3, <1>4, <1>5, <1>6
  DEF SaleOf, WithoutRace, NoteRace, CancelIsSound, Running, Status, Online, Stopped
<1>10. ASSUME NEW x \in Orders \ {o} PROVE SaleOf(x)'
  <2>1. SaleOf(x) /\ order'[x] = order[x] /\ create'[x] = create[x]
    BY DEF SaleInv, SaleOf, SaleTypes
  <2>2. (x \in raced' <=> x \in raced) /\ (x \in completed' <=> x \in completed)
    BY DEF NoteRace
  <2> QED BY <2>1, <2>2, SaleOthers
<1> QED BY <1>1, <1>7, <1>8, <1>9, <1>10 DEF SaleInv, SaleOf

\* The steps of a create request.
LEMMA CreateStepSale ==
  ASSUME SaleInv, NEW o \in Orders,
         \/ CreateCall(o) \/ Snapshot(o) \/ PriceChanged(o) \/ AssignReservation(o)
         \/ ReadReserved(o) \/ MarkReserved(o) \/ Confirm(o) \/ FailOutOfStock(o)
         \/ CreateCut(o)
         \/ \E s \in Stocks : ReserveLine(o, s) \/ CommitLine(o, s) \/ RollbackLine(o, s)
  PROVE  SaleInv'
<1> USE AbsentAssumption DEF outbox, logisticsVars
<1>a. /\ order \in [Orders -> Order \cup {None}]
      /\ create[o] \in Request(CreateSteps)
      /\ Running(create, o) => order[o] \in Order
      /\ order = [order EXCEPT ![o] = order[o]]
      /\ create[o].pc = "assign" => create[o].line \in create[o].todo
  BY DEF SaleInv, SaleTypes, KnownOrders
<1>b. ASSUME NEW todo \in SUBSET Stocks, NEW pc \in CreateSteps \cup {"idle"}
      PROVE  /\ At(pc, todo) \in Request(CreateSteps) /\ Idle \in Request(CreateSteps)
             /\ At(pc, todo).pc = pc /\ Idle.pc = "idle"
  BY RequestTypes DEF At, Idle
<1>c. Lines(o) \in SUBSET Stocks
  BY DEF Lines
<1>d. ASSUME NEW status \in {"PENDING", "RESERVED", "CONFIRMED", "CANCELLED"}, order[o] \in Order
      PROVE  LET r == [order[o] EXCEPT !.status = status] IN
               /\ r \in Order /\ r.status = status /\ r.channel = order[o].channel
               /\ WriteStatus(o, status) => order' = [order EXCEPT ![o] = r]
  BY <1>a, <1>d DEF Order, WriteStatus
<1>e. ASSUME Fail(o), Running(create, o) PROVE SaleInv'
  <2> DEFINE r == [order[o] EXCEPT !.status = "CANCELLED", !.failed = TRUE]
  <2>1. order[o] # None /\ r \in Order /\ r.status = "CANCELLED" /\ r.channel = order[o].channel
    BY <1>a, <1>e DEF Order
  <2>2. order' = [order EXCEPT ![o] = r]
    BY <1>a, <1>e DEF Fail
  <2> HIDE DEF r
  <2> QED BY <1>b, <1>e, <2>1, <2>2, SaleCreate DEF Fail, SetCreate
<1>f. ASSUME NEW c \in Request(CreateSteps), SetCreate(o, c), UNCHANGED order,
             Running(create, o), c.pc # "assign" \/ c.line \in c.todo,
             UNCHANGED <<cancel, outbox, raced, logisticsVars>>
      PROVE  SaleInv'
  BY <1>a, <1>f, SaleCreate DEF SetCreate
<1>1. CASE CreateCall(o)
  <2>1. CASE order[o] = None
    <3>1. PICK channel \in {"ONLINE", "PHYSICAL"} :
            order' = [order EXCEPT ![o] =
               [channel |-> channel, status |-> "PENDING", priced |-> FALSE,
                assigned |-> {}, failed |-> FALSE]]
      BY <1>1, <2>1 DEF CreateCall, Resumable, Status
    <3>2. create' = [create EXCEPT ![o] = At("price", {})]
      BY <1>1, <2>1 DEF CreateCall, Resumable, Status, SetCreate
    <3> DEFINE r == [channel |-> channel, status |-> "PENDING", priced |-> FALSE,
                     assigned |-> {}, failed |-> FALSE]
    <3>3. r \in Order /\ r.status = "PENDING"
      BY DEF Order
    <3>4. order' = [order EXCEPT ![o] = r]
      BY <3>1
    <3> HIDE DEF r
    <3>5. /\ NoteRace(o, cancel) /\ Status(o) = "none"
          /\ UNCHANGED <<cancel, completed, cancelEvents, stage, closed>>
      BY <1>1, <2>1 DEF CreateCall, Status
    <3>6. At("price", {}) \in Request(CreateSteps) /\ At("price", {}).pc # "assign"
      BY <1>b DEF CreateSteps
    <3> QED BY <2>1, <3>2, <3>3, <3>4, <3>5, <3>6, SaleCreate
  <2>2. CASE order[o] # None
    <3>1. PICK todo \in SUBSET Stocks, pc \in {"price", "reserve"} :
            create' = [create EXCEPT ![o] = At(pc, todo)]
      BY <1>1, <2>2, <1>c DEF CreateCall, SetCreate
    <3> QED BY <1>1, <2>2, <1>a, <1>b, <3>1, SaleCreate
        DEF CreateCall, CreateSteps, Resumable
  <2> QED BY <2>1, <2>2
<1>2. CASE Snapshot(o)
  <2> DEFINE r == [order[o] EXCEPT !.priced = TRUE]
  <2>1. Running(create, o) /\ order[o] # None
    BY <1>2, <1>a DEF Snapshot, Running
  <2>2. r \in Order /\ r.status = order[o].status /\ r.channel = order[o].channel
    BY <1>a, <2>1 DEF Order
  <2>3. order' = [order EXCEPT ![o] = r]
    BY <1>a, <1>2 DEF Snapshot
  <2>4. r.status \in {"PENDING", "RESERVED", "CANCELLED"}
    BY <2>1, <2>2, <1>a DEF SaleInv, KnownOrders, Order, Status
  <2> HIDE DEF r
  <2>5. create' = [create EXCEPT ![o] = At("reserve", Lines(o))]
    BY <1>2 DEF Snapshot, SetCreate
  <2>6. UNCHANGED <<cancel, completed, cancelEvents, raced, stage, closed>>
    BY <1>2 DEF Snapshot
  <2>7. At("reserve", Lines(o)) \in Request(CreateSteps) /\ At("reserve", Lines(o)).pc # "assign"
    BY <1>b, <1>c DEF CreateSteps
  <2> QED BY <2>1, <2>2, <2>3, <2>4, <2>5, <2>6, <2>7, SaleCreate
<1>3. CASE PriceChanged(o)
  BY <1>3, <1>e DEF PriceChanged, Running
<1>4. CASE AssignReservation(o)
  <2> DEFINE r == [order[o] EXCEPT !.assigned = @ \cup {create[o].line}]
  <2>1. Running(create, o) /\ order[o] # None /\ create[o].line \in Stocks
    BY <1>4, <1>a DEF AssignReservation, Running, Request
  <2>2. r \in Order /\ r.status = order[o].status /\ r.channel = order[o].channel
    BY <1>a, <2>1 DEF Order
  <2>3. order' = [order EXCEPT ![o] = r]
    BY <1>a, <1>4 DEF AssignReservation
  <2>4. r.status \in {"PENDING", "RESERVED", "CANCELLED"}
    BY <2>1, <2>2, <1>a DEF SaleInv, KnownOrders, Order, Status
  <2>5. create[o].todo \ {create[o].line} \in SUBSET Stocks
    BY <1>a DEF Request
  <2> HIDE DEF r
  <2>6. /\ create' = [create EXCEPT ![o] = At("reserve", create[o].todo \ {create[o].line})]
        /\ UNCHANGED <<cancel, completed, cancelEvents, raced, stage, closed>>
    BY <1>4 DEF AssignReservation, SetCreate
  <2>7. /\ At("reserve", create[o].todo \ {create[o].line}) \in Request(CreateSteps)
        /\ At("reserve", create[o].todo \ {create[o].line}).pc # "assign"
    BY <1>b, <2>5 DEF CreateSteps
  <2> QED BY <2>1, <2>2, <2>3, <2>4, <2>6, <2>7, SaleCreate
<1>5. CASE ReadReserved(o)
  BY <1>5, <1>b, <1>c, <1>f DEF ReadReserved, CreateSteps, Running
<1>6. CASE MarkReserved(o)
  <2> DEFINE r == [order[o] EXCEPT !.status = "RESERVED"]
  <2>1. Running(create, o)
    BY <1>6 DEF MarkReserved, Running
  <2>2. /\ order[o] # None /\ r \in Order
        /\ r.status = "RESERVED" /\ r.channel = order[o].channel
    BY <2>1, <1>a, <1>d
  <2>3. order' = [order EXCEPT ![o] = r]
    BY <1>6, <2>1, <1>a, <1>d DEF MarkReserved
  <2>4. /\ create' = [create EXCEPT ![o] = At("commit", Lines(o))]
        /\ UNCHANGED <<cancel, completed, cancelEvents, raced, stage, closed>>
    BY <1>6 DEF MarkReserved, SetCreate
  <2>5. At("commit", Lines(o)) \in Request(CreateSteps) /\ At("commit", Lines(o)).pc # "assign"
    BY <1>b, <1>c DEF CreateSteps
  <2> HIDE DEF r
  <2> QED BY <2>1, <2>2, <2>3, <2>4, <2>5, SaleCreate
<1>7. CASE Confirm(o)
  <2> DEFINE r == [order[o] EXCEPT !.status = "CONFIRMED"]
  <2>1. Running(create, o)
    BY <1>7 DEF Confirm, Running
  <2>2. /\ order[o] # None /\ r \in Order
        /\ r.status = "CONFIRMED" /\ r.channel = order[o].channel
    BY <2>1, <1>a, <1>d
  <2>3. order' = [order EXCEPT ![o] = r]
    BY <1>7, <2>1, <1>a, <1>d DEF Confirm
  <2>4. /\ create' = [create EXCEPT ![o] = Idle]
        /\ UNCHANGED <<cancel, cancelEvents, raced, stage, closed>>
    BY <1>7 DEF Confirm, SetCreate
  <2>5. Idle \in Request(CreateSteps) /\ Idle.pc = "idle"
    BY <1>b, <1>c DEF CreateSteps
  <2> HIDE DEF r
  <2> QED BY <1>7, <2>1, <2>2, <2>3, <2>4, <2>5, SaleCreate DEF Confirm
<1>8. CASE FailOutOfStock(o)
  BY <1>8, <1>e DEF FailOutOfStock, Running
<1>9. CASE CreateCut(o)
  BY <1>9, <1>b, <1>f DEF CreateCut
<1>10. ASSUME NEW s \in Stocks, ReserveLine(o, s) PROVE SaleInv'
  <2>1. [create[o] EXCEPT !.pc = "assign", !.line = s] \in Request(CreateSteps)
    BY <1>a DEF Request, CreateSteps
  <2>2. /\ [create[o] EXCEPT !.pc = "assign", !.line = s].line = s
        /\ [create[o] EXCEPT !.pc = "assign", !.line = s].todo = create[o].todo
    BY <1>a DEF Request
  <2>3. order[o].assigned \in SUBSET Stocks
    BY <1>10, <1>a DEF ReserveLine, Running, Order
  <2>4. Running(create, o) /\ s \in create[o].todo
    BY <1>10 DEF ReserveLine, Running
  <2>5. At("rollback", order[o].assigned) \in Request(CreateSteps)
    BY <1>b, <2>3 DEF CreateSteps
  <2>6. At("rollback", order[o].assigned).pc # "assign"
    BY DEF At
  <2>7. \/ SetCreate(o, [create[o] EXCEPT !.pc = "assign", !.line = s])
        \/ SetCreate(o, At("rollback", order[o].assigned))
    BY <1>10 DEF ReserveLine
  <2>8. UNCHANGED <<order, cancel, outbox, raced, logisticsVars>>
    BY <1>10 DEF ReserveLine
  <2> QED BY <1>f, <2>1, <2>2, <2>4, <2>5, <2>6, <2>7, <2>8
<1>11. ASSUME NEW s \in Stocks, CommitLine(o, s) PROVE SaleInv'
  <2>1. create[o].todo \ {s} \in SUBSET Stocks
    BY <1>a DEF Request
  <2> QED BY <1>11, <1>b, <1>f, <2>1 DEF CommitLine, CreateSteps, Running
<1>12. ASSUME NEW s \in Stocks, RollbackLine(o, s) PROVE SaleInv'
  <2>1. create[o].todo \ {s} \in SUBSET Stocks
    BY <1>a DEF Request
  <2> QED BY <1>12, <1>b, <1>f, <2>1 DEF RollbackLine, CreateSteps, Running
<1> QED BY <1>1, <1>2, <1>3, <1>4, <1>5, <1>6, <1>7, <1>8, <1>9, <1>10, <1>11, <1>12

------------------------------------------------------------------------------
\* A step of the cancel request of o leaves it at c, with o recorded as r; what
\* it does to the events and the parcel of o is left to SaleOf(o)'.
LEMMA SaleCancel ==
  ASSUME SaleInv, NEW o \in Orders, NEW r \in Order, NEW c \in Request(CancelSteps),
         order' = [order EXCEPT ![o] = r], cancel' = [cancel EXCEPT ![o] = c],
         UNCHANGED <<create, completed>>,
         raced' \in {raced, raced \cup {o}},
         cancelEvents' \in {cancelEvents, cancelEvents \cup {<<o, 1>>}},
         NEW t \in Life!Stages, stage' = [stage EXCEPT ![o] = t],
         closed' \in {closed, closed \cup {o}},
         SaleOf(o)'
  PROVE  SaleInv'
<1>1. SaleTypes'
  BY DEF SaleInv, SaleTypes
<1>2. ASSUME NEW x \in Orders \ {o} PROVE SaleOf(x)'
  <2>1. SaleOf(x) /\ order'[x] = order[x] /\ cancel'[x] = cancel[x] /\ stage'[x] = stage[x]
    BY DEF SaleInv, SaleOf, SaleTypes
  <2> QED BY <2>1, SaleOthers
<1> QED BY <1>1, <1>2 DEF SaleInv, SaleOf

\* The steps of a cancel request.
LEMMA CancelStepSale ==
  ASSUME SaleInv, NEW o \in Orders,
         \/ CancelCall(o) \/ StageCancellation(o) \/ AskLogistics(o)
         \/ RestoreConfirmed(o) \/ FinalizeReleased(o) \/ FinalizeCompensated(o)
         \/ CancelCut(o) \/ \E s \in Stocks : ReleaseLine(o, s)
  PROVE  SaleInv'
<1> USE AbsentAssumption DEF outbox, logisticsVars
<1>a. /\ order \in [Orders -> Order \cup {None}]
      /\ cancel \in [Orders -> Request(CancelSteps)]
      /\ create \in [Orders -> Request(CreateSteps)]
      /\ Running(cancel, o) => order[o] \in Order
      /\ order = [order EXCEPT ![o] = order[o]]
      /\ stage = [stage EXCEPT ![o] = stage[o]] /\ stage[o] \in Life!Stages
      /\ SaleOf(o)
  BY DEF SaleInv, SaleTypes, KnownOrders, SaleOf
<1>b. ASSUME NEW todo \in SUBSET Stocks, NEW pc \in CancelSteps \cup {"idle"}
      PROVE  /\ At(pc, todo) \in Request(CancelSteps) /\ Idle \in Request(CancelSteps)
             /\ At(pc, todo).pc = pc /\ Idle.pc = "idle"
  BY RequestTypes DEF At, Idle
<1>d. ASSUME NEW status \in {"CONFIRMED", "CANCELLATION_PENDING", "CANCELLED"}, order[o] \in Order,
             WriteStatus(o, status)
      PROVE  \E r \in Order : /\ r.status = status /\ r.channel = order[o].channel
                              /\ order' = [order EXCEPT ![o] = r]
  <2>1. [order[o] EXCEPT !.status = status] \in Order
    BY <1>d DEF Order
  <2>2. /\ [order[o] EXCEPT !.status = status].status = status
        /\ [order[o] EXCEPT !.status = status].channel = order[o].channel
    BY <1>d DEF Order
  <2>3. order' = [order EXCEPT ![o] = [order[o] EXCEPT !.status = status]]
    BY <1>a, <1>d DEF WriteStatus
  <2> QED BY <2>1, <2>2, <2>3
<1>f. ASSUME NEW c \in Request(CancelSteps), SetCancel(o, c), UNCHANGED order, Running(cancel, o),
             c.pc \in {"idle", cancel[o].pc},
             UNCHANGED <<create, outbox, raced, logisticsVars>>
      PROVE  SaleInv'
  <2>1. cancel'[o] = c
    BY <1>a, <1>f DEF SetCancel
  <2>2. SaleOf(o)'
    BY <1>a, <1>f, <2>1
    DEF SaleOf, KnownOrders, CancelIsSound, WithoutRace, Running, Status, Online, Stopped
  <2> QED BY <1>a, <1>f, <2>2, SaleCancel DEF SetCancel
<1>1. CASE CancelCall(o)
  <2>1. order[o] \in Order
    BY <1>1, <1>a DEF CancelCall, Status
  <2>2. PICK todo \in SUBSET Stocks, pc \in {"release", "stage"} :
          /\ cancel' = [cancel EXCEPT ![o] = At(pc, todo)]
          /\ pc = "release" <=> Status(o) \in {"PENDING", "RESERVED"}
    BY <1>1, <2>1 DEF CancelCall, SetCancel, Order
  <2>3. At(pc, todo) \in Request(CancelSteps) /\ cancel'[o].pc = pc
    BY <2>2, <1>a, <1>b DEF CancelSteps
  <2>4. Status(o) \in {"PENDING", "RESERVED", "CONFIRMED", "CANCELLATION_PENDING"}
    BY <1>1, <2>1 DEF CancelCall, Status, Order
  <2>5. SaleOf(o)'
    BY <1>1, <1>a, <2>1, <2>2, <2>3, <2>4
    DEF CancelCall, NoteRace, SaleOf, KnownOrders, CancelIsSound, WithoutRace,
        Running, Status, Online, Stopped
  <2>6. UNCHANGED <<order, create, completed, cancelEvents, stage, closed>>
    BY <1>1 DEF CancelCall
  <2>7. raced' \in {raced, raced \cup {o}}
    BY <1>1 DEF CancelCall, NoteRace
  <2> QED BY <1>a, <2>1, <2>2, <2>3, <2>5, <2>6, <2>7, SaleCancel
<1>2. CASE StageCancellation(o)
  <2>1. order[o] \in Order /\ Running(cancel, o) /\ o \in completed
    BY <1>2, <1>a DEF StageCancellation, Running, SaleOf, CancelIsSound
  <2>2. CASE Status(o) \in {"CONFIRMED", "CANCELLATION_PENDING"}
    <3>1. PICK r \in Order : /\ r.status = "CANCELLATION_PENDING"
                              /\ r.channel = order[o].channel
                              /\ order' = [order EXCEPT ![o] = r]
      BY <1>2, <2>1, <2>2, <1>d DEF StageCancellation
    <3>2. PICK step \in {"ask", "finalize"} :
            /\ cancel' = [cancel EXCEPT ![o] = At(step, {})]
            /\ step = "finalize" => ~Online(o)
      BY <1>2, <2>2 DEF StageCancellation, SetCancel, Online
    <3>3. At(step, {}) \in Request(CancelSteps) /\ At(step, {}).pc = step
      <4>1. step \in CancelSteps \cup {"idle"} /\ {} \in SUBSET Stocks
        BY DEF CancelSteps
      <4> QED BY <4>1, <1>b
    <3>a. order'[o] = r
      BY <3>1, <1>a
    <3>4. cancel'[o].pc = step /\ order'[o] = r
      <4>1. cancel'[o] = At(step, {})
        BY <3>2, <1>a
      <4> QED BY <4>1, <3>3, <3>a
    <3>5. UNCHANGED <<create, completed, cancelEvents, raced, stage, closed>>
      BY <1>2 DEF StageCancellation
    <3>6. Status(o) = order[o].status /\ order[o] # None /\ r # None
      BY <2>1 DEF Status
    <3>7. KnownOrders(o)'
      BY <1>a, <2>1, <3>1, <3>4, <3>5, <3>6 DEF SaleOf, KnownOrders, Running, Status
    <3>8. CancelIsSound(o)'
      BY <1>a, <2>1, <2>2, <3>1, <3>2, <3>4, <3>5, <3>6
      DEF SaleOf, CancelIsSound, Running, Status, Online, Stopped
    <3>9. WithoutRace(o)'
      BY <1>a, <2>1, <2>2, <3>1, <3>2, <3>4, <3>5, <3>6
      DEF SaleOf, WithoutRace, Running, Status, Online, Stopped
    <3> QED BY <1>a, <3>1, <3>2, <3>3, <3>5, <3>7, <3>8, <3>9, SaleCancel DEF SaleOf
  <2>3. CASE Status(o) \notin {"CONFIRMED", "CANCELLATION_PENDING"}
    BY <1>2, <2>1, <2>3, <1>b, <1>f DEF StageCancellation
  <2> QED BY <2>2, <2>3
<1>3. CASE AskLogistics(o)
  <2>1. order[o] \in Order /\ Running(cancel, o) /\ o \in completed
    BY <1>3, <1>a DEF AskLogistics, Running, SaleOf, CancelIsSound
  <2>2. UNCHANGED <<order, create, completed, cancelEvents, raced>>
    BY <1>3 DEF AskLogistics
  <2>3. CASE Life!AcceptCancellation(o) /\ SetCancel(o, At("finalize", {}))
    <3>1. /\ stage' = [stage EXCEPT ![o] = IF stage[o] = "open" THEN "cancelled" ELSE stage[o]]
          /\ closed' = closed \cup {o} /\ stage[o] # "dispatched"
      BY <2>3, <1>a DEF Life!AcceptCancellation, Life!Close, Life!Dispatched
    <3>2. Stopped(o)'
      BY <3>1 DEF Stopped, SaleInv, SaleTypes
    <3>3. At("finalize", {}) \in Request(CancelSteps) /\ cancel'[o].pc = "finalize"
      BY <2>3, <1>a, <1>b DEF CancelSteps, SetCancel
    <3>4. SaleOf(o)'
      BY <1>a, <2>1, <2>2, <3>2, <3>3
      DEF SaleOf, KnownOrders, CancelIsSound, WithoutRace, Running, Status, Online, Stopped
    <3> DEFINE t == IF stage[o] = "open" THEN "cancelled" ELSE stage[o]
    <3>5. t \in Life!Stages
      BY <1>a DEF Life!Stages
    <3> QED BY <1>a, <2>1, <2>2, <2>3, <3>1, <3>3, <3>4, <3>5, SaleCancel DEF SetCancel
  <2>4. CASE SetCancel(o, At("restore", {})) /\ UNCHANGED logisticsVars
    <3>1. At("restore", {}) \in Request(CancelSteps) /\ cancel'[o].pc = "restore"
      BY <2>4, <1>a, <1>b DEF CancelSteps, SetCancel
    <3>2. SaleOf(o)'
      BY <1>a, <2>1, <2>2, <2>4, <3>1
      DEF SaleOf, KnownOrders, CancelIsSound, WithoutRace, Running, Status, Online, Stopped
    <3> QED BY <1>a, <2>1, <2>2, <2>4, <3>1, <3>2, SaleCancel DEF SetCancel
  <2> QED BY <1>3, <2>3, <2>4 DEF AskLogistics
<1>4. CASE RestoreConfirmed(o)
  <2>1. order[o] \in Order /\ Running(cancel, o) /\ o \in completed
    BY <1>4, <1>a DEF RestoreConfirmed, Running, SaleOf, CancelIsSound
  <2>2. CASE Status(o) = "CANCELLATION_PENDING"
    <3>1. PICK r \in Order : /\ r.status = "CONFIRMED" /\ r.channel = order[o].channel
                              /\ order' = [order EXCEPT ![o] = r]
      BY <1>4, <2>1, <2>2, <1>d DEF RestoreConfirmed
    <3>2. /\ cancel' = [cancel EXCEPT ![o] = Idle]
          /\ UNCHANGED <<create, completed, cancelEvents, raced, stage, closed>>
      BY <1>4 DEF RestoreConfirmed, SetCancel
    <3>3. Idle \in Request(CancelSteps) /\ cancel'[o].pc = "idle" /\ order'[o] = r
      BY <3>1, <3>2, <1>a, <1>b
    <3>4. SaleOf(o)'
      BY <1>a, <2>1, <2>2, <3>1, <3>2, <3>3
      DEF SaleOf, KnownOrders, CancelIsSound, WithoutRace, Running, Status, Online, Stopped
    <3> QED BY <1>a, <3>1, <3>2, <3>3, <3>4, SaleCancel
  <2>3. CASE Status(o) # "CANCELLATION_PENDING"
    BY <1>4, <2>1, <2>3, <1>b, <1>f DEF RestoreConfirmed
  <2> QED BY <2>2, <2>3
<1>5. CASE FinalizeReleased(o)
  <2>1. order[o] \in Order /\ Running(cancel, o)
    BY <1>5, <1>a DEF FinalizeReleased, Running
  <2>2. PICK r \in Order : /\ r.status = "CANCELLED" /\ r.channel = order[o].channel
                            /\ order' = [order EXCEPT ![o] = r]
    BY <1>5, <2>1, <1>d DEF FinalizeReleased
  <2>3. /\ cancel' = [cancel EXCEPT ![o] = Idle] /\ cancel[o].pc = "release"
        /\ UNCHANGED <<create, completed, cancelEvents, raced, stage, closed>>
    BY <1>5 DEF FinalizeReleased, SetCancel
  <2>4. Idle \in Request(CancelSteps) /\ cancel'[o].pc = "idle" /\ order'[o] = r
    BY <2>2, <2>3, <1>a, <1>b
  <2>5. SaleOf(o)'
    BY <1>a, <2>1, <2>2, <2>3, <2>4
    DEF SaleOf, KnownOrders, CancelIsSound, WithoutRace, Running, Status, Online, Stopped
  <2> QED BY <1>a, <2>2, <2>3, <2>4, <2>5, SaleCancel
<1>6. CASE FinalizeCompensated(o)
  <2>1. order[o] \in Order /\ Running(cancel, o) /\ o \in completed
    BY <1>6, <1>a DEF FinalizeCompensated, Running, SaleOf, CancelIsSound
  <2>2. CASE Status(o) = "CANCELLED"
    BY <1>6, <2>1, <2>2, <1>b, <1>f DEF FinalizeCompensated
  <2>3. CASE Status(o) # "CANCELLED"
    <3>1. PICK r \in Order : /\ r.status = "CANCELLED" /\ r.channel = order[o].channel
                              /\ order' = [order EXCEPT ![o] = r]
      BY <1>6, <2>1, <2>3, <1>d DEF FinalizeCompensated
    <3>2. /\ cancel' = [cancel EXCEPT ![o] = Idle] /\ cancel[o].pc = "finalize"
          /\ UNCHANGED <<create, completed, raced, stage, closed>>
      BY <1>6 DEF FinalizeCompensated, SetCancel
    <3>3. Idle \in Request(CancelSteps) /\ cancel'[o].pc = "idle" /\ order'[o] = r
      BY <3>1, <3>2, <1>a, <1>b
    <3>4. {e \in cancelEvents : e[1] = o} = {}
      <4>1. ASSUME NEW e \in cancelEvents, e[1] = o PROVE FALSE
        BY <4>1, <2>3, <1>a DEF SaleInv, SaleTypes, SaleOf, CancelIsSound
      <4> QED BY <4>1
    <3>5. cancelEvents' = cancelEvents \cup {<<o, 1>>}
      BY <1>6, <2>3, <3>4, FS_EmptySet DEF FinalizeCompensated, CancelEventOf
    <3>6. SaleOf(o)'
      BY <1>a, <2>1, <3>1, <3>2, <3>3, <3>5
      DEF SaleOf, KnownOrders, CancelIsSound, WithoutRace, Running, Status, Online, Stopped
    <3> QED BY <1>a, <3>1, <3>2, <3>3, <3>5, <3>6, SaleCancel
  <2> QED BY <2>2, <2>3
<1>7. CASE CancelCut(o)
  BY <1>7, <1>b, <1>f DEF CancelCut
<1>8. ASSUME NEW s \in Stocks, ReleaseLine(o, s) PROVE SaleInv'
  <2>1. cancel[o].todo \ {s} \in SUBSET Stocks
    BY <1>a DEF Request
  <2> QED BY <1>8, <1>b, <1>f, <2>1 DEF ReleaseLine, CancelSteps, Running
<1> QED BY <1>1, <1>2, <1>3, <1>4, <1>5, <1>6, <1>7, <1>8

\* Steps that only concern the parcel of o.
LEMMA ParcelStepSale ==
  ASSUME SaleInv, NEW o \in Orders, UNCHANGED <<order, create, cancel, completed, cancelEvents, raced>>,
         \/ Life!Open(o) /\ o \in completed /\ Online(o)
         \/ Life!Dispatch(o) \/ Life!Close(o)
  PROVE  SaleInv'
<1>a. stage \in [Orders -> Life!Stages] /\ \A x \in Orders : SaleOf(x)
  BY DEF SaleInv, SaleTypes, SaleOf
<1>1. PICK t \in Life!Stages : stage' = [stage EXCEPT ![o] = t]
  BY <1>a DEF Life!Open, Life!Dispatch, Life!Close, Life!Stages
<1>2. closed' \in {closed, closed \cup {o}}
  BY DEF Life!Open, Life!Dispatch, Life!Close
<1>3. stage'[o] = t
  BY <1>1, <1>a
<1>4. Stopped(o) => Stopped(o)'
  BY <1>a, <1>3 DEF Stopped, Life!Open, Life!Dispatch, Life!Close
<1>5. stage'[o] \in {"open", "dispatched"} => o \in completed /\ Online(o)
  BY <1>a, <1>3 DEF SaleOf, CancelIsSound, Life!Open, Life!Dispatch, Life!Close
<1>6. SaleOf(o)'
  BY <1>a, <1>4, <1>5 DEF SaleOf, KnownOrders, CancelIsSound, WithoutRace, Running, Status, Online, Stopped
<1>7. ASSUME NEW x \in Orders \ {o} PROVE SaleOf(x)'
  BY <1>a, <1>1, <1>2, SaleOthers
<1>8. SaleTypes'
  BY <1>1, <1>2 DEF SaleInv, SaleTypes
<1> QED BY <1>6, <1>7, <1>8 DEF SaleInv, SaleOf

\* Calls nobody waits for are calls of some request.
LEMMA CallStep == SaleInv /\ CallTypes /\ [Next]_vars => CallTypes'
<1> SUFFICES ASSUME SaleInv, CallTypes, [Next]_vars PROVE CallTypes'
  OBVIOUS
<1>a. ASSUME NEW o \in Orders
      PROVE  create[o].todo \subseteq Stocks /\ cancel[o].todo \subseteq Stocks
  BY DEF SaleInv, SaleTypes, Request
<1>b. ASSUME NEW o \in Orders, NEW purpose \in {"reserve", "commit", "rollback", "cancel"},
             NEW L \in SUBSET Stocks, LeaveCalls(purpose, o, L)
      PROVE  CallTypes'
  BY <1>b DEF LeaveCalls, CallTypes
<1>c. ASSUME NEW o \in Orders, LeaveCalls("ask", o, {None}) PROVE CallTypes'
  BY <1>c DEF LeaveCalls, CallTypes
<1>d. UNCHANGED late => CallTypes'
  BY DEF CallTypes
<1>e. ASSUME NEW o \in Orders, NEW purpose \in {"rollback", "cancel"}, NEW s \in Stocks,
             ReleaseCall(purpose, o, s)
      PROVE  CallTypes'
  BY <1>b, <1>d, <1>e DEF ReleaseCall
<1>1. ASSUME NEW o \in Orders, CreateCut(o) PROVE CallTypes'
  <2>1. CASE create[o].pc = "reserve" /\ \E s \in create[o].todo : LeaveCalls("reserve", o, {s})
    BY <1>a, <1>b, <2>1
  <2>2. CASE create[o].pc \in {"commit", "rollback"}
             /\ \E L \in SUBSET create[o].todo : LeaveCalls(create[o].pc, o, L)
    BY <1>a, <1>b, <2>2
  <2> QED BY <1>1, <1>d, <2>1, <2>2 DEF CreateCut
<1>2. ASSUME NEW o \in Orders, CancelCut(o) PROVE CallTypes'
  <2>1. CASE \E L \in SUBSET cancel[o].todo : LeaveCalls("cancel", o, L)
    BY <1>a, <1>b, <2>1
  <2> QED BY <1>2, <1>c, <1>d, <2>1 DEF CancelCut
<1>3. ASSUME NEW o \in Orders, NEW s \in Stocks, RollbackLine(o, s) \/ ReleaseLine(o, s)
      PROVE  CallTypes'
  BY <1>e, <1>3 DEF RollbackLine, ReleaseLine
<1>4. ASSUME NEW call \in late, LateCallRuns(call) PROVE CallTypes'
  BY <1>4 DEF LateCallRuns, CallTypes
<1>5. ASSUME NEW o \in Orders,
             \/ CreateCall(o) \/ Snapshot(o) \/ PriceChanged(o) \/ AssignReservation(o)
             \/ ReadReserved(o) \/ MarkReserved(o) \/ Confirm(o) \/ FailOutOfStock(o)
             \/ CancelCall(o) \/ StageCancellation(o) \/ AskLogistics(o)
             \/ RestoreConfirmed(o) \/ FinalizeReleased(o) \/ FinalizeCompensated(o)
             \/ \E s \in Stocks : ReserveLine(o, s) \/ CommitLine(o, s)
             \/ Deliver(o) \/ DeliverCancelled(o) \/ Dispatch(o)
      PROVE  CallTypes'
  BY <1>5, <1>d
  DEF CreateCall, Snapshot, PriceChanged, AssignReservation, ReadReserved, MarkReserved,
      Confirm, FailOutOfStock, Fail, CancelCall, StageCancellation, AskLogistics,
      RestoreConfirmed, FinalizeReleased, FinalizeCompensated, ReserveLine, CommitLine,
      Deliver, DeliverCancelled, Dispatch, ordersVars
<1>6. ASSUME \/ \E k \in Orders \X Stocks : HoldTtlElapses(k)
             \/ Sweep
             \/ \E s \in Stocks : OthersTake(s)
             \/ \E e \in cancelEvents : Restock(e) \/ Bury(e)
             \/ UNCHANGED vars
      PROVE  CallTypes'
  BY <1>6, <1>d DEF HoldTtlElapses, Sweep, OthersTake, Restock, Bury, ordersVars, vars
<1> QED BY <1>1, <1>2, <1>3, <1>4, <1>5, <1>6 DEF Next

\* The first layer is inductive.
LEMMA SaleStep == SaleInv /\ CallTypes /\ [Next]_vars => SaleInv'
<1> SUFFICES ASSUME SaleInv, CallTypes, [Next]_vars PROVE SaleInv'
  OBVIOUS
<1>1. ASSUME NEW o \in Orders,
             \/ Deliver(o) \/ DeliverCancelled(o) \/ Dispatch(o)
      PROVE  SaleInv'
  BY <1>1, ParcelStepSale DEF Deliver, DeliverCancelled, Dispatch, ordersVars, outbox, Online
<1>2. ASSUME NEW call \in late, LateCallRuns(call) PROVE SaleInv'
  <2>1. CASE UNCHANGED logisticsVars
    BY <1>2, <2>1, SaleSame DEF LateCallRuns, saleVars, outbox, logisticsVars
  <2>2. CASE call[1] = "ask" /\ Life!AcceptCancellation(call[2])
    <3>1. call[2] \in Orders
      BY DEF CallTypes
    <3> QED BY <1>2, <2>2, <3>1, ParcelStepSale DEF LateCallRuns, Life!AcceptCancellation, outbox
  <2> QED BY <1>2, <2>1, <2>2 DEF LateCallRuns
<1>3. ASSUME \/ \E k \in Orders \X Stocks : HoldTtlElapses(k)
             \/ Sweep
             \/ \E s \in Stocks : OthersTake(s)
             \/ \E e \in cancelEvents : Restock(e) \/ Bury(e)
             \/ UNCHANGED vars
      PROVE  SaleInv'
  BY <1>3, SaleSame
  DEF HoldTtlElapses, Sweep, OthersTake, Restock, Bury, Delivery!Bury, ordersVars, outbox,
      logisticsVars, vars, saleVars
<1> QED BY <1>1, <1>2, <1>3, CreateStepSale, CancelStepSale DEF Next

LEMMA SaleInit == Init => SaleInv /\ CallTypes
<1> SUFFICES ASSUME Init PROVE SaleInv /\ CallTypes
  OBVIOUS
<1>1. \A S : Idle \in Request(S)
  BY RequestTypes DEF Idle, Request
<1>2. SaleTypes
  BY <1>1 DEF Init, SaleTypes, Life!Init, Life!Stages, Idle
<1>3. ASSUME NEW o \in Orders PROVE KnownOrders(o) /\ CancelIsSound(o) /\ WithoutRace(o)
  <2>1. order[o] = None /\ create[o].pc = "idle" /\ cancel[o].pc = "idle" /\ stage[o] = "unknown"
    BY DEF Init, Idle, Life!Init
  <2>2. completed = {} /\ cancelEvents = {} /\ Status(o) = "none"
    BY <2>1 DEF Init, Status
  <2> QED BY <2>1, <2>2 DEF KnownOrders, CancelIsSound, WithoutRace, Running
<1> QED BY <1>2, <1>3 DEF Init, SaleInv, CallTypes

LEMMA SaleInvariant == Spec => [](SaleInv /\ CallTypes)
BY SaleInit, SaleStep, CallStep, PTL DEF Spec

\* Whatever create and cancel do to each other, are cut at or run late: an order
\* whose cancellation was announced for compensation never leaves the warehouse,
\* because orders.service.ts asks Logistics before it finalizes.
THEOREM CompensatedStaysHere == Spec => []CompensatedNeverDispatched
<1>1. SaleInv => CompensatedNeverDispatched
  <2> SUFFICES ASSUME SaleInv, NEW e \in cancelEvents PROVE stage[e[1]] # "dispatched"
    BY DEF CompensatedNeverDispatched
  <2>1. e[1] \in Orders /\ e = <<e[1], 1>>
    BY DEF SaleInv, SaleTypes
  <2>2. CancelIsSound(e[1])
    BY <2>1 DEF SaleInv
  <2> QED BY <2>1, <2>2 DEF CancelIsSound, Stopped
<1> QED BY <1>1, SaleInvariant, PTL

\* Orders never writes a second order.cancelled.v1: a sold order has no checkout
\* under way that could take CANCELLED back.
THEOREM CompensatedOnce == Spec => []CompensatedAtMostOnce
<1>1. SaleInv => CompensatedAtMostOnce
  <2> SUFFICES ASSUME SaleInv, NEW o \in Orders
               PROVE  Cardinality({e \in cancelEvents : e[1] = o}) <= 1
    BY DEF CompensatedAtMostOnce
  <2>1. {e \in cancelEvents : e[1] = o} \in {{}, {<<o, 1>>}}
    BY DEF SaleInv, SaleTypes
  <2>2. Cardinality({}) = 0 /\ Cardinality({<<o, 1>>}) = 1
    BY FS_EmptySet, FS_Singleton
  <2>3. \A S \in {{}, {<<o, 1>>}} : Cardinality(S) <= 1
    BY <2>2
  <2> QED BY <2>1, <2>3
<1> QED BY <1>1, SaleInvariant, PTL

\* What left the warehouse stays sold, unless create and cancel overlapped.
THEOREM DispatchedIsSold == Spec => []DispatchedStaysSold
<1>1. SaleInv => DispatchedStaysSold
  <2> SUFFICES ASSUME SaleInv, NEW o \in Orders \ raced, stage[o] = "dispatched"
               PROVE  Status(o) \in {"CONFIRMED", "CANCELLATION_PENDING"}
    BY DEF DispatchedStaysSold
  <2> QED BY DEF SaleInv, KnownOrders, CancelIsSound, WithoutRace, Stopped, Status
<1> QED BY <1>1, SaleInvariant, PTL

------------------------------------------------------------------------------
\* What Inventory's steps do to reservations, as far as Orders depends on it.

\* No step takes a reservation back to RESERVED or away.
SettledStay == \A o \in Orders, s \in Stocks : Settled(o, s) => Settled(o, s)'

\* No reservation becomes COMMITTED but, possibly, those of C.
ConsumesOnly(C) ==
  \A o \in Orders, s \in Stocks :
    Inv!HasStatus(Key(o, s), "COMMITTED")' =>
      Inv!HasStatus(Key(o, s), "COMMITTED") \/ <<o, s>> \in C

KeepsStock(C) == InventoryTypes' /\ LogIsSettled' /\ SettledStay /\ ConsumesOnly(C)

\* A reservation that changes status.
LEMMA StatusRecord ==
  ASSUME NEW r \in Inv!Reservation, NEW status \in Inv!Statuses
  PROVE  /\ [r EXCEPT !.status = status] \in Inv!Reservation
         /\ [r EXCEPT !.status = status].status = status
         /\ [r EXCEPT !.status = status] # None
<1>1. [r EXCEPT !.status = status] \in Inv!Reservation
  BY DEF Inv!Reservation
<1> QED BY <1>1, AbsentAssumption DEF Inv!Reservation

\* Expired holds are released: a sweep, or part of another operation.
LEMMA SweepKeeps ==
  ASSUME InventoryTypes, LogIsSettled, NEW E \in SUBSET Inv!Due,
         reservation' = Inv!SetStatus(E, "EXPIRED"), UNCHANGED operation
  PROVE  KeepsStock({})
<1>1. E \in SUBSET (Orders \X Stocks) /\ \A k \in E : reservation[k] # None
  BY DEF Inv!Due, Inv!HasStatus
<1>2. /\ reservation' \in [Orders \X Stocks -> Inv!Reservation \cup {None}]
      /\ \A k \in (Orders \X Stocks) \ E : reservation'[k] = reservation[k]
      /\ \A k \in E : reservation'[k] # None /\ reservation'[k].status = "EXPIRED"
  <2>1. \A k \in E : reservation[k] \in Inv!Reservation
    BY <1>1 DEF InventoryTypes
  <2>2. \A k \in E : LET r == [reservation[k] EXCEPT !.status = "EXPIRED"] IN
                     r \in Inv!Reservation /\ r # None /\ r.status = "EXPIRED"
    BY <2>1, StatusRecord DEF Inv!Statuses
  <2> QED BY <1>1, <2>2 DEF Inv!SetStatus, InventoryTypes
<1>3. InventoryTypes'
  BY <1>2 DEF InventoryTypes
<1>4. SettledStay /\ ConsumesOnly({})
  BY <1>2 DEF SettledStay, ConsumesOnly, Settled, Key, Inv!HasStatus
<1>5. LogIsSettled'
  BY <1>4 DEF LogIsSettled, SettledStay
<1> QED BY <1>3, <1>4, <1>5 DEF KeepsStock

\* A step that changes neither reservations nor the log.
LEMMA SameKeeps ==
  ASSUME InventoryTypes, LogIsSettled, UNCHANGED <<reservation, operation>>
  PROVE  KeepsStock({})
BY DEF InventoryTypes, LogIsSettled, KeepsStock, SettledStay, ConsumesOnly, Settled,
       Inv!HasStatus

LEMMA ReserveKeeps ==
  ASSUME InventoryTypes, LogIsSettled, NEW o \in Orders, NEW s \in Lines(o),
         Inv!Reserve(Key(o, s), s, Cart[o][s])
  PROVE  KeepsStock({})
<1> DEFINE hold == [stock |-> s, quantity |-> Cart[o][s], status |-> "RESERVED", due |-> FALSE]
<1>0. /\ reservation[<<o, s>>] = None
      /\ \E E \in Inv!Sweepable :
           reservation' = [Inv!SetStatus(E, "EXPIRED") EXCEPT ![<<o, s>>] = hold]
      /\ UNCHANGED operation
  BY DEF Inv!Reserve, Key
<1>1. PICK E \in SUBSET Inv!Due :
        reservation' = [Inv!SetStatus(E, "EXPIRED") EXCEPT ![<<o, s>>] = hold]
  BY <1>0 DEF Inv!Sweepable
<1>2. /\ E \in SUBSET (Orders \X Stocks) /\ <<o, s>> \in (Orders \X Stocks) \ E
      /\ \A k \in E : reservation[k] # None
  BY <1>0 DEF Inv!Due, Inv!HasStatus, Lines
<1>3. hold \in Inv!Reservation /\ hold.status = "RESERVED" /\ hold # None
  <2>1. s \in Stocks /\ Cart[o][s] \in 1..MaxQuantity
    BY CheckoutAssumption DEF Lines
  <2>2. hold \in Inv!Reservation /\ hold.status = "RESERVED"
    BY <2>1 DEF Inv!Reservation, Inv!Statuses
  <2> QED BY <2>2, AbsentAssumption
<1> HIDE DEF hold
<1>4. /\ reservation' \in [Orders \X Stocks -> Inv!Reservation \cup {None}]
      /\ \A k \in (Orders \X Stocks) \ E :
           k # <<o, s>> => reservation'[k] = reservation[k]
      /\ \A k \in E : reservation'[k] # None /\ reservation'[k].status = "EXPIRED"
      /\ reservation'[<<o, s>>] = hold
  <2> DEFINE R == Inv!SetStatus(E, "EXPIRED")
  <2>1. \A k \in E : LET r == [reservation[k] EXCEPT !.status = "EXPIRED"] IN
                     r \in Inv!Reservation /\ r # None /\ r.status = "EXPIRED"
    BY <1>2, StatusRecord DEF Inv!Statuses, InventoryTypes
  <2>2. /\ R \in [Orders \X Stocks -> Inv!Reservation \cup {None}]
        /\ \A k \in (Orders \X Stocks) \ E : R[k] = reservation[k]
        /\ \A k \in E : R[k] # None /\ R[k].status = "EXPIRED"
    BY <1>2, <2>1 DEF Inv!SetStatus, InventoryTypes
  <2>3. reservation' = [R EXCEPT ![<<o, s>>] = hold]
    BY <1>1
  <2> HIDE DEF R
  <2> QED BY <1>2, <1>3, <2>2, <2>3
<1>5. InventoryTypes'
  BY <1>0, <1>4 DEF InventoryTypes
<1>6. SettledStay /\ ConsumesOnly({})
  BY <1>0, <1>3, <1>4 DEF SettledStay, ConsumesOnly, Settled, Key, Inv!HasStatus
<1>7. LogIsSettled'
  BY <1>0, <1>6 DEF LogIsSettled, SettledStay
<1> QED BY <1>5, <1>6, <1>7 DEF KeepsStock

\* transitionReservation of the line's reservation: consumed or given back.
LEMMA TransitionKeeps ==
  ASSUME InventoryTypes, LogIsSettled, NEW o \in Orders, NEW s \in Stocks,
         NEW purpose \in {"commit", "cancel", "rollback"},
         \/ Inv!Commit(OpKey(purpose, o, s), Key(o, s))
         \/ Inv!Release(OpKey(purpose, o, s), Key(o, s))
  PROVE  /\ Settled(o, s)'
         /\ KeepsStock({<<o, s>>})
         /\ Inv!Release(OpKey(purpose, o, s), Key(o, s)) => KeepsStock({})
<1> DEFINE p == OpKey(purpose, o, s)
<1>1. PICK status \in {"COMMITTED", "RELEASED"}, kind \in {"COMMIT", "RELEASE"} :
        /\ reservation' = Inv!SetStatus({<<o, s>>}, status)
        /\ operation' = [operation EXCEPT ![p] = [key |-> <<o, s>>, operation |-> kind]]
        /\ Inv!Release(p, Key(o, s)) => status = "RELEASED"
  <2>1. CASE Inv!Release(p, Key(o, s))
    BY <2>1 DEF Inv!Release, Key
  <2>2. CASE Inv!Commit(p, Key(o, s)) /\ ~Inv!Release(p, Key(o, s))
    BY <2>2 DEF Inv!Commit, Key
  <2> QED BY <2>1, <2>2
<1>2. reservation[<<o, s>>] # None
  BY DEF Inv!Commit, Inv!Release, Inv!Live, Inv!HasStatus, Key
<1>3. /\ reservation' \in [Orders \X Stocks -> Inv!Reservation \cup {None}]
      /\ \A k \in Orders \X Stocks : k # <<o, s>> => reservation'[k] = reservation[k]
      /\ reservation'[<<o, s>>] # None /\ reservation'[<<o, s>>].status = status
  <2> DEFINE r == [reservation[<<o, s>>] EXCEPT !.status = status]
  <2>1. reservation[<<o, s>>] \in Inv!Reservation /\ status \in Inv!Statuses
    BY <1>2 DEF InventoryTypes, Inv!Statuses
  <2>2. r \in Inv!Reservation /\ r # None /\ r.status = status
    BY <2>1, StatusRecord
  <2>3. reservation' = [k \in Orders \X Stocks |-> IF k = <<o, s>> THEN r ELSE reservation[k]]
    BY <1>1 DEF Inv!SetStatus
  <2> HIDE DEF r
  <2> QED BY <2>2, <2>3 DEF InventoryTypes
<1>4. p \in {"commit", "cancel", "rollback"} \X Orders \X Stocks
  BY DEF OpKey
<1>5. [key |-> <<o, s>>, operation |-> kind] \in Inv!Operation
  BY DEF Inv!Operation
<1>6. InventoryTypes'
  BY <1>1, <1>3, <1>4, <1>5 DEF InventoryTypes
<1>7. Settled(o, s)' /\ SettledStay /\ ConsumesOnly({<<o, s>>})
  BY <1>3 DEF SettledStay, ConsumesOnly, Settled, Key, Inv!HasStatus
<1>8. status = "RELEASED" => ConsumesOnly({})
  BY <1>3 DEF ConsumesOnly, Key, Inv!HasStatus
<1>9. LogIsSettled'
  <2> SUFFICES ASSUME NEW u \in {"commit", "cancel", "rollback"}, NEW x \in Orders, NEW t \in Stocks,
                      operation'[<<u, x, t>>] # None
               PROVE  Settled(x, t)'
    BY DEF LogIsSettled, OpKey
  <2>1. CASE x = o /\ t = s
    BY <2>1, <1>7
  <2>2. CASE ~(x = o /\ t = s)
    <3>1. operation'[<<u, x, t>>] = operation[<<u, x, t>>]
      BY <2>2, <1>1, <1>4 DEF InventoryTypes, OpKey
    <3> QED BY <3>1, <1>7 DEF LogIsSettled, OpKey, SettledStay
  <2> QED BY <2>1, <2>2
<1> QED BY <1>1, <1>6, <1>7, <1>8, <1>9 DEF KeepsStock

\* Calls that find the reservation past its TTL, or no stock, only release holds.
LEMMA RefusalKeeps ==
  ASSUME InventoryTypes, LogIsSettled, NEW o \in Orders, NEW s \in Stocks,
         \/ Inv!ReserveOutOfStock(Key(o, s), s, Cart[o][s])
         \/ \E p : Inv!TransitionExpires(p, Key(o, s))
  PROVE  KeepsStock({})
<1>1. CASE Inv!ReserveOutOfStock(Key(o, s), s, Cart[o][s])
  BY <1>1, SweepKeeps DEF Inv!ReserveOutOfStock, Inv!Sweepable
<1>2. CASE \E p : Inv!TransitionExpires(p, Key(o, s))
  <2>1. Key(o, s) \in Inv!Due /\ UNCHANGED operation
        /\ reservation' = Inv!SetStatus({Key(o, s)}, "EXPIRED")
    BY <1>2 DEF Inv!TransitionExpires
  <2> QED BY <2>1, SweepKeeps
<1> QED BY <1>1, <1>2

\* Inventory's own steps.
LEMMA OwnStepKeeps ==
  ASSUME InventoryTypes, LogIsSettled,
         \/ \E k \in Orders \X Stocks : Inv!TtlElapses(k)
         \/ Inv!ExpireReservations
         \/ \E s \in Stocks : Inv!MovementOut(s, 1)
         \/ \E e \in cancelEvents : Inv!RestoreCancelledOrder(e)
  PROVE  KeepsStock({})
<1>1. ASSUME NEW k \in Orders \X Stocks, Inv!TtlElapses(k) PROVE KeepsStock({})
  <2>1. /\ reservation[k] \in Inv!Reservation
        /\ reservation' = [reservation EXCEPT ![k] = [reservation[k] EXCEPT !.due = TRUE]]
        /\ UNCHANGED operation
    BY <1>1 DEF Inv!TtlElapses, Inv!Live, Inv!HasStatus, InventoryTypes
  <2>2. /\ [reservation[k] EXCEPT !.due = TRUE] \in Inv!Reservation
        /\ [reservation[k] EXCEPT !.due = TRUE].status = reservation[k].status
    BY <2>1 DEF Inv!Reservation
  <2>3. InventoryTypes'
    BY <2>1, <2>2 DEF InventoryTypes
  <2>4. \A j \in Orders \X Stocks :
          /\ reservation'[j] = None <=> reservation[j] = None
          /\ reservation[j] # None => reservation'[j].status = reservation[j].status
    BY <2>1, <2>2, AbsentAssumption DEF InventoryTypes
  <2>5. SettledStay /\ ConsumesOnly({})
    BY <2>4 DEF SettledStay, ConsumesOnly, Settled, Key, Inv!HasStatus
  <2>6. LogIsSettled'
    BY <2>1, <2>5 DEF LogIsSettled, SettledStay
  <2> QED BY <2>3, <2>5, <2>6 DEF KeepsStock
<1>2. CASE Inv!ExpireReservations
  BY <1>2, SweepKeeps DEF Inv!ExpireReservations, Inv!Sweepable
<1>3. ASSUME NEW s \in Stocks, Inv!MovementOut(s, 1) PROVE KeepsStock({})
  BY <1>3, SweepKeeps DEF Inv!MovementOut, Inv!Sweepable
<1>4. ASSUME NEW e \in cancelEvents, Inv!RestoreCancelledOrder(e) PROVE KeepsStock({})
  BY <1>4, SameKeeps DEF Inv!RestoreCancelledOrder
<1> QED BY <1>1, <1>2, <1>3, <1>4

------------------------------------------------------------------------------
\* The second layer is inductive.

\* Calls under way that matter to this layer: none of x appeared.
QuietCalls(x) ==
  \A s \in Stocks :
    /\ OpKey("commit", x, s) \in late' => OpKey("commit", x, s) \in late
    /\ <<"reserve", x, s>> \in late' => <<"reserve", x, s>> \in late

\* Nothing of x can be consumed after the step that could not before.
LEMMA ConsumeKept ==
  ASSUME NEW x \in Orders, NEW C, ConsumesOnly(C), QuietCalls(x),
         create'[x].pc = create[x].pc \/ create'[x].pc \notin {"mark", "commit"},
         \A s \in Stocks : <<x, s>> \in C => MayConsume(x)
  PROVE  MayConsume(x)' => MayConsume(x)
<1> SUFFICES ASSUME MayConsume(x)' PROVE MayConsume(x)
  OBVIOUS
<1>1. CASE create'[x].pc \in {"mark", "commit"}
  BY <1>1 DEF MayConsume
<1>2. CASE \E s \in Stocks : OpKey("commit", x, s) \in late'
  BY <1>2 DEF MayConsume, QuietCalls
<1>3. CASE Consumed(x)' # {}
  <2>1. PICK s \in Lines(x) : Inv!HasStatus(Key(x, s), "COMMITTED")'
    BY <1>3 DEF Consumed, Lines
  <2>2. s \in Stocks
    BY DEF Lines
  <2>3. CASE Inv!HasStatus(Key(x, s), "COMMITTED")
    BY <2>3 DEF MayConsume, Consumed
  <2>4. CASE <<x, s>> \in C
    BY <2>2, <2>4
  <2> QED BY <2>1, <2>2, <2>3, <2>4 DEF ConsumesOnly
<1> QED BY <1>1, <1>2, <1>3 DEF MayConsume, OpKey

\* A step that leaves the checkout of x where it is; only the status may change.
LEMMA StockOthers ==
  ASSUME NEW x \in Orders, StockOf(x), SettledStay, QuietCalls(x),
         create'[x] = create[x], x \in completed' <=> x \in completed,
         MayConsume(x)' => MayConsume(x),
         \/ order'[x] = order[x]
         \/ /\ order[x] # None /\ order'[x] # None
            /\ order'[x].priced = order[x].priced
            /\ order'[x].assigned = order[x].assigned
            /\ order'[x].failed = order[x].failed
            /\ order[x].failed => order'[x].status = "CANCELLED"
  PROVE  StockOf(x)'
<1>1. AllAssigned(x)' <=> AllAssigned(x)
  BY DEF AllAssigned, Lines
<1>2. Progress(x)'
  BY <1>1 DEF StockOf, Progress, QuietCalls, Lines
<1>3. FailureIsFinal(x)'
  BY <1>1 DEF StockOf, FailureIsFinal, Running
<1>4. SaleIsSettled(x)'
  BY DEF StockOf, SaleIsSettled, SettledStay, Lines
<1> QED BY <1>2, <1>3, <1>4 DEF StockOf

\* Steps in which no order changes but, possibly, its status.
LEMMA StockFrame ==
  ASSUME StockInv, NEW C, KeepsStock(C), UNCHANGED <<create, completed>>,
         \A x \in Orders : QuietCalls(x),
         \A x \in Orders, s \in Stocks : <<x, s>> \in C => MayConsume(x),
         \A x \in Orders :
           \/ order'[x] = order[x]
           \/ /\ order[x] # None /\ order'[x] # None
              /\ order'[x].priced = order[x].priced
              /\ order'[x].assigned = order[x].assigned
              /\ order'[x].failed = order[x].failed
              /\ order[x].failed => order'[x].status = "CANCELLED"
  PROVE  StockInv'
<1>1. ASSUME NEW x \in Orders PROVE StockOf(x)'
  <2>1. StockOf(x) /\ SettledStay /\ ConsumesOnly(C)
    BY DEF StockInv, KeepsStock
  <2>2. MayConsume(x)' => MayConsume(x)
    BY <2>1, ConsumeKept
  <2> QED BY <2>1, <2>2, StockOthers
<1> QED BY <1>1 DEF StockInv, KeepsStock

\* A step of the create request of o.
LEMMA StockOwn ==
  ASSUME SaleInv, StockInv, NEW o \in Orders, NEW C, KeepsStock(C),
         \A x \in Orders, s \in Stocks : <<x, s>> \in C => x = o,
         \A x \in Orders \ {o} :
           /\ order'[x] = order[x] /\ create'[x] = create[x]
           /\ x \in completed' <=> x \in completed
           /\ QuietCalls(x),
         StockOf(o)'
  PROVE  StockInv'
<1>1. ASSUME NEW x \in Orders \ {o} PROVE StockOf(x)'
  <2>1. StockOf(x) /\ SettledStay /\ ConsumesOnly(C)
    BY DEF StockInv, KeepsStock
  <2>2. MayConsume(x)' => MayConsume(x)
    BY <2>1, ConsumeKept
  <2> QED BY <2>1, <2>2, StockOthers
<1> QED BY <1>1 DEF StockInv, KeepsStock

\* What is known of o when its create request is about to step.
LEMMA StockBefore ==
  ASSUME SaleInv, StockInv, NEW o \in Orders
  PROVE  /\ StockOf(o) /\ InventoryTypes /\ LogIsSettled
         /\ order \in [Orders -> Order \cup {None}]
         /\ create \in [Orders -> Request(CreateSteps)]
         /\ create[o].todo \subseteq Stocks
         /\ Running(create, o) => /\ order[o] \in Order
                                  /\ o \notin completed
                                  /\ ~order[o].failed
BY DEF SaleInv, SaleTypes, KnownOrders, StockInv, StockOf, FailureIsFinal, Request

\* What such a step leaves behind, when it calls Inventory and writes nothing.
LEMMA StockCalls ==
  ASSUME SaleInv, StockInv, NEW o \in Orders, NEW C, KeepsStock(C),
         \A x \in Orders, s \in Stocks : <<x, s>> \in C => x = o /\ MayConsume(o),
         NEW c, create' = [create EXCEPT ![o] = c],
         Running(create, o), UNCHANGED <<order, completed>>,
         c.pc \in {"mark", "commit"} => AllAssigned(o),
         c.pc \in {"reserve", "assign"} =>
           create[o].pc = "reserve" /\ c.todo = create[o].todo,
         c.pc = "rollback" => ~AllAssigned(o),
         c.pc # "price",
         c.pc = "commit" =>
           c.todo \subseteq Lines(o) /\ \A s \in Lines(o) \ c.todo : Settled(o, s)',
         \A x \in Orders \ {o} : QuietCalls(x),
         \A s \in Stocks : OpKey("commit", o, s) \in late' =>
           OpKey("commit", o, s) \in late \/ AllAssigned(o),
         \A s \in Stocks : <<"reserve", o, s>> \in late' =>
           <<"reserve", o, s>> \in late \/ s \in Lines(o)
  PROVE  StockInv'
<1>1. /\ StockOf(o) /\ SettledStay /\ ConsumesOnly(C)
      /\ order[o] \in Order /\ o \notin completed /\ ~order[o].failed
      /\ create'[o] = c
  BY StockBefore DEF KeepsStock
<1>2. AllAssigned(o)' <=> AllAssigned(o)
  BY DEF AllAssigned, Lines
<1>3. MayConsume(o)' => AllAssigned(o)
  <2> SUFFICES ASSUME MayConsume(o)', ~AllAssigned(o) PROVE FALSE
    OBVIOUS
  <2>1. ~MayConsume(o)
    BY <1>1 DEF StockOf, Progress
  <2>2. Consumed(o)' # {}
    BY <1>1, <2>1 DEF MayConsume, OpKey
  <2>3. PICK s \in Lines(o) : Inv!HasStatus(Key(o, s), "COMMITTED")'
    BY <2>2 DEF Consumed, Lines
  <2> QED BY <1>1, <2>1, <2>3 DEF ConsumesOnly, MayConsume, Consumed, Lines
<1>4. Progress(o)'
  BY <1>1, <1>2, <1>3 DEF StockOf, Progress, Lines
<1>5. FailureIsFinal(o)' /\ SaleIsSettled(o)'
  BY <1>1 DEF FailureIsFinal, SaleIsSettled, Lines
<1>6. StockOf(o)'
  BY <1>4, <1>5 DEF StockOf
<1> QED BY <1>6, StockBefore, StockOwn

\* Such a step that writes the order and calls nobody.
LEMMA StockWrites ==
  ASSUME SaleInv, StockInv, NEW o \in Orders, NEW c, NEW r,
         order' = [order EXCEPT ![o] = r], create' = [create EXCEPT ![o] = c],
         completed' \in {completed, completed \cup {o}},
         UNCHANGED <<late, reservation, operation>>,
         StockOf(o)'
  PROVE  StockInv'
<1>1. KeepsStock({})
  BY SameKeeps DEF StockInv
<1>2. \A x \in Orders : QuietCalls(x)
  BY DEF QuietCalls
<1>3. \A x \in Orders \ {o} : /\ order'[x] = order[x] /\ create'[x] = create[x]
                             /\ x \in completed' <=> x \in completed
  BY StockBefore
<1> QED BY <1>1, <1>2, <1>3, StockOwn

\* The steps that write the order.
LEMMA CreateWritesStock ==
  ASSUME SaleInv, StockInv, NEW o \in Orders,
         \/ CreateCall(o) \/ Snapshot(o) \/ PriceChanged(o) \/ AssignReservation(o)
         \/ MarkReserved(o) \/ Confirm(o) \/ FailOutOfStock(o)
  PROVE  StockInv'
<1> USE AbsentAssumption DEF inventoryVars, outbox, At, Idle
<1>a. /\ StockOf(o) /\ KnownOrders(o)
      /\ order \in [Orders -> Order \cup {None}]
      /\ create \in [Orders -> Request(CreateSteps)]
      /\ create[o].todo \subseteq Stocks
      /\ Running(create, o) => order[o] \in Order /\ o \notin completed /\ ~order[o].failed
  BY StockBefore DEF SaleInv
<1>b. ASSUME UNCHANGED <<late, reservation>>, create'[o].pc \notin {"mark", "commit"}
      PROVE  MayConsume(o)' => MayConsume(o)
  BY <1>b DEF MayConsume, Consumed, Lines, Inv!HasStatus
<1>c. UNCHANGED reservation => \A s \in Stocks : Settled(o, s)' <=> Settled(o, s)
  BY DEF Settled
<1>d. ASSUME Fail(o), Running(create, o), ~AllAssigned(o) PROVE StockInv'
  <2> DEFINE r == [order[o] EXCEPT !.status = "CANCELLED", !.failed = TRUE]
  <2>1. /\ order' = [order EXCEPT ![o] = r] /\ create' = [create EXCEPT ![o] = Idle]
        /\ UNCHANGED <<late, completed, reservation, operation>>
    BY <1>a, <1>d DEF Fail, SetCreate
  <2>2. /\ r \in Order /\ r.status = "CANCELLED" /\ r.priced = order[o].priced
        /\ r.assigned = order[o].assigned
    BY <1>a, <1>d DEF Order
  <2> HIDE DEF r
  <2>3. order'[o] = r /\ create'[o].pc = "idle" /\ order[o] # None
    BY <2>1, <1>a, <1>d
  <2>4. ~AllAssigned(o)' /\ ~MayConsume(o)
    BY <1>a, <1>d, <2>2, <2>3 DEF AllAssigned, StockOf, Progress, Lines
  <2>5. ~MayConsume(o)'
    BY <1>b, <2>1, <2>3, <2>4
  <2>6. Progress(o)'
    BY <1>a, <2>1, <2>2, <2>3, <2>4, <2>5 DEF Progress, StockOf, Lines
  <2>7. FailureIsFinal(o)' /\ SaleIsSettled(o)'
    BY <1>a, <1>d, <2>1, <2>2, <2>3, <2>4 DEF FailureIsFinal, SaleIsSettled, Running, StockOf
  <2> QED BY <2>1, <2>6, <2>7, StockWrites DEF StockOf
<1>1. CASE CreateCall(o) /\ order[o] = None
  <2>1. PICK channel \in {"ONLINE", "PHYSICAL"} :
          order' = [order EXCEPT ![o] =
             [channel |-> channel, status |-> "PENDING", priced |-> FALSE,
              assigned |-> {}, failed |-> FALSE]]
    BY <1>1 DEF CreateCall, Resumable, Status
  <2> DEFINE r == [channel |-> channel, status |-> "PENDING", priced |-> FALSE,
                   assigned |-> {}, failed |-> FALSE]
  <2>2. /\ create' = [create EXCEPT ![o] = At("price", {})]
        /\ UNCHANGED <<late, completed, reservation, operation>>
    BY <1>1 DEF CreateCall, Resumable, Status, SetCreate
  <2>3. order'[o] = r /\ create'[o].pc = "price" /\ r # None
    <3>1. r \in Order
      BY DEF Order
    <3> QED BY <1>a, <2>1, <2>2, <3>1
  <2>4. ~MayConsume(o) /\ o \notin completed
    BY <1>a, <1>1 DEF StockOf, Progress, AllAssigned, KnownOrders
  <2>5. ~MayConsume(o)'
    BY <1>b, <2>2, <2>3, <2>4
  <2>6. Progress(o)' /\ FailureIsFinal(o)' /\ SaleIsSettled(o)'
    BY <1>a, <2>2, <2>3, <2>4, <2>5 DEF Progress, FailureIsFinal, SaleIsSettled, StockOf, Lines
  <2> QED BY <2>1, <2>2, <2>6, StockWrites DEF StockOf
<1>2. CASE CreateCall(o) /\ order[o] # None
  <2> DEFINE c == IF order[o].priced THEN At("reserve", Lines(o) \ order[o].assigned)
                  ELSE At("price", {})
  <2>1. /\ create' = [create EXCEPT ![o] = c] /\ order' = [order EXCEPT ![o] = order[o]]
        /\ UNCHANGED <<late, order, completed, reservation, operation>>
        /\ Status(o) \in {"PENDING", "RESERVED"}
    BY <1>2, <1>a DEF CreateCall, Resumable, SetCreate
  <2>2. create'[o] = c /\ o \notin completed
    BY <1>a, <1>2, <2>1 DEF KnownOrders, Status
  <2>3. ~order[o].failed
    BY <1>a, <1>2, <2>1 DEF StockOf, FailureIsFinal, Status
  <2>4. MayConsume(o)' => MayConsume(o)
    BY <1>b, <2>1, <2>2
  <2>5. AllAssigned(o)' <=> AllAssigned(o)
    BY <2>1 DEF AllAssigned
  <2>6. Progress(o)'
    BY <1>a, <1>2, <2>1, <2>2, <2>4, <2>5 DEF Progress, StockOf, Lines
  <2>7. FailureIsFinal(o)' /\ SaleIsSettled(o)'
    BY <2>1, <2>2, <2>3 DEF FailureIsFinal, SaleIsSettled
  <2> QED BY <2>1, <2>6, <2>7, StockWrites DEF StockOf
<1>3. CASE Snapshot(o)
  <2> DEFINE r == [order[o] EXCEPT !.priced = TRUE]
  <2>1. /\ order' = [order EXCEPT ![o] = r]
        /\ create' = [create EXCEPT ![o] = At("reserve", Lines(o))]
        /\ UNCHANGED <<late, completed, reservation, operation>>
        /\ create[o].pc = "price" /\ Running(create, o)
    BY <1>3, <1>a DEF Snapshot, SetCreate, Running
  <2>2. r \in Order /\ r.priced /\ r.assigned = order[o].assigned /\ r.failed = order[o].failed
    BY <1>a, <2>1 DEF Order
  <2> HIDE DEF r
  <2>3. order'[o] = r /\ create'[o] = At("reserve", Lines(o)) /\ order[o] # None
    BY <1>a, <2>1
  <2>4. order[o].assigned = {} /\ ~AllAssigned(o)
    BY <1>a, <2>1, <2>3 DEF StockOf, Progress, AllAssigned
  <2>5. ~MayConsume(o)'
    BY <1>a, <1>b, <2>1, <2>3, <2>4 DEF StockOf, Progress
  <2>6. Progress(o)'
    BY <1>a, <2>1, <2>2, <2>3, <2>4, <2>5 DEF Progress, StockOf, Lines
  <2>7. FailureIsFinal(o)' /\ SaleIsSettled(o)'
    BY <1>a, <2>1, <2>2, <2>3 DEF FailureIsFinal, SaleIsSettled
  <2> QED BY <2>1, <2>6, <2>7, StockWrites DEF StockOf
<1>4. CASE PriceChanged(o)
  BY <1>4, <1>a, <1>d DEF PriceChanged, StockOf, Progress, AllAssigned, Running
<1>5. CASE FailOutOfStock(o)
  BY <1>5, <1>a, <1>d DEF FailOutOfStock, StockOf, Progress, Running
<1>6. CASE AssignReservation(o)
  <2> DEFINE line == create[o].line
             r == [order[o] EXCEPT !.assigned = @ \cup {line}]
             c == At("reserve", create[o].todo \ {line})
  <2>1. /\ order' = [order EXCEPT ![o] = r] /\ create' = [create EXCEPT ![o] = c]
        /\ UNCHANGED <<late, completed, reservation, operation>>
        /\ create[o].pc = "assign" /\ Running(create, o)
    BY <1>6, <1>a DEF AssignReservation, SetCreate, Running
  <2>2. /\ line \in Stocks /\ line \in create[o].todo
    BY <1>a, <2>1 DEF SaleInv, SaleTypes
  <2>3. /\ r \in Order /\ r.priced = order[o].priced /\ r.failed = order[o].failed
        /\ r.assigned = order[o].assigned \cup {line}
    BY <1>a, <2>1, <2>2 DEF Order
  <2>4. order'[o] = r /\ create'[o] = c /\ order[o] # None
    BY <1>a, <2>1
  <2> HIDE DEF r
  <2>5. AllAssigned(o) => AllAssigned(o)'
    BY <2>3, <2>4 DEF AllAssigned, Lines
  <2>6. MayConsume(o)' => MayConsume(o)
    BY <1>b, <2>1, <2>4
  <2>7. Progress(o)'
    BY <1>a, <2>1, <2>2, <2>3, <2>4, <2>5, <2>6 DEF Progress, StockOf, Lines
  <2>8. FailureIsFinal(o)' /\ SaleIsSettled(o)'
    BY <1>a, <2>1, <2>3, <2>4 DEF FailureIsFinal, SaleIsSettled
  <2> QED BY <2>1, <2>7, <2>8, StockWrites DEF StockOf
<1>7. CASE MarkReserved(o) \/ Confirm(o)
  <2>1. PICK status \in {"RESERVED", "CONFIRMED"}, c \in {At("commit", Lines(o)), Idle} :
          /\ order' = [order EXCEPT ![o] = [order[o] EXCEPT !.status = status]]
          /\ create' = [create EXCEPT ![o] = c]
          /\ c = Idle => create[o].pc = "commit" /\ create[o].todo = {}
          /\ c # Idle => completed' = completed
    BY <1>7, <1>a DEF MarkReserved, Confirm, WriteStatus, SetCreate
  <2>2. /\ UNCHANGED <<late, reservation, operation>>
        /\ create[o].pc \in {"mark", "commit"} /\ Running(create, o)
        /\ completed' \in {completed, completed \cup {o}}
    BY <1>7 DEF MarkReserved, Confirm, Running
  <2> DEFINE r == [order[o] EXCEPT !.status = status]
  <2>3. /\ r \in Order /\ r.priced = order[o].priced /\ r.failed = order[o].failed
        /\ r.assigned = order[o].assigned
    BY <1>a, <2>2 DEF Order
  <2>4. order'[o] = r /\ create'[o] = c /\ order[o] # None
    BY <1>a, <2>1, <2>2
  <2> HIDE DEF r
  <2>5. AllAssigned(o)
    BY <1>a, <2>2 DEF StockOf, Progress, MayConsume
  <2>6. AllAssigned(o)'
    BY <2>3, <2>4, <2>5 DEF AllAssigned, Lines
  <2>7. Progress(o)'
    BY <1>a, <2>1, <2>2, <2>3, <2>4, <2>5, <2>6 DEF Progress, StockOf, Lines, AllAssigned
  <2>8. FailureIsFinal(o)'
    BY <1>a, <2>2, <2>3, <2>4 DEF FailureIsFinal
  <2>9. SaleIsSettled(o)'
    BY <1>a, <1>c, <2>1, <2>2, <2>4 DEF SaleIsSettled, StockOf, Lines
  <2> QED BY <2>1, <2>2, <2>7, <2>8, <2>9, StockWrites DEF StockOf
<1> QED BY <1>1, <1>2, <1>3, <1>4, <1>5, <1>6, <1>7

\* A best-effort release gives holds back and consumes nothing.
LEMMA ReleaseKeeps ==
  ASSUME InventoryTypes, LogIsSettled, NEW o \in Orders, NEW s \in Stocks,
         NEW purpose \in {"rollback", "cancel"}, ReleaseCall(purpose, o, s)
  PROVE  KeepsStock({}) /\ \A x \in Orders : QuietCalls(x)
<1>1. \A x \in Orders : QuietCalls(x)
  BY DEF ReleaseCall, LeaveCalls, QuietCalls, OpKey
<1>2. ASSUME UNCHANGED inventoryVars PROVE KeepsStock({})
  BY <1>2, SameKeeps DEF inventoryVars
<1>3. ASSUME Inv!Release(OpKey(purpose, o, s), Key(o, s)) PROVE KeepsStock({})
  BY <1>3, TransitionKeeps
<1>4. ASSUME Inv!TransitionExpires(OpKey(purpose, o, s), Key(o, s)) PROVE KeepsStock({})
  BY <1>4, RefusalKeeps
<1> QED BY <1>1, <1>2, <1>3, <1>4 DEF ReleaseCall

\* The steps that call Inventory, and the request that is cut.
LEMMA CreateCallsStock ==
  ASSUME SaleInv, StockInv, NEW o \in Orders,
         \/ ReadReserved(o) \/ CreateCut(o)
         \/ \E s \in Stocks : ReserveLine(o, s) \/ CommitLine(o, s) \/ RollbackLine(o, s)
  PROVE  StockInv'
<1> USE DEF outbox
<1>a. /\ StockOf(o) /\ InventoryTypes /\ LogIsSettled /\ create[o].todo \subseteq Stocks
  BY StockBefore
<1>b. ASSUME NEW todo, NEW pc
      PROVE  At(pc, todo).pc = pc /\ At(pc, todo).todo = todo /\ Idle.pc = "idle"
  BY DEF At, Idle
<1>c. UNCHANGED late => \A x \in Orders : QuietCalls(x)
  BY DEF QuietCalls
<1>d. UNCHANGED inventoryVars => KeepsStock({})
  BY <1>a, SameKeeps DEF inventoryVars
<1>e. create[o].pc \in {"mark", "commit"} => AllAssigned(o)
  BY <1>a DEF StockOf, Progress, MayConsume
<1>f. Lines(o) \subseteq Stocks
  BY DEF Lines
<1>1. CASE ReadReserved(o)
  <2> DEFINE c == IF Status(o) = "PENDING" THEN At("mark", {}) ELSE At("commit", Lines(o))
  <2>1. /\ create' = [create EXCEPT ![o] = c] /\ Running(create, o)
        /\ UNCHANGED <<order, completed, late>> /\ KeepsStock({})
    BY <1>1, <1>d DEF ReadReserved, SetCreate, Running
  <2>2. c.pc \in {"mark", "commit"} /\ (c.pc = "commit" => c.todo = Lines(o))
    BY <1>b
  <2>3. AllAssigned(o)
    BY <1>1, <1>a, <2>1, StockBefore, AbsentAssumption DEF ReadReserved, StockOf, Progress, AllAssigned
  <2> HIDE DEF c
  <2> QED BY <1>c, <2>1, <2>2, <2>3, StockCalls DEF QuietCalls
<1>2. ASSUME NEW s \in Stocks, ReserveLine(o, s) PROVE StockInv'
  <2>1. /\ create[o].pc = "reserve" /\ s \in create[o].todo /\ Running(create, o)
        /\ UNCHANGED <<order, completed, late>>
    BY <1>2 DEF ReserveLine, Running
  <2>2. s \in Lines(o) /\ ~AllAssigned(o)
    BY <1>a, <2>1 DEF StockOf, Progress, AllAssigned
  <2>3. PICK c : /\ create' = [create EXCEPT ![o] = c]
                 /\ \/ c.pc = "assign" /\ c.todo = create[o].todo
                    \/ c.pc = "rollback"
    <3>1. CASE create' = [create EXCEPT ![o] = [create[o] EXCEPT !.pc = "assign", !.line = s]]
      <4>1. create[o] \in Request(CreateSteps)
        BY StockBefore
      <4> DEFINE c == [create[o] EXCEPT !.pc = "assign", !.line = s]
      <4>2. c.pc = "assign" /\ c.todo = create[o].todo
        BY <4>1 DEF Request
      <4> QED BY <3>1, <4>2
    <3>2. CASE create' = [create EXCEPT ![o] = At("rollback", order[o].assigned)]
      <4> DEFINE c == At("rollback", order[o].assigned)
      <4>1. c.pc = "rollback"
        BY DEF At
      <4> HIDE DEF c
      <4> QED BY <3>2, <4>1 DEF c
    <3> QED BY <1>2, <3>1, <3>2 DEF ReserveLine, SetCreate
  <2>4. KeepsStock({})
    BY <1>2, <1>a, <1>d, <2>2, ReserveKeeps, RefusalKeeps DEF ReserveLine
  <2> QED BY <1>c, <2>1, <2>2, <2>3, <2>4, StockCalls DEF QuietCalls
<1>3. ASSUME NEW s \in Stocks, CommitLine(o, s) PROVE StockInv'
  <2>1. /\ create[o].pc = "commit" /\ s \in create[o].todo /\ Running(create, o)
        /\ UNCHANGED <<order, completed, late>> /\ AllAssigned(o) /\ MayConsume(o)
    BY <1>3, <1>e DEF CommitLine, Running, MayConsume
  <2> DEFINE c == At("commit", create[o].todo \ {s})
  <2>2. /\ create[o].todo \subseteq Lines(o)
        /\ \A t \in Lines(o) \ create[o].todo : Settled(o, t)
    BY <1>a, <2>1 DEF StockOf, SaleIsSettled
  <2>3. CASE /\ create' = [create EXCEPT ![o] = c]
             /\ \/ Inv!Commit(OpKey("commit", o, s), Key(o, s))
                \/ Inv!TransitionReplays(OpKey("commit", o, s), Key(o, s)) /\ UNCHANGED inventoryVars
    <3>1. Settled(o, s)' /\ KeepsStock({<<o, s>>})
      <4>1. CASE Inv!Commit(OpKey("commit", o, s), Key(o, s))
        BY <4>1, <1>a, TransitionKeeps
      <4>2. CASE Inv!TransitionReplays(OpKey("commit", o, s), Key(o, s)) /\ UNCHANGED inventoryVars
        <5>1. KeepsStock({})
          BY <4>2, <1>d
        <5>2. Settled(o, s)
          BY <4>2, <1>a DEF Inv!TransitionReplays, LogIsSettled, Settled
        <5> QED BY <5>1, <5>2 DEF KeepsStock, SettledStay, ConsumesOnly
      <4> QED BY <2>3, <4>1, <4>2
    <3>2. \A t \in Lines(o) \ c.todo : Settled(o, t)'
      BY <1>b, <1>f, <2>2, <3>1 DEF KeepsStock, SettledStay
    <3>3. c.pc = "commit" /\ c.todo \subseteq Lines(o)
      BY <1>b, <2>2
    <3> HIDE DEF c
    <3> QED BY <1>c, <2>1, <2>3, <3>1, <3>2, <3>3, StockCalls DEF QuietCalls
  <2>4. CASE /\ create' = [create EXCEPT ![o] = Idle]
             /\ Inv!TransitionExpires(OpKey("commit", o, s), Key(o, s))
    <3>1. KeepsStock({})
      BY <2>4, <1>a, RefusalKeeps
    <3> QED BY <1>b, <1>c, <2>1, <2>4, <3>1, StockCalls DEF QuietCalls
  <2> QED BY <1>3, <2>3, <2>4 DEF CommitLine, SetCreate
<1>4. ASSUME NEW s \in Stocks, RollbackLine(o, s) PROVE StockInv'
  <2> DEFINE c == At("rollback", create[o].todo \ {s})
  <2>1. /\ create[o].pc = "rollback" /\ Running(create, o) /\ UNCHANGED <<order, completed>>
        /\ create' = [create EXCEPT ![o] = c]
    BY <1>4 DEF RollbackLine, Running, SetCreate
  <2>2. ~AllAssigned(o) /\ c.pc = "rollback"
    BY <1>a, <1>b, <2>1 DEF StockOf, Progress
  <2>3. KeepsStock({}) /\ \A x \in Orders : QuietCalls(x)
    BY <1>4, <1>a, ReleaseKeeps DEF RollbackLine
  <2> HIDE DEF c
  <2> QED BY <2>1, <2>2, <2>3, StockCalls DEF QuietCalls
<1>5. CASE CreateCut(o)
  <2>1. /\ Running(create, o) /\ UNCHANGED <<order, completed>> /\ KeepsStock({})
        /\ create' = [create EXCEPT ![o] = Idle]
    BY <1>5, <1>d DEF CreateCut, SetCreate
  <2>2. \A x \in Orders \ {o} : QuietCalls(x)
    BY <1>5 DEF CreateCut, LeaveCalls, QuietCalls, OpKey
  <2>3. /\ \A s \in Stocks : OpKey("commit", o, s) \in late' =>
             OpKey("commit", o, s) \in late \/ AllAssigned(o)
        /\ \A s \in Stocks : <<"reserve", o, s>> \in late' =>
             <<"reserve", o, s>> \in late \/ s \in Lines(o)
    <3>1. CASE /\ create[o].pc = "reserve"
               /\ \E s \in create[o].todo : LeaveCalls("reserve", o, {s})
      BY <3>1, <1>a DEF LeaveCalls, OpKey, StockOf, Progress
    <3>2. CASE /\ create[o].pc \in {"commit", "rollback"}
               /\ \E L \in SUBSET create[o].todo : LeaveCalls(create[o].pc, o, L)
      BY <3>2, <1>e DEF LeaveCalls, OpKey
    <3>3. CASE UNCHANGED late
      BY <3>3
    <3> QED BY <1>5, <3>1, <3>2, <3>3 DEF CreateCut
  <2> QED BY <1>b, <2>1, <2>2, <2>3, StockCalls
<1> QED BY <1>1, <1>2, <1>3, <1>4, <1>5

\* The steps of a cancel request write the status of the order at most.
LEMMA CancelStock ==
  ASSUME SaleInv, StockInv, NEW o \in Orders,
         \/ CancelCall(o) \/ StageCancellation(o) \/ AskLogistics(o)
         \/ RestoreConfirmed(o) \/ FinalizeReleased(o) \/ FinalizeCompensated(o)
         \/ CancelCut(o)
         \/ \E s \in Stocks : ReleaseLine(o, s)
  PROVE  StockInv'
<1> USE DEF outbox
<1>a. /\ StockOf(o) /\ KnownOrders(o) /\ CancelIsSound(o) /\ InventoryTypes /\ LogIsSettled
      /\ order \in [Orders -> Order \cup {None}]
      /\ Running(cancel, o) => order[o] \in Order
  BY StockBefore DEF SaleInv, KnownOrders
<1>b. UNCHANGED <<create, completed>>
  BY DEF CancelCall, StageCancellation, AskLogistics, RestoreConfirmed, FinalizeReleased,
         FinalizeCompensated, CancelCut, ReleaseLine
<1>c. KeepsStock({}) /\ \A x \in Orders : QuietCalls(x)
  <2>1. CASE \E s \in Stocks : ReleaseLine(o, s)
    BY <1>a, <2>1, ReleaseKeeps DEF ReleaseLine
  <2>2. CASE ~\E s \in Stocks : ReleaseLine(o, s)
    <3>1. UNCHANGED inventoryVars
      BY <2>2 DEF CancelCall, StageCancellation, AskLogistics, RestoreConfirmed,
             FinalizeReleased, FinalizeCompensated, CancelCut
    <3>2. \A x \in Orders : QuietCalls(x)
      BY <2>2 DEF CancelCall, StageCancellation, AskLogistics, RestoreConfirmed,
             FinalizeReleased, FinalizeCompensated, CancelCut, LeaveCalls, QuietCalls, OpKey
    <3> QED BY <1>a, <3>1, <3>2, SameKeeps DEF inventoryVars
  <2> QED BY <2>1, <2>2
<1>d. \/ UNCHANGED order
      \/ /\ Running(cancel, o)
         /\ \E status \in {"CONFIRMED", "CANCELLATION_PENDING", "CANCELLED"} :
              /\ order' = [order EXCEPT ![o] = [order[o] EXCEPT !.status = status]]
              /\ order[o].failed => status = "CANCELLED"
  <2>1. order[o] # None /\ order[o].failed => order[o].status = "CANCELLED"
    BY <1>a DEF StockOf, FailureIsFinal
  <2>2. CASE StageCancellation(o)
    BY <1>a, <2>1, <2>2 DEF StageCancellation, WriteStatus, Status, Running
  <2>3. CASE RestoreConfirmed(o)
    BY <1>a, <2>1, <2>3 DEF RestoreConfirmed, WriteStatus, Status, Running
  <2>4. CASE FinalizeReleased(o) \/ FinalizeCompensated(o)
    BY <1>a, <2>4 DEF FinalizeReleased, FinalizeCompensated, WriteStatus, Running
  <2> QED BY <2>2, <2>3, <2>4 DEF CancelCall, AskLogistics, CancelCut, ReleaseLine
<1>e. \A x \in Orders :
        \/ order'[x] = order[x]
        \/ /\ order[x] # None /\ order'[x] # None
           /\ order'[x].priced = order[x].priced
           /\ order'[x].assigned = order[x].assigned
           /\ order'[x].failed = order[x].failed
           /\ order[x].failed => order'[x].status = "CANCELLED"
  <2>1. CASE UNCHANGED order
    BY <2>1
  <2>2. CASE ~UNCHANGED order
    <3>1. PICK status \in {"CONFIRMED", "CANCELLATION_PENDING", "CANCELLED"} :
            /\ order' = [order EXCEPT ![o] = [order[o] EXCEPT !.status = status]]
            /\ order[o].failed => status = "CANCELLED"
      BY <1>d, <2>2
    <3> DEFINE r == [order[o] EXCEPT !.status = status]
    <3>2. order[o] \in Order
      BY <1>a, <1>d, <2>2
    <3>3. /\ r \in Order /\ r.priced = order[o].priced /\ r.assigned = order[o].assigned
          /\ r.failed = order[o].failed /\ r.status = status
      BY <3>2 DEF Order
    <3>4. order' = [order EXCEPT ![o] = r]
      BY <3>1
    <3> HIDE DEF r
    <3> QED BY <1>a, <3>1, <3>2, <3>3, <3>4, AbsentAssumption
  <2> QED BY <2>1, <2>2
<1> QED BY <1>b, <1>c, <1>e, StockFrame

\* Every other step leaves the orders alone.
LEMMA QuietStock ==
  ASSUME StockInv, NEW C, KeepsStock(C), UNCHANGED <<order, create, completed>>,
         late' \subseteq late,
         \A x \in Orders, s \in Stocks : <<x, s>> \in C => MayConsume(x)
  PROVE  StockInv'
<1>1. \A x \in Orders : QuietCalls(x)
  BY DEF QuietCalls
<1> QED BY <1>1, StockFrame

LEMMA LateStock ==
  ASSUME SaleInv, StockInv, CallTypes, NEW call \in late, LateCallRuns(call)
  PROVE  StockInv'
<1>1. /\ UNCHANGED <<order, create, completed>> /\ late' \subseteq late
      /\ InventoryTypes /\ LogIsSettled
  BY DEF LateCallRuns, outbox, StockInv
<1>2. CASE call[1] = "ask" /\ UNCHANGED inventoryVars
  BY <1>1, <1>2, SameKeeps, QuietStock DEF inventoryVars
<1>3. CASE call[1] # "ask"
  <2>1. PICK purpose \in {"reserve", "commit", "rollback", "cancel"}, o \in Orders, s \in Stocks :
          call = <<purpose, o, s>>
    BY <1>3 DEF CallTypes
  <2>2. CASE purpose = "reserve"
    <3>1. s \in Lines(o)
      BY <2>1, <2>2 DEF StockInv, StockOf, Progress
    <3>2. \/ Inv!Reserve(Key(o, s), s, Cart[o][s])
          \/ Inv!ReserveOutOfStock(Key(o, s), s, Cart[o][s])
      BY <2>1, <2>2 DEF LateCallRuns
    <3>3. KeepsStock({})
      BY <1>1, <3>1, <3>2, ReserveKeeps, RefusalKeeps
    <3> QED BY <1>1, <3>3, QuietStock
  <2>3. CASE purpose = "commit"
    <3>1. MayConsume(o)
      BY <2>1, <2>3 DEF MayConsume, OpKey
    <3>2. \/ Inv!Commit(OpKey("commit", o, s), Key(o, s))
          \/ Inv!TransitionExpires(OpKey("commit", o, s), Key(o, s))
      BY <2>1, <2>3 DEF LateCallRuns, OpKey
    <3>3. KeepsStock({<<o, s>>}) \/ KeepsStock({})
      BY <1>1, <3>2, TransitionKeeps, RefusalKeeps
    <3>4. \A x \in Orders, t \in Stocks : <<x, t>> \in {<<o, s>>} => MayConsume(x)
      BY <3>1
    <3> QED BY <1>1, <3>3, <3>4, QuietStock
  <2>4. CASE purpose \in {"rollback", "cancel"}
    <3>1. \/ Inv!Release(OpKey(purpose, o, s), Key(o, s))
          \/ Inv!TransitionExpires(OpKey(purpose, o, s), Key(o, s))
      BY <2>1, <2>4 DEF LateCallRuns, OpKey
    <3>2. KeepsStock({})
      BY <1>1, <2>4, <3>1, TransitionKeeps, RefusalKeeps
    <3> QED BY <1>1, <3>2, QuietStock
  <2> QED BY <2>2, <2>3, <2>4
<1> QED BY <1>2, <1>3 DEF LateCallRuns

LEMMA StockStep == SaleInv /\ CallTypes /\ StockInv /\ [Next]_vars => StockInv'
<1> SUFFICES ASSUME SaleInv, CallTypes, StockInv, [Next]_vars PROVE StockInv'
  OBVIOUS
<1>a. InventoryTypes /\ LogIsSettled
  BY DEF StockInv
<1>1. ASSUME \/ \E o \in Orders : Deliver(o) \/ DeliverCancelled(o) \/ Dispatch(o)
             \/ \E e \in cancelEvents : Bury(e)
             \/ UNCHANGED vars
      PROVE  StockInv'
  BY <1>1, <1>a, SameKeeps, QuietStock
  DEF Deliver, DeliverCancelled, Dispatch, Bury, ordersVars, outbox, inventoryVars, vars
<1>2. ASSUME \/ \E k \in Orders \X Stocks : HoldTtlElapses(k)
             \/ Sweep
             \/ \E s \in Stocks : OthersTake(s)
             \/ \E e \in cancelEvents : Restock(e)
      PROVE  StockInv'
  <2>1. UNCHANGED <<order, create, completed, late>>
    BY <1>2 DEF HoldTtlElapses, Sweep, OthersTake, Restock, ordersVars, outbox
  <2>2. KeepsStock({})
    <3>1. \/ \E k \in Orders \X Stocks : Inv!TtlElapses(k)
          \/ Inv!ExpireReservations
          \/ \E s \in Stocks : Inv!MovementOut(s, 1)
          \/ \E e \in cancelEvents : Inv!RestoreCancelledOrder(e)
      BY <1>2 DEF HoldTtlElapses, Sweep, OthersTake, Restock
    <3> QED BY <3>1, <1>a, OwnStepKeeps
  <2> QED BY <2>1, <2>2, QuietStock
<1> QED BY <1>1, <1>2, CreateWritesStock, CreateCallsStock, CancelStock, LateStock DEF Next

LEMMA StockInit == Init => StockInv
<1> SUFFICES ASSUME Init PROVE StockInv
  OBVIOUS
<1>1. InventoryTypes
  BY DEF Init, InventoryTypes
<1>2. LogIsSettled
  <2>1. \A p \in {"commit", "cancel", "rollback"} \X Orders \X Stocks : operation[p] = None
    BY DEF Init
  <2> QED BY <2>1 DEF LogIsSettled, OpKey
<1>3. ASSUME NEW o \in Orders PROVE StockOf(o)
  <2>1. order[o] = None /\ create[o].pc = "idle" /\ o \notin completed /\ late = {}
    BY DEF Init, Idle
  <2>2. Consumed(o) = {}
    <3>1. \A k \in Orders \X Stocks : reservation[k] = None
      BY DEF Init
    <3> QED BY <3>1 DEF Consumed, Lines, Inv!HasStatus, Key
  <2> QED BY <2>1, <2>2 DEF StockOf, Progress, FailureIsFinal, SaleIsSettled, MayConsume
<1> QED BY <1>1, <1>2, <1>3 DEF StockInv

LEMMA StockInvariant == Spec => [](SaleInv /\ StockInv)
BY SaleInit, SaleStep, CallStep, StockInit, StockStep, PTL DEF Spec

\* An order that was answered as failed stays CANCELLED, was never announced as
\* sold and consumed nothing, although its attempt may have left calls behind:
\* what fails had a line without a reservation, and orders.service.ts sends no
\* commit before every line has one.
THEOREM FailedIsNeverSold == Spec => []FailedNeverSold
<1>1. SaleInv /\ StockInv => FailedNeverSold
  <2> SUFFICES ASSUME SaleInv, StockInv, NEW o \in Orders, order[o] # None, order[o].failed
               PROVE  Status(o) = "CANCELLED" /\ o \notin completed /\ Consumed(o) = {}
    BY DEF FailedNeverSold
  <2>1. FailureIsFinal(o) /\ Progress(o)
    BY DEF StockInv, StockOf
  <2> QED BY <2>1 DEF FailureIsFinal, Progress, MayConsume, Status
<1> QED BY <1>1, StockInvariant, PTL

\* A sale announced by order.completed.v1 leaves no hold behind: commit answered
\* 200 for every line, so each reservation had left RESERVED, and none returns.
THEOREM SoldHoldsNothing == Spec => []SoldLeavesNoHold
<1>1. SaleInv /\ StockInv => SoldLeavesNoHold
  BY DEF SaleInv, SaleTypes, StockInv, StockOf, SaleIsSettled, SoldLeavesNoHold, Settled
<1> QED BY <1>1, StockInvariant, PTL

==============================================================================

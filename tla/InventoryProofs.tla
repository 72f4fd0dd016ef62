--------------------------- MODULE InventoryProofs ---------------------------
(***************************************************************************)
(* Proofs about Inventory, for any number of stock rows, reservations and  *)
(* events.  The counter `reserved' is a sum of quantities; Inventory       *)
(* writes the sum as the number of units <<key, i>> held, so that the      *)
(* lemmas below are facts about cardinalities of finite sets.              *)
(***************************************************************************)
EXTENDS Inventory, TLAPS, FiniteSetTheorems

\* Units and Held of a reservation table r that need not be the current one.
UnitsIn(r, K, s, status) ==
  {u \in K \X (1..MaxQuantity) :
     /\ r[u[1]] # None
     /\ r[u[1]].status = status
     /\ r[u[1]].stock = s
     /\ u[2] <= r[u[1]].quantity}

Count(r, K, s, status) == Cardinality(UnitsIn(r, K, s, status))

Tables == [Keys -> Reservation \cup {None}]

\* The units of any table are finitely many.
LEMMA UnitsFinite ==
  ASSUME NEW r, NEW K \in SUBSET Keys, NEW s, NEW status
  PROVE  /\ IsFiniteSet(UnitsIn(r, K, s, status))
         /\ Count(r, K, s, status) \in Nat
<1>1. IsFiniteSet(K)
  BY InventoryAssumption, FS_Subset DEF InventoryAssumption
<1>2. IsFiniteSet(1..MaxQuantity)
  <2>1. 1 \in Int /\ MaxQuantity \in Int
    BY InventoryAssumption DEF InventoryAssumption
  <2> QED BY <2>1, FS_Interval
<1>3. IsFiniteSet(K \X (1..MaxQuantity))
  BY <1>1, <1>2, FS_Product
<1>4. UnitsIn(r, K, s, status) \in SUBSET (K \X (1..MaxQuantity))
  BY DEF UnitsIn
<1>5. IsFiniteSet(UnitsIn(r, K, s, status))
  BY <1>3, <1>4, FS_Subset
<1> QED BY <1>5, FS_CardinalityType DEF Count

\* Fewer reservations hold no more.
LEMMA CountMonotone ==
  ASSUME NEW r, NEW K \in SUBSET Keys, NEW s, NEW status
  PROVE  Count(r, K, s, status) <= Count(r, Keys, s, status)
<1>1. IsFiniteSet(UnitsIn(r, Keys, s, status))
  BY UnitsFinite
<1>2. UnitsIn(r, K, s, status) \in SUBSET UnitsIn(r, Keys, s, status)
  BY DEF UnitsIn
<1> QED BY <1>1, <1>2, FS_Subset DEF Count

\* A reservation of q units counts for q units of its stock.
LEMMA CountSingle ==
  ASSUME NEW r \in Tables, NEW k \in Keys, r[k] # None, NEW s \in Stocks
  PROVE  Count(r, {k}, s, r[k].status) =
           IF r[k].stock = s THEN r[k].quantity ELSE 0
<1> DEFINE q == r[k].quantity
<1>1. q \in 1..MaxQuantity /\ MaxQuantity \in Nat
  BY InventoryAssumption DEF Tables, Reservation, InventoryAssumption
<1>2. CASE r[k].stock = s
  <2>1. UnitsIn(r, {k}, s, r[k].status) = {k} \X (1..q)
    BY <1>1, <1>2 DEF UnitsIn
  <2>2. IsFiniteSet({k}) /\ Cardinality({k}) = 1
    BY FS_Singleton
  <2>3. IsFiniteSet(1..q) /\ Cardinality(1..q) = q
    <3>1. 1 \in Int /\ q \in Int /\ ~(1 > q) /\ q - 1 + 1 = q
      BY <1>1
    <3> QED BY <3>1, FS_Interval
  <2>4. Cardinality({k} \X (1..q)) = 1 * q
    BY <2>2, <2>3, FS_Product
  <2>5. Count(r, {k}, s, r[k].status) = 1 * q
    BY <2>1, <2>4 DEF Count
  <2> QED BY <1>1, <1>2, <2>5
<1>3. CASE r[k].stock # s
  <2>1. UnitsIn(r, {k}, s, r[k].status) = {}
    BY <1>3 DEF UnitsIn
  <2> QED BY <1>3, <2>1, FS_EmptySet DEF Count
<1> QED BY <1>2, <1>3

\* Reservations that leave RESERVED take their units with them.
LEMMA CountLeave ==
  ASSUME NEW r \in Tables, NEW E \in SUBSET Keys,
         \A k \in E : r[k] # None /\ r[k].status = "RESERVED",
         NEW status \in Statuses \ {"RESERVED"},
         NEW t, t = [k \in Keys |-> IF k \in E THEN [r[k] EXCEPT !.status = status] ELSE r[k]],
         NEW s \in Stocks
  PROVE  /\ Count(t, Keys, s, "RESERVED") = Count(r, Keys, s, "RESERVED") - Count(r, E, s, "RESERVED")
         /\ Count(t, Keys, s, status) = Count(r, Keys, s, status) + Count(r, E, s, "RESERVED")
         /\ \A other \in Statuses \ {"RESERVED", status} :
              Count(t, Keys, s, other) = Count(r, Keys, s, other)
<1> DEFINE Of(st) == UnitsIn(r, Keys, s, st)
           Moved == UnitsIn(r, E, s, "RESERVED")
<1>1. \A k \in Keys : r[k] \in Reservation \cup {None}
  BY DEF Tables
<1>2. \A k \in E : /\ r[k] \in Reservation
                   /\ t[k] = [r[k] EXCEPT !.status = status]
                   /\ t[k] \in Reservation
  BY <1>1 DEF Reservation
<1>3. \A k \in E : /\ t[k] # None
                   /\ t[k].status = status
                   /\ t[k].stock = r[k].stock
                   /\ t[k].quantity = r[k].quantity
  BY <1>2, InventoryAssumption DEF InventoryAssumption, Reservation
<1>4. \A k \in Keys \ E : t[k] = r[k]
  OBVIOUS
<1>5. UnitsIn(t, Keys, s, "RESERVED") = Of("RESERVED") \ Moved
  BY <1>3, <1>4 DEF UnitsIn
<1>6. UnitsIn(t, Keys, s, status) = Of(status) \cup Moved
  BY <1>3, <1>4 DEF UnitsIn
<1>7. \A other \in Statuses \ {"RESERVED", status} : UnitsIn(t, Keys, s, other) = Of(other)
  BY <1>3, <1>4 DEF UnitsIn
<1>8. /\ IsFiniteSet(Of("RESERVED")) /\ IsFiniteSet(Of(status)) /\ IsFiniteSet(Moved)
      /\ Cardinality(Of("RESERVED")) \in Nat /\ Cardinality(Of(status)) \in Nat
      /\ Cardinality(Moved) \in Nat
  BY UnitsFinite DEF Count
<1>9. Of("RESERVED") \cap Moved = Moved /\ Of(status) \cap Moved = {}
  BY DEF UnitsIn
<1>10. Cardinality(Of("RESERVED") \ Moved) = Cardinality(Of("RESERVED")) - Cardinality(Moved)
  BY <1>8, <1>9, FS_Difference
<1>11. Cardinality(Of(status) \cup Moved) = Cardinality(Of(status)) + Cardinality(Moved)
  <2>1. Cardinality(Of(status) \cup Moved) =
          Cardinality(Of(status)) + Cardinality(Moved) - Cardinality({})
    BY <1>8, <1>9, FS_Union
  <2> QED BY <1>8, <2>1, FS_EmptySet
<1> QED BY <1>5, <1>6, <1>7, <1>10, <1>11 DEF Count

\* A new reservation adds its quantity to what its stock holds.
LEMMA CountEnter ==
  ASSUME NEW r \in Tables, NEW t \in Tables, NEW k \in Keys,
         \A j \in Keys \ {k} : t[j] = r[j],
         r[k] = None, t[k] # None, t[k].status = "RESERVED",
         NEW s \in Stocks
  PROVE  /\ Count(t, Keys, s, "RESERVED") =
              Count(r, Keys, s, "RESERVED") + (IF t[k].stock = s THEN t[k].quantity ELSE 0)
         /\ \A other \in Statuses \ {"RESERVED"} :
              Count(t, Keys, s, other) = Count(r, Keys, s, other)
<1> DEFINE Old == UnitsIn(r, Keys, s, "RESERVED")
           Added == UnitsIn(t, {k}, s, "RESERVED")
<1>1. UnitsIn(t, Keys, s, "RESERVED") = Old \cup Added
  BY DEF UnitsIn
<1>2. Old \cap Added = {}
  BY DEF UnitsIn
<1>3. \A other \in Statuses \ {"RESERVED"} :
        UnitsIn(t, Keys, s, other) = UnitsIn(r, Keys, s, other)
  BY DEF UnitsIn
<1>4. Count(t, {k}, s, "RESERVED") = IF t[k].stock = s THEN t[k].quantity ELSE 0
  <2>1. Count(t, {k}, s, t[k].status) = IF t[k].stock = s THEN t[k].quantity ELSE 0
    BY CountSingle
  <2> QED BY <2>1
<1>5. /\ IsFiniteSet(Old) /\ IsFiniteSet(Added)
      /\ Cardinality(Old) \in Nat /\ Cardinality(Added) \in Nat
  BY UnitsFinite DEF Count
<1>6. Cardinality(Old \cup Added) = Cardinality(Old) + Cardinality(Added)
  <2>1. Cardinality(Old \cup Added) = Cardinality(Old) + Cardinality(Added) - Cardinality({})
    <3> HIDE DEF Old, Added
    <3> QED BY <1>2, <1>5, FS_Union
  <2> QED BY <1>5, <2>1, FS_EmptySet
<1> QED BY <1>1, <1>3, <1>4, <1>6 DEF Count

------------------------------------------------------------------------------
\* Type correctness.

\* What one expiry query locks are live reservations past their TTL.
LEMMA DueKeys == \A E \in Sweepable : E \in SUBSET Due /\ E \in SUBSET Keys
BY DEF Sweepable, Due

\* A release that CanRelease allows leaves counters and rows well typed.
LEMMA ReleaseType ==
  ASSUME TypeOK, NEW E \in SUBSET Keys, \A k \in E : reservation[k] # None,
         CanRelease(E), NEW status \in Statuses
  PROVE  /\ AfterRelease(E) \in [Stocks -> Nat]
         /\ SetStatus(E, status) \in Tables
         /\ StocksOf(E) \in SUBSET Stocks
<1>1. \A s \in Stocks : Held(E, s) \in Nat
  <2> TAKE s \in Stocks
  <2>1. Held(E, s) = Count(reservation, E, s, "RESERVED")
    BY DEF Held, Units, HasStatus, Count, UnitsIn
  <2> QED BY <2>1, UnitsFinite
<1>2. AfterRelease(E) \in [Stocks -> Nat]
  BY <1>1 DEF TypeOK, CanRelease, AfterRelease
<1>3. \A k \in E : reservation[k] \in Reservation
  BY DEF TypeOK
<1>4. SetStatus(E, status) \in Tables
  BY <1>3 DEF TypeOK, SetStatus, Tables, Reservation
<1> QED BY <1>2, <1>3, <1>4 DEF StocksOf, Reservation

\* The event written with a change of stock carries a row of natural numbers.
LEMMA AnnounceType ==
  ASSUME TypeOK, onHand' \in [Stocks -> Nat], reserved' \in [Stocks -> Nat],
         NEW T, Announce(T)
  PROVE  announced' \in [Stocks -> Snapshot \cup {None}]
BY DEF TypeOK, Announce, Snapshot

\* One step of Inventory keeps every variable in its type: the counters never
\* go below zero, which is what the CHECK constraints of the schema demand.
LEMMA TypeStep == TypeOK /\ [Next]_vars => TypeOK'
<1> SUFFICES ASSUME TypeOK, [Next]_vars PROVE TypeOK'
  OBVIOUS
<1> USE InventoryAssumption
<1>1. CASE ExpireReservations
  <2>1. PICK E \in Sweepable :
          /\ CanRelease(E)
          /\ reserved' = AfterRelease(E)
          /\ reservation' = SetStatus(E, "EXPIRED")
          /\ UNCHANGED <<rows, onHand, operation, processed, received>>
          /\ Announce(StocksOf(E))
    BY <1>1 DEF ExpireReservations
  <2>2. AfterRelease(E) \in [Stocks -> Nat] /\ SetStatus(E, "EXPIRED") \in Tables
    BY <2>1, DueKeys, ReleaseType DEF Due, HasStatus, Statuses
  <2>3. announced' \in [Stocks -> Snapshot \cup {None}]
    BY <2>1, <2>2, AnnounceType DEF TypeOK
  <2> QED BY <2>1, <2>2, <2>3 DEF TypeOK, Tables
<1>2. ASSUME NEW k \in Keys, TtlElapses(k) PROVE TypeOK'
  <2>1. reservation' \in Tables
    BY <1>2 DEF TtlElapses, Live, HasStatus, TypeOK, Tables, Reservation
  <2> QED BY <1>2, <2>1 DEF TtlElapses, TypeOK, Tables
<1>3. ASSUME NEW k \in Keys, NEW s \in Stocks, NEW q \in 1..MaxQuantity, Reserve(k, s, q)
      PROVE TypeOK'
  <2> DEFINE new == [stock |-> s, quantity |-> q, status |-> "RESERVED", due |-> FALSE]
  <2>1. PICK E \in Sweepable :
          /\ CanRelease(E)
          /\ reserved' = [AfterRelease(E) EXCEPT ![s] = @ + q]
          /\ reservation' = [SetStatus(E, "EXPIRED") EXCEPT ![k] = new]
          /\ UNCHANGED <<rows, onHand, operation, processed, received>>
          /\ Announce(StocksOf(E) \cup {s})
    BY <1>3 DEF Reserve
  <2>2. AfterRelease(E) \in [Stocks -> Nat] /\ SetStatus(E, "EXPIRED") \in Tables
    BY <2>1, DueKeys, ReleaseType DEF Due, HasStatus, Statuses
  <2>3. q \in Nat /\ new \in Reservation
    BY DEF Reservation, Statuses, InventoryAssumption
  <2>4. reserved' \in [Stocks -> Nat] /\ reservation' \in Tables
    <3> HIDE DEF new
    <3> QED BY <2>1, <2>2, <2>3 DEF Tables
  <2>5. announced' \in [Stocks -> Snapshot \cup {None}]
    BY <2>1, <2>4, AnnounceType DEF TypeOK
  <2> QED BY <2>1, <2>4, <2>5 DEF TypeOK, Tables
<1>4. ASSUME NEW k \in Keys, NEW s \in Stocks, NEW q \in 1..MaxQuantity, ReserveOutOfStock(k, s, q)
      PROVE TypeOK'
  <2>1. PICK E \in Sweepable :
          /\ CanRelease(E)
          /\ reserved' = AfterRelease(E)
          /\ reservation' = SetStatus(E, "EXPIRED")
          /\ UNCHANGED <<rows, onHand, operation, processed, received>>
          /\ Announce(StocksOf(E))
    BY <1>4 DEF ReserveOutOfStock
  <2>2. AfterRelease(E) \in [Stocks -> Nat] /\ SetStatus(E, "EXPIRED") \in Tables
    BY <2>1, DueKeys, ReleaseType DEF Due, HasStatus, Statuses
  <2>3. announced' \in [Stocks -> Snapshot \cup {None}]
    BY <2>1, <2>2, AnnounceType DEF TypeOK
  <2> QED BY <2>1, <2>2, <2>3 DEF TypeOK, Tables
<1>5. ASSUME NEW o \in OpKeys, NEW k \in Keys, Commit(o, k) PROVE TypeOK'
  <2> DEFINE s == reservation[k].stock
             q == reservation[k].quantity
  <2>1. /\ reservation[k] \in Reservation /\ s \in Stocks /\ q \in Nat
        /\ reserved[s] - q \in Nat /\ onHand[s] - q \in Nat
    BY <1>5 DEF Commit, Live, HasStatus, TypeOK, Reservation, InventoryAssumption
  <2>2. onHand' \in [Stocks -> Nat] /\ reserved' \in [Stocks -> Nat]
    BY <1>5, <2>1 DEF Commit, TypeOK
  <2>3. reservation' \in Tables
    BY <1>5, <2>1 DEF Commit, TypeOK, SetStatus, Tables, Reservation, Statuses
  <2>4. operation' \in [OpKeys -> Operation \cup {None}]
    BY <1>5 DEF Commit, TypeOK, Operation
  <2>5. announced' \in [Stocks -> Snapshot \cup {None}]
    BY <1>5, <2>2, AnnounceType DEF Commit
  <2> QED BY <1>5, <2>2, <2>3, <2>4, <2>5 DEF Commit, TypeOK, Tables
<1>6. ASSUME NEW o \in OpKeys, NEW k \in Keys, Release(o, k) PROVE TypeOK'
  <2>1. AfterRelease({k}) \in [Stocks -> Nat] /\ SetStatus({k}, "RELEASED") \in Tables
    BY <1>6, ReleaseType DEF Release, Live, HasStatus, Statuses
  <2>2. operation' \in [OpKeys -> Operation \cup {None}]
    BY <1>6 DEF Release, TypeOK, Operation
  <2>3. announced' \in [Stocks -> Snapshot \cup {None}]
    BY <1>6, <2>1, AnnounceType DEF Release, TypeOK
  <2> QED BY <1>6, <2>1, <2>2, <2>3 DEF Release, TypeOK, Tables
<1>7. ASSUME NEW o \in OpKeys, NEW k \in Keys, TransitionExpires(o, k) PROVE TypeOK'
  <2>1. AfterRelease({k}) \in [Stocks -> Nat] /\ SetStatus({k}, "EXPIRED") \in Tables
    BY <1>7, ReleaseType DEF TransitionExpires, Due, HasStatus, Statuses
  <2>2. announced' \in [Stocks -> Snapshot \cup {None}]
    BY <1>7, <2>1, AnnounceType DEF TransitionExpires, TypeOK
  <2> QED BY <1>7, <2>1, <2>2 DEF TransitionExpires, TypeOK, Tables
<1>8. ASSUME NEW s \in Stocks, NEW q \in 1..MaxQuantity, MovementIn(s, q) PROVE TypeOK'
  <2>1. PICK E \in Sweepable :
          /\ CanRelease(E)
          /\ reserved' = AfterRelease(E)
          /\ reservation' = SetStatus(E, "EXPIRED")
          /\ rows' = rows \cup {s}
          /\ onHand' = [onHand EXCEPT ![s] = @ + q]
          /\ received' = [received EXCEPT ![s] = @ + q]
          /\ UNCHANGED <<operation, processed>>
          /\ Announce(StocksOf(E) \cup {s})
    BY <1>8 DEF MovementIn
  <2>2. AfterRelease(E) \in [Stocks -> Nat] /\ SetStatus(E, "EXPIRED") \in Tables
    BY <2>1, DueKeys, ReleaseType DEF Due, HasStatus, Statuses
  <2>3. onHand' \in [Stocks -> Nat] /\ received' \in [Stocks -> Int]
    BY <2>1 DEF TypeOK, InventoryAssumption
  <2>4. announced' \in [Stocks -> Snapshot \cup {None}]
    BY <2>1, <2>2, <2>3, AnnounceType
  <2> QED BY <2>1, <2>2, <2>3, <2>4 DEF TypeOK, Tables
<1>9. ASSUME NEW s \in Stocks, NEW q \in 1..MaxQuantity, MovementOut(s, q) PROVE TypeOK'
  <2>1. PICK E \in Sweepable :
          /\ CanRelease(E)
          /\ CanTake(E, s, q)
          /\ reserved' = AfterRelease(E)
          /\ reservation' = SetStatus(E, "EXPIRED")
          /\ onHand' = [onHand EXCEPT ![s] = @ - q]
          /\ received' = [received EXCEPT ![s] = @ - q]
          /\ UNCHANGED <<rows, operation, processed>>
          /\ Announce(StocksOf(E) \cup {s})
    BY <1>9 DEF MovementOut
  <2>2. AfterRelease(E) \in [Stocks -> Nat] /\ SetStatus(E, "EXPIRED") \in Tables
    BY <2>1, DueKeys, ReleaseType DEF Due, HasStatus, Statuses
  <2>3. onHand[s] - q \in Nat
    <3>1. q \in Nat /\ onHand[s] \in Nat /\ AfterRelease(E)[s] \in Nat
      BY <2>2 DEF TypeOK, InventoryAssumption
    <3>2. onHand[s] >= AfterRelease(E)[s] + q
      BY <2>1 DEF CanTake
    <3> QED BY <3>1, <3>2
  <2>4. onHand' \in [Stocks -> Nat] /\ received' \in [Stocks -> Int]
    BY <2>1, <2>3 DEF TypeOK, InventoryAssumption
  <2>5. announced' \in [Stocks -> Snapshot \cup {None}]
    BY <2>1, <2>2, <2>4, AnnounceType
  <2> QED BY <2>1, <2>2, <2>4, <2>5 DEF TypeOK, Tables
<1>10. ASSUME NEW e \in Events, RestoreCancelledOrder(e) PROVE TypeOK'
  <2>1. \A s \in Stocks : EventItems[e][s] \in Nat
    BY DEF InventoryAssumption
  <2>2. onHand' \in [Stocks -> Nat] /\ reserved' \in [Stocks -> Nat]
    BY <1>10, <2>1 DEF RestoreCancelledOrder, TypeOK
  <2>3. announced' \in [Stocks -> Snapshot \cup {None}]
    BY <1>10, <2>2, AnnounceType DEF RestoreCancelledOrder
  <2> QED BY <1>10, <2>2, <2>3 DEF RestoreCancelledOrder, TypeOK
<1>11. CASE UNCHANGED vars
  BY <1>11 DEF vars, TypeOK
<1> QED
  BY <1>1, <1>2, <1>3, <1>4, <1>5, <1>6, <1>7, <1>8, <1>9, <1>10, <1>11 DEF Next

\* Type correctness of every reachable state.
THEOREM TypeCorrect == Spec => []TypeOK
<1>1. Init => TypeOK
  BY DEF Init, TypeOK
<1> QED BY <1>1, TypeStep, PTL DEF Spec

------------------------------------------------------------------------------
\* The counter is what live reservations hold, and never exceeds the stock.

SafeInv == TypeOK /\ ReservedIsHeld /\ NeverOversold

\* Held, which the model uses, is Count over the table as it is now.
LEMMA HeldIsCount ==
  ASSUME NEW K, NEW s PROVE Held(K, s) = Count(reservation, K, s, "RESERVED")
BY DEF Held, Units, HasStatus, Count, UnitsIn

\* "Reservation release invariant failed." cannot be thrown: any batch of live
\* reservations is covered by the counters, and taking the batch out leaves
\* counters that again are what the remaining reservations hold.
LEMMA ReleaseSafe ==
  ASSUME SafeInv, NEW E \in SUBSET Keys, \A k \in E : HasStatus(k, "RESERVED"),
         NEW status \in Statuses \ {"RESERVED"}, NEW s \in Stocks
  PROVE  /\ Held(E, s) \in Nat
         /\ Held(E, s) <= reserved[s]
         /\ AfterRelease(E)[s] = reserved[s] - Held(E, s)
         /\ AfterRelease(E)[s] = Count(SetStatus(E, status), Keys, s, "RESERVED")
         /\ AfterRelease(E)[s] \in Nat
         /\ AfterRelease(E)[s] <= reserved[s]
<1>1. reservation \in Tables /\ \A k \in E : reservation[k] # None /\ reservation[k].status = "RESERVED"
  BY DEF SafeInv, TypeOK, Tables, HasStatus
<1>2. Held(E, s) = Count(reservation, E, s, "RESERVED") /\ Held(E, s) \in Nat
  BY HeldIsCount, UnitsFinite
<1>3. reserved[s] = Count(reservation, Keys, s, "RESERVED") /\ reserved[s] \in Nat
  BY HeldIsCount, UnitsFinite DEF SafeInv, ReservedIsHeld
<1>4. Held(E, s) <= reserved[s]
  BY <1>2, <1>3, CountMonotone
<1>5. AfterRelease(E)[s] = reserved[s] - Held(E, s)
  BY DEF AfterRelease
<1>6. Count(SetStatus(E, status), Keys, s, "RESERVED") =
        Count(reservation, Keys, s, "RESERVED") - Count(reservation, E, s, "RESERVED")
  BY <1>1, CountLeave DEF SetStatus
<1> QED BY <1>2, <1>3, <1>4, <1>5, <1>6

\* The sweep at the start of reserve and createMovement cannot throw, and
\* leaves counters that the remaining reservations account for.
LEMMA SweepSafe ==
  ASSUME SafeInv, NEW E \in Sweepable, NEW s \in Stocks
  PROVE  /\ Held(E, s) \in Nat
         /\ AfterRelease(E)[s] = Count(SetStatus(E, "EXPIRED"), Keys, s, "RESERVED")
         /\ AfterRelease(E)[s] \in Nat
         /\ AfterRelease(E)[s] <= onHand[s]
<1>1. E \in SUBSET Keys /\ \A k \in E : HasStatus(k, "RESERVED")
  BY DueKeys DEF Due
<1>2. "EXPIRED" \in Statuses \ {"RESERVED"}
  BY DEF Statuses
<1>3. reserved[s] \in Nat /\ onHand[s] \in Nat /\ reserved[s] <= onHand[s]
  BY DEF SafeInv, TypeOK, NeverOversold
<1> QED BY <1>1, <1>2, <1>3, ReleaseSafe

\* Each transaction of inventory.service.ts keeps the counter equal to the
\* live reservations of the row and below its stock.
LEMMA SafeStep == SafeInv /\ TypeOK' /\ [Next]_vars => ReservedIsHeld' /\ NeverOversold'
<1> SUFFICES ASSUME SafeInv, TypeOK', [Next]_vars, NEW x \in Stocks
             PROVE  /\ reserved'[x] = Count(reservation', Keys, x, "RESERVED")
                    /\ reserved'[x] <= onHand'[x]
  BY DEF ReservedIsHeld, NeverOversold, Held, Units, HasStatus, Count, UnitsIn
<1>a. /\ reserved[x] = Count(reservation, Keys, x, "RESERVED")
      /\ reserved[x] \in Nat /\ onHand[x] \in Nat /\ reserved[x] <= onHand[x]
  BY HeldIsCount DEF SafeInv, TypeOK, ReservedIsHeld, NeverOversold
<1>b. reservation \in Tables
  BY DEF SafeInv, TypeOK, Tables
<1>1. CASE ExpireReservations
  BY <1>1, SweepSafe DEF ExpireReservations
<1>2. ASSUME NEW k \in Keys, TtlElapses(k)
      PROVE /\ reserved'[x] = Count(reservation', Keys, x, "RESERVED")
            /\ reserved'[x] <= onHand'[x]
  <2>1. UnitsIn(reservation', Keys, x, "RESERVED") = UnitsIn(reservation, Keys, x, "RESERVED")
    <3>1. reservation[k] \in Reservation /\ reservation' = [reservation EXCEPT ![k].due = TRUE]
      BY <1>2, <1>b DEF TtlElapses, Live, HasStatus, Tables
    <3>2. /\ reservation'[k] # None
          /\ reservation'[k].status = reservation[k].status
          /\ reservation'[k].stock = reservation[k].stock
          /\ reservation'[k].quantity = reservation[k].quantity
      <4>1. reservation'[k] = [reservation[k] EXCEPT !.due = TRUE]
        BY <3>1, <1>b DEF Tables
      <4>2. reservation'[k] \in Reservation
        BY <3>1, <4>1 DEF Reservation
      <4> QED BY <3>1, <4>1, <4>2, InventoryAssumption DEF Reservation, InventoryAssumption
    <3>3. reservation[k] # None
      BY <1>2 DEF TtlElapses, Live, HasStatus
    <3>4. \A j \in Keys \ {k} : reservation'[j] = reservation[j]
      BY <3>1, <1>b DEF Tables
    <3> QED BY <3>2, <3>3, <3>4 DEF UnitsIn
  <2> QED BY <1>2, <1>a, <2>1 DEF TtlElapses, Count
<1>3. ASSUME NEW k \in Keys, NEW s \in Stocks, NEW q \in 1..MaxQuantity, Reserve(k, s, q)
      PROVE /\ reserved'[x] = Count(reservation', Keys, x, "RESERVED")
            /\ reserved'[x] <= onHand'[x]
  <2> DEFINE new == [stock |-> s, quantity |-> q, status |-> "RESERVED", due |-> FALSE]
  <2>1. PICK E \in Sweepable :
          /\ CanRelease(E)
          /\ CanTake(E, s, q)
          /\ reserved' = [AfterRelease(E) EXCEPT ![s] = @ + q]
          /\ reservation' = [SetStatus(E, "EXPIRED") EXCEPT ![k] = new]
          /\ onHand' = onHand
    BY <1>3 DEF Reserve
  <2>2. SetStatus(E, "EXPIRED") \in Tables /\ AfterRelease(E) \in [Stocks -> Nat]
    BY <2>1, DueKeys, ReleaseType DEF Due, HasStatus, Statuses, SafeInv
  <2>3. SetStatus(E, "EXPIRED")[k] = None
    <3>1. reservation[k] = None /\ k \notin E
      BY <1>3, DueKeys DEF Reserve, Due, HasStatus
    <3> QED BY <3>1 DEF SetStatus
  <2>4. Count(reservation', Keys, x, "RESERVED") =
          Count(SetStatus(E, "EXPIRED"), Keys, x, "RESERVED") + (IF x = s THEN q ELSE 0)
    <3>1. new \in Reservation /\ new # None
      <4>1. new \in Reservation
        BY DEF Reservation, Statuses
      <4> QED BY <4>1, InventoryAssumption DEF InventoryAssumption
    <3>2. /\ reservation' \in Tables /\ reservation'[k] = new
          /\ \A j \in Keys \ {k} : reservation'[j] = SetStatus(E, "EXPIRED")[j]
      BY <2>1, <2>2, <3>1 DEF Tables
    <3>3. /\ reservation'[k] # None /\ reservation'[k].status = "RESERVED"
          /\ reservation'[k].stock = s /\ reservation'[k].quantity = q
      BY <3>1, <3>2
    <3>4. Count(reservation', Keys, x, "RESERVED") =
            Count(SetStatus(E, "EXPIRED"), Keys, x, "RESERVED")
              + (IF reservation'[k].stock = x THEN reservation'[k].quantity ELSE 0)
      BY <2>2, <2>3, <3>2, <3>3, CountEnter
    <3> QED BY <3>3, <3>4
  <2>5. reserved'[x] = AfterRelease(E)[x] + (IF x = s THEN q ELSE 0)
    BY <2>1, <2>2, InventoryAssumption DEF InventoryAssumption
  <2>6. CASE x = s
    <3>1. onHand[x] >= AfterRelease(E)[x] + q
      BY <2>1, <2>6 DEF CanTake
    <3> QED BY <2>1, <2>4, <2>5, <2>6, <3>1, SweepSafe, <1>a, InventoryAssumption DEF InventoryAssumption
  <2>7. CASE x # s
    BY <2>1, <2>4, <2>5, <2>7, SweepSafe
  <2> QED BY <2>6, <2>7
<1>4. ASSUME NEW k \in Keys, NEW s \in Stocks, NEW q \in 1..MaxQuantity, ReserveOutOfStock(k, s, q)
      PROVE /\ reserved'[x] = Count(reservation', Keys, x, "RESERVED")
            /\ reserved'[x] <= onHand'[x]
  BY <1>4, SweepSafe DEF ReserveOutOfStock
<1>5. ASSUME NEW o \in OpKeys, NEW k \in Keys, Commit(o, k)
      PROVE /\ reserved'[x] = Count(reservation', Keys, x, "RESERVED")
            /\ reserved'[x] <= onHand'[x]
  <2> DEFINE s == reservation[k].stock
             q == reservation[k].quantity
  <2>1. /\ HasStatus(k, "RESERVED")
        /\ reservation' = SetStatus({k}, "COMMITTED")
        /\ reserved' = [reserved EXCEPT ![s] = @ - q]
        /\ onHand' = [onHand EXCEPT ![s] = @ - q]
    BY <1>5 DEF Commit, Live
  <2>2. Held({k}, x) = IF s = x THEN q ELSE 0
    BY <2>1, <1>b, HeldIsCount, CountSingle DEF HasStatus
  <2>3. /\ reserved[x] - Held({k}, x) = Count(reservation', Keys, x, "RESERVED")
        /\ Held({k}, x) \in Nat
    <3> HIDE DEF s, q
    <3>1. "COMMITTED" \in Statuses \ {"RESERVED"}
      BY DEF Statuses
    <3>2. {k} \in SUBSET Keys /\ \A j \in {k} : HasStatus(j, "RESERVED")
      BY <2>1
    <3>3. /\ AfterRelease({k})[x] = reserved[x] - Held({k}, x)
          /\ AfterRelease({k})[x] = Count(SetStatus({k}, "COMMITTED"), Keys, x, "RESERVED")
          /\ Held({k}, x) \in Nat
      BY <3>1, <3>2, ReleaseSafe
    <3> QED BY <2>1, <3>3
  <2>4. /\ reserved'[x] = reserved[x] - Held({k}, x)
        /\ onHand'[x] = onHand[x] - Held({k}, x)
    <3>1. CASE s = x
      BY <2>1, <2>2, <3>1 DEF SafeInv, TypeOK
    <3>2. CASE s # x
      BY <2>1, <2>2, <3>2, <1>a DEF SafeInv, TypeOK
    <3> QED BY <3>1, <3>2
  <2> QED BY <1>a, <2>3, <2>4
<1>6. ASSUME NEW o \in OpKeys, NEW k \in Keys, Release(o, k)
      PROVE /\ reserved'[x] = Count(reservation', Keys, x, "RESERVED")
            /\ reserved'[x] <= onHand'[x]
  <2>1. /\ HasStatus(k, "RESERVED")
        /\ reserved' = AfterRelease({k})
        /\ reservation' = SetStatus({k}, "RELEASED")
        /\ onHand' = onHand
    BY <1>6 DEF Release, Live
  <2> QED BY <1>a, <2>1, ReleaseSafe DEF Statuses
<1>7. ASSUME NEW o \in OpKeys, NEW k \in Keys, TransitionExpires(o, k)
      PROVE /\ reserved'[x] = Count(reservation', Keys, x, "RESERVED")
            /\ reserved'[x] <= onHand'[x]
  <2>1. /\ HasStatus(k, "RESERVED")
        /\ reserved' = AfterRelease({k})
        /\ reservation' = SetStatus({k}, "EXPIRED")
        /\ onHand' = onHand
    BY <1>7 DEF TransitionExpires, Due
  <2> QED BY <1>a, <2>1, ReleaseSafe DEF Statuses
<1>8. ASSUME NEW s \in Stocks, NEW q \in 1..MaxQuantity, MovementIn(s, q)
      PROVE /\ reserved'[x] = Count(reservation', Keys, x, "RESERVED")
            /\ reserved'[x] <= onHand'[x]
  <2>1. PICK E \in Sweepable :
          /\ reserved' = AfterRelease(E)
          /\ reservation' = SetStatus(E, "EXPIRED")
          /\ onHand' = [onHand EXCEPT ![s] = @ + q]
    BY <1>8 DEF MovementIn
  <2>2. onHand'[x] >= onHand[x] /\ onHand'[x] \in Nat
    BY <1>a, <2>1, InventoryAssumption DEF SafeInv, TypeOK, InventoryAssumption
  <2> QED BY <1>a, <2>1, <2>2, SweepSafe
<1>9. ASSUME NEW s \in Stocks, NEW q \in 1..MaxQuantity, MovementOut(s, q)
      PROVE /\ reserved'[x] = Count(reservation', Keys, x, "RESERVED")
            /\ reserved'[x] <= onHand'[x]
  <2>1. PICK E \in Sweepable :
          /\ CanTake(E, s, q)
          /\ reserved' = AfterRelease(E)
          /\ reservation' = SetStatus(E, "EXPIRED")
          /\ onHand' = [onHand EXCEPT ![s] = @ - q]
    BY <1>9 DEF MovementOut
  <2>2. AfterRelease(E)[x] \in Nat /\ AfterRelease(E)[x] <= onHand[x]
    BY SweepSafe
  <2>3. onHand'[x] >= AfterRelease(E)[x]
    <3>1. CASE x = s
      <4>1. onHand[x] >= AfterRelease(E)[x] + q /\ onHand'[x] = onHand[x] - q /\ q \in Nat
        BY <2>1, <3>1, InventoryAssumption DEF CanTake, SafeInv, TypeOK, InventoryAssumption
      <4> QED BY <1>a, <2>2, <4>1
    <3>2. CASE x # s
      BY <1>a, <2>1, <2>2, <3>2 DEF SafeInv, TypeOK
    <3> QED BY <3>1, <3>2
  <2> QED BY <1>a, <2>1, <2>2, <2>3, SweepSafe DEF TypeOK
<1>10. ASSUME NEW e \in Events, RestoreCancelledOrder(e)
       PROVE /\ reserved'[x] = Count(reservation', Keys, x, "RESERVED")
             /\ reserved'[x] <= onHand'[x]
  <2>1. EventItems[e][x] \in Nat
    BY InventoryAssumption DEF InventoryAssumption
  <2>2. /\ onHand'[x] = onHand[x] + EventItems[e][x]
        /\ reserved' = reserved /\ reservation' = reservation
    BY <1>10 DEF RestoreCancelledOrder
  <2> QED BY <1>a, <2>1, <2>2
<1>11. CASE UNCHANGED vars
  BY <1>11, <1>a DEF vars
<1> QED
  BY <1>1, <1>2, <1>3, <1>4, <1>5, <1>6, <1>7, <1>8, <1>9, <1>10, <1>11 DEF Next

\* An empty database satisfies the invariant.
LEMMA SafeInit == Init => SafeInv
<1> SUFFICES ASSUME Init PROVE SafeInv
  OBVIOUS
<1>1. TypeOK
  BY DEF Init, TypeOK
<1>2. \A s \in Stocks : Held(Keys, s) = 0
  <2> TAKE s \in Stocks
  <2>1. Units(Keys, s, "RESERVED") = {}
    BY DEF Init, Units, HasStatus
  <2> QED BY <2>1, FS_EmptySet DEF Held
<1> QED BY <1>1, <1>2 DEF SafeInv, ReservedIsHeld, NeverOversold, Init

\* The inductive invariant: each part needs the others.  Without ReservedIsHeld
\* a release could drive a counter below zero, without NeverOversold a commit
\* could drive the stock below what is still reserved.
THEOREM SafeInvariant == Spec => []SafeInv
<1>1. SafeInv /\ [Next]_vars => SafeInv'
  BY TypeStep, SafeStep DEF SafeInv
<1> QED BY <1>1, SafeInit, PTL DEF Spec

\* The counter of a stock row is the sum of its live reservations.
THEOREM CounterIsHeld == Spec => []ReservedIsHeld
BY SafeInvariant, PTL DEF SafeInv

\* No stock is promised twice.
THEOREM NoOverselling == Spec => []NeverOversold
BY SafeInvariant, PTL DEF SafeInv

\* The two invariant errors of inventory.service.ts are never thrown.
THEOREM NoInvariantError == Spec => []InvariantErrorsUnreachable
<1>1. SafeInv => InvariantErrorsUnreachable
  <2> SUFFICES ASSUME SafeInv PROVE InvariantErrorsUnreachable
    OBVIOUS
  <2>1. ASSUME NEW E \in SUBSET {k \in Keys : HasStatus(k, "RESERVED")}
        PROVE  CanRelease(E)
    <3>1. "EXPIRED" \in Statuses \ {"RESERVED"}
      BY DEF Statuses
    <3> QED BY <3>1, ReleaseSafe DEF CanRelease
  <2>2. ASSUME NEW k \in Keys, HasStatus(k, "RESERVED")
        PROVE  /\ reserved[reservation[k].stock] >= reservation[k].quantity
               /\ onHand[reservation[k].stock] >= reservation[k].quantity
    <3> DEFINE s == reservation[k].stock
    <3>1. reservation \in Tables /\ reservation[k] # None /\ s \in Stocks
      BY <2>2 DEF SafeInv, TypeOK, Tables, HasStatus, Reservation
    <3>2. Held({k}, s) = reservation[k].quantity
      BY <2>2, <3>1, HeldIsCount, CountSingle DEF HasStatus
    <3>3. Held({k}, s) <= reserved[s] /\ Held({k}, s) \in Nat
      <4> HIDE DEF s
      <4>1. "EXPIRED" \in Statuses \ {"RESERVED"}
        BY DEF Statuses
      <4>2. {k} \in SUBSET Keys /\ \A j \in {k} : HasStatus(j, "RESERVED")
        BY <2>2
      <4> QED BY <3>1, <4>1, <4>2, ReleaseSafe
    <3> QED BY <3>1, <3>2, <3>3 DEF SafeInv, TypeOK, NeverOversold
  <2> QED BY <2>1, <2>2 DEF InvariantErrorsUnreachable
<1> QED BY <1>1, SafeInvariant, PTL
------------------------------------------------------------------------------
\* The life of a reservation.

\* An expiry takes reservations that are RESERVED and past their TTL.
LEMMA ExpiryStep ==
  ASSUME TypeOK, NEW E \in SUBSET Due, NEW k \in Keys, reservation[k] # None
  PROVE  LET next == SetStatus(E, "EXPIRED")[k] IN
         \/ next = reservation[k]
         \/ /\ reservation[k].status = "RESERVED" /\ reservation[k].due
            /\ next \in Reservation /\ next.status = "EXPIRED"
<1>1. CASE k \in E
  <2>1. reservation[k] \in Reservation /\ reservation[k].status = "RESERVED" /\ reservation[k].due
    BY <1>1 DEF TypeOK, Due, HasStatus
  <2>2. SetStatus(E, "EXPIRED")[k] = [reservation[k] EXCEPT !.status = "EXPIRED"]
    BY <1>1 DEF SetStatus
  <2> QED BY <2>1, <2>2 DEF Reservation, Statuses
<1>2. CASE k \notin E
  BY <1>2 DEF SetStatus
<1> QED BY <1>1, <1>2

\* What one transaction does to a reservation that exists.
LifecycleOf(k) ==
  \/ reservation'[k] = reservation[k]
  \/ /\ reservation[k].status = "RESERVED"
     /\ reservation'[k].status = "EXPIRED" => reservation[k].due
     /\ reservation'[k].status \in {"COMMITTED", "RELEASED"} => ~reservation[k].due

LEMMA LifecycleStep ==
  ASSUME TypeOK, [Next]_vars, NEW j \in Keys, reservation[j] # None
  PROVE  LifecycleOf(j)
<1>a. ASSUME NEW E \in Sweepable, reservation'[j] = SetStatus(E, "EXPIRED")[j]
      PROVE  LifecycleOf(j)
  <2>1. E \in SUBSET Due
    BY DEF Sweepable
  <2> QED BY <1>a, <2>1, ExpiryStep DEF LifecycleOf
<1>1. CASE ExpireReservations
  BY <1>1, <1>a DEF ExpireReservations
<1>2. ASSUME NEW k \in Keys, TtlElapses(k) PROVE LifecycleOf(j)
  <2>1. CASE j = k
    <3>1. reservation[k] \in Reservation /\ reservation[k].status = "RESERVED"
      BY <1>2 DEF TtlElapses, Live, HasStatus, TypeOK
    <3>2. reservation'[k] = [reservation[k] EXCEPT !.due = TRUE]
      BY <1>2 DEF TtlElapses, TypeOK
    <3>3. reservation'[k].status = "RESERVED"
      BY <3>1, <3>2 DEF Reservation
    <3> QED BY <2>1, <3>1, <3>3 DEF LifecycleOf
  <2>2. CASE j # k
    BY <1>2, <2>2 DEF TtlElapses, TypeOK, LifecycleOf
  <2> QED BY <2>1, <2>2
<1>3. ASSUME NEW k \in Keys, NEW s \in Stocks, NEW q \in 1..MaxQuantity,
             Reserve(k, s, q) \/ ReserveOutOfStock(k, s, q)
      PROVE  LifecycleOf(j)
  <2>1. CASE Reserve(k, s, q)
    <3> DEFINE new == [stock |-> s, quantity |-> q, status |-> "RESERVED", due |-> FALSE]
    <3>1. j # k
      BY <2>1 DEF Reserve
    <3>2. PICK E \in Sweepable : reservation' = [SetStatus(E, "EXPIRED") EXCEPT ![k] = new]
      BY <2>1 DEF Reserve
    <3>3. reservation'[j] = SetStatus(E, "EXPIRED")[j]
      BY <3>1, <3>2 DEF SetStatus
    <3> QED BY <1>a, <3>3
  <2>2. CASE ReserveOutOfStock(k, s, q)
    BY <1>a, <2>2 DEF ReserveOutOfStock
  <2> QED BY <1>3, <2>1, <2>2
<1>4. ASSUME NEW o \in OpKeys, NEW k \in Keys, Commit(o, k) \/ Release(o, k)
      PROVE  LifecycleOf(j)
  <2>1. /\ reservation[k].status = "RESERVED" /\ ~reservation[k].due
        /\ \/ reservation' = SetStatus({k}, "COMMITTED")
           \/ reservation' = SetStatus({k}, "RELEASED")
    BY <1>4 DEF Commit, Release, Live, HasStatus
  <2>2. CASE j = k
    <3>1. reservation[k] \in Reservation
      BY <2>2 DEF TypeOK
    <3>2. reservation'[k].status \in {"COMMITTED", "RELEASED"}
      BY <2>1, <3>1 DEF SetStatus, Reservation
    <3> QED BY <2>1, <2>2, <3>2 DEF LifecycleOf
  <2>3. CASE j # k
    BY <2>1, <2>3 DEF SetStatus, LifecycleOf
  <2> QED BY <2>2, <2>3
<1>5. ASSUME NEW o \in OpKeys, NEW k \in Keys, TransitionExpires(o, k) PROVE LifecycleOf(j)
  <2>1. {k} \in SUBSET Due /\ reservation' = SetStatus({k}, "EXPIRED")
    BY <1>5 DEF TransitionExpires
  <2> QED BY <2>1, ExpiryStep DEF LifecycleOf
<1>6. ASSUME NEW s \in Stocks, NEW q \in 1..MaxQuantity, MovementIn(s, q) \/ MovementOut(s, q)
      PROVE  LifecycleOf(j)
  BY <1>6, <1>a DEF MovementIn, MovementOut
<1>7. ASSUME NEW e \in Events, RestoreCancelledOrder(e) PROVE LifecycleOf(j)
  BY <1>7 DEF RestoreCancelledOrder, LifecycleOf
<1>8. CASE UNCHANGED vars
  BY <1>8 DEF vars, LifecycleOf
<1> QED BY <1>1, <1>2, <1>3, <1>4, <1>5, <1>6, <1>7, <1>8 DEF Next

\* A hold leaves RESERVED once, and expires only past its TTL: the retries,
\* sweeps and late calls of any number of orders cannot revive or cut short one.
THEOREM HoldsEndOnce == Spec => ReservationLifecycle
<1>1. TypeOK /\ [Next]_vars =>
        [\A k \in Keys : reservation[k] # None => LifecycleOf(k)]_vars
  BY LifecycleStep
<1>2. ReservationLifecycle <=> [][\A k \in Keys : reservation[k] # None => LifecycleOf(k)]_vars
  BY DEF ReservationLifecycle, LifecycleOf
<1> QED BY <1>1, <1>2, TypeCorrect, PTL DEF Spec
------------------------------------------------------------------------------
\* The log of operations.

StatusOf(op) == IF op.operation = "COMMIT" THEN "COMMITTED" ELSE "RELEASED"

Explains(r, op) == r[op.key] # None /\ r[op.key].status = StatusOf(op)

\* A reservation that an operation moved is not RESERVED, so that nothing moves
\* it again.
LEMMA LogStep ==
  TypeOK /\ OperationExplainsStatus /\ [Next]_vars => OperationExplainsStatus'
<1> SUFFICES ASSUME TypeOK, OperationExplainsStatus, [Next]_vars
             PROVE  /\ \A o \in OpKeys : operation'[o] # None =>
                         Explains(reservation', operation'[o])
                    /\ \A x, y \in OpKeys :
                         /\ operation'[x] # None /\ operation'[y] # None
                         /\ operation'[x].key = operation'[y].key
                         => x = y
  BY DEF OperationExplainsStatus, HasStatus, Explains, StatusOf
<1>1. \A o \in OpKeys : operation[o] # None =>
        operation[o] \in Operation /\ Explains(reservation, operation[o])
  BY DEF TypeOK, OperationExplainsStatus, HasStatus, Explains, StatusOf
\* Such a reservation does not change.
<1>2. ASSUME NEW o \in OpKeys, operation[o] # None
      PROVE  Explains(reservation', operation[o])
  <2>1. PICK k \in Keys : k = operation[o].key
    BY <1>1, <1>2 DEF Operation
  <2>2. reservation[k] # None /\ reservation[k].status # "RESERVED"
    BY <1>1, <1>2, <2>1 DEF Explains, StatusOf
  <2>3. reservation'[k] = reservation[k]
    BY <2>2, LifecycleStep DEF LifecycleOf
  <2> QED BY <1>1, <1>2, <2>1, <2>3 DEF Explains
<1>3. CASE operation' = operation
  BY <1>2, <1>3 DEF OperationExplainsStatus
<1>4. ASSUME NEW o \in OpKeys, NEW k \in Keys, Commit(o, k) \/ Release(o, k)
      PROVE  /\ \A x \in OpKeys : operation'[x] # None =>
                  Explains(reservation', operation'[x])
             /\ \A x, y \in OpKeys :
                  /\ operation'[x] # None /\ operation'[y] # None
                  /\ operation'[x].key = operation'[y].key
                  => x = y
  <2>1. PICK op \in Operation :
          /\ op.key = k
          /\ operation' = [operation EXCEPT ![o] = op]
          /\ reservation' = SetStatus({k}, StatusOf(op))
    <3>1. CASE Commit(o, k)
      <4>1. /\ [key |-> k, operation |-> "COMMIT"] \in Operation
            /\ StatusOf([key |-> k, operation |-> "COMMIT"]) = "COMMITTED"
        BY DEF Operation, StatusOf
      <4> QED BY <3>1, <4>1 DEF Commit
    <3>2. CASE Release(o, k)
      <4>1. /\ [key |-> k, operation |-> "RELEASE"] \in Operation
            /\ StatusOf([key |-> k, operation |-> "RELEASE"]) = "RELEASED"
        BY DEF Operation, StatusOf
      <4> QED BY <3>2, <4>1 DEF Release
    <3> QED BY <1>4, <3>1, <3>2
  <2>2. reservation[k] \in Reservation /\ reservation[k].status = "RESERVED"
    BY <1>4 DEF Commit, Release, Live, HasStatus, TypeOK
  <2>3. /\ operation'[o] = op
        /\ \A x \in OpKeys \ {o} : operation'[x] = operation[x]
    BY <2>1 DEF TypeOK
  <2>4. \A x \in OpKeys : operation[x] # None => operation[x].key # k
    BY <1>1, <2>2 DEF Explains, StatusOf
  <2>5. Explains(reservation', op)
    <3>1. reservation'[k] = [reservation[k] EXCEPT !.status = StatusOf(op)]
      BY <2>1 DEF SetStatus
    <3>2. StatusOf(op) \in Statuses
      BY DEF Statuses, StatusOf
    <3>3. reservation'[k] \in Reservation /\ reservation'[k].status = StatusOf(op)
      BY <2>2, <3>1, <3>2 DEF Reservation
    <3> QED BY <2>1, <3>3, InventoryAssumption DEF Explains, InventoryAssumption
  <2>6. \A x \in OpKeys : operation'[x] # None => Explains(reservation', operation'[x])
    BY <1>2, <2>3, <2>5
  <2>7. \A x, y \in OpKeys :
          operation'[x] # None /\ operation'[y] # None /\ operation'[x].key = operation'[y].key
            => x = y
    BY <2>1, <2>3, <2>4 DEF OperationExplainsStatus
  <2> QED BY <2>6, <2>7
<1> QED
  BY <1>3, <1>4
  DEF Next, vars, ExpireReservations, TtlElapses, Reserve, ReserveOutOfStock,
      TransitionExpires, MovementIn, MovementOut, RestoreCancelledOrder

\* Whatever keys are replayed, the log and the reservations tell one story.
THEOREM LogExplains == Spec => []OperationExplainsStatus
<1>1. Init => OperationExplainsStatus
  BY DEF Init, OperationExplainsStatus
<1> QED BY <1>1, LogStep, TypeCorrect, PTL DEF Spec

------------------------------------------------------------------------------
\* What the newest events announce.

\* A release changes the counters of the rows its reservations are on.
LEMMA OtherRowsStay ==
  ASSUME TypeOK, NEW E \in SUBSET Keys, NEW s \in Stocks \ StocksOf(E)
  PROVE  AfterRelease(E)[s] = reserved[s]
<1>1. Units(E, s, "RESERVED") = {}
  BY DEF Units, StocksOf
<1>2. Held(E, s) = 0
  BY <1>1, FS_EmptySet DEF Held
<1> QED BY <1>2 DEF AfterRelease, TypeOK

\* A transaction that announces every row it changed keeps the rest current.
LEMMA AnnouncedStep ==
  ASSUME AnnouncedIsCurrent, NEW T, Announce(T), rows' \in SUBSET (rows \cup T),
         rows' \in SUBSET Stocks,
         \A s \in Stocks \ T : onHand'[s] = onHand[s] /\ reserved'[s] = reserved[s]
  PROVE  AnnouncedIsCurrent'
BY DEF AnnouncedIsCurrent, Announce

LEMMA CurrentStep == TypeOK /\ TypeOK' /\ AnnouncedIsCurrent /\ [Next]_vars => AnnouncedIsCurrent'
<1> SUFFICES ASSUME TypeOK, TypeOK', AnnouncedIsCurrent, [Next]_vars
             PROVE  AnnouncedIsCurrent'
  OBVIOUS
<1>a. rows \in SUBSET Stocks /\ rows' \in SUBSET Stocks
  BY DEF TypeOK
\* A sweep alone, and with an update of one row.
<1>b. ASSUME NEW E \in Sweepable, reserved' = AfterRelease(E), onHand' = onHand, rows' = rows,
             Announce(StocksOf(E))
      PROVE  AnnouncedIsCurrent'
  <2>1. \A s \in Stocks \ StocksOf(E) : reserved'[s] = reserved[s]
    BY <1>b, DueKeys, OtherRowsStay
  <2> QED BY <1>a, <1>b, <2>1, AnnouncedStep
<1>c. ASSUME NEW E \in Sweepable, NEW s \in Stocks, Announce(StocksOf(E) \cup {s}),
             rows' \in SUBSET (rows \cup {s}),
             \A x \in Stocks \ {s} : reserved'[x] = AfterRelease(E)[x] /\ onHand'[x] = onHand[x]
      PROVE  AnnouncedIsCurrent'
  <2>1. \A x \in Stocks \ (StocksOf(E) \cup {s}) :
          reserved'[x] = reserved[x] /\ onHand'[x] = onHand[x]
    BY <1>c, DueKeys, OtherRowsStay
  <2> QED BY <1>a, <1>c, <2>1, AnnouncedStep
<1>1. CASE ExpireReservations
  BY <1>1, <1>b DEF ExpireReservations
<1>2. ASSUME NEW k \in Keys, TtlElapses(k) PROVE AnnouncedIsCurrent'
  BY <1>2 DEF TtlElapses, AnnouncedIsCurrent
<1>3. ASSUME NEW k \in Keys, NEW s \in Stocks, NEW q \in 1..MaxQuantity, Reserve(k, s, q)
      PROVE  AnnouncedIsCurrent'
  <2>1. PICK E \in Sweepable :
          /\ reserved' = [AfterRelease(E) EXCEPT ![s] = @ + q]
          /\ UNCHANGED <<rows, onHand>>
          /\ Announce(StocksOf(E) \cup {s})
    BY <1>3 DEF Reserve
  <2>2. \A x \in Stocks \ {s} : reserved'[x] = AfterRelease(E)[x] /\ onHand'[x] = onHand[x]
    BY <2>1 DEF AfterRelease
  <2> QED BY <1>c, <2>1, <2>2
<1>4. ASSUME NEW k \in Keys, NEW s \in Stocks, NEW q \in 1..MaxQuantity, ReserveOutOfStock(k, s, q)
      PROVE  AnnouncedIsCurrent'
  BY <1>4, <1>b DEF ReserveOutOfStock
<1>5. ASSUME NEW o \in OpKeys, NEW k \in Keys, Commit(o, k) PROVE AnnouncedIsCurrent'
  <2>1. PICK s : /\ s = reservation[k].stock
                 /\ Announce({s}) /\ rows' = rows
                 /\ \A x \in Stocks \ {s} : reserved'[x] = reserved[x] /\ onHand'[x] = onHand[x]
    BY <1>5 DEF Commit, TypeOK
  <2> QED BY <1>a, <2>1, AnnouncedStep
<1>6. ASSUME NEW o \in OpKeys, NEW k \in Keys, Release(o, k) \/ TransitionExpires(o, k)
      PROVE  AnnouncedIsCurrent'
  <2>1. /\ reserved' = AfterRelease({k}) /\ onHand' = onHand /\ rows' = rows
        /\ Announce(StocksOf({k}))
    <3>1. StocksOf({k}) = {reservation[k].stock}
      BY DEF StocksOf
    <3> QED BY <1>6, <3>1 DEF Release, TransitionExpires
  <2>2. \A s \in Stocks \ StocksOf({k}) : reserved'[s] = reserved[s]
    BY <2>1, OtherRowsStay
  <2> QED BY <1>a, <2>1, <2>2, AnnouncedStep
<1>7. ASSUME NEW s \in Stocks, NEW q \in 1..MaxQuantity, MovementIn(s, q)
      PROVE  AnnouncedIsCurrent'
  <2>1. PICK E \in Sweepable :
          /\ reserved' = AfterRelease(E)
          /\ rows' = rows \cup {s}
          /\ onHand' = [onHand EXCEPT ![s] = @ + q]
          /\ Announce(StocksOf(E) \cup {s})
    BY <1>7 DEF MovementIn
  <2>2. \A x \in Stocks \ {s} : reserved'[x] = AfterRelease(E)[x] /\ onHand'[x] = onHand[x]
    BY <2>1 DEF TypeOK
  <2> QED BY <1>c, <2>1, <2>2
<1>8. ASSUME NEW s \in Stocks, NEW q \in 1..MaxQuantity, MovementOut(s, q)
      PROVE  AnnouncedIsCurrent'
  <2>1. PICK E \in Sweepable :
          /\ reserved' = AfterRelease(E)
          /\ rows' = rows
          /\ onHand' = [onHand EXCEPT ![s] = @ - q]
          /\ Announce(StocksOf(E) \cup {s})
    BY <1>8 DEF MovementOut
  <2>2. \A x \in Stocks \ {s} : reserved'[x] = AfterRelease(E)[x] /\ onHand'[x] = onHand[x]
    BY <2>1 DEF TypeOK
  <2> QED BY <1>c, <2>1, <2>2
<1>9. ASSUME NEW e \in Events, RestoreCancelledOrder(e) PROVE AnnouncedIsCurrent'
  <2> DEFINE items == {s \in Stocks : EventItems[e][s] > 0}
  <2>1. /\ Announce(items) /\ rows' = rows /\ reserved' = reserved
        /\ onHand' = [s \in Stocks |-> onHand[s] + EventItems[e][s]]
    BY <1>9 DEF RestoreCancelledOrder
  <2>2. ASSUME NEW s \in Stocks \ items PROVE onHand'[s] = onHand[s]
    <3>1. EventItems[e][s] \in 0..MaxQuantity /\ ~(EventItems[e][s] > 0) /\ MaxQuantity \in Nat
      BY InventoryAssumption DEF InventoryAssumption
    <3>2. EventItems[e][s] = 0 /\ onHand[s] \in Nat
      BY <3>1 DEF TypeOK
    <3> QED BY <2>1, <3>2
  <2> HIDE DEF items
  <2> QED BY <1>a, <2>1, <2>2, AnnouncedStep
<1>10. CASE UNCHANGED vars
  BY <1>10 DEF vars, AnnouncedIsCurrent
<1> QED
  BY <1>1, <1>2, <1>3, <1>4, <1>5, <1>6, <1>7, <1>8, <1>9, <1>10 DEF Next

\* The newest event of every row states the row as it is, for any number of
\* rows, reservations and sweeps: what Realtime and Analytics rely on.
THEOREM NewestEventIsTrue == Spec => []AnnouncedIsCurrent
<1>1. Init => AnnouncedIsCurrent
  BY DEF Init, AnnouncedIsCurrent
<1> QED BY <1>1, CurrentStep, TypeCorrect, PTL DEF Spec

------------------------------------------------------------------------------
\* Conservation of stock.

\* The units that cancelled orders P gave back to s.
RestockedBy(P, s) ==
  {u \in Events \X (1..MaxQuantity) : u[1] \in P /\ u[2] <= EventItems[u[1]][s]}

Given(P, s) == Cardinality(RestockedBy(P, s))

\* The units given back are finitely many.
LEMMA GivenFinite ==
  ASSUME NEW P, NEW s
  PROVE  IsFiniteSet(RestockedBy(P, s)) /\ Given(P, s) \in Nat
<1>1. IsFiniteSet(Events) /\ IsFiniteSet(1..MaxQuantity)
  <2>1. 1 \in Int /\ MaxQuantity \in Int
    BY InventoryAssumption DEF InventoryAssumption
  <2> QED BY <2>1, FS_Interval, InventoryAssumption DEF InventoryAssumption
<1>2. IsFiniteSet(Events \X (1..MaxQuantity))
  BY <1>1, FS_Product
<1>3. RestockedBy(P, s) \in SUBSET (Events \X (1..MaxQuantity))
  BY DEF RestockedBy
<1> QED BY <1>2, <1>3, FS_Subset, FS_CardinalityType DEF Given

\* The first delivery of an event gives back its quantity of every stock.
LEMMA GivenOnce ==
  ASSUME NEW P, NEW e \in Events, e \notin P, NEW s \in Stocks
  PROVE  Given(P \cup {e}, s) = Given(P, s) + EventItems[e][s]
<1> DEFINE Old == RestockedBy(P, s)
           q == EventItems[e][s]
           Added == {e} \X (1..q)
<1>1. q \in 0..MaxQuantity /\ MaxQuantity \in Nat
  BY InventoryAssumption DEF InventoryAssumption
<1>2. RestockedBy(P \cup {e}, s) = Old \cup Added
  BY <1>1 DEF RestockedBy
<1>3. Old \cap Added = {}
  BY DEF RestockedBy
<1>4. IsFiniteSet(1..q) /\ Cardinality(1..q) = q
  <2>1. 1 \in Int /\ q \in Int
    BY <1>1
  <2>2. CASE q = 0
    <3>1. 1..q = {}
      BY <2>2
    <3> QED BY <2>2, <3>1, FS_EmptySet
  <2>3. CASE q # 0
    <3>1. ~(1 > q) /\ q - 1 + 1 = q
      BY <1>1, <2>3
    <3> QED BY <2>1, <3>1, FS_Interval
  <2> QED BY <2>2, <2>3
<1>5. IsFiniteSet({e}) /\ Cardinality({e}) = 1
  BY FS_Singleton
<1>6. IsFiniteSet(Added) /\ Cardinality(Added) = q
  <2> DEFINE D == 1..q
  <2>1. IsFiniteSet({e} \X D) /\ Cardinality({e} \X D) = Cardinality({e}) * Cardinality(D)
    <3> HIDE DEF D
    <3>1. IsFiniteSet(D)
      BY <1>4 DEF D
    <3> QED BY <1>5, <3>1, FS_Product
  <2> QED BY <1>1, <1>4, <1>5, <2>1
<1>7. IsFiniteSet(Old) /\ Cardinality(Old) \in Nat
  BY GivenFinite DEF Given
<1>8. Cardinality(Old \cup Added) = Cardinality(Old) + Cardinality(Added) - Cardinality({})
  <2> HIDE DEF Old, Added
  <2> QED BY <1>3, <1>6, <1>7, FS_Union
<1>9. Cardinality({}) = 0
  BY FS_EmptySet
<1>10. Given(P \cup {e}, s) = Cardinality(Old \cup Added) /\ Given(P, s) = Cardinality(Old)
  BY <1>2 DEF Given
<1> HIDE DEF Old, Added
<1> QED BY <1>1, <1>6, <1>7, <1>8, <1>9, <1>10

\* StockConserved for one row, over any tables.
Balanced(h, in, r, P, s) ==
  h = in - Count(r, Keys, s, "COMMITTED") + Given(P, s)

\* A sweep moves no committed unit.
LEMMA SweepKeepsCommitted ==
  ASSUME TypeOK, NEW E \in SUBSET Keys, \A k \in E : HasStatus(k, "RESERVED"),
         NEW status \in {"EXPIRED", "RELEASED"}, NEW s \in Stocks
  PROVE  Count(SetStatus(E, status), Keys, s, "COMMITTED") =
           Count(reservation, Keys, s, "COMMITTED")
<1>1. reservation \in Tables /\ \A k \in E : reservation[k] # None /\ reservation[k].status = "RESERVED"
  BY DEF TypeOK, Tables, HasStatus
<1>2. status \in Statuses \ {"RESERVED"} /\ "COMMITTED" \in Statuses \ {"RESERVED", status}
  BY DEF Statuses
<1> QED BY <1>1, <1>2, CountLeave DEF SetStatus

\* Each transaction books a row's change of stock exactly once: as a movement,
\* as a committed reservation, or as an event that was not processed before.
LEMMA ConservedStep == TypeOK /\ TypeOK' /\ StockConserved /\ [Next]_vars => StockConserved'
<1> SUFFICES ASSUME TypeOK, TypeOK', StockConserved, [Next]_vars, NEW x \in Stocks
             PROVE  Balanced(onHand'[x], received'[x], reservation', processed', x)
  BY DEF StockConserved, Balanced, Units, HasStatus, Count, UnitsIn, RestockedUnits,
         RestockedBy, Given
<1>a. /\ Balanced(onHand[x], received[x], reservation, processed, x)
      /\ onHand[x] \in Nat /\ received[x] \in Int
  BY DEF TypeOK, StockConserved, Balanced, Units, HasStatus, Count, UnitsIn, RestockedUnits,
         RestockedBy, Given
<1>b. /\ reservation \in Tables
      /\ Count(reservation, Keys, x, "COMMITTED") \in Nat
      /\ Given(processed, x) \in Nat
  BY UnitsFinite, GivenFinite DEF TypeOK, Tables
<1>c. ASSUME NEW E \in Sweepable
      PROVE  Count(SetStatus(E, "EXPIRED"), Keys, x, "COMMITTED") =
               Count(reservation, Keys, x, "COMMITTED")
  <2>1. E \in SUBSET Keys /\ \A k \in E : HasStatus(k, "RESERVED")
    BY DueKeys DEF Due
  <2> QED BY <2>1, SweepKeepsCommitted
<1>1. CASE ExpireReservations
  BY <1>1, <1>a, <1>c DEF ExpireReservations, Balanced
<1>2. ASSUME NEW k \in Keys, TtlElapses(k)
      PROVE  Balanced(onHand'[x], received'[x], reservation', processed', x)
  <2>1. reservation[k] \in Reservation /\ reservation[k] # None
    BY <1>2 DEF TtlElapses, Live, HasStatus, TypeOK
  <2>2. reservation'[k] = [reservation[k] EXCEPT !.due = TRUE]
    BY <1>2 DEF TtlElapses, TypeOK
  <2>3. /\ reservation'[k] # None
        /\ reservation'[k].status = reservation[k].status
        /\ reservation'[k].stock = reservation[k].stock
        /\ reservation'[k].quantity = reservation[k].quantity
    <3>1. reservation'[k] \in Reservation
      BY <2>1, <2>2 DEF Reservation
    <3> QED BY <2>1, <2>2, <3>1, InventoryAssumption DEF Reservation, InventoryAssumption
  <2>4. \A j \in Keys \ {k} : reservation'[j] = reservation[j]
    BY <1>2 DEF TtlElapses, TypeOK
  <2>5. UnitsIn(reservation', Keys, x, "COMMITTED") = UnitsIn(reservation, Keys, x, "COMMITTED")
    BY <2>1, <2>3, <2>4 DEF UnitsIn
  <2> QED BY <1>2, <1>a, <2>5 DEF TtlElapses, Balanced, Count
<1>3. ASSUME NEW k \in Keys, NEW s \in Stocks, NEW q \in 1..MaxQuantity, Reserve(k, s, q)
      PROVE  Balanced(onHand'[x], received'[x], reservation', processed', x)
  <2> DEFINE new == [stock |-> s, quantity |-> q, status |-> "RESERVED", due |-> FALSE]
  <2>1. PICK E \in Sweepable :
          /\ CanRelease(E)
          /\ reservation' = [SetStatus(E, "EXPIRED") EXCEPT ![k] = new]
          /\ UNCHANGED <<onHand, processed, received>>
    BY <1>3 DEF Reserve
  <2>2. SetStatus(E, "EXPIRED") \in Tables
    BY <2>1, DueKeys, ReleaseType DEF Due, HasStatus, Statuses
  <2>3. SetStatus(E, "EXPIRED")[k] = None
    <3>1. reservation[k] = None /\ k \notin E
      BY <1>3, DueKeys DEF Reserve, Due, HasStatus
    <3> QED BY <3>1 DEF SetStatus
  <2>4. /\ reservation' \in Tables
        /\ reservation'[k] # None /\ reservation'[k].status = "RESERVED"
        /\ \A j \in Keys \ {k} : reservation'[j] = SetStatus(E, "EXPIRED")[j]
    <3>1. new \in Reservation /\ new # None
      <4>1. new \in Reservation
        BY DEF Reservation, Statuses
      <4> QED BY <4>1, InventoryAssumption DEF InventoryAssumption
    <3>2. reservation'[k] = new /\ reservation' \in Tables
      BY <2>1, <2>2, <3>1 DEF Tables
    <3> QED BY <2>1, <2>2, <3>1, <3>2 DEF Tables
  <2>5. Count(reservation', Keys, x, "COMMITTED") =
          Count(SetStatus(E, "EXPIRED"), Keys, x, "COMMITTED")
    <3>1. "COMMITTED" \in Statuses \ {"RESERVED"}
      BY DEF Statuses
    <3> HIDE DEF new
    <3> QED BY <2>2, <2>3, <2>4, <3>1, CountEnter
  <2> QED BY <1>a, <1>c, <2>1, <2>5 DEF Balanced
<1>4. ASSUME NEW k \in Keys, NEW s \in Stocks, NEW q \in 1..MaxQuantity, ReserveOutOfStock(k, s, q)
      PROVE  Balanced(onHand'[x], received'[x], reservation', processed', x)
  BY <1>4, <1>a, <1>c DEF ReserveOutOfStock, Balanced
\* A committed reservation leaves the shelf and enters the count.
<1>5. ASSUME NEW o \in OpKeys, NEW k \in Keys, Commit(o, k)
      PROVE  Balanced(onHand'[x], received'[x], reservation', processed', x)
  <2> DEFINE s == reservation[k].stock
             q == reservation[k].quantity
  <2>1. /\ HasStatus(k, "RESERVED")
        /\ reservation' = SetStatus({k}, "COMMITTED")
        /\ onHand' = [onHand EXCEPT ![s] = @ - q]
        /\ UNCHANGED <<processed, received>>
    BY <1>5 DEF Commit, Live
  <2>2. Count(reservation, {k}, x, "RESERVED") = IF s = x THEN q ELSE 0
    <3>1. reservation[k] # None /\ reservation[k].status = "RESERVED"
      BY <2>1 DEF HasStatus
    <3>2. Count(reservation, {k}, x, reservation[k].status) = IF s = x THEN q ELSE 0
      BY <1>b, <3>1, CountSingle
    <3> QED BY <3>1, <3>2
  <2>3. Count(reservation', Keys, x, "COMMITTED") =
          Count(reservation, Keys, x, "COMMITTED") + Count(reservation, {k}, x, "RESERVED")
    <3>1. "COMMITTED" \in Statuses \ {"RESERVED"}
      BY DEF Statuses
    <3>2. {k} \in SUBSET Keys
          /\ \A j \in {k} : reservation[j] # None /\ reservation[j].status = "RESERVED"
      BY <2>1 DEF HasStatus
    <3> QED BY <1>b, <2>1, <3>1, <3>2, CountLeave DEF SetStatus
  <2>4. q \in Nat
    BY <2>1 DEF HasStatus, TypeOK, Reservation, InventoryAssumption
  <2>5. onHand'[x] = onHand[x] - (IF s = x THEN q ELSE 0)
    <3>1. CASE s = x
      BY <2>1, <3>1 DEF TypeOK
    <3>2. CASE s # x
      BY <1>a, <2>1, <3>2 DEF TypeOK
    <3> QED BY <3>1, <3>2
  <2>6. (IF s = x THEN q ELSE 0) \in Nat
    BY <2>4
  <2> QED BY <1>a, <1>b, <2>1, <2>2, <2>3, <2>5, <2>6 DEF Balanced
<1>6. ASSUME NEW o \in OpKeys, NEW k \in Keys, Release(o, k) \/ TransitionExpires(o, k)
      PROVE  Balanced(onHand'[x], received'[x], reservation', processed', x)
  <2>1. PICK status \in {"EXPIRED", "RELEASED"} : reservation' = SetStatus({k}, status)
    BY <1>6 DEF Release, TransitionExpires
  <2>2. {k} \in SUBSET Keys /\ \A j \in {k} : HasStatus(j, "RESERVED")
    BY <1>6 DEF Release, TransitionExpires, Live, Due
  <2>3. UNCHANGED <<onHand, processed, received>>
    BY <1>6 DEF Release, TransitionExpires
  <2> QED BY <1>a, <2>1, <2>2, <2>3, SweepKeepsCommitted DEF Balanced
\* A movement is booked in what manual movements brought.
<1>7. ASSUME NEW s \in Stocks, NEW q \in 1..MaxQuantity, MovementIn(s, q) \/ MovementOut(s, q)
      PROVE  Balanced(onHand'[x], received'[x], reservation', processed', x)
  <2>1. PICK d \in Int :
          /\ onHand' = [onHand EXCEPT ![s] = @ + d]
          /\ received' = [received EXCEPT ![s] = @ + d]
    <3>1. q \in Int /\ -q \in Int
      BY InventoryAssumption DEF InventoryAssumption
    <3>2. onHand[s] \in Nat /\ received[s] \in Int
      BY DEF TypeOK
    <3>3. onHand[s] - q = onHand[s] + (-q) /\ received[s] - q = received[s] + (-q)
      BY <3>1, <3>2
    <3> QED BY <1>7, <3>1, <3>3 DEF MovementIn, MovementOut
  <2>2. PICK E \in Sweepable : reservation' = SetStatus(E, "EXPIRED")
    BY <1>7 DEF MovementIn, MovementOut
  <2>3. processed' = processed
    BY <1>7 DEF MovementIn, MovementOut
  <2>4. onHand'[x] - onHand[x] = received'[x] - received[x]
    <3>1. CASE x = s
      BY <1>a, <2>1, <3>1 DEF TypeOK
    <3>2. CASE x # s
      BY <1>a, <2>1, <3>2 DEF TypeOK
    <3> QED BY <3>1, <3>2
  <2>5. onHand'[x] \in Nat /\ received'[x] \in Int
    BY DEF TypeOK
  <2> QED BY <1>a, <1>b, <1>c, <2>2, <2>3, <2>4, <2>5 DEF Balanced
<1>8. ASSUME NEW e \in Events, RestoreCancelledOrder(e)
      PROVE  Balanced(onHand'[x], received'[x], reservation', processed', x)
  <2>1. /\ e \notin processed /\ processed' = processed \cup {e}
        /\ onHand'[x] = onHand[x] + EventItems[e][x]
        /\ received' = received /\ reservation' = reservation
    BY <1>8 DEF RestoreCancelledOrder, FirstDelivery
  <2>2. Given(processed', x) = Given(processed, x) + EventItems[e][x]
    BY <2>1, GivenOnce
  <2>3. EventItems[e][x] \in Nat
    BY InventoryAssumption DEF InventoryAssumption
  <2> QED BY <1>a, <1>b, <2>1, <2>2, <2>3 DEF Balanced
<1>9. CASE UNCHANGED vars
  BY <1>9, <1>a DEF vars
<1> QED
  BY <1>1, <1>2, <1>3, <1>4, <1>5, <1>6, <1>7, <1>8, <1>9 DEF Next

\* No unit is lost or counted twice, for any number of rows, reservations and
\* events and however often calls and events are delivered again.
THEOREM StockIsConserved == Spec => []StockConserved
<1>1. Init => StockConserved
  <2> SUFFICES ASSUME Init, NEW s \in Stocks
               PROVE  /\ onHand[s] = received[s] - Cardinality(Units(Keys, s, "COMMITTED"))
                                     + Cardinality(RestockedUnits(s))
    BY DEF StockConserved
  <2>1. Units(Keys, s, "COMMITTED") = {} /\ RestockedUnits(s) = {}
    BY DEF Init, Units, HasStatus, RestockedUnits
  <2>2. onHand[s] = 0 /\ received[s] = 0
    BY DEF Init
  <2>3. Cardinality({}) = 0
    BY FS_EmptySet
  <2> QED BY <2>1, <2>2, <2>3
<1> QED BY <1>1, ConservedStep, TypeCorrect, PTL DEF Spec
==============================================================================

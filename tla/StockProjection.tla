--------------------------- MODULE StockProjection ---------------------------
(***************************************************************************)
(* The stock per variant and branch that Analytics keeps for its reports,  *)
(* fed by inventory.stock.changed.v1 and by a paged snapshot of Inventory  *)
(* that a timer takes again and again.                                     *)
(*                                                                         *)
(* services/analytics-service/src/analytics/analytics.service.ts,          *)
(* inventory-reconciliation.service.ts, analytics.consumer.ts and          *)
(* common/consume-reliably.ts.  A stock row is known by its place in the   *)
(* order of ids, which is random: a new row may come anywhere.  Its        *)
(* quantities are known by its revision, which a trigger of Inventory      *)
(* increments; 0 is no row.  Events written before revisions existed are   *)
(* left out.  How often a message was tried is not counted: a failure may  *)
(* be the one that exhausts its retries.                                   *)
(***************************************************************************)
EXTENDS Naturals, FiniteSets, FiniteSetsExt

CONSTANTS
  RowCount,     \* stock rows there can be in Inventory
  PageSize,     \* rows of a snapshot page (500)
  MaxRevision   \* bound of the model on the revision of a row

ASSUME StockProjectionAssumption ==
  RowCount \in Nat /\ PageSize \in Nat \ {0} /\ MaxRevision \in Nat \ {0}

VARIABLES
  stock,       \* Inventory: revision of each row
  queue,       \* messages ready or unacknowledged
  ready,       \* the consumer has its channel
  processed,   \* analytics_processed_events
  projection,  \* analytics_inventory_projection: revision of each row
  recon,       \* InventoryReconciliationService.reconcile
  synced       \* what the last completed reconciliation vouches for

queueVars == <<queue, ready, processed>>
projectionVars == <<stock, queueVars, projection, recon, synced>>

Rows == 1..RowCount
Revisions == 0..MaxRevision
NoRows == [r \in Rows |-> 0]

\* inventory.stock.changed.v1
Events == [row : Rows, revision : Revisions]

\* cursor: 0 for none.  owed: what the run must have brought when it is
\* complete, a history variable set by ReconStarts and ReconCounts.
Asleep == [step |-> "idle", cursor |-> 0, page |-> NoRows, imported |-> 0, total |-> 0,
           owed |-> NoRows]

ProjectionTypeOK ==
  /\ stock \in [Rows -> Revisions] /\ projection \in [Rows -> Revisions]
  /\ synced \in [Rows -> Revisions]
  /\ queue \subseteq Events /\ processed \subseteq Events
  /\ ready \in BOOLEAN
  /\ recon \in [step : {"idle", "ask", "count", "import", "finish"}, cursor : 0..RowCount,
                page : [Rows -> Revisions], imported : 0..RowCount, total : 0..RowCount,
                owed : [Rows -> Revisions]]

ProjectionInit ==
  /\ stock = NoRows /\ projection = NoRows /\ synced = NoRows
  /\ queue = {} /\ processed = {}
  /\ ready = FALSE
  /\ recon = Asleep

------------------------------------------------------------------------------
\* A change of stock and its event; the outbox delivers late and in any order.
StockChanges(r) ==
  /\ stock[r] < MaxRevision
  /\ stock' = [stock EXCEPT ![r] = @ + 1]
  /\ queue' = queue \cup {[row |-> r, revision |-> stock[r] + 1]}
  /\ UNCHANGED <<ready, processed, projection, recon, synced>>

------------------------------------------------------------------------------
\* The consumer.

ConsumerConnects ==
  /\ ~ready
  /\ ready' = TRUE
  /\ UNCHANGED <<stock, queue, processed, projection, recon, synced>>

\* Unacknowledged messages are delivered again.
ConsumerDisconnects ==
  /\ ready
  /\ ready' = FALSE
  /\ UNCHANGED <<stock, queue, processed, projection, recon, synced>>

\* The WHERE clause of projectStock.
NewerIfDifferent(known, revision) == known # revision
Newer(known, revision) == known < revision

\* project, of an event not claimed before; the acknowledgement may be lost.
ProjectStock(e) ==
  /\ ready /\ e \in queue \ processed
  /\ processed' = processed \cup {e}
  /\ projection' = [projection EXCEPT ![e.row] = IF Newer(@, e.revision) THEN e.revision ELSE @]
  /\ queue' \in {queue, queue \ {e}}
  /\ UNCHANGED <<stock, ready, recon, synced>>

ProjectAgain(e) ==
  /\ ready /\ e \in queue \cap processed
  /\ queue' = queue \ {e}
  /\ UNCHANGED <<stock, ready, processed, projection, recon, synced>>

\* withTransaction: the claim of an event is rolled back with its projection.
\* consumeReliably: the event is queued again, or it goes to the DLQ.
ProjectFails(e) ==
  /\ ready /\ e \in queue \ processed
  /\ queue' \in {queue, queue \ {e}}
  /\ UNCHANGED <<stock, ready, processed, projection, recon, synced>>

------------------------------------------------------------------------------
\* reconcile.

Exists == {r \in Rows : stock[r] > 0}
Ahead(c) == {r \in Exists : r > c}

\* The timer, or the consumer when it becomes ready.
ReconStarts ==
  /\ ready /\ recon.step = "idle"
  /\ recon' = [Asleep EXCEPT !.step = "ask", !.owed = stock]
  /\ UNCHANGED <<stock, queueVars, projection, synced>>

\* InventoryService.snapshot: the rows after the cursor, in the order of their ids ...
InPage(c) == {r \in Ahead(c) : Cardinality({s \in Ahead(c) : s < r}) < PageSize}

ReconReads(c) ==
  /\ recon.step = "ask" /\ recon.cursor = c
  /\ recon' = [recon EXCEPT !.step = "count",
       !.page = [r \in Rows |-> IF r \in InPage(c) THEN stock[r] ELSE 0],
       !.cursor = IF InPage(c) = Ahead(c) THEN 0 ELSE Max(InPage(c))]
  /\ UNCHANGED <<stock, queueVars, projection, synced>>

\* ... and, by a second query, how many there are.  A row counted now is owed too.
ReconCounts(c) ==
  /\ recon.step = "count" /\ recon.cursor = c
  /\ recon' = [recon EXCEPT !.step = "import", !.total = Cardinality(Exists),
       !.owed = [r \in Rows |-> IF @[r] = 0 /\ r \in Exists THEN 1 ELSE @[r]]]
  /\ UNCHANGED <<stock, queueVars, projection, synced>>

\* The enumeration is complete if it brought as many rows as there are.
EnoughImported(imported, total) == imported <= total
AllImported(imported, total) == imported = total

\* importInventory and the rest of the loop; recon.cursor is that of the next page.
ReconImports(c) ==
  LET brought == {r \in Rows : recon.page[r] > 0}
      imported == recon.imported + Cardinality(brought)
      more == [recon EXCEPT !.step = "ask", !.imported = imported]
      last == [recon EXCEPT !.step = "finish", !.imported = imported]
  IN
  /\ recon.step = "import" /\ recon.cursor = c
  /\ projection' = [r \in Rows |-> IF r \in brought /\ Newer(projection[r], recon.page[r])
                                   THEN recon.page[r] ELSE projection[r]]
  /\ \/ c > 0 /\ recon' = more
     \/ c = 0 /\ AllImported(imported, recon.total) /\ recon' = last
     \/ c = 0 /\ ~AllImported(imported, recon.total) /\ recon' = Asleep
  /\ UNCHANGED <<stock, queueVars, synced>>

ReconCompletes ==
  /\ recon.step = "finish"
  /\ synced' = recon.owed
  /\ recon' = Asleep
  /\ UNCHANGED <<stock, queueVars, projection>>

\* A call or a query fails, or the process restarts; finally clears running.
StaysRunning == [recon EXCEPT !.step = "failed"]
NotRunning == Asleep

ReconFails ==
  /\ recon.step # "idle"
  /\ recon' = NotRunning
  /\ UNCHANGED <<stock, queueVars, projection, synced>>

------------------------------------------------------------------------------
ReconProceeds ==
  \/ \E c \in 0..RowCount : ReconReads(c) \/ ReconCounts(c) \/ ReconImports(c)
  \/ ReconCompletes

ProjectionNext ==
  \/ \E r \in Rows : StockChanges(r)
  \/ ConsumerConnects \/ ConsumerDisconnects
  \/ \E e \in queue : ProjectStock(e) \/ ProjectAgain(e) \/ ProjectFails(e)
  \/ ReconStarts \/ ReconProceeds \/ ReconFails

\* The connection is retried every second, and the timer calls reconcile again
\* and again.  Nothing is assumed of the delivery of events.
ProjectionFairness ==
  /\ WF_projectionVars(ConsumerConnects)
  /\ SF_projectionVars(ReconStarts)
  /\ WF_projectionVars(ReconProceeds)

ProjectionSpec == ProjectionInit /\ [][ProjectionNext]_projectionVars
FairSpec == ProjectionSpec /\ ProjectionFairness

------------------------------------------------------------------------------
\* The projection of a row never goes back to an older state of it, whatever the
\* order in which events and pages that aged on the way reach it.  (projectStock)
ProjectionNeverGoesBack == [][\A r \in Rows : projection'[r] >= projection[r]]_projectionVars

\* A reconciliation that reports itself complete has brought every row Inventory
\* had when it started, at least as new as it was then, and every row Inventory
\* counted at the end, though rows appear between its pages and between the two
\* queries of a page.  (reconcile)
CompleteSyncCoversAll == \A r \in Rows : projection[r] >= synced[r]

\* Once Inventory is left alone and its snapshots stop failing, the projection
\* becomes equal to it and stays so, whatever events ended in the DLQ and however
\* earlier runs failed.  (reconcile, consumeReliably)
ProjectionCatchesUp == <>[][~ReconFails]_projectionVars => <>[](projection = stock)
==============================================================================

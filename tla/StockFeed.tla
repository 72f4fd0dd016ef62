------------------------------ MODULE StockFeed ------------------------------
(***************************************************************************)
(* The stock of a branch on an employee's screen: Realtime consumes        *)
(* inventory.stock.changed.v1 and broadcasts it over sockets, and the      *)
(* dashboard merges those events with the snapshots it asks for.           *)
(*                                                                         *)
(* services/realtime-service/src/realtime/inventory-stock.consumer.ts,     *)
(* realtime.gateway.ts, src/components/inventory-dashboard.tsx and         *)
(* src/lib/inventory/realtime.ts.  There is one variant, which each branch *)
(* may stock besides others, one Realtime process and one dashboard.  The  *)
(* quantities of a stock row are known by its revision, 0 for no row;      *)
(* events written before revisions existed are left out.  Who may connect  *)
(* is the subject of AccessStatus.                                         *)
(***************************************************************************)
EXTENDS Naturals, Sequences, SequencesExt

CONSTANTS
  Branches,
  Nothing,      \* null
  Remembered,   \* MAX_REMEMBERED_EVENTS
  MaxChanges,   \* bound of the model on changes of stock
  MaxFaults     \* bound of the model on restarts, broken links and lost acknowledgements

ASSUME StockFeedAssumption ==
  Branches # {} /\ Remembered \in Nat /\ MaxChanges \in Nat /\ MaxFaults \in Nat

VARIABLES
  stockRow,     \* Inventory: revision of the row in each branch
  undelivered,  \* realtime.inventory-stock.v1: messages ready or unacknowledged
  seen,         \* processedEventIds, in the order of insertion
  versions,     \* stockVersions, in the order of insertion
  linked,       \* the socket is open
  wire,         \* what was sent over it and is not received yet
  tab,          \* InventoryDashboardView
  request,      \* its last request, if that is not answered, aborted or superseded
  changes, faults

realtimeVars == <<undelivered, seen, versions>>
feedVars == <<stockRow, realtimeVars, linked, wire, tab, request, changes, faults>>

StockRevisions == 0..(MaxChanges + 1)
StockEvents == [branch : Branches, revision : StockRevisions]

\* view: the branch shown and the revision of its row.  active: activeBranchId.
\* known: knownVariantIds has the variant.  pending: pendingStockEvents.
Tab == [view : StockEvents, active : Branches, known : BOOLEAN, pending : StockRevisions,
        error : BOOLEAN, status : {"connecting", "connected", "fallback"}, online : BOOLEAN]

\* read: what Inventory answered; Nothing before it did.
Request == [branch : Branches, read : StockRevisions \cup {Nothing}]

FeedTypeOK ==
  /\ stockRow \in [Branches -> StockRevisions]
  /\ undelivered \subseteq StockEvents
  /\ seen \in Seq(StockEvents) /\ Len(seen) <= Remembered
  /\ versions \in Seq(StockEvents) /\ Len(versions) <= Remembered
  /\ linked \in BOOLEAN
  /\ wire \in Seq(StockEvents)
  /\ tab \in Tab
  /\ request \in Request \cup {Nothing}
  /\ changes \in 0..MaxChanges /\ faults \in 0..MaxFaults

FeedInit ==
  /\ stockRow \in [Branches -> {0, 1}]
  /\ undelivered = {} /\ seen = <<>> /\ versions = <<>>
  /\ linked = FALSE /\ wire = <<>>
  /\ \E b \in Branches :
       tab = [view |-> [branch |-> b, revision |-> stockRow[b]], active |-> b,
              known |-> stockRow[b] > 0, pending |-> 0, error |-> FALSE,
              status |-> "connecting", online |-> TRUE]
  /\ request = Nothing
  /\ changes = 0 /\ faults = 0

Fault == faults < MaxFaults /\ faults' = faults + 1

------------------------------------------------------------------------------
\* Inventory and Realtime.

\* The outbox delivers late and in any order.
RowChanges(b) ==
  /\ changes < MaxChanges
  /\ changes' = changes + 1
  /\ stockRow' = [stockRow EXCEPT ![b] = @ + 1]
  /\ undelivered' = undelivered \cup {[branch |-> b, revision |-> stockRow[b] + 1]}
  /\ UNCHANGED <<seen, versions, linked, wire, tab, request, faults>>

\* The oldest entry gives way when there are too many.
Bounded(memory) == IF Len(memory) > Remembered THEN Tail(memory) ELSE memory

Remember(e) == Bounded(Append(seen, e))

\* Map.set: a key that is there already keeps its place.
SetVersion(e) ==
  IF \E i \in DOMAIN versions : versions[i].branch = e.branch
  THEN [i \in DOMAIN versions |-> IF versions[i].branch = e.branch THEN e ELSE versions[i]]
  ELSE Bounded(Append(versions, e))

NewerForRealtime(e) ==
  \A i \in DOMAIN versions : versions[i].branch = e.branch => versions[i].revision < e.revision

\* The acknowledgement, unless the connection to RabbitMQ breaks before it.
Ack(e) ==
  \/ undelivered' = undelivered \ {e} /\ UNCHANGED faults
  \/ Fault /\ UNCHANGED undelivered

\* A socket that is not open misses what is sent.
Broadcast(e) ==
  /\ e \in undelivered /\ ~Contains(seen, e) /\ NewerForRealtime(e)
  /\ seen' = Remember(e)
  /\ versions' = SetVersion(e)
  /\ wire' = IF linked THEN Append(wire, e) ELSE wire
  /\ Ack(e)
  /\ UNCHANGED <<stockRow, linked, tab, request, changes>>

Skip(e) ==
  /\ e \in undelivered /\ (Contains(seen, e) \/ ~NewerForRealtime(e))
  /\ seen' = IF Contains(seen, e) THEN seen ELSE Remember(e)
  /\ Ack(e)
  /\ UNCHANGED <<stockRow, versions, linked, wire, tab, request, changes>>

RealtimeRestarts ==
  /\ Fault
  /\ seen' = <<>> /\ versions' = <<>>
  /\ linked' = FALSE /\ wire' = <<>>
  /\ UNCHANGED <<stockRow, undelivered, tab, request, changes>>

LinkBreaks ==
  /\ linked /\ Fault
  /\ linked' = FALSE /\ wire' = <<>>
  /\ UNCHANGED <<stockRow, realtimeVars, tab, request, changes>>

------------------------------------------------------------------------------
\* The dashboard.

\* updateDashboard, called for branch b of a dashboard whose state becomes t.
Ask(b, t) ==
  /\ tab' = [t EXCEPT !.active = b, !.error = FALSE,
                      !.pending = IF t.active = b THEN @ ELSE 0]
  /\ request' = [branch |-> b, read |-> Nothing]

Loading == request # Nothing

\* The socket.  connect: it may have missed events while it was closed.
AfterConnectWaits(t) == tab' = t /\ UNCHANGED request
AfterConnect(t) == Ask(t.active, t)

SocketConnects ==
  /\ tab.online /\ tab.status # "connected" /\ ~linked
  /\ linked' = TRUE
  /\ AfterConnect([tab EXCEPT !.status = "connected"])
  /\ UNCHANGED <<stockRow, realtimeVars, wire, changes, faults>>

\* activateFallback, on disconnect.  A link that the browser closed is gone at once.
NoticesDisconnect ==
  /\ tab.status = "connected" /\ ~linked /\ tab.online
  /\ Ask(tab.active, [tab EXCEPT !.status = "fallback"])
  /\ UNCHANGED <<stockRow, realtimeVars, linked, wire, changes, faults>>

\* The interval timer, or activateFallback on connect_error.
Poll ==
  /\ tab.online /\ tab.status # "connected"
  /\ \E s \in {tab.status, "fallback"} : Ask(tab.active, [tab EXCEPT !.status = s])
  /\ UNCHANGED <<stockRow, realtimeVars, linked, wire, changes, faults>>

\* The events of the window: the request is aborted, and no error is shown for it.
GoesOffline ==
  /\ tab.online /\ Fault
  /\ tab' = [tab EXCEPT !.online = FALSE, !.status = "fallback"]
  /\ request' = Nothing
  /\ linked' = FALSE /\ wire' = <<>>
  /\ UNCHANGED <<stockRow, realtimeVars, changes>>

\* socket.connect() leads to Connect or, on connect_error, to Poll.
GoesOnline ==
  /\ ~tab.online
  /\ Ask(tab.active, [tab EXCEPT !.online = TRUE])
  /\ UNCHANGED <<stockRow, realtimeVars, linked, wire, changes, faults>>

\* The employee: another branch, or the branch shown again ("Actualizar").
Select(b) ==
  /\ ~Loading
  /\ Ask(b, tab)
  /\ UNCHANGED <<stockRow, realtimeVars, linked, wire, changes, faults>>

InventoryAnswers ==
  /\ Loading /\ request.read = Nothing
  /\ request' = [request EXCEPT !.read = stockRow[request.branch]]
  /\ UNCHANGED <<stockRow, realtimeVars, linked, wire, tab, changes, faults>>

\* isNewerStockState.
NewerForTabTrusting(shown, revision) == shown # revision
NewerForTab(shown, revision) == shown < revision

\* mergeStockUpdated: only a row that is shown is changed.
Merge(view, e) ==
  IF view.branch = e.branch /\ view.revision > 0 /\ NewerForTab(view.revision, e.revision)
  THEN e ELSE view

\* mergeInventorySnapshot, and then the events that came while it was under way.
MergeSnapshot(view, snapshot, pending) ==
  LET newest == IF view.branch = snapshot.branch /\ view.revision > snapshot.revision
                THEN view ELSE snapshot
  IN IF pending = 0 THEN newest
     ELSE Merge(newest, [branch |-> snapshot.branch, revision |-> pending])

RequestSucceeds ==
  LET snapshot == [branch |-> request.branch, revision |-> request.read] IN
  /\ Loading /\ request.read # Nothing
  /\ tab' = [tab EXCEPT !.active = snapshot.branch, !.known = snapshot.revision > 0,
                        !.view = MergeSnapshot(@, snapshot, tab.pending)]
  /\ request' = Nothing
  /\ UNCHANGED <<stockRow, realtimeVars, linked, wire, changes, faults>>

RequestFails ==
  /\ Loading
  /\ tab' = [tab EXCEPT !.error = TRUE]
  /\ request' = Nothing
  /\ UNCHANGED <<stockRow, realtimeVars, linked, wire, changes, faults>>

\* refreshCurrentBranch.
Noted(e) ==
  [tab EXCEPT !.pending = IF @ = 0 \/ NewerForTab(@, e.revision) THEN e.revision ELSE @]

Receive ==
  LET e == Head(wire) IN
  /\ wire # <<>>
  /\ wire' = Tail(wire)
  /\ \/ e.branch # tab.active /\ UNCHANGED <<tab, request>>
     \/ e.branch = tab.active /\ ~tab.known /\ Ask(e.branch, Noted(e))
     \/ /\ e.branch = tab.active /\ tab.known
        /\ tab' = [Noted(e) EXCEPT !.view = Merge(@, e)]
        /\ UNCHANGED request
  /\ UNCHANGED <<stockRow, realtimeVars, linked, changes, faults>>

------------------------------------------------------------------------------
Consume == \E e \in undelivered : Broadcast(e) \/ Skip(e)

FeedNext ==
  \/ \E b \in Branches : RowChanges(b) \/ Select(b)
  \/ Consume \/ RealtimeRestarts \/ LinkBreaks
  \/ SocketConnects \/ NoticesDisconnect \/ Poll \/ GoesOffline \/ GoesOnline
  \/ InventoryAnswers \/ RequestSucceeds \/ RequestFails \/ Receive

\* The consumer, the interval timer and the socket's heartbeat go on, and a
\* request ends.  Whether the socket ever connects again is left open: one that
\* Realtime refused or closed does not try again.
FeedFairness ==
  /\ WF_feedVars(Consume) /\ WF_feedVars(Receive)
  /\ WF_feedVars(NoticesDisconnect) /\ WF_feedVars(Poll)
  /\ WF_feedVars(InventoryAnswers) /\ WF_feedVars(RequestSucceeds \/ RequestFails)

FeedSpec == FeedInit /\ [][FeedNext]_feedVars
FeedFairSpec == FeedSpec /\ FeedFairness

------------------------------------------------------------------------------
\* While a branch stays on the screen its row never goes back to an older state,
\* though Realtime forgets what it has sent, events come late and again, and an
\* answer may have been read before the events that overtook it.
\* (isNewerStockState, mergeInventorySnapshot)
DashboardNeverGoesBack ==
  [][tab'.view.branch = tab.view.branch => tab'.view.revision >= tab.view.revision]_feedVars

\* A dashboard that is online, waits for nothing and reports no error ends up
\* showing the active branch, and a row it shows ends up being the one Inventory
\* has, whatever was lost while the socket was closed.  (updateDashboard and its callers)
RowIsCurrent == tab.view.branch = tab.active /\ tab.view.revision \in {0, stockRow[tab.active]}
DashboardCatchesUp == <>[](~tab.online \/ tab.error \/ Loading \/ RowIsCurrent)

\* A row that Inventory has ends up on such a dashboard.
\* realtime.ts:48: "an unknown variant must be loaded by the caller".
RowAppears ==
  <>[](~tab.online \/ tab.error \/ Loading \/ tab.view.revision > 0 \/ stockRow[tab.active] = 0)
==============================================================================

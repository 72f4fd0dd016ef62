-------------------------------- MODULE Catalog --------------------------------
(***************************************************************************)
(* The catalogue and its cache: PostgreSQL has the products and a version   *)
(* that each edit increments; Redis has answers of searches under keys     *)
(* that carry a version, and the version that readers are to use.          *)
(*                                                                         *)
(* services/catalog-service/src: catalog.service.ts, catalog.repository.ts  *)
(* and cache.service.ts, for one process, as it is deployed, and one       *)
(* search; product details and batches take the same way.  Redis gets the  *)
(* commands of the process in the order they were sent, so that each takes  *)
(* effect here as it is sent; what it answers is used later.                *)
(***************************************************************************)
EXTENDS Naturals

CONSTANTS
  Reads,       \* searches under way at once
  Edits,       \* edits under way at once
  MaxVersion,  \* bound of the model on edits
  None

ASSUME CatalogAssumption == MaxVersion \in Nat \ {0} /\ None \notin Nat

Versions == 1..MaxVersion

VARIABLES
  version,  \* catalog_metadata, and what the products say: that of their last edit
  redis,    \* the version key and the answers, by the version of their key
  service,  \* catalogVersion, and of CacheService the status and whether its
            \* connection is the one of cacheGeneration
  read,     \* what each search is doing
  edit,     \* what each edit is doing
  acked,    \* history: the newest version whose edit was confirmed to its author
  raced     \* history: an older version was, or may come to be, put in use again

vars == <<version, redis, service, read, edit, acked, raced>>

Read == [step: {"idle", "asked", "askDb", "told", "look", "load", "store", "answered"},
         version: Versions \cup {None},   \* of the key, or as Redis or the database told it
         content: Versions \cup {None},   \* the edit that the products read, or answered, stem from
         known: Versions]                 \* history: acked when the search began

Resting == [step |-> "idle", version |-> None, content |-> None, known |-> 1]

Init ==
  /\ version = 1
  /\ redis = [version |-> None, entry |-> [v \in Versions |-> None]]
  /\ service = [version |-> None, status |-> "ready", generation |-> "unset"]
  /\ read = [r \in Reads |-> Resting]
  /\ edit = [e \in Edits |-> None]
  /\ acked = 1
  /\ raced = FALSE

------------------------------------------------------------------------------
\* CacheService.  A command that fails is one that came after the connection
\* was lost, or took effect before.

Ready == service.status = "ready"

Put(new) == redis' = IF Ready THEN new ELSE redis

PutInUse(v) ==
  /\ service' = [service EXCEPT !.version = v]
  /\ Put([redis EXCEPT !.version = v])

\* The event "close" or "error" of the connection, and "ready" of the next.
Disconnect ==
  /\ Ready
  /\ service' = [service EXCEPT !.status = "degraded"]
  /\ UNCHANGED <<version, redis, read, edit, acked, raced>>

\* A process that has not searched yet takes the connection it finds for its own;
\* one that has, notices that the generation changed.
Connect ==
  /\ ~Ready
  /\ service' = [service EXCEPT !.status = "ready",
                                !.generation = IF @ = "current" THEN "old" ELSE @]
  /\ UNCHANGED <<version, redis, read, edit, acked, raced>>

VersionExpires ==
  /\ redis.version # None
  /\ redis' = [redis EXCEPT !.version = None]
  /\ UNCHANGED <<version, service, read, edit, acked, raced>>

ExpiresNever(v) == v \in {}
Expires(v) == redis.entry[v] # None

EntryExpires(v) ==
  /\ Expires(v)
  /\ redis' = [redis EXCEPT !.entry[v] = None]
  /\ UNCHANGED <<version, service, read, edit, acked, raced>>

------------------------------------------------------------------------------
\* search.

Step(r, change) == read' = [read EXCEPT ![r] = change]

Answer(r, c) ==
  Step(r, [read[r] EXCEPT !.step = "answered", !.version = None, !.content = c])

\* currentCatalogVersion up to its first await.
Search(r) ==
  /\ read[r].step \in {"idle", "answered"}
  /\ service' = [service EXCEPT !.generation = "current"]
  /\ LET begun == [Resting EXCEPT !.known = acked]
     IN \/ service.generation = "old" /\ Step(r, [begun EXCEPT !.step = "askDb"])
        \/ /\ service.generation # "old"
           /\ Step(r, [begun EXCEPT !.step = "asked",
                                    !.version = IF Ready THEN redis.version ELSE None])
  /\ UNCHANGED <<version, redis, edit, acked, raced>>

\* The version that Redis told, unless the process knows a newer one ...
AcceptableAny(v) == v # None
Acceptable(v) == v # None /\ (service.version # None => v >= service.version)

UseCachedVersion(r) ==
  /\ read[r].step = "asked"
  /\ Acceptable(read[r].version)
  /\ service' = [service EXCEPT !.version = read[r].version]
  /\ Step(r, [read[r] EXCEPT !.step = "look"])
  /\ UNCHANGED <<version, redis, edit, acked, raced>>

\* ... or the one the process knows, while Redis is away ...
UseKnownVersion(r) ==
  /\ read[r].step = "asked" /\ ~Acceptable(read[r].version)
  /\ IF service.version # None /\ ~Ready
     THEN Step(r, [read[r] EXCEPT !.step = "look", !.version = service.version])
     ELSE Step(r, [read[r] EXCEPT !.step = "askDb"])
  /\ UNCHANGED <<version, redis, service, edit, acked, raced>>

\* ... or the one of the database, put in use when the answer is back.
AskVersion(r) ==
  /\ read[r].step = "askDb"
  /\ Step(r, [read[r] EXCEPT !.step = "told", !.version = version])
  /\ UNCHANGED <<version, redis, service, edit, acked, raced>>

UseToldVersion(r) ==
  /\ read[r].step = "told"
  /\ PutInUse(read[r].version)
  /\ Step(r, [read[r] EXCEPT !.step = "look"])
  /\ UNCHANGED <<version, edit, acked, raced>>

\* getJson: without Redis, a miss.
LookUp(r) ==
  /\ read[r].step = "look"
  /\ LET found == IF Ready THEN redis.entry[read[r].version] ELSE None
     IN \/ found = None /\ Step(r, [read[r] EXCEPT !.step = "load"])
        \/ found # None /\ Answer(r, found)
  /\ UNCHANGED <<version, redis, service, edit, acked, raced>>

\* searchActive: several queries without a transaction; the content is as old
\* as the oldest.
Load(r) ==
  /\ read[r].step = "load"
  /\ Step(r, [read[r] EXCEPT !.step = "store", !.content = version])
  /\ UNCHANGED <<version, redis, service, edit, acked, raced>>

Store(r) ==
  /\ read[r].step = "store"
  /\ Put([redis EXCEPT !.entry[read[r].version] = read[r].content])
  /\ Answer(r, read[r].content)
  /\ UNCHANGED <<version, service, edit, acked, raced>>

\* PostgreSQL does not answer: 503.
ReadFails(r) ==
  /\ read[r].step \in {"askDb", "load"}
  /\ Step(r, Resting)
  /\ UNCHANGED <<version, redis, service, edit, acked, raced>>

------------------------------------------------------------------------------
\* Edits of products and variants: the change and bumpCatalogVersion commit
\* together ...
Commit(e) ==
  /\ edit[e] = None
  /\ version < MaxVersion                      \* bound of the model
  /\ version' = version + 1
  /\ edit' = [edit EXCEPT ![e] = version']
  /\ UNCHANGED <<redis, service, read, acked, raced>>

\* ... and performMutation puts the version in use when the answer is back.
\* Whoever was told an older one will put that in use afterwards.
OlderUnderWay(e) ==
  \/ \E r \in Reads : read[r].step = "told" /\ read[r].version < edit[e]
  \/ \E d \in Edits : edit[d] # None /\ edit[d] < edit[e]

Larger(a, b) == IF a > b THEN a ELSE b

Acknowledge(e) ==
  /\ edit[e] # None
  /\ PutInUse(edit[e])
  /\ acked' = Larger(acked, edit[e])
  /\ raced' = (raced \/ OlderUnderWay(e))
  /\ edit' = [edit EXCEPT ![e] = None]
  /\ UNCHANGED <<version, read>>

\* The process ends and starts again.  A version it could not write to Redis is
\* forgotten, with it.
Restart ==
  /\ service' = [version |-> None, status |-> "degraded", generation |-> "unset"]
  /\ read' = [r \in Reads |-> Resting]
  /\ edit' = [e \in Edits |-> None]
  /\ raced' = (raced \/ (redis.version # None /\ redis.version < acked))
  /\ UNCHANGED <<version, redis, acked>>

Next ==
  \/ \E r \in Reads :
       \/ Search(r) \/ UseCachedVersion(r) \/ UseKnownVersion(r) \/ AskVersion(r)
       \/ UseToldVersion(r) \/ LookUp(r) \/ Load(r) \/ Store(r) \/ ReadFails(r)
  \/ \E e \in Edits : Commit(e) \/ Acknowledge(e)
  \/ \E v \in Versions : EntryExpires(v)
  \/ VersionExpires \/ Disconnect \/ Connect \/ Restart

\* Answers have a lifetime in Redis, and a search that began goes on.
Fairness ==
  /\ \A v \in Versions : WF_vars(EntryExpires(v))
  /\ \A r \in Reads :
       WF_vars(UseCachedVersion(r) \/ UseKnownVersion(r) \/ AskVersion(r) \/ UseToldVersion(r)
               \/ LookUp(r) \/ Load(r) \/ Store(r) \/ ReadFails(r))

Spec == Init /\ [][Next]_vars /\ Fairness

------------------------------------------------------------------------------
\* Properties.

TypeOK ==
  /\ version \in Versions
  /\ redis \in [version: Versions \cup {None}, entry: [Versions -> Versions \cup {None}]]
  /\ service \in [version: Versions \cup {None}, status: {"ready", "degraded"},
                  generation: {"unset", "current", "old"}]
  /\ read \in [Reads -> Read]
  /\ edit \in [Edits -> Versions \cup {None}]
  /\ acked \in Versions
  /\ raced \in BOOLEAN

\* An edit that was confirmed before a search began shows in its answer,
\* whatever Redis kept, lost or failed to take, unless an older version was put
\* in use after it: by a reader or an edit that had it from the database
\* before, or by a restart.
AnswersShowConfirmedEdits ==
  ~raced => \A r \in Reads : read[r].step = "answered" => read[r].content >= read[r].known

\* Whatever was put in use, and however searches and edits overlapped: once the
\* edits stop, answers become right and stay so.
AnswersCatchUp ==
  <>[][\A r \in Reads : read'[r].step = "answered" /\ read'[r] # read[r] =>
         read'[r].content = version]_vars

\* "Old entries expire naturally and are never selected by future reads"
\* (catalog.service.ts:163).  Violated.
OldEntriesNeverSelected ==
  \A r \in Reads : read[r].step = "answered" => read[r].content >= read[r].known
==============================================================================

---------------------------- MODULE ReadModelProofs ----------------------------
(***************************************************************************)
(* Proofs about the three copies of other data that readers are served:    *)
(* Catalog's cache, Analytics' projection of stock, and the dashboard of a *)
(* branch.                                                                 *)
(*                                                                         *)
(* Catalog, for any number of searches and edits at once: its types, and   *)
(* what the versioned keys guarantee.  An answer stored under a key is at  *)
(* least as new as the key, in every case (StoredIsNew).  That a search    *)
(* uses a key that is new enough needs every version that is in use, or    *)
(* will be, to be as new as the last confirmed edit (InUseIsNew), which    *)
(* holds until an older one overtakes.                                     *)
(*                                                                         *)
(* StockProjection, for any number of rows and any size of a page.  A run  *)
(* compares two numbers, of the rows it brought and of the rows there are; *)
(* that they agree says that the rows are the same because no row was      *)
(* brought twice and none that there is not (Brought), whatever was        *)
(* inserted before or behind the cursor meanwhile.                         *)
(*                                                                         *)
(* StockFeed, for any number of branches and any memory of Realtime's.     *)
(* Nothing that is under way, or shown, tells of a revision its row has    *)
(* not had (EventsAreReal, PageIsReal), and the request under way is for   *)
(* the active branch, so the event that waits for its answer belongs to    *)
(* it: each source of the page is compared with what it shows, and a       *)
(* change of branch starts from an empty page.                             *)
(***************************************************************************)
EXTENDS Catalog, StockProjection, StockFeed, FiniteSetTheorems, SequenceTheorems,
        WellFoundedInduction, TLAPS

------------------------------------------------------------------------------
\* Catalog.

\* Products are read after the version of their key was.
StoredIsNew ==
  /\ \A v \in Versions : redis.entry[v] # None => redis.entry[v] >= v
  /\ \A r \in Reads :
       read[r].step = "store" => read[r].version # None /\ read[r].content # None
                                 /\ read[r].content >= read[r].version

\* No version is in use, or under way, that was not committed.
OnlyCommitted ==
  /\ acked <= version
  /\ service.version # None => service.version <= version
  /\ redis.version # None => redis.version <= version
  /\ \A r \in Reads : /\ read[r].known <= acked
                      /\ read[r].version # None => read[r].version <= version
                      /\ read[r].step \in {"told", "look", "load", "store"} =>
                           read[r].version # None
                      /\ read[r].step = "answered" => read[r].content # None
  /\ \A e \in Edits : edit[e] # None => edit[e] <= version

\* What the process, Redis when the process knows none, a search that was told
\* and an edit that was committed have, is not older than a confirmed edit.
InUseIsNew ==
  ~raced =>
    /\ service.version # None => service.version >= acked
    /\ service.version = None /\ redis.version # None => redis.version >= acked
    /\ \A e \in Edits : edit[e] # None => edit[e] >= acked
    /\ \A r \in Reads :
         /\ read[r].step = "asked" /\ service.version = None /\ read[r].version # None =>
              read[r].version >= acked
         /\ read[r].step = "told" => read[r].version >= acked
         /\ read[r].step \in {"look", "load", "store"} => read[r].version >= read[r].known

CatalogInv ==
  TypeOK /\ StoredIsNew /\ OnlyCommitted /\ InUseIsNew /\ AnswersShowConfirmedEdits
------------------------------------------------------------------------------
\* Steps of one search.

\* A step of a search changes that search alone.
LEMMA OneRead ==
  ASSUME TypeOK, NEW r \in Reads, NEW new \in Read, Step(r, new)
  PROVE  /\ read' \in [Reads -> Read] /\ read'[r] = new
         /\ \A s \in Reads \ {r} : read'[s] = read[s]
BY DEF TypeOK, Step

\* It keeps the invariant, if what it puts in use, stores or answers is new
\* enough.
LEMMA ReadStep ==
  ASSUME CatalogInv, NEW r \in Reads, NEW new \in Read, Step(r, new),
         UNCHANGED <<version, edit, acked, raced>>,
         redis' \in [version : Versions \cup {None}, entry : [Versions -> Versions \cup {None}]],
         service' \in [version : Versions \cup {None}, status : {"ready", "degraded"},
                       generation : {"unset", "current", "old"}],
         \A v \in Versions : redis'.entry[v] # None => redis'.entry[v] >= v,
         service'.version # service.version =>
           /\ service'.version # None /\ service'.version <= version
           /\ ~raced => service'.version >= acked,
         redis'.version # redis.version =>
           /\ redis'.version # None /\ redis'.version <= version
           /\ ~raced => redis'.version >= acked,
         new.known <= acked,
         new.version # None => new.version <= version,
         new.step \in {"told", "look", "load", "store"} => new.version # None,
         new.step = "store" => new.content # None /\ new.content >= new.version,
         new.step = "answered" => new.content # None /\ (~raced => new.content >= new.known),
         ~raced =>
           /\ new.step = "asked" /\ service'.version = None /\ new.version # None =>
                new.version >= acked
           /\ new.step = "told" => new.version >= acked
           /\ new.step \in {"look", "load", "store"} => new.version >= new.known
  PROVE  CatalogInv'
<1>1. /\ read' \in [Reads -> Read] /\ read'[r] = new
      /\ \A s \in Reads \ {r} : read'[s] = read[s]
  BY OneRead DEF CatalogInv
<1>2. TypeOK'
  BY <1>1 DEF CatalogInv, TypeOK
<1>3. StoredIsNew'
  BY <1>1 DEF CatalogInv, StoredIsNew
<1>4. OnlyCommitted'
  BY <1>1 DEF CatalogInv, OnlyCommitted
<1>5. InUseIsNew'
  BY <1>1 DEF CatalogInv, InUseIsNew
<1>6. AnswersShowConfirmedEdits'
  BY <1>1 DEF CatalogInv, AnswersShowConfirmedEdits
<1> QED BY <1>2, <1>3, <1>4, <1>5, <1>6 DEF CatalogInv

\* What the invariant says of one search, for steps that start from it.
LEMMA ReadFacts ==
  ASSUME CatalogInv, NEW r \in Reads
  PROVE  /\ read[r] \in Read
         /\ acked \in Versions /\ version \in Versions /\ acked <= version
         /\ read[r].known \in Versions /\ read[r].known <= acked
         /\ read[r].version \in Versions \cup {None}
         /\ read[r].content \in Versions \cup {None}
         /\ read[r].version # None => read[r].version <= version
BY DEF CatalogInv, TypeOK, OnlyCommitted, Read
\* The two tables that a step leaves as they are, or writes one field of.
LEMMA Tables ==
  ASSUME CatalogInv
  PROVE  /\ redis \in [version : Versions \cup {None}, entry : [Versions -> Versions \cup {None}]]
         /\ service \in [version : Versions \cup {None}, status : {"ready", "degraded"},
                         generation : {"unset", "current", "old"}]
         /\ \A v \in Versions : redis.entry[v] # None => redis.entry[v] >= v
BY DEF CatalogInv, TypeOK, StoredIsNew

LEMMA SearchStep ==
  ASSUME CatalogInv, NEW r \in Reads, Search(r)
  PROVE  CatalogInv'
<1>1. /\ service' = [service EXCEPT !.generation = "current"]
      /\ UNCHANGED <<version, redis, edit, acked, raced>>
  BY DEF Search
<1>2. /\ service' \in [version : Versions \cup {None}, status : {"ready", "degraded"},
                        generation : {"unset", "current", "old"}]
      /\ service'.version = service.version
  BY <1>1, Tables
<1>3. PICK new : /\ Step(r, new)
                 /\ \/ new = [[Resting EXCEPT !.known = acked] EXCEPT !.step = "askDb"]
                    \/ new = [[Resting EXCEPT !.known = acked] EXCEPT
                               !.step = "asked",
                               !.version = IF Ready THEN redis.version ELSE None]
  BY Zenon DEF Search
<1>4. redis.version \in Versions \cup {None} /\ acked \in Versions
  BY Tables, ReadFacts
<1>5. /\ new \in Read /\ new.known = acked
      /\ \/ new.step = "askDb" /\ new.version = None
         \/ new.step = "asked" /\ new.version \in {None, redis.version}
  BY <1>3, <1>4 DEF Read, Resting
<1>6. redis.version # None => redis.version <= version
  BY DEF CatalogInv, OnlyCommitted
<1>7. ~raced /\ new.step = "asked" /\ service'.version = None /\ new.version # None =>
        new.version >= acked
  BY <1>2, <1>5 DEF CatalogInv, InUseIsNew
<1>8. new.version # None => new.version <= version
  BY <1>5, <1>6
<1>9. new.known <= acked
  BY <1>4, <1>5, CatalogAssumption DEF CatalogAssumption, Versions
<1>10. /\ redis' \in [version : Versions \cup {None}, entry : [Versions -> Versions \cup {None}]]
       /\ \A v \in Versions : redis'.entry[v] # None => redis'.entry[v] >= v
       /\ redis'.version = redis.version
  BY <1>1, Tables
<1>11. new.step \notin {"told", "look", "load", "store", "answered"}
  BY <1>5
<1> QED BY <1>1, <1>2, <1>3, <1>5, <1>7, <1>8, <1>9, <1>10, <1>11, ReadStep
\* A search that neither writes to Redis nor puts a version in use.
LEMMA QuietStep ==
  ASSUME CatalogInv, NEW r \in Reads, NEW new \in Read, Step(r, new),
         UNCHANGED <<version, redis, service, edit, acked, raced>>,
         new.known <= acked,
         new.version # None => new.version <= version,
         new.step \in {"told", "look", "load", "store"} => new.version # None,
         new.step = "store" => new.content # None /\ new.content >= new.version,
         new.step = "answered" => new.content # None /\ (~raced => new.content >= new.known),
         new.step # "asked",
         ~raced =>
           /\ new.step = "told" => new.version >= acked
           /\ new.step \in {"look", "load", "store"} => new.version >= new.known
  PROVE  CatalogInv'
<1>1. /\ redis' \in [version : Versions \cup {None}, entry : [Versions -> Versions \cup {None}]]
      /\ service' \in [version : Versions \cup {None}, status : {"ready", "degraded"},
                       generation : {"unset", "current", "old"}]
      /\ \A v \in Versions : redis'.entry[v] # None => redis'.entry[v] >= v
      /\ service'.version = service.version /\ redis'.version = redis.version
  BY Tables
<1> QED BY <1>1, ReadStep

LEMMA UseCachedVersionStep ==
  ASSUME CatalogInv, NEW r \in Reads, UseCachedVersion(r)
  PROVE  CatalogInv'
<1> DEFINE v == read[r].version
<1>1. /\ read[r].step = "asked" /\ v # None
      /\ service.version # None => v >= service.version
      /\ service' = [service EXCEPT !.version = v]
      /\ UNCHANGED <<version, redis, edit, acked, raced>>
  BY DEF UseCachedVersion, Acceptable
<1>2. PICK new : new = [read[r] EXCEPT !.step = "look"] /\ Step(r, new)
  BY Zenon DEF UseCachedVersion
<1>3. /\ new \in Read /\ new.step = "look" /\ new.version = v /\ new.known = read[r].known
  BY <1>2, ReadFacts DEF Read
<1>4. /\ v \in Versions /\ v <= version /\ new.known <= acked
      /\ new.known \in Nat /\ acked \in Nat /\ v \in Nat
  BY <1>1, <1>3, ReadFacts, CatalogAssumption DEF CatalogAssumption, Versions
<1>5. ~raced => v >= acked
  <2>1. CASE service.version = None
    BY <1>1, <2>1 DEF CatalogInv, InUseIsNew
  <2>2. CASE service.version # None
    <3>1. service.version \in Versions
      BY <2>2, Tables
    <3>2. service.version \in Nat
      BY <3>1 DEF Versions
    <3>3. ~raced => service.version >= acked
      BY <2>2 DEF CatalogInv, InUseIsNew
    <3> QED BY <1>1, <1>4, <2>2, <3>2, <3>3
  <2> QED BY <2>1, <2>2
<1>6. /\ service' \in [version : Versions \cup {None}, status : {"ready", "degraded"},
                        generation : {"unset", "current", "old"}]
      /\ service'.version = v
  BY <1>1, <1>4, Tables
<1>7. /\ redis' \in [version : Versions \cup {None}, entry : [Versions -> Versions \cup {None}]]
      /\ \A w \in Versions : redis'.entry[w] # None => redis'.entry[w] >= w
      /\ redis'.version = redis.version
  BY <1>1, Tables
<1>8. ~raced => new.version >= new.known
  BY <1>3, <1>4, <1>5
<1> HIDE DEF v
<1> QED BY <1>1, <1>2, <1>3, <1>4, <1>5, <1>6, <1>7, <1>8, ReadStep

LEMMA UseKnownVersionStep ==
  ASSUME CatalogInv, NEW r \in Reads, UseKnownVersion(r)
  PROVE  CatalogInv'
<1>1. /\ read[r].step = "asked"
      /\ UNCHANGED <<version, redis, service, edit, acked, raced>>
  BY DEF UseKnownVersion
<1>2. CASE service.version # None /\ ~Ready
  <2>1. PICK new : /\ new = [read[r] EXCEPT !.step = "look", !.version = service.version]
                   /\ Step(r, new)
    BY <1>2, Zenon DEF UseKnownVersion
  <2>2. service.version \in Versions /\ service.version <= version
    BY <1>2, Tables DEF CatalogInv, OnlyCommitted
  <2>3. /\ new \in Read /\ new.step = "look" /\ new.version = service.version
        /\ new.known = read[r].known
    BY <2>1, <2>2, ReadFacts DEF Read
  <2>4. new.known <= acked /\ new.known \in Nat /\ acked \in Nat /\ new.version \in Nat
    BY <2>2, <2>3, ReadFacts DEF Versions
  <2>5. ~raced => new.version >= acked
    BY <1>2, <2>3 DEF CatalogInv, InUseIsNew
  <2>6. ~raced => new.version >= new.known
    BY <2>4, <2>5
  <2>7. new.version # None
    BY <1>2, <2>3
  <2> QED BY <1>1, <2>1, <2>2, <2>3, <2>4, <2>6, <2>7, QuietStep
<1>3. CASE ~(service.version # None /\ ~Ready)
  <2>1. PICK new : new = [read[r] EXCEPT !.step = "askDb"] /\ Step(r, new)
    BY <1>3, Zenon DEF UseKnownVersion
  <2>2. /\ new \in Read /\ new.step = "askDb" /\ new.version = read[r].version
        /\ new.known = read[r].known
    BY <2>1, ReadFacts DEF Read
  <2>3. new.known <= acked /\ (new.version # None => new.version <= version)
    BY <2>2, ReadFacts
  <2> QED BY <1>1, <2>1, <2>2, <2>3, QuietStep
<1> QED BY <1>2, <1>3

LEMMA AskVersionStep ==
  ASSUME CatalogInv, NEW r \in Reads, AskVersion(r)
  PROVE  CatalogInv'
<1>1. UNCHANGED <<version, redis, service, edit, acked, raced>>
  BY DEF AskVersion
<1>2. PICK new : new = [read[r] EXCEPT !.step = "told", !.version = version] /\ Step(r, new)
  BY Zenon DEF AskVersion
<1>3. new \in Read /\ new.step = "told" /\ new.version = version /\ new.known = read[r].known
  BY <1>2, ReadFacts DEF Read
<1>4. /\ new.known <= acked /\ new.version >= acked /\ new.version <= version
      /\ new.version # None
  BY <1>3, ReadFacts, CatalogAssumption DEF CatalogAssumption, Versions
<1> QED BY <1>1, <1>2, <1>3, <1>4, QuietStep

LEMMA UseToldVersionStep ==
  ASSUME CatalogInv, NEW r \in Reads, UseToldVersion(r)
  PROVE  CatalogInv'
<1> DEFINE v == read[r].version
<1>1. /\ read[r].step = "told"
      /\ service' = [service EXCEPT !.version = v]
      /\ redis' = IF Ready THEN [redis EXCEPT !.version = v] ELSE redis
      /\ UNCHANGED <<version, edit, acked, raced>>
  BY DEF UseToldVersion, PutInUse, Put
<1>2. PICK new : new = [read[r] EXCEPT !.step = "look"] /\ Step(r, new)
  BY Zenon DEF UseToldVersion
<1>3. /\ new \in Read /\ new.step = "look" /\ new.version = v /\ new.known = read[r].known
  BY <1>2, ReadFacts DEF Read
<1>4. v # None /\ (~raced => v >= acked)
  BY <1>1 DEF CatalogInv, OnlyCommitted, InUseIsNew
<1>5. /\ v \in Versions /\ v <= version /\ new.known <= acked
      /\ new.known \in Nat /\ acked \in Nat /\ v \in Nat
  BY <1>3, <1>4, ReadFacts DEF Versions
<1>6. /\ service' \in [version : Versions \cup {None}, status : {"ready", "degraded"},
                        generation : {"unset", "current", "old"}]
      /\ service'.version = v
  BY <1>1, <1>5, Tables
<1>7. /\ redis' \in [version : Versions \cup {None}, entry : [Versions -> Versions \cup {None}]]
      /\ \A w \in Versions : redis'.entry[w] # None => redis'.entry[w] >= w
      /\ redis'.version \in {v, redis.version}
  BY <1>1, <1>5, Tables
<1>8. ~raced => new.version >= new.known
  BY <1>3, <1>4, <1>5
<1> HIDE DEF v
<1> QED BY <1>1, <1>2, <1>3, <1>4, <1>5, <1>6, <1>7, <1>8, ReadStep

LEMMA LookUpStep ==
  ASSUME CatalogInv, NEW r \in Reads, LookUp(r)
  PROVE  CatalogInv'
<1> DEFINE v == read[r].version
           found == IF Ready THEN redis.entry[v] ELSE None
<1>1. /\ read[r].step = "look"
      /\ UNCHANGED <<version, redis, service, edit, acked, raced>>
  BY DEF LookUp
<1>2. /\ v \in Versions /\ v # None /\ v <= version
      /\ read[r].known <= acked
      /\ ~raced => v >= read[r].known
      /\ v \in Nat /\ read[r].known \in Nat
  BY <1>1, ReadFacts DEF CatalogInv, OnlyCommitted, InUseIsNew, Versions
<1>3. CASE found = None
  <2>1. PICK new : new = [read[r] EXCEPT !.step = "load"] /\ Step(r, new)
    BY <1>3, Zenon DEF LookUp
  <2>2. new \in Read /\ new.step = "load" /\ new.version = v /\ new.known = read[r].known
    BY <2>1, ReadFacts DEF Read
  <2> HIDE DEF v
  <2> QED BY <1>1, <1>2, <2>1, <2>2, QuietStep
<1>4. CASE found # None
  <2>1. PICK new : /\ new = [read[r] EXCEPT !.step = "answered", !.version = None, !.content = found]
                   /\ Step(r, new)
    BY <1>4, Zenon DEF LookUp, Answer
  <2>2. found \in Versions /\ found >= v /\ found \in Nat
    <3>1. found = redis.entry[v]
      BY <1>4
    <3> HIDE DEF found
    <3>2. redis.entry[v] # None
      BY <1>4, <3>1
    <3> HIDE DEF v
    <3>3. redis.entry[v] \in Versions \cup {None} /\ redis.entry[v] >= v
      BY <1>2, <3>2, Tables
    <3> QED BY <3>1, <3>2, <3>3 DEF Versions
  <2>3. /\ new \in Read /\ new.step = "answered" /\ new.version = None /\ new.content = found
        /\ new.known = read[r].known
    <3> HIDE DEF found
    <3> QED BY <2>1, <2>2, ReadFacts DEF Read
  <2>4. ~raced => found >= read[r].known
    <3> HIDE DEF v, found
    <3> QED BY <1>2, <2>2
  <2> HIDE DEF v, found
  <2> QED BY <1>1, <1>2, <1>4, <2>1, <2>3, <2>4, QuietStep
<1> QED BY <1>3, <1>4

LEMMA LoadStep ==
  ASSUME CatalogInv, NEW r \in Reads, Load(r)
  PROVE  CatalogInv'
<1>1. read[r].step = "load" /\ UNCHANGED <<version, redis, service, edit, acked, raced>>
  BY DEF Load
<1>2. PICK new : new = [read[r] EXCEPT !.step = "store", !.content = version] /\ Step(r, new)
  BY Zenon DEF Load
<1>3. /\ new \in Read /\ new.step = "store" /\ new.version = read[r].version
      /\ new.content = version /\ new.known = read[r].known
  BY <1>2, ReadFacts DEF Read
<1>4. /\ new.version # None /\ new.version <= version /\ new.known <= acked
      /\ ~raced => new.version >= new.known
  BY <1>1, <1>3, ReadFacts DEF CatalogInv, OnlyCommitted, InUseIsNew
<1>5. new.content # None /\ new.content >= new.version
  <2>1. version \in Nat /\ new.version \in Nat
    BY <1>3, <1>4, ReadFacts DEF Versions
  <2> QED BY <1>3, <1>4, <2>1, CatalogAssumption DEF CatalogAssumption
<1> QED BY <1>1, <1>2, <1>3, <1>4, <1>5, QuietStep

LEMMA StoreStep ==
  ASSUME CatalogInv, NEW r \in Reads, Store(r)
  PROVE  CatalogInv'
<1> DEFINE v == read[r].version
           c == read[r].content
<1>1. /\ read[r].step = "store"
      /\ redis' = IF Ready THEN [redis EXCEPT !.entry[v] = c] ELSE redis
      /\ UNCHANGED <<version, service, edit, acked, raced>>
  BY DEF Store, Put
<1>2. PICK new : /\ new = [read[r] EXCEPT !.step = "answered", !.version = None, !.content = c]
                 /\ Step(r, new)
  BY Zenon DEF Store, Answer
<1>3. /\ v \in Versions /\ c \in Versions /\ c >= v /\ c # None
      /\ read[r].known <= acked /\ (~raced => v >= read[r].known)
  BY <1>1, ReadFacts DEF CatalogInv, StoredIsNew, InUseIsNew
<1>4. /\ new \in Read /\ new.step = "answered" /\ new.version = None /\ new.content = c
      /\ new.known = read[r].known
  BY <1>2, <1>3, ReadFacts DEF Read
<1>5. /\ redis' \in [version : Versions \cup {None}, entry : [Versions -> Versions \cup {None}]]
      /\ \A w \in Versions : redis'.entry[w] # None => redis'.entry[w] >= w
      /\ redis'.version = redis.version
  <2> HIDE DEF v, c
  <2> QED BY <1>1, <1>3, Tables
<1>6. ~raced => new.content >= new.known
  <2>1. v \in Nat /\ c \in Nat /\ read[r].known \in Nat
    BY <1>3, ReadFacts DEF Versions
  <2> HIDE DEF v, c
  <2> QED BY <1>3, <1>4, <2>1
<1>7. /\ service' \in [version : Versions \cup {None}, status : {"ready", "degraded"},
                        generation : {"unset", "current", "old"}]
      /\ service'.version = service.version
  BY <1>1, Tables
<1> HIDE DEF v, c
<1> QED BY <1>1, <1>2, <1>3, <1>4, <1>5, <1>6, <1>7, ReadStep

LEMMA ReadFailsStep ==
  ASSUME CatalogInv, NEW r \in Reads, ReadFails(r)
  PROVE  CatalogInv'
<1>1. Step(r, Resting) /\ UNCHANGED <<version, redis, service, edit, acked, raced>>
  BY DEF ReadFails
<1>2. /\ Resting \in Read /\ Resting.step = "idle" /\ Resting.version = None
      /\ Resting.known = 1
  BY CatalogAssumption DEF Resting, Read, CatalogAssumption, Versions
<1>3. Resting.known <= acked
  BY <1>2, ReadFacts DEF Versions
<1> HIDE DEF Resting
<1> QED BY <1>1, <1>2, <1>3, QuietStep
------------------------------------------------------------------------------
\* Steps of the cache and of edits.

\* A step that leaves the searches alone, puts nothing older in use and stores
\* no answer.
LEMMA TableStep ==
  ASSUME CatalogInv,
         UNCHANGED <<read, acked>>,
         version' = version,
         edit' = edit,
         raced' = raced,
         redis' \in [version : Versions \cup {None}, entry : [Versions -> Versions \cup {None}]],
         \A v \in Versions : redis'.entry[v] \in {None, redis.entry[v]},
         redis'.version \in {None, redis.version},
         service' \in [version : Versions \cup {None}, status : {"ready", "degraded"},
                       generation : {"unset", "current", "old"}],
         service'.version = service.version
  PROVE  CatalogInv'
<1>1. TypeOK'
  BY DEF CatalogInv, TypeOK
<1>2. StoredIsNew'
  BY DEF CatalogInv, StoredIsNew
<1>3. OnlyCommitted'
  BY DEF CatalogInv, OnlyCommitted
<1>4. InUseIsNew'
  BY DEF CatalogInv, InUseIsNew
<1>5. AnswersShowConfirmedEdits'
  BY DEF CatalogInv, AnswersShowConfirmedEdits
<1> QED BY <1>1, <1>2, <1>3, <1>4, <1>5 DEF CatalogInv

LEMMA DisconnectStep ==
  ASSUME CatalogInv, Disconnect
  PROVE  CatalogInv'
<1>1. /\ service' = [service EXCEPT !.status = "degraded"]
      /\ UNCHANGED <<version, redis, read, edit, acked, raced>>
  BY DEF Disconnect
<1> QED BY <1>1, Tables, TableStep

LEMMA ConnectStep ==
  ASSUME CatalogInv, Connect
  PROVE  CatalogInv'
<1>1. PICK g \in {"unset", "current", "old"} :
        service' = [service EXCEPT !.status = "ready", !.generation = g]
  BY Tables DEF Connect
<1>2. UNCHANGED <<version, redis, read, edit, acked, raced>>
  BY DEF Connect
<1> QED BY <1>1, <1>2, Tables, TableStep

LEMMA VersionExpiresStep ==
  ASSUME CatalogInv, VersionExpires
  PROVE  CatalogInv'
<1>1. /\ redis' = [redis EXCEPT !.version = None]
      /\ UNCHANGED <<version, service, read, edit, acked, raced>>
  BY DEF VersionExpires
<1> QED BY <1>1, Tables, TableStep

LEMMA EntryExpiresStep ==
  ASSUME CatalogInv, NEW v \in Versions, EntryExpires(v)
  PROVE  CatalogInv'
<1>1. /\ redis' = [redis EXCEPT !.entry[v] = None]
      /\ UNCHANGED <<version, service, read, edit, acked, raced>>
  BY DEF EntryExpires
<1> QED BY <1>1, Tables, TableStep

LEMMA CommitStep ==
  ASSUME CatalogInv, NEW e \in Edits, Commit(e)
  PROVE  CatalogInv'
<1>1. /\ version < MaxVersion /\ version' = version + 1
      /\ edit' = [edit EXCEPT ![e] = version']
      /\ UNCHANGED <<redis, service, read, acked, raced>>
  BY DEF Commit
<1>2. /\ version \in Nat /\ version' \in Versions /\ version' \in Nat /\ version < version'
      /\ acked \in Nat /\ acked <= version
  BY <1>1, CatalogAssumption DEF CatalogInv, TypeOK, OnlyCommitted, CatalogAssumption, Versions
<1>3. \A v \in Versions : v <= version => v <= version'
  BY <1>2 DEF Versions
<1>4. /\ edit' \in [Edits -> Versions \cup {None}]
      /\ edit'[e] = version'
      /\ \A d \in Edits \ {e} : edit'[d] = edit[d]
  BY <1>1, <1>2 DEF CatalogInv, TypeOK
<1>5. TypeOK'
  BY <1>1, <1>2, <1>4 DEF CatalogInv, TypeOK
<1>6. StoredIsNew'
  BY <1>1 DEF CatalogInv, StoredIsNew
<1>7. OnlyCommitted'
  <2>1. acked' <= version'
    BY <1>1, <1>2
  <2>2. /\ service'.version # None => service'.version <= version'
        /\ redis'.version # None => redis'.version <= version'
    BY <1>1, <1>3, Tables DEF CatalogInv, OnlyCommitted
  <2>3. ASSUME NEW r \in Reads
        PROVE  /\ read'[r].known <= acked'
               /\ read'[r].version # None => read'[r].version <= version'
               /\ read'[r].step \in {"told", "look", "load", "store"} => read'[r].version # None
               /\ read'[r].step = "answered" => read'[r].content # None
    BY <1>1, <1>3, <2>3, ReadFacts DEF CatalogInv, OnlyCommitted
  <2>4. ASSUME NEW d \in Edits, edit'[d] # None
        PROVE  edit'[d] <= version'
    <3>1. CASE d = e
      BY <1>2, <1>4, <3>1
    <3>2. CASE d # e
      BY <1>3, <1>4, <2>4, <3>2 DEF CatalogInv, TypeOK, OnlyCommitted
    <3> QED BY <3>1, <3>2
  <2> QED BY <2>1, <2>2, <2>3, <2>4 DEF OnlyCommitted
<1>8. InUseIsNew'
  <2>1. ~raced => \A d \in Edits : edit'[d] # None => edit'[d] >= acked
    BY <1>2, <1>4 DEF CatalogInv, InUseIsNew
  <2> QED BY <1>1, <2>1 DEF CatalogInv, InUseIsNew
<1>9. AnswersShowConfirmedEdits'
  BY <1>1 DEF CatalogInv, AnswersShowConfirmedEdits
<1> QED BY <1>5, <1>6, <1>7, <1>8, <1>9 DEF CatalogInv

LEMMA AcknowledgeStep ==
  ASSUME CatalogInv, NEW e \in Edits, Acknowledge(e)
  PROVE  CatalogInv'
<1>1. PICK v \in Versions : v = edit[e]
  BY DEF Acknowledge, CatalogInv, TypeOK
<1>2. /\ service' = [service EXCEPT !.version = v]
      /\ redis' = IF Ready THEN [redis EXCEPT !.version = v] ELSE redis
      /\ acked' = Larger(acked, v)
      /\ raced' = (raced \/ OlderUnderWay(e))
      /\ edit' = [edit EXCEPT ![e] = None]
      /\ UNCHANGED <<version, read>>
  BY <1>1 DEF Acknowledge, PutInUse, Put
<1>3. /\ v \in Nat /\ v # None /\ version \in Versions /\ v <= version
      /\ acked \in Nat /\ acked \in Versions /\ acked <= version
  BY <1>1, CatalogAssumption DEF CatalogInv, TypeOK, OnlyCommitted, Versions, CatalogAssumption
<1>4. acked' \in Versions /\ acked' \in {acked, v} /\ acked' >= acked /\ acked' >= v
      /\ acked' <= version
  BY <1>2, <1>3 DEF Larger
<1>5. /\ edit' \in [Edits -> Versions \cup {None}] /\ edit'[e] = None
      /\ \A d \in Edits \ {e} : edit'[d] = edit[d]
  BY <1>2 DEF CatalogInv, TypeOK
<1>6. /\ redis' \in [version : Versions \cup {None}, entry : [Versions -> Versions \cup {None}]]
      /\ redis'.entry = redis.entry
      /\ redis'.version \in {v, redis.version}
  BY <1>2, Tables
<1>7. /\ service' \in [version : Versions \cup {None}, status : {"ready", "degraded"},
                        generation : {"unset", "current", "old"}]
      /\ service'.version = v
  BY <1>2, Tables
<1>8. raced' \in BOOLEAN /\ (~raced' => ~raced /\ ~OlderUnderWay(e))
  BY <1>2 DEF CatalogInv, TypeOK
<1>9. TypeOK'
  BY <1>2, <1>4, <1>5, <1>6, <1>7, <1>8 DEF CatalogInv, TypeOK
<1>10. StoredIsNew'
  BY <1>2, <1>6 DEF CatalogInv, StoredIsNew
<1>11. OnlyCommitted'
  <2>1. \A r \in Reads : read[r].known <= acked'
    <3> TAKE r \in Reads
    <3>1. read[r].known \in Nat /\ read[r].known <= acked /\ acked' \in Nat
      BY <1>3, <1>4, ReadFacts DEF Versions
    <3> QED BY <1>3, <1>4, <3>1
  <2>2. \A d \in Edits : edit'[d] # None => edit'[d] <= version
    BY <1>5 DEF CatalogInv, OnlyCommitted
  <2>3. redis'.version # None => redis'.version <= version
    BY <1>3, <1>6 DEF CatalogInv, OnlyCommitted
  <2> QED BY <1>2, <1>3, <1>4, <1>7, <2>1, <2>2, <2>3 DEF CatalogInv, OnlyCommitted
<1>12. InUseIsNew'
  <2> SUFFICES ASSUME ~raced'
               PROVE  InUseIsNew'
    BY DEF InUseIsNew
  <2>1. ~raced /\ ~OlderUnderWay(e)
    BY <1>8
  \* The edit was not older than what was confirmed before.
  <2>2. acked' = v
    <3>1. v >= acked
      BY <1>1, <1>3, <2>1 DEF CatalogInv, InUseIsNew
    <3> QED BY <1>2, <1>3, <3>1 DEF Larger
  <2>3. \A d \in Edits : edit'[d] # None => edit'[d] >= v
    <3> SUFFICES ASSUME NEW d \in Edits, edit'[d] # None
                 PROVE  edit'[d] >= v
      OBVIOUS
    <3>1. edit'[d] = edit[d] /\ edit[d] \in Versions
      BY <1>5 DEF CatalogInv, TypeOK
    <3>2. ~(edit[d] < v)
      BY <1>1, <2>1, <3>1 DEF OlderUnderWay
    <3> QED BY <1>3, <3>1, <3>2 DEF Versions
  <2>4. ASSUME NEW r \in Reads
        PROVE  /\ read[r].step = "told" => read[r].version >= v
               /\ read[r].step \in {"look", "load", "store"} =>
                    read[r].version >= read[r].known
    <3>1. read[r].step = "told" => ~(read[r].version < v)
      BY <1>1, <2>1 DEF OlderUnderWay
    <3>2. read[r].step = "told" => read[r].version \in Nat
      BY ReadFacts DEF CatalogInv, OnlyCommitted, Versions
    <3> QED BY <1>3, <2>1, <3>1, <3>2 DEF CatalogInv, InUseIsNew
  <2>5. service'.version # None /\ service'.version >= v
    BY <1>3, <1>7
  <2> QED BY <1>2, <2>2, <2>3, <2>4, <2>5 DEF InUseIsNew
<1>13. AnswersShowConfirmedEdits'
  BY <1>2, <1>8 DEF CatalogInv, AnswersShowConfirmedEdits
<1> QED BY <1>9, <1>10, <1>11, <1>12, <1>13 DEF CatalogInv

LEMMA RestartStep ==
  ASSUME CatalogInv, Restart
  PROVE  CatalogInv'
<1>1. /\ service' = [version |-> None, status |-> "degraded", generation |-> "unset"]
      /\ read' = [r \in Reads |-> Resting]
      /\ edit' = [e \in Edits |-> None]
      /\ raced' = (raced \/ (redis.version # None /\ redis.version < acked))
      /\ UNCHANGED <<version, redis, acked>>
  BY DEF Restart
<1>2. /\ Resting \in Read /\ Resting.step = "idle" /\ Resting.version = None
      /\ Resting.known = 1
  BY CatalogAssumption DEF Resting, Read, CatalogAssumption, Versions
<1>3. acked \in Nat /\ acked >= 1
  BY DEF CatalogInv, TypeOK, Versions
<1>4. TypeOK'
  BY <1>1, <1>2 DEF CatalogInv, TypeOK
<1>5. StoredIsNew'
  BY <1>1, <1>2 DEF CatalogInv, StoredIsNew
<1>6. OnlyCommitted'
  BY <1>1, <1>2, <1>3 DEF CatalogInv, OnlyCommitted
<1>7. InUseIsNew'
  <2>1. ~raced' /\ redis.version # None => redis.version >= acked
    <3>1. redis.version # None => redis.version \in Nat
      BY Tables DEF Versions
    <3>2. ~raced' /\ redis.version # None => ~(redis.version < acked)
      BY <1>1, Zenon
    <3> QED BY <1>3, <3>1, <3>2
  <2> QED BY <1>1, <1>2, <2>1 DEF InUseIsNew
<1>8. AnswersShowConfirmedEdits'
  BY <1>1, <1>2 DEF AnswersShowConfirmedEdits
<1> QED BY <1>4, <1>5, <1>6, <1>7, <1>8 DEF CatalogInv
------------------------------------------------------------------------------
LEMMA CatalogStarts == Init => CatalogInv
<1> SUFFICES ASSUME Init PROVE CatalogInv
  OBVIOUS
<1>1. /\ Resting \in Read /\ Resting.step = "idle" /\ Resting.version = None
      /\ Resting.known = 1
  BY CatalogAssumption DEF Resting, Read, CatalogAssumption, Versions
<1>2. 1 \in Versions
  BY CatalogAssumption DEF CatalogAssumption, Versions
<1>3. TypeOK
  BY <1>1, <1>2 DEF Init, TypeOK
<1>4. StoredIsNew
  BY <1>1 DEF Init, StoredIsNew
<1>5. OnlyCommitted
  BY <1>1 DEF Init, OnlyCommitted
<1>6. InUseIsNew
  BY <1>1 DEF Init, InUseIsNew
<1>7. AnswersShowConfirmedEdits
  BY <1>1 DEF Init, AnswersShowConfirmedEdits
<1> QED BY <1>3, <1>4, <1>5, <1>6, <1>7 DEF CatalogInv

LEMMA CatalogStep == CatalogInv /\ [Next]_vars => CatalogInv'
<1> SUFFICES ASSUME CatalogInv, [Next]_vars PROVE CatalogInv'
  OBVIOUS
<1>1. ASSUME NEW r \in Reads,
             \/ Search(r) \/ UseCachedVersion(r) \/ UseKnownVersion(r) \/ AskVersion(r)
             \/ UseToldVersion(r) \/ LookUp(r) \/ Load(r) \/ Store(r) \/ ReadFails(r)
      PROVE  CatalogInv'
  BY <1>1, SearchStep, UseCachedVersionStep, UseKnownVersionStep, AskVersionStep,
     UseToldVersionStep, LookUpStep, LoadStep, StoreStep, ReadFailsStep
<1>2. ASSUME NEW e \in Edits, Commit(e) \/ Acknowledge(e)
      PROVE  CatalogInv'
  BY <1>2, CommitStep, AcknowledgeStep
<1>3. ASSUME NEW v \in Versions, EntryExpires(v)
      PROVE  CatalogInv'
  BY <1>3, EntryExpiresStep
<1>4. CASE VersionExpires \/ Disconnect \/ Connect \/ Restart
  BY <1>4, VersionExpiresStep, DisconnectStep, ConnectStep, RestartStep
<1>5. CASE UNCHANGED vars
  BY <1>5 DEF vars, CatalogInv, TypeOK, StoredIsNew, OnlyCommitted, InUseIsNew,
              AnswersShowConfirmedEdits
<1> QED BY <1>1, <1>2, <1>3, <1>4, <1>5 DEF Next

LEMMA CatalogInvariant == Spec => []CatalogInv
BY CatalogStarts, CatalogStep, PTL DEF Spec

\* The tables of the cache, the searches and the edits stay well-formed.
THEOREM TypeCorrect == Spec => []TypeOK
<1>1. CatalogInv => TypeOK
  BY DEF CatalogInv
<1> QED BY <1>1, CatalogInvariant, PTL

\* What is stored under a version's key is never older than that version: a
\* search whose key is new enough can trust what it finds (catalog.service.ts:48-60).
THEOREM KeysAreHonest == Spec => []StoredIsNew
<1>1. CatalogInv => StoredIsNew
  BY DEF CatalogInv
<1> QED BY <1>1, CatalogInvariant, PTL

\* A search that begins after an edit was confirmed shows it, through outages of
\* Redis, reconnections and restarts, unless an older version overtook it
\* (catalog.service.ts:156-175 and 203-232).
THEOREM ConfirmedEditsShow == Spec => []AnswersShowConfirmedEdits
<1>1. CatalogInv => AnswersShowConfirmedEdits
  BY DEF CatalogInv
<1> QED BY <1>1, CatalogInvariant, PTL

------------------------------------------------------------------------------
\* StockProjection.

\* The rows of the page in hand, and those the run has to bring.
Fetched == {r \in Rows : recon.page[r] > 0}
Owed == {r \in Rows : recon.owed[r] > 0}

\* B are the rows of the pages imported so far: none twice, all of them real,
\* all before the cursor.
Brought(B) ==
  /\ recon.imported = Cardinality(B) /\ B \subseteq Exists
  /\ \A r \in B : projection[r] >= 1 /\ projection[r] >= recon.owed[r]
  /\ recon.step = "ask" => B \subseteq 1..recon.cursor
  /\ recon.step \in {"count", "import"} =>
       /\ Fetched \subseteq Exists \ B
       /\ \A r \in Fetched : recon.page[r] >= recon.owed[r]
       /\ recon.cursor > 0 => B \cup Fetched \subseteq 1..recon.cursor
  /\ recon.step = "import" =>
       /\ recon.total = Cardinality(Owed) /\ B \cup Fetched \subseteq Owed

ProjectionInv ==
  /\ ProjectionTypeOK
  /\ \A r \in Rows : recon.owed[r] <= stock[r] /\ projection[r] >= synced[r]
  /\ recon.step \in {"ask", "count", "import"} => \E B \in SUBSET Rows : Brought(B)
  /\ recon.step = "finish" => \A r \in Rows : projection[r] >= recon.owed[r]

Run == [step : {"idle", "ask", "count", "import", "finish"}, cursor : 0..RowCount,
        page : [Rows -> Revisions], imported : 0..RowCount, total : 0..RowCount,
        owed : [Rows -> Revisions]]

\* A set of numbers has a least one, and below a bound a greatest one.
LEMMA Lowest ==
  ASSUME NEW S, S \subseteq Nat, S # {}
  PROVE  \E m \in S : \A x \in S : m <= x
<1> DEFINE R == OpToRel(<, Nat)
<1>1. IsWellFoundedOn(R, Nat)
  BY NatLessThanWellFounded
<1>2. \A x, y \in Nat : x < y => <<x, y>> \in R
  BY DEF OpToRel
<1> HIDE DEF R
<1>3. PICK m \in S : \A y \in S : ~ (<<y, m>> \in R)
  BY <1>1, WFMin
<1>4. ASSUME NEW x \in S
      PROVE  m <= x
  <2>1. ~ (x < m)
    BY <1>2, <1>3
  <2> QED BY <2>1
<1> QED BY <1>4

LEMMA Highest ==
  ASSUME NEW n \in Nat, NEW S, S \subseteq 1..n, S # {}
  PROVE  \E m \in S : \A x \in S : x <= m
<1> DEFINE T == {n - x : x \in S}
<1>1. T # {} /\ \A t \in T : t \in Nat
  <2>1. \A x \in S : n - x \in Nat
    OBVIOUS
  <2> QED BY <2>1
<1>2. PICK t \in T : \A u \in T : t <= u
  <2>1. T \subseteq Nat
    BY <1>1
  <2> HIDE DEF T
  <2> QED BY <1>1, <2>1, Lowest
<1>3. PICK m \in S : t = n - m
  OBVIOUS
<1>4. ASSUME NEW x \in S
      PROVE  x <= m
  <2>1. n - m <= n - x
    BY <1>2, <1>3
  <2> QED BY <2>1
<1> QED BY <1>4

LEMMA MaxOfRows ==
  ASSUME NEW S, S \subseteq Rows, S # {}
  PROVE  Max(S) \in S /\ \A x \in S : x <= Max(S)
<1>1. PICK m \in S : \A x \in S : x <= m
  BY Highest, StockProjectionAssumption DEF Rows, StockProjectionAssumption
<1>2. S \subseteq Nat
  BY StockProjectionAssumption DEF Rows, StockProjectionAssumption
<1>3. \E q \in S : \A x \in S : q >= x
  BY <1>1, <1>2
<1>4. Max(S) \in S /\ \A x \in S : Max(S) >= x
  BY <1>3 DEF Max
<1> QED BY <1>2, <1>4

\* A page has a row as long as there is one to come.
LEMMA PageHasARow ==
  ASSUME NEW c \in 0..RowCount, Ahead(c) # {}
  PROVE  InPage(c) # {} /\ InPage(c) \subseteq Ahead(c) /\ Ahead(c) \subseteq Rows
<1>1. Ahead(c) \subseteq Rows /\ InPage(c) \subseteq Ahead(c)
  BY DEF Ahead, Exists, InPage
<1>2. Ahead(c) \subseteq Nat
  BY <1>1, StockProjectionAssumption DEF Rows, StockProjectionAssumption
<1>3. PICK A : A = Ahead(c)
  OBVIOUS
<1>4. PICK m \in A : \A x \in A : m <= x
  BY <1>2, <1>3, Lowest
<1>5. {s \in Ahead(c) : s < m} = {}
  BY <1>2, <1>3, <1>4
<1>6. Cardinality({s \in Ahead(c) : s < m}) < PageSize
  BY <1>5, FS_EmptySet, StockProjectionAssumption DEF StockProjectionAssumption
<1> QED BY <1>1, <1>3, <1>4, <1>6 DEF InPage

\* Sets of rows are finite, and there are no more of them than there are rows.
LEMMA RowsAreFinite ==
  ASSUME NEW S, S \subseteq Rows
  PROVE  IsFiniteSet(S) /\ Cardinality(S) \in 0..RowCount
<1>1. RowCount \in Nat
  BY StockProjectionAssumption DEF StockProjectionAssumption
<1>2. IsFiniteSet(1..RowCount) /\ Cardinality(1..RowCount) = RowCount
  BY <1>1, FS_Interval
<1>3. IsFiniteSet(S) /\ Cardinality(S) <= RowCount
  BY <1>2, FS_Subset DEF Rows
<1> QED BY <1>1, <1>3, FS_CardinalityType

LEMMA DisjointRows ==
  ASSUME NEW S, NEW T, S \subseteq Rows, T \subseteq Rows, S \cap T = {}
  PROVE  Cardinality(S \cup T) = Cardinality(S) + Cardinality(T)
<1>1. IsFiniteSet(S) /\ IsFiniteSet(T) /\ Cardinality(S) \in Nat /\ Cardinality(T) \in Nat
  BY RowsAreFinite, StockProjectionAssumption DEF StockProjectionAssumption
<1>2. Cardinality(S \cap T) = 0
  BY FS_EmptySet
<1>3. Cardinality(S \cup T) = Cardinality(S) + Cardinality(T) - Cardinality(S \cap T)
  BY <1>1, FS_Union
<1> QED BY <1>1, <1>2, <1>3

\* The arithmetic of revisions.
LEMMA RevisionsAreNumbers == Revisions \subseteq Nat /\ RowCount \in Nat /\ 0 \in Revisions /\ 1 \in Revisions
BY StockProjectionAssumption DEF StockProjectionAssumption, Revisions

\* While a run goes on, nothing it relies on goes back.
LEMMA RunGoesOn ==
  ASSUME ProjectionInv, ProjectionTypeOK', UNCHANGED <<recon, synced>>,
         \A r \in Rows : stock'[r] >= stock[r] /\ projection'[r] >= projection[r]
  PROVE  ProjectionInv'
<1>1. /\ stock \in [Rows -> Nat] /\ projection \in [Rows -> Nat] /\ synced \in [Rows -> Nat]
      /\ stock' \in [Rows -> Nat] /\ projection' \in [Rows -> Nat]
      /\ recon \in Run /\ recon.owed \in [Rows -> Nat]
  BY RevisionsAreNumbers DEF ProjectionInv, ProjectionTypeOK, Run
<1>2. \A r \in Rows : recon'.owed[r] <= stock'[r] /\ projection'[r] >= synced'[r]
  BY <1>1 DEF ProjectionInv
<1>3. ASSUME recon'.step \in {"ask", "count", "import"}
      PROVE  \E B \in SUBSET Rows : Brought(B)'
  <2>1. PICK B \in SUBSET Rows : Brought(B)
    BY <1>3 DEF ProjectionInv
  <2>2. Exists \subseteq Exists'
    BY <1>1 DEF Exists
  <2>3. \A r \in B : projection'[r] >= 1 /\ projection'[r] >= recon.owed[r]
    BY <1>1, <2>1 DEF Brought
  <2>4. Fetched' = Fetched /\ Owed' = Owed
    BY DEF Fetched, Owed
  <2> QED BY <2>1, <2>2, <2>3, <2>4 DEF Brought
<1>4. recon'.step = "finish" => \A r \in Rows : projection'[r] >= recon'.owed[r]
  BY <1>1 DEF ProjectionInv
<1> QED BY <1>2, <1>3, <1>4 DEF ProjectionInv

LEMMA StockChangesStep ==
  ASSUME ProjectionInv, NEW r \in Rows, StockChanges(r)
  PROVE  ProjectionInv'
<1>1. /\ ProjectionTypeOK /\ stock[r] < MaxRevision /\ stock' = [stock EXCEPT ![r] = stock[r] + 1]
      /\ queue' = queue \cup {[row |-> r, revision |-> stock[r] + 1]}
      /\ UNCHANGED <<ready, processed, projection, recon, synced>>
  BY DEF StockChanges, ProjectionInv
<1>2. stock[r] \in Nat /\ stock[r] + 1 \in Revisions
  BY <1>1, StockProjectionAssumption DEF ProjectionTypeOK, Revisions, StockProjectionAssumption
<1>3. stock' \in [Rows -> Revisions] /\ queue' \subseteq Events
  BY <1>1, <1>2 DEF ProjectionTypeOK, Events
<1>4. ProjectionTypeOK'
  BY <1>1, <1>3 DEF ProjectionTypeOK
<1>5. \A x \in Rows : stock'[x] >= stock[x] /\ projection'[x] >= projection[x]
  <2>1. \A x \in Rows : stock[x] \in Nat /\ projection[x] \in Nat
    BY <1>1, RevisionsAreNumbers DEF ProjectionTypeOK
  <2>2. \A x \in Rows : stock'[x] = IF x = r THEN stock[r] + 1 ELSE stock[x]
    BY <1>1 DEF ProjectionTypeOK
  <2> QED BY <1>1, <2>1, <2>2
<1> QED BY <1>1, <1>4, <1>5, RunGoesOn

\* The consumer.
LEMMA ConsumerStep ==
  ASSUME ProjectionInv,
         \/ ConsumerConnects \/ ConsumerDisconnects
         \/ \E e \in queue : ProjectStock(e) \/ ProjectAgain(e) \/ ProjectFails(e)
  PROVE  ProjectionInv' /\ \A r \in Rows : projection'[r] >= projection[r]
<1>1. ProjectionTypeOK /\ projection \in [Rows -> Nat]
  BY RevisionsAreNumbers DEF ProjectionInv, ProjectionTypeOK
<1>2. UNCHANGED <<stock, recon, synced>> /\ queue' \subseteq queue /\ processed' \subseteq processed \cup queue
      /\ ready' \in BOOLEAN
  BY <1>1 DEF ConsumerConnects, ConsumerDisconnects, ProjectStock, ProjectAgain, ProjectFails, ProjectionTypeOK
<1>3. /\ projection' \in [Rows -> Revisions]
      /\ \A r \in Rows : projection'[r] >= projection[r]
  <2>1. ASSUME NEW e \in queue, ProjectStock(e)
        PROVE  /\ projection' \in [Rows -> Revisions]
               /\ \A r \in Rows : projection'[r] >= projection[r]
    <3>1. e.row \in Rows /\ e.revision \in Revisions /\ e.revision \in Nat
      BY <1>1, RevisionsAreNumbers DEF ProjectionTypeOK, Events
    <3>2. projection' = [projection EXCEPT ![e.row] =
             IF projection[e.row] < e.revision THEN e.revision ELSE projection[e.row]]
      BY <2>1 DEF ProjectStock, Newer
    <3> QED BY <1>1, <3>1, <3>2 DEF ProjectionTypeOK
  <2>2. ASSUME UNCHANGED projection
        PROVE  /\ projection' \in [Rows -> Revisions]
               /\ \A r \in Rows : projection'[r] >= projection[r]
    BY <1>1, <2>2 DEF ProjectionTypeOK
  <2> QED BY <2>1, <2>2 DEF ConsumerConnects, ConsumerDisconnects, ProjectAgain, ProjectFails
<1>4. ProjectionTypeOK'
  BY <1>1, <1>2, <1>3 DEF ProjectionTypeOK
<1>5. \A r \in Rows : stock'[r] >= stock[r]
  <2>1. \A r \in Rows : stock[r] \in Nat
    BY <1>1, RevisionsAreNumbers DEF ProjectionTypeOK
  <2> QED BY <1>2, <2>1
<1> QED BY <1>2, <1>3, <1>4, <1>5, RunGoesOn

\* What the fields of a run are.
LEMMA RunFields ==
  ASSUME ProjectionTypeOK
  PROVE  /\ recon \in Run /\ recon.cursor \in 0..RowCount /\ recon.cursor \in Nat
         /\ recon.page \in [Rows -> Revisions] /\ recon.owed \in [Rows -> Revisions]
         /\ recon.page \in [Rows -> Nat] /\ recon.owed \in [Rows -> Nat]
         /\ recon.imported \in Nat /\ recon.total \in Nat
         /\ stock \in [Rows -> Nat] /\ projection \in [Rows -> Nat]
         /\ Asleep \in Run /\ Asleep.step = "idle" /\ Asleep.imported = 0 /\ Asleep.cursor = 0
         /\ Asleep.owed = NoRows /\ NoRows \in [Rows -> Revisions] /\ \A r \in Rows : NoRows[r] = 0
<1>1. /\ recon \in Run /\ recon.cursor \in 0..RowCount /\ recon.cursor \in Nat
      /\ recon.page \in [Rows -> Revisions] /\ recon.owed \in [Rows -> Revisions]
      /\ recon.imported \in Nat /\ recon.total \in Nat
  BY RevisionsAreNumbers DEF ProjectionTypeOK, Run
<1>2. recon.page \in [Rows -> Nat] /\ recon.owed \in [Rows -> Nat]
  BY <1>1, RevisionsAreNumbers
<1>3. stock \in [Rows -> Nat] /\ projection \in [Rows -> Nat]
  BY RevisionsAreNumbers DEF ProjectionTypeOK
<1>4. NoRows \in [Rows -> Revisions] /\ \A r \in Rows : NoRows[r] = 0
  BY RevisionsAreNumbers DEF NoRows
<1>5. /\ Asleep \in Run /\ Asleep.step = "idle" /\ Asleep.imported = 0 /\ Asleep.cursor = 0
      /\ Asleep.owed = NoRows
  BY <1>4, RevisionsAreNumbers DEF Asleep, Run
<1> QED BY <1>1, <1>2, <1>3, <1>4, <1>5

LEMMA ReconStartsStep ==
  ASSUME ProjectionInv, ReconStarts
  PROVE  ProjectionInv'
<1>1. /\ ProjectionTypeOK /\ recon' = [Asleep EXCEPT !.step = "ask", !.owed = stock]
      /\ UNCHANGED <<stock, queue, ready, processed, projection, synced>>
  BY DEF ReconStarts, ProjectionInv, queueVars
<1>2. /\ recon' \in Run /\ recon'.step = "ask" /\ recon'.owed = stock
      /\ recon'.imported = 0 /\ recon'.cursor = 0
  <2>1. stock \in [Rows -> Revisions]
    BY <1>1 DEF ProjectionTypeOK
  <2> QED BY <1>1, <2>1, RunFields DEF Run
<1>3. ProjectionTypeOK'
  BY <1>1, <1>2 DEF ProjectionTypeOK, Run
<1>4. \A r \in Rows : recon'.owed[r] <= stock'[r] /\ projection'[r] >= synced'[r]
  <2>1. \A r \in Rows : stock[r] <= stock[r]
    BY <1>1, RunFields
  <2> QED BY <1>1, <1>2, <2>1 DEF ProjectionInv
<1>5. Brought({})'
  BY <1>1, <1>2, FS_EmptySet DEF Brought
<1> QED BY <1>2, <1>3, <1>4, <1>5 DEF ProjectionInv

\* A page brings rows behind the cursor only, none of them older than owed.
LEMMA ReconReadsStep ==
  ASSUME ProjectionInv, NEW c \in 0..RowCount, ReconReads(c)
  PROVE  ProjectionInv'
<1>1. /\ ProjectionTypeOK /\ recon.step = "ask" /\ recon.cursor = c
      /\ recon' = [recon EXCEPT !.step = "count",
           !.page = [r \in Rows |-> IF r \in InPage(c) THEN stock[r] ELSE 0],
           !.cursor = IF InPage(c) = Ahead(c) THEN 0 ELSE Max(InPage(c))]
      /\ UNCHANGED <<stock, queue, ready, processed, projection, synced>>
  BY DEF ReconReads, ProjectionInv, queueVars
<1> DEFINE next == IF InPage(c) = Ahead(c) THEN 0 ELSE Max(InPage(c))
           page == [r \in Rows |-> IF r \in InPage(c) THEN stock[r] ELSE 0]
<1>2. InPage(c) \subseteq Ahead(c) /\ Ahead(c) \subseteq Rows /\ Ahead(c) \subseteq Exists
      /\ \A r \in Ahead(c) : r > c
  BY DEF InPage, Ahead, Exists
<1>3. next \in 0..RowCount /\ (next > 0 => next > c /\ \A r \in InPage(c) : r <= next)
  <2>1. CASE InPage(c) = Ahead(c)
    BY <2>1, RevisionsAreNumbers
  <2>2. CASE InPage(c) # Ahead(c)
    <3>1. InPage(c) # {} /\ InPage(c) \subseteq Rows
      BY <1>2, <2>2, PageHasARow
    <3>2. PICK S : S = InPage(c)
      OBVIOUS
    <3>3. Max(S) \in S /\ \A r \in S : r <= Max(S)
      BY <3>1, <3>2, MaxOfRows
    <3>4. next = Max(S) /\ next \in Rows /\ next > c
      BY <1>2, <2>2, <3>1, <3>2, <3>3
    <3>5. next \in 0..RowCount
      BY <3>4, RevisionsAreNumbers DEF Rows
    <3> QED BY <3>2, <3>3, <3>4, <3>5
  <2> QED BY <2>1, <2>2
<1>4. page \in [Rows -> Revisions]
  BY <1>1, RevisionsAreNumbers DEF ProjectionTypeOK
<1>5. /\ recon' \in Run /\ recon'.step = "count" /\ recon'.page = page /\ recon'.cursor = next
      /\ recon'.imported = recon.imported /\ recon'.owed = recon.owed
  <2>1. recon' = [recon EXCEPT !.step = "count", !.page = page, !.cursor = next]
    BY <1>1
  <2> HIDE DEF page, next
  <2> QED BY <1>1, <1>3, <1>4, <2>1, RunFields DEF Run
<1>6. ProjectionTypeOK'
  BY <1>1, <1>5 DEF ProjectionTypeOK, Run
<1>7. \A r \in Rows : recon'.owed[r] <= stock'[r] /\ projection'[r] >= synced'[r]
  BY <1>1, <1>5 DEF ProjectionInv
<1>8. PICK B \in SUBSET Rows : Brought(B)
  BY <1>1 DEF ProjectionInv
<1>9. /\ recon.imported = Cardinality(B) /\ B \subseteq Exists /\ B \subseteq 1..c
      /\ \A r \in B : projection[r] >= 1 /\ projection[r] >= recon.owed[r]
  BY <1>1, <1>8 DEF Brought
<1>10. Fetched' = InPage(c)
  <2>1. \A r \in Rows : page[r] > 0 <=> r \in InPage(c)
    BY <1>1, <1>2, RunFields DEF Exists
  <2> HIDE DEF page
  <2>2. Fetched' = {r \in Rows : page[r] > 0}
    BY <1>5 DEF Fetched
  <2> QED BY <1>2, <2>1, <2>2
<1>11. InPage(c) \subseteq Exists \ B
  <2> SUFFICES ASSUME NEW r \in InPage(c)
               PROVE  r \in Exists /\ r \notin 1..c
    BY <1>9
  <2>1. r \in Exists /\ r > c /\ r \in Rows /\ c \in Nat
    BY <1>2, RevisionsAreNumbers
  <2> QED BY <2>1 DEF Rows
<1>12. \A r \in InPage(c) : recon'.page[r] >= recon'.owed[r]
  <2>1. \A r \in InPage(c) : r \in Rows /\ recon'.page[r] = stock[r]
    BY <1>2, <1>5
  <2>2. \A r \in Rows : stock[r] >= recon.owed[r]
    BY <1>1, RunFields DEF ProjectionInv
  <2> QED BY <1>5, <2>1, <2>2
<1>13. next > 0 => B \cup InPage(c) \subseteq 1..next
  <2> SUFFICES ASSUME next > 0, NEW r \in B \cup InPage(c)
               PROVE  r \in 1..next
    OBVIOUS
  <2>1. next \in Nat /\ c \in Nat /\ r \in Rows /\ next > c
    BY <1>2, <1>3, RevisionsAreNumbers
  <2>2. CASE r \in B
    BY <1>9, <2>1, <2>2
  <2>3. CASE r \in InPage(c)
    BY <1>3, <2>1, <2>3 DEF Rows
  <2> QED BY <2>2, <2>3
<1> HIDE DEF next, page
<1>14. Brought(B)'
  <2>1. Exists' = Exists
    BY <1>1 DEF Exists
  <2> QED BY <1>1, <1>5, <1>9, <1>10, <1>11, <1>12, <1>13, <2>1 DEF Brought
<1> QED BY <1>5, <1>6, <1>7, <1>14 DEF ProjectionInv

\* What is counted now is owed, and nothing else.
LEMMA ReconCountsStep ==
  ASSUME ProjectionInv, NEW c \in 0..RowCount, ReconCounts(c)
  PROVE  ProjectionInv'
<1> DEFINE owed == [r \in Rows |-> IF recon.owed[r] = 0 /\ r \in Exists THEN 1 ELSE recon.owed[r]]
<1>1. /\ ProjectionTypeOK /\ recon.step = "count" /\ recon.cursor = c
      /\ recon' = [recon EXCEPT !.step = "import", !.total = Cardinality(Exists), !.owed = owed]
      /\ UNCHANGED <<stock, queue, ready, processed, projection, synced>>
  BY DEF ReconCounts, ProjectionInv, queueVars
<1>2. owed \in [Rows -> Revisions] /\ Cardinality(Exists) \in 0..RowCount /\ Exists \subseteq Rows
  <2>1. Exists \subseteq Rows
    BY DEF Exists
  <2>2. PICK S : S = Exists
    OBVIOUS
  <2>3. Cardinality(S) \in 0..RowCount
    BY <2>1, <2>2, RowsAreFinite
  <2>4. owed \in [Rows -> Revisions]
    BY <1>1, RunFields, RevisionsAreNumbers
  <2> QED BY <2>1, <2>2, <2>3, <2>4
<1>3. \A r \in Rows : /\ owed[r] <= stock[r] /\ (owed[r] > 0 <=> r \in Exists)
                      /\ owed[r] = recon.owed[r] \/ owed[r] = 1
  <2> SUFFICES ASSUME NEW r \in Rows
               PROVE  /\ owed[r] <= stock[r] /\ (owed[r] > 0 <=> r \in Exists)
                      /\ owed[r] = recon.owed[r] \/ owed[r] = 1
    OBVIOUS
  <2>1. stock[r] \in Nat /\ recon.owed[r] \in Nat /\ recon.owed[r] <= stock[r]
    BY <1>1, RunFields DEF ProjectionInv
  <2> QED BY <2>1 DEF Exists
<1>4. /\ recon' \in Run /\ recon'.step = "import" /\ recon'.page = recon.page /\ recon'.cursor = c
      /\ recon'.imported = recon.imported /\ recon'.owed = owed /\ recon'.total = Cardinality(Exists)
  <2> HIDE DEF owed
  <2> QED BY <1>1, <1>2, RunFields DEF Run
<1>5. ProjectionTypeOK'
  BY <1>1, <1>4 DEF ProjectionTypeOK, Run
<1>6. PICK B \in SUBSET Rows : Brought(B)
  BY <1>1 DEF ProjectionInv
<1>7. /\ recon.imported = Cardinality(B) /\ B \subseteq Exists
      /\ \A r \in B : projection[r] >= 1 /\ projection[r] >= recon.owed[r]
      /\ Fetched \subseteq Exists \ B
      /\ \A r \in Fetched : recon.page[r] >= recon.owed[r]
      /\ recon.cursor > 0 => B \cup Fetched \subseteq 1..recon.cursor
  BY <1>1, <1>6 DEF Brought
<1> HIDE DEF owed
<1>8. Fetched' = Fetched /\ Owed' = Exists /\ Exists' = Exists
  <2>1. Owed' = {r \in Rows : owed[r] > 0}
    BY <1>4 DEF Owed
  <2>2. Owed' = Exists
    BY <1>2, <1>3, <2>1
  <2> QED BY <1>1, <1>4, <2>2 DEF Fetched, Exists
<1>9. \A r \in B : projection'[r] >= 1 /\ projection'[r] >= recon'.owed[r]
  BY <1>1, <1>3, <1>4, <1>7
<1>10. \A r \in Fetched : recon'.page[r] >= recon'.owed[r]
  <2>1. \A r \in Fetched : r \in Rows /\ recon.page[r] >= 1
    BY <1>1, RunFields DEF Fetched
  <2> QED BY <1>3, <1>4, <1>7, <2>1
<1>11. Brought(B)'
  BY <1>1, <1>4, <1>7, <1>8, <1>9, <1>10 DEF Brought
<1>12. \A r \in Rows : recon'.owed[r] <= stock'[r] /\ projection'[r] >= synced'[r]
  BY <1>1, <1>3, <1>4 DEF ProjectionInv
<1> QED BY <1>4, <1>5, <1>11, <1>12 DEF ProjectionInv

\* The last page completes the run if as many rows came as there are; as none
\* came twice, these are all of them.
LEMMA ReconImportsStep ==
  ASSUME ProjectionInv, NEW c \in 0..RowCount, ReconImports(c)
  PROVE  ProjectionInv' /\ \A r \in Rows : projection'[r] >= projection[r]
<1> DEFINE imported == recon.imported + Cardinality(Fetched)
<1>1. /\ ProjectionTypeOK /\ recon.step = "import" /\ recon.cursor = c
      /\ projection' = [r \in Rows |-> IF r \in Fetched /\ projection[r] < recon.page[r]
                                       THEN recon.page[r] ELSE projection[r]]
      /\ UNCHANGED <<stock, queue, ready, processed, synced>>
  BY DEF ReconImports, ProjectionInv, queueVars, Newer, Fetched
<1>2. \/ c > 0 /\ recon' = [recon EXCEPT !.step = "ask", !.imported = imported]
      \/ c = 0 /\ imported = recon.total /\ recon' = [recon EXCEPT !.step = "finish", !.imported = imported]
      \/ c = 0 /\ recon' = Asleep
  BY DEF ReconImports, AllImported, Fetched
<1>3. /\ projection' \in [Rows -> Revisions]
      /\ \A r \in Rows : projection'[r] >= projection[r]
      /\ \A r \in Fetched : r \in Rows /\ projection'[r] >= recon.page[r] /\ recon.page[r] >= 1
  <2>1. projection' \in [Rows -> Revisions]
    BY <1>1, RunFields DEF ProjectionTypeOK
  <2>2. \A r \in Rows : projection[r] \in Nat /\ recon.page[r] \in Nat
    BY <1>1, RunFields
  <2>3. Fetched \subseteq Rows /\ \A r \in Fetched : recon.page[r] > 0
    BY DEF Fetched
  <2> QED BY <1>1, <2>1, <2>2, <2>3
<1>4. PICK B \in SUBSET Rows : Brought(B)
  BY <1>1 DEF ProjectionInv
<1>5. /\ recon.imported = Cardinality(B) /\ B \subseteq Exists
      /\ \A r \in B : projection[r] >= 1 /\ projection[r] >= recon.owed[r]
      /\ Fetched \subseteq Exists \ B
      /\ \A r \in Fetched : recon.page[r] >= recon.owed[r]
      /\ recon.cursor > 0 => B \cup Fetched \subseteq 1..recon.cursor
      /\ recon.total = Cardinality(Owed) /\ B \cup Fetched \subseteq Owed
  BY <1>1, <1>4 DEF Brought
<1>6. PICK C : C = B \cup Fetched
  OBVIOUS
<1>7. C \subseteq Rows /\ C \subseteq Exists /\ C \subseteq Owed /\ Owed \subseteq Rows
  BY <1>3, <1>5, <1>6 DEF Owed
<1>8. imported = Cardinality(C) /\ Cardinality(C) \in 0..RowCount
  <2>1. PICK P : P = Fetched
    OBVIOUS
  <2>2. P \subseteq Rows /\ B \cap P = {} /\ C = B \cup P
    BY <1>3, <1>5, <1>6, <2>1
  <2>3. Cardinality(C) = Cardinality(B) + Cardinality(P)
    BY <2>2, DisjointRows
  <2>4. Cardinality(C) \in 0..RowCount
    BY <1>7, RowsAreFinite
  <2> QED BY <1>5, <2>1, <2>3, <2>4
<1>9. \A r \in C : projection'[r] >= 1 /\ projection'[r] >= recon.owed[r]
  <2>1. \A r \in Rows : /\ projection[r] \in Nat /\ projection'[r] \in Nat
                        /\ recon.owed[r] \in Nat /\ recon.page[r] \in Nat
    BY <1>1, <1>3, RunFields, RevisionsAreNumbers
  <2>2. ASSUME NEW r \in B
        PROVE  projection'[r] >= 1 /\ projection'[r] >= recon.owed[r]
    BY <1>3, <1>5, <2>1
  <2>3. ASSUME NEW r \in Fetched
        PROVE  projection'[r] >= 1 /\ projection'[r] >= recon.owed[r]
    BY <1>3, <1>5, <2>1
  <2> QED BY <1>6, <2>2, <2>3
<1>10. \A r \in Rows : recon.owed[r] <= stock'[r] /\ projection'[r] >= synced'[r]
  <2>1. \A r \in Rows : projection[r] \in Nat /\ projection'[r] \in Nat /\ synced[r] \in Nat
    BY <1>1, <1>3, RunFields, RevisionsAreNumbers DEF ProjectionTypeOK
  <2> QED BY <1>1, <1>3, <2>1 DEF ProjectionInv
<1> HIDE DEF imported
<1>11. CASE c > 0 /\ recon' = [recon EXCEPT !.step = "ask", !.imported = imported]
  <2>1. /\ recon' \in Run /\ recon'.step = "ask" /\ recon'.imported = Cardinality(C)
        /\ recon'.cursor = c /\ recon'.owed = recon.owed
    BY <1>1, <1>8, <1>11, RunFields DEF Run
  <2>2. ProjectionTypeOK'
    BY <1>1, <1>3, <2>1 DEF ProjectionTypeOK, Run
  <2>3. Exists' = Exists /\ C \subseteq 1..c
    BY <1>1, <1>5, <1>6, <1>11 DEF Exists
  <2>4. Brought(C)'
    BY <1>7, <1>9, <2>1, <2>3 DEF Brought
  <2> QED BY <1>3, <1>7, <1>10, <2>1, <2>2, <2>4 DEF ProjectionInv
<1>12. CASE /\ imported = recon.total
            /\ recon' = [recon EXCEPT !.step = "finish", !.imported = imported]
  <2>1. recon' \in Run /\ recon'.step = "finish" /\ recon'.owed = recon.owed
    BY <1>8, <1>1, <1>12, RunFields DEF Run
  <2>2. ProjectionTypeOK'
    BY <1>1, <1>3, <2>1 DEF ProjectionTypeOK, Run
  <2>3. C = Owed
    <3>1. PICK O : O = Owed
      OBVIOUS
    <3>2. O \subseteq Rows /\ C \subseteq O /\ Cardinality(C) = Cardinality(O)
      BY <1>5, <1>7, <1>8, <1>12, <3>1
    <3>3. IsFiniteSet(O)
      BY <3>2, RowsAreFinite
    <3> QED BY <3>1, <3>2, <3>3, FS_Subset
  <2>4. \A r \in Rows : projection'[r] >= recon'.owed[r]
    <3>1. \A r \in Rows : recon.owed[r] \in Nat /\ projection'[r] \in Nat
      BY <1>1, <1>3, RunFields, RevisionsAreNumbers
    <3>2. \A r \in Rows \ C : recon.owed[r] = 0
      BY <2>3, <3>1 DEF Owed
    <3> QED BY <1>9, <2>1, <3>1, <3>2
  <2> QED BY <1>3, <1>10, <2>1, <2>2, <2>4 DEF ProjectionInv
<1>13. CASE recon' = Asleep
  <2>1. recon' \in Run /\ recon'.step = "idle" /\ \A r \in Rows : recon'.owed[r] = 0
    BY <1>1, <1>13, RunFields
  <2>2. ProjectionTypeOK'
    BY <1>1, <1>3, <2>1 DEF ProjectionTypeOK, Run
  <2>3. \A r \in Rows : recon'.owed[r] <= stock'[r]
    BY <1>1, <2>1, RunFields
  <2> QED BY <1>3, <1>10, <2>1, <2>2, <2>3 DEF ProjectionInv
<1> QED BY <1>2, <1>3, <1>11, <1>12, <1>13

LEMMA ReconEnds ==
  ASSUME ProjectionInv, ReconCompletes \/ ReconFails
  PROVE  ProjectionInv' /\ UNCHANGED projection
<1>1. /\ ProjectionTypeOK /\ recon' = Asleep
      /\ UNCHANGED <<stock, queue, ready, processed, projection>>
  BY DEF ReconCompletes, ReconFails, NotRunning, ProjectionInv, queueVars
<1>2. recon' \in Run /\ recon'.step = "idle" /\ \A r \in Rows : recon'.owed[r] = 0
  BY <1>1, RunFields
<1>3. synced' \in [Rows -> Revisions] /\ \A r \in Rows : projection[r] >= synced'[r]
  <2>1. CASE ReconCompletes
    <3>1. synced' = recon.owed /\ recon.step = "finish"
      BY <2>1 DEF ReconCompletes
    <3> QED BY <1>1, <3>1, RunFields DEF ProjectionInv
  <2>2. CASE ReconFails
    <3>1. synced' = synced
      BY <2>2 DEF ReconFails
    <3> QED BY <1>1, <3>1 DEF ProjectionInv, ProjectionTypeOK
  <2> QED BY <2>1, <2>2
<1>4. ProjectionTypeOK'
  BY <1>1, <1>2, <1>3 DEF ProjectionTypeOK, Run
<1>5. \A r \in Rows : recon'.owed[r] <= stock'[r]
  BY <1>1, <1>2, RunFields
<1> QED BY <1>1, <1>2, <1>3, <1>4, <1>5 DEF ProjectionInv

\* Every step keeps the invariant, and none takes a row of the projection back.
LEMMA ProjectionStep ==
  ProjectionInv /\ [ProjectionNext]_projectionVars =>
    ProjectionInv' /\ \A r \in Rows : projection'[r] >= projection[r]
<1> SUFFICES ASSUME ProjectionInv, [ProjectionNext]_projectionVars
             PROVE  ProjectionInv' /\ \A r \in Rows : projection'[r] >= projection[r]
  OBVIOUS
<1>1. ASSUME UNCHANGED projection
      PROVE  \A r \in Rows : projection'[r] >= projection[r]
  <2>1. \A r \in Rows : projection[r] \in Nat
    BY RunFields DEF ProjectionInv
  <2> QED BY <1>1, <2>1
<1>2. ASSUME NEW r \in Rows, StockChanges(r)
      PROVE  ProjectionInv' /\ UNCHANGED projection
  BY <1>2, StockChangesStep DEF StockChanges
<1>3. CASE \/ ConsumerConnects \/ ConsumerDisconnects
           \/ \E e \in queue : ProjectStock(e) \/ ProjectAgain(e) \/ ProjectFails(e)
  BY <1>3, ConsumerStep
<1>4. CASE ReconStarts
  BY <1>1, <1>4, ReconStartsStep DEF ReconStarts
<1>5. ASSUME NEW c \in 0..RowCount, ReconReads(c) \/ ReconCounts(c)
      PROVE  ProjectionInv' /\ UNCHANGED projection
  BY <1>5, ReconReadsStep, ReconCountsStep DEF ReconReads, ReconCounts
<1>6. ASSUME NEW c \in 0..RowCount, ReconImports(c)
      PROVE  ProjectionInv' /\ \A r \in Rows : projection'[r] >= projection[r]
  BY <1>6, ReconImportsStep
<1>7. CASE ReconCompletes \/ ReconFails
  BY <1>1, <1>7, ReconEnds
<1>8. CASE UNCHANGED projectionVars
  <2>1. UNCHANGED <<stock, queue, ready, processed, projection, recon, synced>>
    BY <1>8 DEF projectionVars, queueVars
  <2>2. ProjectionTypeOK'
    BY <2>1 DEF ProjectionInv, ProjectionTypeOK
  <2>3. \A r \in Rows : stock'[r] >= stock[r]
    BY <2>1, RunFields DEF ProjectionInv
  <2> QED BY <1>1, <2>1, <2>2, <2>3, RunGoesOn
<1> QED BY <1>1, <1>2, <1>3, <1>4, <1>5, <1>6, <1>7, <1>8 DEF ProjectionNext, ReconProceeds

LEMMA ProjectionStarts == ProjectionInit => ProjectionInv
<1> SUFFICES ASSUME ProjectionInit PROVE ProjectionInv
  OBVIOUS
<1>1. NoRows \in [Rows -> Revisions] /\ \A r \in Rows : NoRows[r] = 0
  BY RevisionsAreNumbers DEF NoRows
<1>2. Asleep \in Run /\ Asleep.step = "idle" /\ Asleep.owed = NoRows
  BY <1>1, RevisionsAreNumbers DEF Asleep, Run
<1>3. ProjectionTypeOK
  BY <1>1, <1>2 DEF ProjectionInit, ProjectionTypeOK, Run
<1>4. \A r \in Rows : recon.owed[r] <= stock[r] /\ projection[r] >= synced[r]
  BY <1>1, <1>2 DEF ProjectionInit
<1> QED BY <1>2, <1>3, <1>4 DEF ProjectionInit, ProjectionInv

\* What a reconciliation has brought are that many different rows, all of them
\* before its cursor and none older than what it owes.  (reconcile)
THEOREM ProjectionInvariant == ProjectionSpec => []ProjectionInv
BY ProjectionStarts, ProjectionStep, PTL DEF ProjectionSpec

\* A run that reports itself complete brought every row it owed, however many
\* rows appeared between its pages and its queries.  (reconcile)
THEOREM CompleteSyncIsComplete == ProjectionSpec => []CompleteSyncCoversAll
<1>1. ProjectionInv => CompleteSyncCoversAll
  BY DEF ProjectionInv, CompleteSyncCoversAll
<1> QED BY <1>1, ProjectionInvariant, PTL

\* No event and no page takes the projection of a row back.  (projectStock)
THEOREM OnlyNewerIsProjected == ProjectionSpec => ProjectionNeverGoesBack
<1>1. ProjectionInv /\ [ProjectionNext]_projectionVars =>
        [\A r \in Rows : projection'[r] >= projection[r]]_projectionVars
  BY ProjectionStep
<1> QED BY <1>1, ProjectionInvariant, PTL DEF ProjectionSpec, ProjectionNeverGoesBack
------------------------------------------------------------------------------
\* The dashboard of a branch.  Nothing that is under way, or shown, tells of a
\* revision its row has not had, and a request under way is for the branch that
\* is active, so the event that waits for its answer belongs to it.

RowsAreBounded == \A b \in Branches : stockRow[b] <= changes + 1

EventsAreReal ==
  /\ \A e \in undelivered : e.revision <= stockRow[e.branch]
  /\ \A n \in DOMAIN wire : wire[n].revision <= stockRow[wire[n].branch]

PageIsReal ==
  /\ tab.view.revision <= stockRow[tab.view.branch]
  /\ tab.pending <= stockRow[tab.active]
  /\ Loading => /\ request.branch = tab.active
                /\ request.read # Nothing => request.read <= stockRow[request.branch]

FeedInv ==
  /\ FeedTypeOK
  /\ RowsAreBounded
  /\ EventsAreReal
  /\ PageIsReal

\* The parts of the invariant as plain facts.
LEMMA FeedFacts ==
  ASSUME FeedInv
  PROVE  /\ MaxChanges \in Nat /\ Remembered \in Nat /\ MaxFaults \in Nat
         /\ 0 \in StockRevisions /\ StockRevisions \subseteq Nat
         /\ stockRow \in [Branches -> StockRevisions] /\ changes \in 0..MaxChanges
         /\ faults \in 0..MaxFaults /\ linked \in BOOLEAN
         /\ undelivered \subseteq StockEvents
         /\ seen \in Seq(StockEvents) /\ Len(seen) <= Remembered
         /\ versions \in Seq(StockEvents) /\ Len(versions) <= Remembered
         /\ wire \in Seq(StockEvents) /\ DOMAIN wire = 1..Len(wire) /\ Len(wire) \in Nat
         /\ \A n \in DOMAIN wire : /\ wire[n] \in StockEvents
                                   /\ wire[n].branch \in Branches /\ wire[n].revision \in Nat
         /\ tab \in Tab /\ request \in Request \cup {Nothing}
         /\ tab.view \in StockEvents /\ tab.active \in Branches /\ tab.pending \in StockRevisions
<1>1. MaxChanges \in Nat /\ Remembered \in Nat /\ MaxFaults \in Nat
  BY StockFeedAssumption DEF StockFeedAssumption
<1>2. wire \in Seq(StockEvents)
  BY DEF FeedInv, FeedTypeOK
<1>3. DOMAIN wire = 1..Len(wire) /\ Len(wire) \in Nat
  BY <1>2, LenProperties
<1>4. tab \in Tab
  BY DEF FeedInv, FeedTypeOK
<1>5. tab.view \in StockEvents /\ tab.active \in Branches /\ tab.pending \in StockRevisions
  BY <1>4 DEF Tab
<1>6. 0 \in StockRevisions /\ StockRevisions \subseteq Nat
  BY <1>1 DEF StockRevisions
<1>7. \A n \in DOMAIN wire : /\ wire[n] \in StockEvents
                             /\ wire[n].branch \in Branches /\ wire[n].revision \in Nat
  <2>1. \A n \in DOMAIN wire : wire[n] \in StockEvents
    BY <1>2, <1>3, ElementOfSeq
  <2> QED BY <1>6, <2>1 DEF StockEvents
<1> QED BY <1>1, <1>2, <1>3, <1>4, <1>5, <1>6, <1>7 DEF FeedInv, FeedTypeOK

\* A memory that takes one more stays within its size.
LEMMA BoundedMemory ==
  ASSUME Remembered \in Nat, NEW memory \in Seq(StockEvents), Len(memory) <= Remembered,
         NEW e \in StockEvents
  PROVE  /\ Bounded(Append(memory, e)) \in Seq(StockEvents)
         /\ Len(Bounded(Append(memory, e))) <= Remembered
<1>1. PICK longer : longer = Append(memory, e)
  OBVIOUS
<1>2. Len(memory) \in Nat
  BY LenProperties
<1>3. longer \in Seq(StockEvents) /\ Len(longer) = Len(memory) + 1
  BY <1>1
<1>4. longer # <<>>
  BY <1>2, <1>3, EmptySeq
<1>5. Tail(longer) \in Seq(StockEvents) /\ Len(Tail(longer)) = Len(longer) - 1
  BY <1>3, <1>4, HeadTailProperties
<1> QED BY <1>1, <1>2, <1>3, <1>5 DEF Bounded

\* Map.set keeps to the size of the map too.
LEMMA BoundedVersions ==
  ASSUME Remembered \in Nat, versions \in Seq(StockEvents), Len(versions) <= Remembered,
         NEW e \in StockEvents
  PROVE  SetVersion(e) \in Seq(StockEvents) /\ Len(SetVersion(e)) <= Remembered
<1>1. CASE \E i \in DOMAIN versions : versions[i].branch = e.branch
  <2>1. PICK new : new = [i \in DOMAIN versions |->
                            IF versions[i].branch = e.branch THEN e ELSE versions[i]]
    OBVIOUS
  <2>2. /\ Len(versions) \in Nat /\ DOMAIN versions = 1..Len(versions)
        /\ \A i \in DOMAIN versions : versions[i] \in StockEvents
    BY LenProperties
  <2>3. new \in [1..Len(versions) -> StockEvents]
    BY <2>1, <2>2
  <2>4. new \in Seq(StockEvents)
    BY <2>2, <2>3, SeqDef
  <2>5. DOMAIN new = 1..Len(versions) /\ DOMAIN new = 1..Len(new) /\ Len(new) \in Nat
    BY <2>3, <2>4, LenProperties
  <2>6. Len(new) = Len(versions)
    BY <2>2, <2>5
  <2> QED BY <1>1, <2>1, <2>4, <2>6 DEF SetVersion
<1>2. CASE ~\E i \in DOMAIN versions : versions[i].branch = e.branch
  BY <1>2, BoundedMemory DEF SetVersion
<1> QED BY <1>1, <1>2

\* What a step of Realtime or of the network leaves to the dashboard.
LEMMA RealtimeStep ==
  ASSUME FeedInv, UNCHANGED <<stockRow, tab, request, changes>>,
         undelivered' \subseteq undelivered,
         seen' \in Seq(StockEvents), Len(seen') <= Remembered,
         versions' \in Seq(StockEvents), Len(versions') <= Remembered,
         linked' \in BOOLEAN, wire' \in Seq(StockEvents),
         \A n \in DOMAIN wire' : wire'[n].revision <= stockRow[wire'[n].branch],
         faults' = faults \/ Fault
  PROVE  FeedInv'
<1>1. faults' \in 0..MaxFaults
  BY FeedFacts DEF Fault
<1>2. FeedTypeOK'
  BY <1>1, FeedFacts DEF FeedTypeOK
<1>3. EventsAreReal'
  BY DEF FeedInv, EventsAreReal
<1>4. RowsAreBounded' /\ PageIsReal'
  BY DEF FeedInv, RowsAreBounded, PageIsReal, Loading
<1> QED BY <1>2, <1>3, <1>4 DEF FeedInv

\* A broadcast puts on the wire what the queue held.
LEMMA ConsumeStep ==
  ASSUME FeedInv, NEW e \in undelivered, Broadcast(e) \/ Skip(e)
  PROVE  FeedInv'
<1>1. /\ UNCHANGED <<stockRow, tab, request, changes, linked>>
      /\ undelivered' \subseteq undelivered /\ (faults' = faults \/ Fault)
      /\ seen' = seen \/ seen' = Remember(e)
      /\ versions' = versions \/ versions' = SetVersion(e)
      /\ wire' = wire \/ wire' = Append(wire, e)
  BY DEF Broadcast, Skip, Ack
<1>2. e \in StockEvents /\ e.revision <= stockRow[e.branch]
  BY FeedFacts DEF FeedInv, EventsAreReal
<1>3. seen' \in Seq(StockEvents) /\ Len(seen') <= Remembered
  BY <1>1, <1>2, FeedFacts, BoundedMemory DEF Remember
<1>4. versions' \in Seq(StockEvents) /\ Len(versions') <= Remembered
  BY <1>1, <1>2, FeedFacts, BoundedVersions
<1>5. /\ wire' \in Seq(StockEvents)
      /\ \A n \in DOMAIN wire' : wire'[n].revision <= stockRow[wire'[n].branch]
  <2>1. CASE wire' = wire
    BY <2>1, FeedFacts DEF FeedInv, EventsAreReal
  <2>2. CASE wire' = Append(wire, e)
    <3>1. /\ wire' \in Seq(StockEvents) /\ Len(wire') = Len(wire) + 1
          /\ \A n \in 1..Len(wire) : wire'[n] = wire[n]
          /\ wire'[Len(wire) + 1] = e
      BY <1>2, <2>2, FeedFacts
    <3>2. DOMAIN wire' = 1..(Len(wire) + 1)
      BY <3>1, LenProperties
    <3>3. ASSUME NEW n \in DOMAIN wire'
          PROVE  wire'[n].revision <= stockRow[wire'[n].branch]
      <4>1. CASE n \in 1..Len(wire)
        <5>1. n \in DOMAIN wire /\ wire'[n] = wire[n]
          BY <3>1, <4>1, FeedFacts
        <5> QED BY <5>1 DEF FeedInv, EventsAreReal
      <4>2. CASE n = Len(wire) + 1
        BY <1>2, <3>1, <4>2
      <4>3. Len(wire) \in Nat
        BY FeedFacts
      <4> QED BY <3>2, <4>1, <4>2, <4>3
    <3> QED BY <3>1, <3>3
  <2> QED BY <1>1, <2>1, <2>2
<1> QED BY <1>1, <1>3, <1>4, <1>5, FeedFacts, RealtimeStep

\* What is lost with a process or a link.
LEMMA BreakStep ==
  ASSUME FeedInv, RealtimeRestarts \/ LinkBreaks
  PROVE  FeedInv'
<1>1. /\ UNCHANGED <<stockRow, tab, request, changes, undelivered>>
      /\ linked' = FALSE /\ wire' = <<>> /\ Fault
      /\ seen' = seen \/ seen' = <<>>
      /\ versions' = versions \/ versions' = <<>>
  BY DEF RealtimeRestarts, LinkBreaks, realtimeVars
<1>2. <<>> \in Seq(StockEvents) /\ Len(<<>>) = 0 /\ DOMAIN <<>> = {}
  BY EmptySeq
<1>3. /\ seen' \in Seq(StockEvents) /\ Len(seen') <= Remembered
      /\ versions' \in Seq(StockEvents) /\ Len(versions') <= Remembered
  <2>1. Remembered \in Nat /\ 0 <= Remembered
    BY FeedFacts
  <2>2. seen \in Seq(StockEvents) /\ Len(seen) <= Remembered
    BY FeedFacts
  <2>3. versions \in Seq(StockEvents) /\ Len(versions) <= Remembered
    BY FeedFacts
  <2>4. seen' \in Seq(StockEvents) /\ Len(seen') <= Remembered
    BY <1>1, <1>2, <2>1, <2>2
  <2>5. versions' \in Seq(StockEvents) /\ Len(versions') <= Remembered
    BY <1>1, <1>2, <2>1, <2>3
  <2> QED BY <2>4, <2>5
<1> QED BY <1>1, <1>2, <1>3, RealtimeStep

\* A row that changes has had the revisions it had.
LEMMA RowChangesStep ==
  ASSUME FeedInv, NEW b \in Branches, RowChanges(b)
  PROVE  FeedInv'
<1>1. PICK e : e = [branch |-> b, revision |-> stockRow[b] + 1]
  OBVIOUS
<1>2. /\ changes < MaxChanges /\ changes' = changes + 1
      /\ stockRow' = [stockRow EXCEPT ![b] = stockRow[b] + 1]
      /\ undelivered' = undelivered \cup {e}
      /\ UNCHANGED <<seen, versions, linked, wire, tab, request, faults>>
  BY <1>1 DEF RowChanges
<1>3. /\ stockRow[b] + 1 \in StockRevisions
      /\ changes' \in 0..MaxChanges
  BY <1>2, FeedFacts DEF FeedInv, RowsAreBounded, StockRevisions
<1>4. e \in StockEvents /\ e.branch = b /\ e.revision = stockRow[b] + 1
  BY <1>1, <1>3 DEF StockEvents
<1>5. /\ stockRow' \in [Branches -> StockRevisions] /\ stockRow'[b] = stockRow[b] + 1
      /\ \A c \in Branches \ {b} : stockRow'[c] = stockRow[c]
  BY <1>2, <1>3, FeedFacts
<1>6. \A c \in Branches : \A v \in Nat : v <= stockRow[c] => v <= stockRow'[c]
  BY <1>5, FeedFacts
<1>7. FeedTypeOK'
  BY <1>2, <1>3, <1>4, <1>5, FeedFacts DEF FeedTypeOK
<1>8. RowsAreBounded'
  BY <1>2, <1>5, FeedFacts DEF FeedInv, RowsAreBounded
<1>9. EventsAreReal'
  <2>1. \A d \in undelivered : d.branch \in Branches /\ d.revision \in Nat
    BY FeedFacts DEF StockEvents
  <2>2. \A d \in undelivered' : d.revision <= stockRow'[d.branch]
    BY <1>2, <1>4, <1>5, <1>6, <2>1, FeedFacts DEF FeedInv, EventsAreReal
  <2> QED BY <1>2, <1>6, <2>2, FeedFacts DEF FeedInv, EventsAreReal
<1>10. PageIsReal'
  <2>1. /\ tab.view.branch \in Branches /\ tab.view.revision \in Nat
        /\ tab.active \in Branches /\ tab.pending \in Nat
    BY FeedFacts DEF StockEvents
  <2>2. Loading /\ request.read # Nothing => request.branch \in Branches /\ request.read \in Nat
    BY FeedFacts DEF Request, Loading
  <2> QED BY <1>2, <1>6, <2>1, <2>2 DEF FeedInv, PageIsReal, Loading
<1> QED BY <1>7, <1>8, <1>9, <1>10 DEF FeedInv

\* What a step of the dashboard leaves to Realtime.
LEMMA DashboardStep ==
  ASSUME FeedInv, UNCHANGED <<stockRow, undelivered, seen, versions, changes>>,
         linked' \in BOOLEAN, wire' \in Seq(StockEvents),
         \A n \in DOMAIN wire' : wire'[n].revision <= stockRow[wire'[n].branch],
         faults' = faults \/ Fault,
         tab' \in Tab, request' \in Request \cup {Nothing}, PageIsReal'
  PROVE  FeedInv'
<1>1. faults' \in 0..MaxFaults
  BY FeedFacts DEF Fault
<1>2. FeedTypeOK'
  BY <1>1, FeedFacts DEF FeedTypeOK
<1>3. EventsAreReal' /\ RowsAreBounded'
  BY DEF FeedInv, EventsAreReal, RowsAreBounded
<1> QED BY <1>2, <1>3 DEF FeedInv

\* A request is for the branch that becomes active, and shows nothing new.
LEMMA AskStep ==
  ASSUME FeedInv, UNCHANGED <<stockRow, undelivered, seen, versions, changes>>,
         linked' \in BOOLEAN, wire' \in Seq(StockEvents),
         \A n \in DOMAIN wire' : wire'[n].revision <= stockRow[wire'[n].branch],
         faults' = faults \/ Fault,
         NEW b \in Branches, NEW t \in Tab, Ask(b, t), t.view = tab.view,
         t.pending <= stockRow[t.active]
  PROVE  FeedInv' /\ tab'.view = tab.view
<1>1. PICK p : p = IF t.active = b THEN t.pending ELSE 0
  OBVIOUS
<1>2. p \in StockRevisions /\ p <= stockRow[b]
  <2>1. t.pending \in StockRevisions /\ stockRow[b] \in Nat
    BY FeedFacts DEF Tab
  <2> QED BY <1>1, <2>1, FeedFacts
<1>3. tab' = [t EXCEPT !.active = b, !.error = FALSE, !.pending = p]
  BY <1>1 DEF Ask
<1>4. /\ tab' \in Tab /\ tab'.view = tab.view /\ tab'.active = b /\ tab'.pending = p
  BY <1>2, <1>3 DEF Tab
<1>5. request' = [branch |-> b, read |-> Nothing]
  BY DEF Ask
<1>6. request' \in Request /\ request'.branch = b /\ request'.read = Nothing
  BY <1>5 DEF Request
<1>7. PageIsReal'
  BY <1>2, <1>4, <1>6 DEF FeedInv, PageIsReal
<1> QED BY <1>4, <1>6, <1>7, DashboardStep

LEMMA QuietWire ==
  ASSUME FeedInv
  PROVE  /\ wire \in Seq(StockEvents)
         /\ \A n \in DOMAIN wire : wire[n].revision <= stockRow[wire[n].branch]
BY FeedFacts DEF FeedInv, EventsAreReal

\* The page asks: it connects, loses the socket, polls, comes back, or the
\* employee chooses a branch.
LEMMA PageAsks ==
  ASSUME FeedInv,
         \/ SocketConnects \/ NoticesDisconnect \/ Poll \/ GoesOnline
         \/ \E b \in Branches : Select(b)
  PROVE  FeedInv' /\ tab'.view = tab.view
<1>1. UNCHANGED <<stockRow, undelivered, seen, versions, changes, wire, faults>>
  BY DEF SocketConnects, NoticesDisconnect, Poll, GoesOnline, Select, realtimeVars
<1>2. linked' \in BOOLEAN
  BY FeedFacts DEF SocketConnects, NoticesDisconnect, Poll, GoesOnline, Select
<1>3. /\ wire' \in Seq(StockEvents)
      /\ \A n \in DOMAIN wire' : wire'[n].revision <= stockRow[wire'[n].branch]
  BY <1>1, QuietWire
<1>4. tab \in Tab /\ tab.active \in Branches /\ tab.pending <= stockRow[tab.active]
  BY FeedFacts DEF FeedInv, PageIsReal
<1>5. \A s \in {"connecting", "connected", "fallback"} :
        LET t == [tab EXCEPT !.status = s]
        IN t \in Tab /\ t.view = tab.view /\ t.active = tab.active /\ t.pending = tab.pending
  BY <1>4 DEF Tab
<1>6. LET t == [tab EXCEPT !.online = TRUE]
      IN t \in Tab /\ t.view = tab.view /\ t.active = tab.active /\ t.pending = tab.pending
  BY <1>4 DEF Tab
<1>7. \E b \in Branches, t \in Tab :
        /\ Ask(b, t) /\ t.view = tab.view
        /\ t.active = tab.active /\ t.pending = tab.pending
  <2>1. CASE SocketConnects
    <3>1. PICK t : t = [tab EXCEPT !.status = "connected"]
      OBVIOUS
    <3>2. t \in Tab /\ t.view = tab.view /\ t.active = tab.active /\ t.pending = tab.pending
      BY <1>5, <3>1
    <3>3. Ask(t.active, t)
      BY <2>1, <3>1 DEF SocketConnects, AfterConnect
    <3> QED BY <1>4, <3>2, <3>3
  <2>2. CASE NoticesDisconnect
    <3>1. PICK t : t = [tab EXCEPT !.status = "fallback"]
      OBVIOUS
    <3>2. t \in Tab /\ t.view = tab.view /\ t.active = tab.active /\ t.pending = tab.pending
      BY <1>5, <3>1
    <3>3. Ask(tab.active, t)
      BY <2>2, <3>1 DEF NoticesDisconnect
    <3> QED BY <1>4, <3>2, <3>3
  <2>3. CASE Poll
    <3>1. PICK s \in {tab.status, "fallback"} : Ask(tab.active, [tab EXCEPT !.status = s])
      BY <2>3 DEF Poll
    <3>2. s \in {"connecting", "connected", "fallback"}
      BY <1>4, <3>1 DEF Tab
    <3>3. PICK t : t = [tab EXCEPT !.status = s]
      OBVIOUS
    <3>4. t \in Tab /\ t.view = tab.view /\ t.active = tab.active /\ t.pending = tab.pending
      BY <1>5, <3>2, <3>3
    <3> QED BY <1>4, <3>1, <3>3, <3>4
  <2>4. CASE GoesOnline
    <3>1. PICK t : t = [tab EXCEPT !.online = TRUE]
      OBVIOUS
    <3>2. t \in Tab /\ t.view = tab.view /\ t.active = tab.active /\ t.pending = tab.pending
      BY <1>6, <3>1
    <3>3. Ask(tab.active, t)
      BY <2>4, <3>1 DEF GoesOnline
    <3> QED BY <1>4, <3>2, <3>3
  <2>5. CASE \E b \in Branches : Select(b)
    BY <1>4, <2>5 DEF Select
  <2> QED BY <2>1, <2>2, <2>3, <2>4, <2>5
<1> QED BY <1>1, <1>2, <1>3, <1>4, <1>7, AskStep

\* Going offline aborts the request and drops the link.
LEMMA OfflineStep ==
  ASSUME FeedInv, GoesOffline
  PROVE  FeedInv' /\ tab'.view = tab.view
<1>1. /\ UNCHANGED <<stockRow, undelivered, seen, versions, changes>>
      /\ tab' = [tab EXCEPT !.online = FALSE, !.status = "fallback"]
      /\ request' = Nothing /\ linked' = FALSE /\ wire' = <<>> /\ Fault
  BY DEF GoesOffline, realtimeVars
<1>2. /\ tab' \in Tab /\ tab'.view = tab.view
      /\ tab'.active = tab.active /\ tab'.pending = tab.pending
  BY <1>1, FeedFacts DEF Tab
<1>3. PageIsReal'
  BY <1>1, <1>2 DEF FeedInv, PageIsReal, Loading
<1>4. <<>> \in Seq(StockEvents) /\ DOMAIN <<>> = {}
  BY EmptySeq
<1> QED BY <1>1, <1>2, <1>3, <1>4, DashboardStep

\* An answer is read while the row has that revision, and a failure shows none.
LEMMA AnswerStep ==
  ASSUME FeedInv, InventoryAnswers \/ RequestFails
  PROVE  FeedInv' /\ tab'.view = tab.view
<1>1. UNCHANGED <<stockRow, undelivered, seen, versions, changes, linked, wire, faults>>
  BY DEF InventoryAnswers, RequestFails, realtimeVars
<1>2. request \in Request /\ request.branch \in Branches /\ request.branch = tab.active
  BY FeedFacts DEF InventoryAnswers, RequestFails, Loading, Request, FeedInv, PageIsReal
<1>3. CASE InventoryAnswers
  <2>1. PICK v : v = stockRow[request.branch]
    OBVIOUS
  <2>2. v \in StockRevisions /\ v \in Nat
    BY <1>2, <2>1, FeedFacts
  <2>3. request' = [request EXCEPT !.read = v] /\ tab' = tab
    BY <1>3, <2>1 DEF InventoryAnswers
  <2>4. request' \in Request /\ request'.branch = request.branch /\ request'.read = v
    BY <1>2, <2>2, <2>3 DEF Request
  <2>5. PageIsReal'
    BY <1>1, <1>2, <2>1, <2>2, <2>3, <2>4 DEF FeedInv, PageIsReal
  <2> QED BY <1>1, <2>3, <2>4, <2>5, FeedFacts, QuietWire, DashboardStep
<1>4. CASE RequestFails
  <2>1. tab' = [tab EXCEPT !.error = TRUE] /\ request' = Nothing
    BY <1>4 DEF RequestFails
  <2>2. /\ tab' \in Tab /\ tab'.view = tab.view
        /\ tab'.active = tab.active /\ tab'.pending = tab.pending
    BY <2>1, FeedFacts DEF Tab
  <2>3. PageIsReal'
    BY <1>1, <2>1, <2>2 DEF FeedInv, PageIsReal, Loading
  <2> QED BY <1>1, <2>1, <2>2, <2>3, FeedFacts, QuietWire, DashboardStep
<1> QED BY <1>3, <1>4

\* Merging an event keeps the row, or takes it to a newer revision.
LEMMA MergeIsNewer ==
  ASSUME NEW view \in StockEvents, NEW e \in StockEvents, StockRevisions \subseteq Nat
  PROVE  /\ Merge(view, e) \in {view, e}
         /\ Merge(view, e) \in StockEvents
         /\ Merge(view, e).branch = view.branch
         /\ Merge(view, e).revision >= view.revision
<1>1. view.revision \in Nat /\ e.revision \in Nat
  BY DEF StockEvents
<1>2. CASE Merge(view, e) = view
  BY <1>1, <1>2
<1>3. CASE Merge(view, e) # view
  BY <1>1, <1>3 DEF Merge, NewerForTab
<1> QED BY <1>2, <1>3

\* A snapshot that is merged is not older than what was shown of its branch.
LEMMA SnapshotIsNewer ==
  ASSUME NEW view \in StockEvents, NEW s \in StockEvents, NEW p \in StockRevisions,
         StockRevisions \subseteq Nat
  PROVE  /\ MergeSnapshot(view, s, p) \in StockEvents
         /\ MergeSnapshot(view, s, p).branch = s.branch
         /\ view.branch = s.branch => MergeSnapshot(view, s, p).revision >= view.revision
         /\ MergeSnapshot(view, s, p).revision \in {view.revision, s.revision, p}
         /\ MergeSnapshot(view, s, p).revision = view.revision =>
              view.branch = s.branch \/ view.revision \in {s.revision, p}
<1>1. PICK newest : newest = IF view.branch = s.branch /\ view.revision > s.revision
                             THEN view ELSE s
  OBVIOUS
<1>2. PICK e : e = [branch |-> s.branch, revision |-> p]
  OBVIOUS
<1>3. e \in StockEvents /\ s.branch \in Branches /\ e.revision = p
  BY <1>2 DEF StockEvents
<1>4. /\ newest \in StockEvents /\ newest.branch = s.branch
      /\ view.branch = s.branch => newest.revision >= view.revision
      /\ newest = s \/ (newest = view /\ view.branch = s.branch)
  <2>1. view.revision \in Nat /\ s.revision \in Nat
    BY DEF StockEvents
  <2> QED BY <1>1, <2>1
<1>5. MergeSnapshot(view, s, p) = IF p = 0 THEN newest ELSE Merge(newest, e)
  BY <1>1, <1>2 DEF MergeSnapshot
<1>6. /\ Merge(newest, e) \in {newest, e} /\ Merge(newest, e) \in StockEvents
      /\ Merge(newest, e).branch = newest.branch
      /\ Merge(newest, e).revision >= newest.revision
  BY <1>3, <1>4, MergeIsNewer
<1>7. /\ view.revision \in Nat /\ newest.revision \in Nat /\ Merge(newest, e).revision \in Nat
  BY <1>4, <1>6 DEF StockEvents
<1> QED BY <1>3, <1>4, <1>5, <1>6, <1>7

\* A row that is shown while its branch stays goes forward.
LEMMA SucceedsStep ==
  ASSUME FeedInv, RequestSucceeds
  PROVE  /\ FeedInv'
         /\ tab'.view.branch = tab.view.branch => tab'.view.revision >= tab.view.revision
<1>1. PICK s : s = [branch |-> request.branch, revision |-> request.read]
  OBVIOUS
<1>2. PICK v : v = MergeSnapshot(tab.view, s, tab.pending)
  OBVIOUS
<1>3. PICK k : k = (s.revision > 0)
  OBVIOUS
<1>4. /\ Loading /\ request.read # Nothing /\ request' = Nothing
      /\ tab' = [tab EXCEPT !.active = s.branch, !.known = k, !.view = v]
      /\ UNCHANGED <<stockRow, undelivered, seen, versions, linked, wire, changes, faults>>
  BY <1>1, <1>2, <1>3 DEF RequestSucceeds, realtimeVars
<1>5. /\ request.branch = tab.active /\ request.read <= stockRow[request.branch]
      /\ request.branch \in Branches /\ request.read \in StockRevisions
  BY <1>4, FeedFacts DEF FeedInv, PageIsReal, Loading, Request
<1>6. s \in StockEvents /\ s.branch = tab.active /\ s.revision <= stockRow[tab.active]
  BY <1>1, <1>5 DEF StockEvents
<1>7. k \in BOOLEAN
  BY <1>3
<1>8. /\ v \in StockEvents /\ v.branch = tab.active
      /\ tab.view.branch = s.branch => v.revision >= tab.view.revision
      /\ v.revision \in {tab.view.revision, s.revision, tab.pending}
      /\ v.revision = tab.view.revision =>
           tab.view.branch = s.branch \/ tab.view.revision \in {s.revision, tab.pending}
  BY <1>2, <1>6, FeedFacts, SnapshotIsNewer
<1>9. /\ tab' \in Tab /\ tab'.view = v /\ tab'.active = tab.active
      /\ tab'.pending = tab.pending
  BY <1>4, <1>6, <1>7, <1>8, FeedFacts DEF Tab
<1>10. v.revision <= stockRow[tab.active]
  BY <1>6, <1>8 DEF FeedInv, PageIsReal
<1>11. PageIsReal'
  BY <1>4, <1>8, <1>9, <1>10 DEF FeedInv, PageIsReal, Loading
<1>12. FeedInv'
  BY <1>4, <1>9, <1>11, FeedFacts, QuietWire, DashboardStep
<1> QED BY <1>6, <1>8, <1>9, <1>12

LEMMA ReceiveStep ==
  ASSUME FeedInv, Receive
  PROVE  /\ FeedInv'
         /\ tab'.view.branch = tab.view.branch => tab'.view.revision >= tab.view.revision
<1>1. PICK e : e = Head(wire)
  OBVIOUS
<1>2. /\ wire # <<>> /\ wire' = Tail(wire)
      /\ UNCHANGED <<stockRow, undelivered, seen, versions, linked, changes, faults>>
  BY DEF Receive, realtimeVars
<1>3. /\ e \in StockEvents /\ wire' \in Seq(StockEvents)
      /\ Len(wire') = Len(wire) - 1
      /\ \A n \in 1..Len(wire') : wire'[n] = wire[n + 1]
  BY <1>1, <1>2, FeedFacts, HeadTailProperties
<1>4. DOMAIN wire = 1..Len(wire) /\ Len(wire) \in Nat /\ Len(wire) # 0
  BY <1>2, EmptySeq, FeedFacts
<1>5. \A n \in DOMAIN wire : wire[n].revision <= stockRow[wire[n].branch]
  BY QuietWire
<1>6. \A n \in DOMAIN wire' : wire'[n].revision <= stockRow[wire'[n].branch]
  <2>1. DOMAIN wire' = 1..Len(wire')
    BY <1>3, LenProperties
  <2>2. \A n \in 1..Len(wire') : n + 1 \in DOMAIN wire
    BY <1>3, <1>4
  <2> QED BY <1>3, <1>5, <2>1, <2>2
<1>7. e.revision <= stockRow[e.branch] /\ e.revision \in StockRevisions
  <2>1. e = wire[1] /\ 1 \in DOMAIN wire
    BY <1>1, <1>4
  <2> QED BY <1>3, <1>5, <2>1 DEF StockEvents
<1>8. PICK p : p = IF tab.pending = 0 \/ NewerForTab(tab.pending, e.revision)
                   THEN e.revision ELSE tab.pending
  OBVIOUS
<1>9. PICK noted : noted = [tab EXCEPT !.pending = p]
  OBVIOUS
<1>10. Noted(e) = noted
  BY <1>8, <1>9 DEF Noted
<1>11. p \in StockRevisions
  BY <1>7, <1>8, FeedFacts
<1>12. /\ noted \in Tab /\ noted.view = tab.view /\ noted.active = tab.active
       /\ noted.pending = p
  BY <1>9, <1>11, FeedFacts DEF Tab
<1>13. e.branch = tab.active => p <= stockRow[tab.active]
  BY <1>7, <1>8 DEF FeedInv, PageIsReal
<1>14. CASE UNCHANGED <<tab, request>>
  <2>1. PageIsReal'
    BY <1>2, <1>14 DEF FeedInv, PageIsReal, Loading
  <2>2. FeedInv'
    BY <1>2, <1>3, <1>6, <1>14, <2>1, FeedFacts, DashboardStep
  <2>3. tab.view.revision \in Nat
    BY FeedFacts DEF StockEvents
  <2> QED BY <1>14, <2>2, <2>3
<1>15. CASE e.branch = tab.active /\ Ask(e.branch, noted)
  <2>1. FeedInv' /\ tab'.view = tab.view
    BY <1>2, <1>3, <1>6, <1>12, <1>13, <1>15, FeedFacts, AskStep
  <2>2. tab.view.revision \in Nat
    BY FeedFacts DEF StockEvents
  <2> QED BY <2>1, <2>2
<1>16. CASE /\ e.branch = tab.active /\ UNCHANGED request
            /\ tab' = [noted EXCEPT !.view = Merge(noted.view, e)]
  <2>1. PICK v : v = Merge(tab.view, e)
    OBVIOUS
  <2>2. /\ v \in {tab.view, e} /\ v \in StockEvents /\ v.branch = tab.view.branch
        /\ v.revision >= tab.view.revision
    BY <1>3, <2>1, FeedFacts, MergeIsNewer
  <2>3. tab' = [noted EXCEPT !.view = v]
    BY <1>12, <1>16, <2>1
  <2>4. /\ tab' \in Tab /\ tab'.view = v /\ tab'.active = tab.active /\ tab'.pending = p
    BY <1>12, <2>2, <2>3 DEF Tab
  <2>5. v.revision <= stockRow[v.branch]
    BY <1>7, <2>2 DEF FeedInv, PageIsReal
  <2>6. PageIsReal'
    BY <1>2, <1>13, <1>16, <2>4, <2>5 DEF FeedInv, PageIsReal, Loading
  <2>7. FeedInv'
    BY <1>2, <1>3, <1>6, <1>16, <2>4, <2>6, FeedFacts, DashboardStep
  <2> QED BY <2>2, <2>4, <2>7
<1>17. \/ UNCHANGED <<tab, request>>
       \/ e.branch = tab.active /\ Ask(e.branch, noted)
       \/ /\ e.branch = tab.active /\ UNCHANGED request
          /\ tab' = [noted EXCEPT !.view = Merge(noted.view, e)]
  BY <1>1, <1>10 DEF Receive
<1> QED BY <1>14, <1>15, <1>16, <1>17

------------------------------------------------------------------------------
\* The dashboard: the invariant, and what it implies.

LEMMA FeedStarts == FeedInit => FeedInv
<1> SUFFICES ASSUME FeedInit PROVE FeedInv
  OBVIOUS
<1>1. MaxChanges \in Nat /\ Remembered \in Nat /\ MaxFaults \in Nat
  BY StockFeedAssumption DEF StockFeedAssumption
<1>2. /\ \A b \in Branches : stockRow[b] \in {0, 1} /\ stockRow[b] \in StockRevisions
      /\ stockRow \in [Branches -> StockRevisions] /\ 0 \in StockRevisions
  BY <1>1 DEF FeedInit, StockRevisions
<1>3. PICK b \in Branches :
        tab = [view |-> [branch |-> b, revision |-> stockRow[b]], active |-> b,
               known |-> stockRow[b] > 0, pending |-> 0, error |-> FALSE,
               status |-> "connecting", online |-> TRUE]
  BY DEF FeedInit
<1>4. /\ tab \in Tab /\ tab.view.branch = b /\ tab.view.revision = stockRow[b]
      /\ tab.active = b /\ tab.pending = 0
  <2>1. PICK k : k = (stockRow[b] > 0)
    OBVIOUS
  <2>2. k \in BOOLEAN
    BY <2>1
  <2>3. PICK e : e = [branch |-> b, revision |-> stockRow[b]]
    OBVIOUS
  <2>4. e \in StockEvents /\ e.branch = b /\ e.revision = stockRow[b]
    BY <1>2, <2>3 DEF StockEvents
  <2>5. tab = [view |-> e, active |-> b, known |-> k, pending |-> 0, error |-> FALSE,
               status |-> "connecting", online |-> TRUE]
    BY <1>3, <2>1, <2>3
  <2> QED BY <1>2, <2>2, <2>4, <2>5 DEF Tab
<1>5. <<>> \in Seq(StockEvents) /\ Len(<<>>) = 0 /\ DOMAIN <<>> = {}
  BY EmptySeq
<1>6. FeedTypeOK
  <2>1. /\ seen = <<>> /\ versions = <<>> /\ wire = <<>> /\ undelivered = {}
        /\ linked = FALSE /\ request = Nothing /\ changes = 0 /\ faults = 0
    BY DEF FeedInit
  <2>2. /\ seen \in Seq(StockEvents) /\ Len(seen) <= Remembered
        /\ versions \in Seq(StockEvents) /\ Len(versions) <= Remembered
        /\ wire \in Seq(StockEvents)
    BY <1>1, <1>5, <2>1
  <2>3. changes \in 0..MaxChanges /\ faults \in 0..MaxFaults
    BY <1>1, <2>1
  <2> QED BY <1>2, <1>4, <2>1, <2>2, <2>3 DEF FeedTypeOK
<1>7. RowsAreBounded /\ EventsAreReal
  BY <1>2, <1>5 DEF FeedInit, RowsAreBounded, EventsAreReal
<1>8. PageIsReal
  BY <1>2, <1>4 DEF FeedInit, PageIsReal, Loading
<1> QED BY <1>6, <1>7, <1>8 DEF FeedInv

\* Every step keeps the invariant, and no row that stays goes back.
LEMMA FeedGoesOn ==
  ASSUME FeedInv, [FeedNext]_feedVars
  PROVE  /\ FeedInv'
         /\ tab'.view.branch = tab.view.branch => tab'.view.revision >= tab.view.revision
<1>1. tab.view.revision \in Nat
  BY FeedFacts DEF StockEvents
<1>2. ASSUME NEW b \in Branches, RowChanges(b)
      PROVE  FeedInv' /\ tab' = tab
  BY <1>2, RowChangesStep DEF RowChanges
<1>3. CASE Consume
  <2>1. FeedInv' /\ tab' = tab
    BY <1>3, ConsumeStep DEF Consume, Broadcast, Skip
  <2> QED BY <1>1, <2>1
<1>4. CASE RealtimeRestarts \/ LinkBreaks
  <2>1. FeedInv' /\ tab' = tab
    BY <1>4, BreakStep DEF RealtimeRestarts, LinkBreaks
  <2> QED BY <1>1, <2>1
<1>5. CASE \/ SocketConnects \/ NoticesDisconnect \/ Poll \/ GoesOnline
           \/ \E b \in Branches : Select(b)
  BY <1>1, <1>5, PageAsks
<1>6. CASE GoesOffline \/ InventoryAnswers \/ RequestFails
  BY <1>1, <1>6, OfflineStep, AnswerStep
<1>7. CASE RequestSucceeds \/ Receive
  BY <1>7, SucceedsStep, ReceiveStep
<1>8. CASE UNCHANGED feedVars
  <2>1. /\ UNCHANGED <<stockRow, undelivered, seen, versions, changes, linked, wire, faults,
                       tab, request>>
    BY <1>8 DEF feedVars, realtimeVars
  <2>2. PageIsReal'
    BY <2>1 DEF FeedInv, PageIsReal, Loading
  <2>3. FeedInv'
    BY <2>1, <2>2, FeedFacts, QuietWire, DashboardStep
  <2> QED BY <1>1, <2>1, <2>3
<1> QED BY <1>1, <1>2, <1>3, <1>4, <1>5, <1>6, <1>7, <1>8 DEF FeedNext

\* Queue, wire, page and request tell of revisions their row has had, whatever
\* is lost, forgotten or late.
THEOREM FeedInvariant == FeedSpec => []FeedInv
<1>1. FeedInv /\ [FeedNext]_feedVars => FeedInv'
  BY FeedGoesOn
<1> QED BY <1>1, FeedStarts, PTL DEF FeedSpec

\* While a branch stays on the screen its row never goes back to an older state.
THEOREM ScreenNeverGoesBack == FeedSpec => DashboardNeverGoesBack
<1>1. FeedInv /\ [FeedNext]_feedVars =>
        [tab'.view.branch = tab.view.branch =>
           tab'.view.revision >= tab.view.revision]_feedVars
  BY FeedGoesOn
<1> QED BY <1>1, FeedInvariant, PTL DEF FeedSpec, DashboardNeverGoesBack

==============================================================================

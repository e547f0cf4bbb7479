------------------------- MODULE AddressResolution -------------------------
(***************************************************************************)
(* POST /pipeline/resolve-address of the geometry sidecar: geocode, parcel *)
(* and building footprints, each behind an in-process cache with a time to *)
(* live, for requests that FastAPI serves on threads of one process.  The  *)
(* index of the footprint dataset is downloaded once per process under a   *)
(* lock.  A request ends with the answer Rails sees.                       *)
(***************************************************************************)
EXTENDS SidecarWorld, Integers, FiniteSets

CONSTANTS
  Addresses,      \* normalised addresses (the cache key)
  Locations,      \* points Nominatim may answer with
  Geocodes,       \* address -> locations Nominatim may give it
  Tiles,          \* quadkeys at zoom 9
  TileOf,         \* location -> quadkey
  PublishedTiles, \* quadkeys with a row in the dataset index
  TileHolds,      \* quadkey -> buildings of its file
  InParcel,       \* location -> buildings that intersect its parcel
  NearBy,         \* location -> buildings within 50 m
  ParcelKnown,    \* locations Regrid has a parcel for
  HasRegridKey,   \* REGRID_API_KEY is set
  MaxEdition      \* bound on how often the dataset is published again

ASSUME ResolveAssumption ==
  /\ NoValue \notin Requests \cup Locations \cup Nat
  /\ Geocodes \in [Addresses -> (SUBSET Locations) \ {{}}]
  /\ TileOf \in [Locations -> Tiles]
  /\ PublishedTiles \subseteq Tiles
  /\ TileHolds \in [Tiles -> SUBSET Buildings]
  /\ InParcel \in [Locations -> SUBSET Buildings]
  /\ NearBy \in [Locations -> SUBSET Buildings]
  /\ ParcelKnown \subseteq Locations
  /\ HasRegridKey \in BOOLEAN
  /\ MaxEdition \in Nat

VARIABLES
  geocodeCache, parcelCache, footprintCache,
  edition,         \* the edition of the footprint dataset that is published
  index,           \* _index_by_quadkey: the edition it lists, or NoValue
  indexLock,       \* the request inside _index_lock, or NoValue
  req              \* request -> its local state and answer

resolveVars ==
  <<geocodeCache, parcelCache, footprintCache, edition, index, indexLock, req>>

Steps == {"idle", "geocode", "nominatim", "parcel", "regrid", "footprints",
          "resolve_tile", "lock", "index", "tile", "done"}
Answers == {"none", "ok", "geocode_failed", "fetch_failed", "no_buildings", "lost"}

Request ==
  [step: Steps, address: Addresses \cup {NoValue}, geo: Locations \cup {NoValue},
   parcel: BOOLEAN, parcelWarning: BOOLEAN, buildings: SUBSET Buildings,
   answer: Answers]

NewRequest(step, a) ==
  [step |-> step, address |-> a, geo |-> NoValue, parcel |-> FALSE,
   parcelWarning |-> FALSE, buildings |-> {}, answer |-> "none"]

Cache(K, V) == [K -> V \cup {NoValue}]
Empty(K) == [k \in K |-> NoValue]

\* InMemoryTTLCache.get: a hit, or a miss that deletes an entry past its time to
\* live.  How long that is is left open: an entry may be past it at any get.
Hit(cache, k) == cache[k] # NoValue
Drop(cache, k) == [cache EXCEPT ![k] = NoValue]
Put(cache, k, v) == [cache EXCEPT ![k] = v]

\* The buildings fetch_footprints selects at a location, with or without a parcel.
Select(l, parcel) ==
  TileHolds[TileOf[l]] \cap IF parcel THEN InParcel[l] ELSE NearBy[l]

ResolveInit ==
  /\ geocodeCache = Empty(Addresses)
  /\ parcelCache = Empty(Locations)
  /\ footprintCache = Empty(Addresses)
  /\ edition = 0
  /\ index = NoValue
  /\ indexLock = NoValue
  /\ req = [r \in Requests |-> NewRequest("idle", NoValue)]

Idle(r) == req[r].step \in {"idle", "done"}
Goto(r, step) == req' = [req EXCEPT ![r].step = step]
\* An error answer carries nothing but its status.
Refused(answer) == [NewRequest("done", NoValue) EXCEPT !.answer = answer]
Finish(r, answer) == req' = [req EXCEPT ![r] = Refused(answer)]

\* The selection is answered, or refused when it is empty.
Assembled(q, bs) ==
  [q EXCEPT !.step = "done", !.buildings = bs,
            !.answer = IF bs = {} THEN "no_buildings" ELSE "ok"]

\* A request for an address arrives.
Receive(r, a) ==
  /\ Idle(r)
  /\ req' = [req EXCEPT ![r] = NewRequest("geocode", a)]
  /\ UNCHANGED <<geocodeCache, parcelCache, footprintCache, edition, index, indexLock>>

Geocode(r) ==
  /\ req[r].step = "geocode"
  /\ LET a == req[r].address IN
     \/ /\ Hit(geocodeCache, a)
        /\ req' = [req EXCEPT ![r].step = "parcel", ![r].geo = geocodeCache[a]]
        /\ UNCHANGED geocodeCache
     \/ Goto(r, "nominatim") /\ geocodeCache' = Drop(geocodeCache, a)
  /\ UNCHANGED <<parcelCache, footprintCache, edition, index, indexLock>>

NominatimAnswers(r) ==
  /\ req[r].step = "nominatim"
  /\ \E l \in Geocodes[req[r].address] :
       /\ req' = [req EXCEPT ![r].step = "parcel", ![r].geo = l]
       /\ geocodeCache' = Put(geocodeCache, req[r].address, l)
  /\ UNCHANGED <<parcelCache, footprintCache, edition, index, indexLock>>

\* A transport error, a status other than 200 or an empty list: GeocodeError, 422.
NominatimFails(r) ==
  /\ req[r].step = "nominatim"
  /\ Finish(r, "geocode_failed")
  /\ UNCHANGED <<geocodeCache, parcelCache, footprintCache, edition, index, indexLock>>

LookUpParcel(r) ==
  /\ req[r].step = "parcel"
  /\ LET l == req[r].geo IN
     \/ /\ Hit(parcelCache, l)
        /\ req' = [req EXCEPT ![r].step = "footprints", ![r].parcel = TRUE]
        /\ UNCHANGED parcelCache
     \/ Goto(r, "regrid") /\ parcelCache' = Drop(parcelCache, l)
  /\ UNCHANGED <<geocodeCache, footprintCache, edition, index, indexLock>>

RegridAnswers(r) ==
  /\ req[r].step = "regrid"
  /\ HasRegridKey /\ req[r].geo \in ParcelKnown
  /\ parcelCache' = Put(parcelCache, req[r].geo, TRUE)
  /\ req' = [req EXCEPT ![r].step = "footprints", ![r].parcel = TRUE]
  /\ UNCHANGED <<geocodeCache, footprintCache, edition, index, indexLock>>

\* Faulty variant: what was answered without a parcel is remembered as one.
RegridDegradesCached(r) ==
  /\ req[r].step = "regrid"
  /\ parcelCache' = Put(parcelCache, req[r].geo, TRUE)
  /\ req' = [req EXCEPT ![r].step = "footprints", ![r].parcelWarning = TRUE]
  /\ UNCHANGED <<geocodeCache, footprintCache, edition, index, indexLock>>

\* No key, no parcel, or a RegridError: the request goes on with a warning.
RegridDegrades(r) ==
  /\ req[r].step = "regrid"
  /\ req' = [req EXCEPT ![r].step = "footprints", ![r].parcelWarning = TRUE]
  /\ UNCHANGED <<geocodeCache, parcelCache, footprintCache, edition, index, indexLock>>

LookUpFootprints(r) ==
  /\ req[r].step = "footprints"
  /\ LET a == req[r].address IN
     \/ /\ Hit(footprintCache, a)
        /\ req' = [req EXCEPT ![r] = Assembled(@, footprintCache[a])]
        /\ UNCHANGED footprintCache
     \/ Goto(r, "resolve_tile") /\ footprintCache' = Drop(footprintCache, a)
  /\ UNCHANGED <<geocodeCache, parcelCache, edition, index, indexLock>>

\* The first, lock-free test of _load_dataset_index.
TestIndex(r) ==
  /\ req[r].step = "resolve_tile"
  /\ Goto(r, IF index # NoValue THEN "tile" ELSE "lock")
  /\ UNCHANGED <<geocodeCache, parcelCache, footprintCache, edition, index, indexLock>>

\* Faulty variant: no second test.
LockIndexUntested(r) ==
  /\ req[r].step = "lock"
  /\ indexLock = NoValue
  /\ Goto(r, "index") /\ indexLock' = r
  /\ UNCHANGED <<geocodeCache, parcelCache, footprintCache, edition, index>>

\* The second test, made with the lock held.
LockIndex(r) ==
  /\ req[r].step = "lock"
  /\ indexLock = NoValue
  /\ IF index # NoValue
     THEN Goto(r, "tile") /\ UNCHANGED indexLock
     ELSE Goto(r, "index") /\ indexLock' = r
  /\ UNCHANGED <<geocodeCache, parcelCache, footprintCache, edition, index>>

IndexAnswers(r) ==
  /\ req[r].step = "index"
  /\ index' = edition
  /\ indexLock' = NoValue
  /\ Goto(r, "tile")
  /\ UNCHANGED <<geocodeCache, parcelCache, footprintCache, edition>>

\* Faulty variant: the lock is not released on an error.
IndexFailsLocked(r) ==
  /\ req[r].step = "index"
  /\ Finish(r, "fetch_failed")
  /\ UNCHANGED <<geocodeCache, parcelCache, footprintCache, edition, index, indexLock>>

\* FootprintError leaves the lock and the index stays unloaded.
IndexFails(r) ==
  /\ req[r].step = "index"
  /\ indexLock' = NoValue
  /\ Finish(r, "fetch_failed")
  /\ UNCHANGED <<geocodeCache, parcelCache, footprintCache, edition, index>>

\* The buildings a tile yields: none where the index has no row, and none where
\* the row is of an older edition, whose dated path answers 404.
Fetched(q) ==
  IF TileOf[q.geo] \in PublishedTiles /\ index = edition
  THEN Select(q.geo, q.parcel) ELSE {}

Footprints(r, bs) ==
  /\ footprintCache' = Put(footprintCache, req[r].address, bs)
  /\ req' = [req EXCEPT ![r] = Assembled(@, bs)]

TileAnswers(r) ==
  /\ req[r].step = "tile"
  /\ Footprints(r, Fetched(req[r]))
  /\ UNCHANGED <<geocodeCache, parcelCache, edition, index, indexLock>>

\* Faulty variant: any error passes for a tile without buildings.
TileFailsEmpty(r) ==
  /\ req[r].step = "tile"
  /\ TileOf[req[r].geo] \in PublishedTiles
  /\ Footprints(r, {})
  /\ UNCHANGED <<geocodeCache, parcelCache, edition, index, indexLock>>

\* Anything but a 404 of a published tile is a FootprintError, never an empty list.
TileFails(r) ==
  /\ req[r].step = "tile"
  /\ TileOf[req[r].geo] \in PublishedTiles
  /\ Finish(r, "fetch_failed")
  /\ UNCHANGED <<geocodeCache, parcelCache, footprintCache, edition, index, indexLock>>

\* The publisher moves every tile to the dated paths of a new edition.
Republish ==
  /\ edition < MaxEdition
  /\ edition' = edition + 1
  /\ UNCHANGED <<geocodeCache, parcelCache, footprintCache, index, indexLock, req>>

\* The process dies: what it remembered is gone, what it was serving is cut off.
ResolveRestart ==
  /\ geocodeCache' = Empty(Addresses)
  /\ parcelCache' = Empty(Locations)
  /\ footprintCache' = Empty(Addresses)
  /\ index' = NoValue
  /\ indexLock' = NoValue
  /\ req' = [r \in Requests |->
               IF Idle(r) THEN req[r]
               ELSE Refused("lost")]
  /\ UNCHANGED edition

ResolveStep(r) ==
  \/ Geocode(r) \/ NominatimAnswers(r) \/ NominatimFails(r)
  \/ LookUpParcel(r) \/ RegridAnswers(r) \/ RegridDegrades(r)
  \/ LookUpFootprints(r) \/ TestIndex(r) \/ LockIndex(r)
  \/ IndexAnswers(r) \/ IndexFails(r) \/ TileAnswers(r) \/ TileFails(r)
=============================================================================

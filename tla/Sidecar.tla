------------------------------ MODULE Sidecar ------------------------------
(***************************************************************************)
(* The sidecar process as Rails uses it: each caller resolves an address   *)
(* and then ingests LiDAR for one of the buildings it was given, over the  *)
(* caches, the locks and the stored arrays all callers share.  The         *)
(* geometry stages share nothing and keep nothing between calls, so one    *)
(* call of each, made in a process that serves no other, shows all of it.  *)
(***************************************************************************)
EXTENDS AddressResolution, LidarIngest, OutlineRefinement, PlaneFit, FuseCapture,
        PhotoOverlay, SidecarBoot

CONSTANT AddressesOf   \* caller -> the addresses its job may have

ASSUME CallerAssumption == AddressesOf \in [Requests -> SUBSET Addresses]

callVars == <<resolveVars, ingestVars>>
stageVars == <<refine, fit, fuse, photo, boot>>
vars == <<callVars, stageVars>>

CallsInit == ResolveInit /\ IngestInit
NoStage == RefineInit /\ FitInit /\ FuseInit /\ PhotoInit /\ BootInit
Init == CallsInit /\ NoStage

\* A caller sends an address, again when its pipeline retries a stage that failed.
Resolve(r) ==
  /\ req[r].answer # "ok"
  /\ \E a \in AddressesOf[r] : Receive(r, a)
  /\ UNCHANGED ingestVars

\* measurement_orchestrator.rb sends a polygon it was given in the answer.
IngestChosen(r) ==
  /\ req[r].answer = "ok"
  /\ ing[r].answer \in {"none", "failed", "lost"}
  /\ \E b \in req[r].buildings : ReceiveIngest(r, b)
  /\ UNCHANGED resolveVars

Serve(r) ==
  \/ ResolveStep(r) /\ UNCHANGED ingestVars
  \/ IngestStep(r) /\ UNCHANGED resolveVars

Restart == ResolveRestart /\ IngestRestart

World == Republish /\ UNCHANGED ingestVars

Calls ==
  /\ NoStage
  /\ (\E r \in Requests : Resolve(r) \/ IngestChosen(r) \/ Serve(r)) \/ Restart \/ World
  /\ UNCHANGED stageVars

\* A geometry stage is called, or a process starts.
StageArrives ==
  /\ CallsInit /\ NoStage
  /\ \/ StartRefine /\ UNCHANGED <<fit, fuse, photo, boot>>
     \/ FitArrives /\ UNCHANGED <<refine, fuse, photo, boot>>
     \/ StartFuse /\ UNCHANGED <<refine, fit, photo, boot>>
     \/ StartPhoto /\ UNCHANGED <<refine, fit, fuse, boot>>
     \/ Boot /\ UNCHANGED <<refine, fit, fuse, photo>>
  /\ UNCHANGED callVars

StageStep ==
  /\ \/ RefineStep /\ UNCHANGED <<fit, fuse, photo, boot>>
     \/ FitStep /\ UNCHANGED <<refine, fuse, photo, boot>>
     \/ FuseStep /\ UNCHANGED <<refine, fit, photo, boot>>
     \/ PhotoStep /\ UNCHANGED <<refine, fit, fuse, boot>>
     \/ CallStage /\ UNCHANGED <<refine, fit, fuse, photo>>
  /\ UNCHANGED callVars

Next == Calls \/ StageArrives \/ StageStep

Spec == Init /\ [][Next]_vars

\* Every upstream call carries a timeout, so every started step of a request ends;
\* a thread that finds the lock free again and again gets it.
FairSpec ==
  /\ Spec
  /\ \A r \in Requests :
       /\ WF_vars(NoStage /\ Serve(r) /\ UNCHANGED stageVars)
       /\ SF_vars(NoStage /\ LockIndex(r) /\ UNCHANGED <<ingestVars, stageVars>>)
  /\ WF_vars(fit.step # "model" /\ StageStep)   \* the model is one computation, no loop

TypeOK ==
  /\ edition \in 0..MaxEdition
  /\ geocodeCache \in Cache(Addresses, Locations)
  /\ parcelCache \in Cache(Locations, {TRUE})
  /\ footprintCache \in Cache(Addresses, SUBSET Buildings)
  /\ index \in 0..edition \cup {NoValue}
  /\ indexLock \in Requests \cup {NoValue}
  /\ req \in [Requests -> Request]
  /\ eptIndexLoaded \in BOOLEAN
  /\ blobs \in [Buildings -> Nat \cup {NoValue}]
  /\ ing \in [Requests -> Ingest]

\* The index of the footprint dataset is large: one download at a time, none once a
\* thread of this process has it (the test inside the lock), and nobody holds the lock
\* who is not downloading, so that a failed download cannot block the other threads.
OneIndexDownload ==
  \A r \in Requests :
    /\ req[r].step = "index" => indexLock = r /\ index = NoValue
    /\ indexLock = r => req[r].step = "index"

\* Selections a request for address a may be given, at any point Nominatim has for it.
Selections(a) ==
  {Select(l, p) : l \in {x \in Geocodes[a] : TileOf[x] \in PublishedTiles}, p \in BOOLEAN}

\* Whatever the caches, the restarts and the other callers do, an answer lists
\* buildings of its own address, and an error of an upstream service never turns
\* into "no buildings": that answer needs an empty selection, a quadkey without a
\* row, or tiles that were published again after the index was read.
AnswersItsAddress ==
  \A r \in Requests :
    LET a == req[r].address IN
    /\ req[r].answer = "ok" => req[r].buildings \in Selections(a) \ {{}}
    /\ req[r].answer = "no_buildings" =>
         \/ {} \in Selections(a)
         \/ \E l \in Geocodes[a] : TileOf[l] \notin PublishedTiles
         \/ edition > 0

\* The answer has a parcel or says that it has none, and a parcel is one that Regrid
\* has at the point the answer gives: never another point's, never out of an error.
ParcelIsHonest ==
  \A r \in Requests :
    req[r].answer \in {"ok", "no_buildings"} =>
      /\ req[r].parcel # req[r].parcelWarning
      /\ req[r].parcel => HasRegridKey /\ req[r].geo \in ParcelKnown

\* LIDAR_MISSING makes Rails fall back to imagery for good, so it must rest on the
\* data: no unit covers the roof, or every resource tried is absent (with the warning
\* when the index was not there to be asked), or the one read has no roof.  A read error
\* counts as a gap where its text holds a marker and nowhere else (lidar/ingest.py:76,
\* :169): a resource that cannot be mistaken for an absent one is never passed over.
MissingIsAGap ==
  LET Unmistakable == Published \ Mistakable IN
  \A r \in Requests :
    LET b == ing[r].building IN
    ing[r].answer = "missing" =>
      \/ Covering[b] = <<>>
      \/ /\ \A i \in DOMAIN Covering[b] : NameGuess[Covering[b][i]] \notin Unmistakable
         /\ \/ "ept_index_unavailable" \in ing[r].warnings
            \/ \A i \in DOMAIN Resolved[b] : Resolved[b][i] \notin Unmistakable
      \/ \E x \in Published : RoofPoints(Cloud[x][b]) = 0 /\ ing[r].resource = x

\* Every call is answered or cut off, also behind the index lock and however often
\* planes are peeled and merged.
EveryCallEnds ==
  /\ \A r \in Requests : (~Idle(r) \/ ~IngestIdle(r)) ~> (Idle(r) /\ IngestIdle(r))
  /\ (RefineBusy \/ FitLoops \/ FuseBusy \/ PhotoBusy)
       ~> ~(RefineBusy \/ FitLoops \/ FuseBusy \/ PhotoBusy)
=============================================================================

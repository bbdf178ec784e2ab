------------------------ MODULE HeightfieldPipeline ------------------------
(***************************************************************************)
(* How a heightfield gets from its path to the DMAP texture: the GUI sets  *)
(* a path on RenderScene and TerrainRenderer, the next update() posts it   *)
(* in the one-slot mailbox of HeightfieldTextureLoader, the worker thread  *)
(* decodes it, and later updates take the results, restore them from the   *)
(* cache or queue them, and upload one per frame.                          *)
(*                                                                         *)
(* GUI and frames run on one thread (main.cpp selects the basic render     *)
(* loop); the worker interleaves with every step of update() (pc).  A load *)
(* or a clear is told from the others by its stamp, the value of loads     *)
(* that it leaves; a map is named by the path and the load it came from.   *)
(***************************************************************************)
EXTENDS Integers, Sequences, FiniteSets

CONSTANTS
    Paths,       \* files a heightfield can be loaded from
    NoPath,      \* the empty path
    MaxCache,    \* m_maxCacheSize
    GpuDecode,   \* canUseGpuHeightfieldDecode()
    MaxLoads     \* bound: loads and clears by the GUI

ASSUME PipelineAssumption ==
    /\ NoPath \notin Paths
    /\ MaxCache \in Nat \ {0}
    /\ GpuDecode \in BOOLEAN
    /\ MaxLoads \in Nat

VARIABLES
    \* TerrainRenderer, and what RenderScene keeps beside it
    path,             \* m_heightfieldPath
    loads,            \* loads and clears so far: the stamp of path
    needReload,       \* m_heightfieldNeedReload
    diffuseReload,    \* m_diffuseNeedReload
    firstFrame,       \* m_firstFrameRendered
    ready,            \* m_heightfieldReady
    autoFit,          \* RenderScene::m_autoFitPending
    fitted,           \* stamp of the map the camera was last fitted to
    dmap,             \* the DMAP texture and how it was made
    uploads,          \* m_asyncUploadQueue
    decodes,          \* m_pendingHeightfieldGpuDecodes
    cache,            \* m_textureCache's paths, least recently used first
    taken,            \* stamp of the last result taken from the loader
    \* HeightfieldTextureLoader
    request,          \* m_pendingRequest, <<>> unless m_hasRequest
    worker,           \* the thread
    decoding,         \* the request it works on
    results,          \* m_loadedRequests
    shouldStop,       \* m_shouldStop
    pc                \* the next step of update() or shutdown()

view     == <<path, loads, needReload, diffuseReload, firstFrame, autoFit, fitted>>
shown    == <<ready, dmap>>
queues   == <<uploads, decodes, cache, taken>>
loader   == <<request, worker, decoding, results, shouldStop>>
vars     == <<view, shown, queues, loader, pc>>

AnyPath == Paths \cup {NoPath}
Stamps  == 0 .. MaxLoads
Request == [path : AnyPath, stamp : Stamps]
Result  == [path : AnyPath, stamp : Stamps, raw : BOOLEAN]
Texture == [path : AnyPath, stamp : Stamps,
            from : {"none", "upload", "cache", "gpu"}]

Map(r, how) == [path |-> r.path, stamp |-> r.stamp, from |-> how]
NoMap       == [path |-> NoPath, stamp |-> 0, from |-> "none"]

AtMostOne(S) == {<<>>} \cup {<<x>> : x \in S}

TypeOK ==
    /\ path \in AnyPath
    /\ {loads, fitted, taken} \subseteq Stamps
    /\ {needReload, diffuseReload, firstFrame, ready, autoFit, shouldStop} \subseteq BOOLEAN
    /\ dmap \in Texture
    /\ uploads \in Seq(Result)
    /\ decodes \in AtMostOne(Result)
    /\ cache \in Seq(AnyPath)
    /\ request \in AtMostOne(Request)
    /\ decoding \in AtMostOne(Request)
    /\ worker = "decoding" <=> decoding # <<>>
    /\ worker \in {"none", "waiting", "decoding", "exited"}
    /\ results \in Seq(Result)
    /\ pc \in {"idle", "results", "upload", "decode", "reload", "join", "gone"}
-----------------------------------------------------------------------------
(***************************************************************************)
(* The GUI side                                                            *)
(***************************************************************************)

(* RenderScene::loadHeightfield and loadHeightfieldFromFile.               *)
LoadHeightfield(p) ==
    /\ pc = "idle"
    /\ loads < MaxLoads
    /\ path' = p
    /\ loads' = loads + 1
    /\ needReload' = TRUE
    /\ ready' = FALSE
    /\ autoFit' = TRUE
    /\ UNCHANGED <<diffuseReload, firstFrame, fitted, dmap, queues, loader, pc>>

(* clearHeightfield: what the frames have queued is dropped, what the      *)
(* worker has is not.                                                      *)
ClearHeightfield ==
    /\ pc = "idle"
    /\ loads < MaxLoads
    /\ path' = NoPath
    /\ loads' = loads + 1
    /\ needReload' = TRUE
    /\ ready' = FALSE
    /\ autoFit' = FALSE
    /\ decodes' = <<>>
    /\ uploads' = <<>>
    /\ dmap' = NoMap
    /\ UNCHANGED <<diffuseReload, firstFrame, fitted, cache, taken, loader, pc>>

(* loadDiffuseFromFile, clearDiffuse: loadTextures will also load the      *)
(* heightfield again.                                                      *)
LoadDiffuse ==
    /\ pc = "idle"
    /\ ~diffuseReload
    /\ diffuseReload' = TRUE
    /\ UNCHANGED <<path, loads, needReload, firstFrame, autoFit, fitted, shown,
                   queues, loader, pc>>
-----------------------------------------------------------------------------
(***************************************************************************)
(* update(), step by step                                                  *)
(***************************************************************************)

(* ensureValidResources finds its handles valid: RenderDevice::release     *)
(* keeps bgfx alive, so the generation does not change under a renderer,   *)
(* and an init that failed is repeated before the first update only.       *)
BeginUpdate ==
    /\ pc = "idle"
    /\ pc' = "results"
    /\ UNCHANGED <<view, shown, queues, loader>>

Cached(p) == \E i \in 1 .. Len(cache) : cache[i] = p

Without(c, i) == SubSeq(c, 1, i - 1) \o SubSeq(c, i + 1, Len(c))

(* A use of p makes it the newest entry, whether it was one or not.        *)
Used(c, p) ==
    IF \E i \in 1 .. Len(c) : c[i] = p
      THEN Append(Without(c, CHOOSE i \in 1 .. Len(c) : c[i] = p), p)
      ELSE Append(c, p)

OnlyDecode(r) == <<r>>

QueuedFirst(r) == <<r>> \o uploads     \* mutant: a stack for a queue

QueuedLast(r) == Append(uploads, r)

(* uploadLoadedTexture of the oldest result.  A texture that cannot be     *)
(* made from the cache leaves the old one, and the result goes on.         *)
TakeResult(created) ==
    /\ pc = "results"
    /\ results # <<>>
    /\ results' = Tail(results)
    /\ LET r == Head(results) IN
         /\ taken' = r.stamp
         /\ cache' = IF Cached(r.path) THEN Used(cache, r.path) ELSE cache
         /\ \/ /\ Cached(r.path) /\ created
               /\ dmap' = Map(r, "cache")
               /\ ready' = TRUE
               /\ UNCHANGED <<uploads, decodes>>
            \/ /\ Cached(r.path) => ~created
               /\ uploads' = IF r.raw THEN uploads ELSE QueuedLast(r)
               /\ decodes' = IF r.raw THEN OnlyDecode(r) ELSE decodes
               /\ UNCHANGED shown
    /\ UNCHANGED <<view, request, worker, decoding, shouldStop, pc>>

NoMoreResults ==
    /\ pc = "results"
    /\ results = <<>>
    /\ pc' = "upload"
    /\ UNCHANGED <<view, shown, queues, loader>>

PrunedLate(c) ==    \* mutant: > for >=
    IF Len(c) > MaxCache /\ Head(c) # NoPath THEN Tail(c) ELSE c

(* pruneCache, if the cache is full.  The empty path is a key like any     *)
(* other, and is also how pruneCache says that it found none.              *)
Pruned(c) == IF Len(c) >= MaxCache /\ Head(c) # NoPath THEN Tail(c) ELSE c

(* processAsyncUploads, one task a frame.  The texture replaces the old    *)
(* one whether it could be created or not.                                 *)
UploadTask ==
    /\ pc = "upload"
    /\ pc' = "decode"
    /\ IF uploads = <<>>
         THEN UNCHANGED <<uploads, shown, cache>>
         ELSE /\ uploads' = Tail(uploads)
              /\ dmap' = Map(Head(uploads), "upload")
              /\ ready' = (path # NoPath)
              /\ cache' = Used(Pruned(cache), Head(uploads).path)
    /\ UNCHANGED <<view, decodes, taken, loader>>

(* processPendingGpuDecodes: if a texture cannot be created the previous   *)
(* map stays.                                                              *)
DispatchDecode(created) ==
    /\ pc = "decode"
    /\ pc' = "reload"
    /\ decodes' = <<>>
    /\ IF decodes # <<>> /\ created
         THEN /\ dmap' = Map(Head(decodes), "gpu")
              /\ ready' = (path # NoPath)
         ELSE UNCHANGED shown
    /\ UNCHANGED <<view, uploads, cache, taken, loader>>

NeedsLoad == needReload \/ diffuseReload \/ ~firstFrame

(* The end of update(): loadTextures, where                                *)
(* HeightfieldTextureLoader::loadTexture overwrites what the worker has    *)
(* not picked up and starts the worker on first use; then RenderScene's    *)
(* applyAutoFitIfNeeded.                                                   *)
Reload ==
    /\ pc = "reload"
    /\ pc' = "idle"
    /\ IF NeedsLoad
         THEN /\ request' = <<[path |-> path, stamp |-> loads]>>
              /\ worker' = IF worker = "none" THEN "waiting" ELSE worker
         ELSE UNCHANGED <<request, worker>>
    /\ needReload' = FALSE
    /\ diffuseReload' = FALSE
    /\ firstFrame' = TRUE
    /\ IF autoFit /\ ready THEN autoFit' = FALSE /\ fitted' = dmap.stamp
                           ELSE UNCHANGED <<autoFit, fitted>>
    /\ UNCHANGED <<path, loads, shown, queues, decoding, results, shouldStop>>
-----------------------------------------------------------------------------
(***************************************************************************)
(* The worker thread: HeightfieldTextureLoader::run                        *)
(***************************************************************************)
WorkerTake ==
    /\ worker = "waiting"
    /\ ~shouldStop
    /\ request # <<>>
    /\ decoding' = request
    /\ request' = <<>>
    /\ worker' = "decoding"
    /\ UNCHANGED <<view, shown, queues, results, shouldStop, pc>>

ForgetsRequest == <<>>      \* mutant: m_hasRequest is reset after decoding

KeepsRequest == request

PushedFirst(r) == <<r>> \o results    \* mutant: the newest result is taken first

PushedLast(r) == Append(results, r)

(* loadImageData, and the result pushed.  A file that cannot be read is    *)
(* a result too, a flat map; only files give raw data for the GPU.         *)
WorkerDecode(raw) ==
    /\ worker = "decoding"
    /\ LET r == Head(decoding) IN
         /\ raw => GpuDecode /\ r.path # NoPath
         /\ results' = PushedLast([path |-> r.path, stamp |-> r.stamp, raw |-> raw])
    /\ request' = KeepsRequest
    /\ decoding' = <<>>
    /\ worker' = "waiting"
    /\ UNCHANGED <<view, shown, queues, shouldStop, pc>>

SeesStop == shouldStop

WorkerExit ==
    /\ worker = "waiting"
    /\ SeesStop
    /\ worker' = "exited"
    /\ UNCHANGED <<view, shown, queues, request, decoding, results, shouldStop, pc>>

(* shutdown: HeightfieldTextureLoader::stop, which joins the worker, and   *)
(* the reset of the renderer's state.                                      *)
Stop ==
    /\ pc = "idle"
    /\ shouldStop' = TRUE
    /\ pc' = "join"
    /\ UNCHANGED <<view, shown, queues, request, worker, decoding, results>>

Joined ==
    /\ pc = "join"
    /\ worker \in {"none", "exited"}
    /\ pc' = "gone"
    /\ needReload' = FALSE
    /\ diffuseReload' = FALSE
    /\ firstFrame' = FALSE
    /\ ready' = FALSE
    /\ dmap' = NoMap
    /\ decodes' = <<>>
    /\ cache' = <<>>
    /\ UNCHANGED <<path, loads, autoFit, fitted, uploads, taken, loader>>
-----------------------------------------------------------------------------
Init ==
    /\ path = NoPath
    /\ loads = 0
    /\ needReload = FALSE
    /\ diffuseReload = FALSE
    /\ firstFrame = FALSE
    /\ ready = FALSE
    /\ autoFit = FALSE
    /\ fitted = 0
    /\ dmap = NoMap
    /\ uploads = <<>>
    /\ decodes = <<>>
    /\ cache = <<>>
    /\ taken = 0
    /\ request = <<>>
    /\ worker = "none"
    /\ decoding = <<>>
    /\ results = <<>>
    /\ shouldStop = FALSE
    /\ pc = "idle"

Gui ==
    \/ \E p \in Paths : LoadHeightfield(p)
    \/ ClearHeightfield
    \/ LoadDiffuse

Update ==
    \/ \E created \in BOOLEAN : TakeResult(created)
    \/ NoMoreResults
    \/ UploadTask
    \/ \E created \in BOOLEAN : DispatchDecode(created)
    \/ Reload

Worker ==
    \/ WorkerTake
    \/ \E raw \in BOOLEAN : WorkerDecode(raw)
    \/ WorkerExit

Next ==
    \/ Gui
    \/ BeginUpdate
    \/ Update
    \/ Worker
    \/ Stop
    \/ Joined

Spec == Init /\ [][Next]_vars

(* Qt keeps asking for frames (the viewport item asks for the next one     *)
(* after each), an update that began ends, and the worker is scheduled.    *)
Fairness ==
    /\ WF_vars(BeginUpdate)
    /\ WF_vars(Update)
    /\ WF_vars(Joined)
    /\ WF_vars(Worker)

FairSpec == Spec /\ Fairness
-----------------------------------------------------------------------------
(***************************************************************************)
(* Properties                                                              *)
(***************************************************************************)

(* Requests overtake each other nowhere between the GUI and update(): what *)
(* has been taken is no newer than any result that waits, a result no      *)
(* newer than one behind it or than the one being decoded, and that no     *)
(* newer than the one in the mailbox, although the mailbox is overwritten  *)
(* while the worker is busy.                                               *)
InRequestOrder ==
    /\ taken <= loads
    /\ \A i \in 1 .. Len(results) :
         /\ taken <= results[i].stamp /\ results[i].stamp <= loads
         /\ \A j \in i .. Len(results) : results[i].stamp <= results[j].stamp
         /\ decoding # <<>> => results[i].stamp <= decoding[1].stamp
         /\ request # <<>> => results[i].stamp <= request[1].stamp
    /\ decoding # <<>> =>
         /\ taken <= decoding[1].stamp /\ decoding[1].stamp <= loads
         /\ request # <<>> => decoding[1].stamp <= request[1].stamp
    /\ request # <<>> => taken <= request[1].stamp /\ request[1].stamp <= loads

(* The last load or clear is never lost: from the update that posts it it  *)
(* waits in the mailbox, is decoded, waits as a result or has been taken,  *)
(* whatever the worker was doing when it was posted.                       *)
LatestInFlight ==
    pc # "gone" /\ ~needReload =>
        \/ loads = taken
        \/ \E i \in 1 .. Len(results) : results[i].stamp = loads
        \/ decoding # <<>> /\ decoding[1].stamp = loads
        \/ request # <<>> /\ request[1].stamp = loads

(* Between the GUI and update() nothing overtakes and the last request is  *)
(* not lost, although the mailbox is overwritten.                          *)
RequestsKept == TypeOK /\ InRequestOrder /\ LatestInFlight

(* Maps that go through the upload queue reach the screen in the order in  *)
(* which they were asked for, one a frame.                                 *)
UploadsInOrder ==
    [][dmap.from = "upload" /\ dmap'.from = "upload" => dmap.stamp <= dmap'.stamp]_vars

(* Unless the renderer is destroyed, the last load or clear is decoded and *)
(* taken, however many came before it while the worker was busy.           *)
LastLoadTaken == <>shouldStop \/ <>[](taken = loads)

(* shutdown() ends: the worker is seen to leave its wait, idle or busy.    *)
ShutdownEnds == pc = "join" ~> pc = "gone"

(* The worker gets to the last request, or to its end.                     *)
WorkerServes == LastLoadTaken /\ ShutdownEnds

(* A map restored from the cache overtakes those in the upload queue, and  *)
(* may be replaced by them; but it never replaces a newer one itself.      *)
RestoresForward ==
    [][dmap' # dmap /\ dmap'.from = "cache" => dmap.stamp <= dmap'.stamp]_vars

(* The map shown goes back to an older one in one way only: the upload     *)
(* queue catches up with a map from the cache, or with a decoded one.      *)
MapsInOrder == UploadsInOrder /\ RestoresForward

(* The cache never holds more than m_maxCacheSize maps, unless the map of  *)
(* the empty path got into it, which pruneCache cannot drop.               *)
CacheBounded == Len(cache) <= MaxCache \/ Cached(NoPath)
=============================================================================

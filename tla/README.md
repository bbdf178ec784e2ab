# qml-and-bgfx-testbridge in TLA+

The repository is a Qt Quick application whose viewports are rendered by bgfx on
a device that Qt knows nothing about. Frames are read back from bgfx and
uploaded into the FBO Qt composites; a worker thread decodes heightfields; an
in-process WebSocket server (TestBridge) lets a client drive the application, and
a Python package makes a client of it that other programs use. This directory
models its control: which step follows which, what is in which queue, what is
freed when; and of its computations those in which an off-by-one, a rounding or
an order of bytes decides. `PROJECT.json` maps every definition to the lines it
models. Paths below are relative to the repository's root.

## 1. Inventory

| component | state | operations | what is hard | what makes it correct |
|---|---|---|---|---|
| **Deferred delete queue** `src/engine/common/resource_arena.h` | closures, each with a safe frame | `enqueue`, `collect`, `flushAll` | 32-bit frame ids that wrap, a sentinel that is also an id | a closure runs in the frame it is due in |
| **Readback presenter** `src/engine/quick/readback_presenter.*` | surface, ring of textures, blits to be read, reads in flight | `ensureSurface`, `processCompletedReadbacks`, `scheduleReadbacksFromQueue`, `blitForReadback`, `waitForPendingReadbacks`, `drainAndRelease` | reads finish frames later, while textures are reused, the surface is resized, creation fails, other viewports submit frames, the drain gives up | a texture is never written while it is read; a buffer outlives its read; pictures appear in order |
| **Render loop** `src/engine/quick/render_viewport_item.cpp` | properties, scene, settle counter, "wanted" | setters, `synchronize`, `render`, `shouldContinueRendering` | only an input or the previous frame asks for a frame; the worker cannot | the FBO ends up showing what was asked for; the loop then stops |
| **Mouse, camera, focus** `render_viewport_item.cpp`, `render_scene.*` | buttons, drags, camera, saved configuration, pending focus and fit | mouse and wheel handlers, focus, auto-fit, `loadConfig` | slack before a drag; chords; grabs taken away; requests that wait for a map | the view moves as far as the pointer; a focus shows the right side |
| **Heightfield pipeline** `src/engine/terrain/terrain_renderer_heightfield.cpp`, `terrain_renderer.h` | path, flags, one-slot mailbox, results, upload queue, GPU decode, LRU cache; the picture on the map and its axes | load, clear, `update()`, worker, `stop()`; load and clear of the picture | the mailbox is overwritten; the cache overtakes the queue; joining a waiting worker; map and picture arrive in any order | order kept, the last request served, the cache bounded, shutdown ends; the axes of the picture fit the map |
| **Heightfield decoding** `heightfield_asset.cpp`, `terrain_cpu_compute.cpp`, the `cs_*` shaders | bytes, samples, ranges; GPU textures and workgroups | load a file, unpack, trim, normalize; dispatch of the GPU decode | byte orders, voids, empty and truncated files; creations that fail half way; barriers | heights come back; CPU and GPU agree; no texture is kept |
| **Terrain resources** `terrain_renderer.cpp`, `terrain_renderer_heightfield.cpp`, `_simple.cpp`, `_overlay.cpp` | DMAP, SMAP, retired textures, a defer counter; buffers, programs, uniforms | restore, upload, decode, clear, compute slopes, draw; init, rebuild of buffers, shutdown | handles used by frames in flight and used again; an init that throws | each is destroyed once; the slopes are the map's; nothing is left behind |
| **Subdivision** `terrain_renderer.cpp`, `cs_terrain_*.sc` | key buffers, ping-pong, counters | init, update, lod, draw, level change | buffers swapped and restarted across frames; freeze | the keys cover the terrain |
| **Overlay rectangles** `terrain_renderer_overlay.cpp` | rectangles, heights, a read in flight, pending pick | set, transform, dispatch, read, cancel, pick, focus sides | results for rectangles or maps that have changed | heights are those of the list; the click gets the nearest |
| **Frame pass list** `frame_graph.h` | passes | `add`, `validate` | reads before writes | accepts exactly well-ordered lists |
| **Live shaders** `terrain_renderer_shaders.cpp`, `src/app/main.cpp` | item mailboxes, slots, programs' reference counts; compile records and the cache on disk | compile, apply, revert, rebuild | requests between two frames; failed builds; equal programs with one handle; a cache that outlives the process and its renderer | slots run what they report; nothing leaks; a binary is the right one |
| **Render device** `render_device.cpp` | reference count, surfaces, view ids, delete queue, back buffer | `acquire`, `release`, `createSurface`, `resizeSurface`, `destroySurface`, `endFrame` | ids that wrap, one of which is also "invalid"; creations that fail half way | ids unique and never lost; surfaces whole or not there, drawn into by their own views |
| **TestBridge, bus, log wait** `src/testbridge/*`, `src/quick/guidatabus.cpp` | client, idle timer, subscriptions, nested waits, events | connect, message, idle, disconnect, publish, subscribe, `bus.wait`, `log.wait` | a second client; the timer racing a request; event loops inside event loops | each request answered once, to its client; waits return |
| **QML probe** `src/testbridge/qml_probe.cpp` | handles | list, find, hit, calls by handle | objects that die, addresses used again; children outside their parents | a handle reaches only what was named |
| **Asset fetch** `src/engine/quick/asset_fetch_service.cpp` | replies, temporary and final files | request, finished handler | two replies for one file; the process dies between two disk operations | what is announced is whole and stays |
| **MCP client** `tools/testbridge-mcp/testbridge_mcp/ws_client.py` | connection, futures, reader tasks | call, timeout, reader, reconnect, close | late replies, lost connections, concurrent reconnection | each call ends once, with its own reply |
| **Statistics; application shell** | - | - | no control state | - |
| **Vendored or inactive** nanovg, fontstash, `ps/`, `packrect.h`, `bgfx_utils` | - | - | - | - |

How they interact. `RenderViewportItem` lives on the GUI thread; its renderer
(`RenderViewportRenderer`) owns a `RenderScene`, with its `TerrainRenderer`, and
a `ReadbackPresenter`. A frame is `synchronize()` (item to scene) and `render()`:
`ensureSurface`, completed readbacks, scheduled readbacks, `RenderScene::update`
and `render`, `blitForReadback`, `RenderDevice::endFrame`, completed readbacks
again, and `update()` if `shouldContinueRendering()`. All viewports share one
`RenderDevice`; each of their frames advances bgfx, retires reads and lets the
delete queue run. `main.cpp:595` selects Qt's basic render loop: GUI and frames
are one thread. The only other thread in the render path is the worker of
`HeightfieldTextureLoader`, which shares a mutex-protected mailbox and result
queue with it. TestBridge runs on the GUI thread too and reaches the viewports
through the probe, QML properties, the GuiDataBus and the live shader service.
The GPU runs what frames record some frames later, in order.

## 2. Modules

| module | models | state / code |
|---|---|---|
| `FrameIds` | bgfx's frame counter and `isRetired` | ids modulo `IdMod` (2^32 in the program); `int32_t(a - b) >= 0` with that wrap |
| `DeferredDeleteQueue` | the queue as `RenderDevice::endFrame` drives it | a ghost counts the frames an item really has to wait |
| `FrameRing` | the promise of the present path: a bounded FIFO of pictures | abstract, no code of its own |
| `ReadbackPresenter` | `ReadbackPresenter` and one viewport's `render()` | `pc` walks through one call; each loop iteration is a step |
| `RenderLoop` | item, scene and renderer, and what asks for frames | one frame is one action; only the worker interleaves |
| `HeightfieldPipeline` | loader thread, `update()`, cache, uploads, shutdown | `pc` walks through `update()`; the worker interleaves with every step |
| `DiffuseTexture` | the picture laid over the map: its loads, its axes | extends `HeightfieldPipeline`: the steps in which maps and pictures change |
| `HeightDecode` | files to samples, images to heights, the robust range | pure, one job per behaviour, against reference definitions |
| `GpuDecode` | the GPU decode: resources, dispatches, workgroups with barriers | extends `HeightDecode`; the CPU is its reference |
| `TerrainMaps` | DMAP and SMAP as handles bgfx reuses | every replacement; what a frame draws; a retired texture counts the frames it has left |
| `TerrainResources` | what else renderers make, replace and destroy | several renderers in one bgfx, which may refuse anything |
| `TerrainTextures` | `TerrainMaps` and `GpuDecode` together | their steps in any order |
| `TerrainLod` | the subdivision's buffers and compute passes | a GPU thread is a step |
| `FramePasses` | `FramePassList` | lists built pass by pass |
| `OverlayMax` | rectangles' heights, their readback, and clicks | `pc`: idle, update, end of a frame |
| `OverlayGeometry` | bounds, nearest and densest sides, target yaw | pure; exact fractions of a pixel |
| `OverlayPick` | the quads of rectangles and the pick by ray | extends `OverlayGeometry` |
| `ViewportInput` | mouse, camera, focus, auto-fit, configuration | handlers and frames are steps; extends `OverlayGeometry` |
| `LiveShader` | mailboxes, slots, builds, reference counts | `pc` names the slot served next |
| `ShaderCompile` | the compile service and its cache on disk | the process restarts, also in a compile |
| `RenderDevice` | the device as several viewports share it: references, view ids | calls are atomic (`m_mutex`) |
| `Surfaces` | what surfaces are made of, bgfx's views, the back buffer | extends `RenderDevice` |
| `TestBridge` | server, dispatcher, bus endpoint, GuiDataBus, `log.wait` | `stack` is the nesting of event loops |
| `QmlProbe` | handles, and the hit test | the application creates and destroys objects at will |
| `AssetFetch` | one URL's requests, files, and the process's life | the handler's disk operations are steps, the process may die between them |
| `McpClient` | `WSClient` | a step runs from one `await` to the next |
| `Subsequences` | what a loop leaves of a list it takes elements out of | pure; no recursion, so that it can be proved about |
| `*Proofs` | theorems (section 4): `ReadbackPresenterProofs` (with `RenderLoop`), `HeightfieldPipelineProofs` (with `DiffuseTexture`), `RenderDeviceProofs` (with `Surfaces`, `DeferredDeleteQueue` and `OverlayMax`), `ItemProofs` (`LiveShader`, `ShaderCompile`, `QmlProbe`, `ViewportInput`, `OverlayGeometry`, `OverlayPick`), `TerrainProofs` (`TerrainTextures`, `TerrainLod`, `TerrainResources`, `FramePasses`, `AssetFetch`), `McpClientProofs`, `TestBridgeProofs`, and `SubsequencesProofs`, which they cite, with induction over natural numbers | |
| `MC*` | instances for TLC | |

Composition. `DeferredDeleteQueue` and `ReadbackPresenter` are both built on
`FrameIds`; the presenter has the device's delete queue inside it, reduced to
readback buffers. `ReadbackPresenter` implements `FrameRing` (`Ring == INSTANCE
FrameRing WITH ...`): a read's frame id becomes the number of frames it still
waits for. `RenderLoop` puts item, scene and loader on top of the present path
*as `FrameRing` promises it*. `RenderDevice` stands beside the presenter: each
`CreateSurface(v, ok)` and `ResizeSurface(v, ok)` of it is the call the
presenter's actions of that name make, whose `ok` the presenter leaves open;
`Surfaces` takes its steps and says what each creates and destroys, one handle
after another, which is where `ok` comes from. `DiffuseTexture` does the same with
`HeightfieldPipeline`: every step of it is one of the pipeline (`PipelineInside`, section 4).
`TerrainMaps` leaves open which map arrives when: `HeightfieldPipeline` says
that. `OverlayMax` leaves open which rectangle a click meets: `OverlayPick` says
that, and `ViewportInput` which movements are clicks. `ShaderCompile` ends where
`LiveShader` begins, with a request in the item's mailbox. `McpClient`'s server
answers as `TestBridge` does, a late answer going to whoever is connected.

Three MC modules hold parts that share no state: `MCTerrain` (`TerrainMaps` and
`GpuDecode`, which `TerrainTextures` puts together, `HeightDecode`, `TerrainLod`,
`FramePasses`, `TerrainResources`, `AssetFetch`), `MCRenderDevice` (`Surfaces`, `DeferredDeleteQueue`) and `MCItem` (`LiveShader`,
`ShaderCompile`, `ViewportInput` twice, `OverlayPick`, `QmlProbe`). A behaviour
of them explores one part, chosen at its start, while the others rest in one
fixed state: the sum of the parts' states, not the product. The other way round,
a behaviour of the product is no more than one behaviour of each part.

What the models abstract.
- bgfx, external: `readTexture` returns the frame in which its data will be there
  (`ReadLatency` frames on); destroying a texture does not stop a read already
  issued from writing to its buffer; freed handles are given out again; equal
  programs have one handle and a count; calls that can fail do so whenever they like.
- A picture is the number of its frame; a heightfield its path and the *stamp* of
  the load that asked for it, except in `HeightDecode` and `GpuDecode`, where it is
  bytes and pixels with a small base (4 instead of 256 values a byte). A height that
  is no number is `NoHeight`.
- In `OverlayPick` and `OverlayGeometry` positions are exact fractions and angles
  quarter turns; in `ViewportInput` the pointer moves on a line, yaw in eighths of a
  turn, and the fitting distance is any.
- What GPU threads compute from camera and heights (`TerrainLod`) is a choice;
  threads run in the order of their ids, as an atomic counter makes any other order a
  permutation of the same slots.
- Files have a header, a length and whether all of them is there (`AssetFetch`), or
  what they were compiled from (`ShaderCompile`); hashes do not collide; shaderc is
  external and leaves anything when it fails.
- QML objects are intervals on a line or plain objects; what calls do to them is for
  the application's own steps.
- Of pictures only the size and the order of their axes are kept.
- Resources that one function makes and another destroys together are one member of
  `TerrainResources`; bgfx counts the uniforms of one name, as it counts programs.
- The values of uniforms, draw calls, GL state, logging and profiling are left out.

## 3. Runs

| run | configuration | what it shows |
|---|---|---|
| `presenter` | ring of 3, reads of 5 frames, drain of 2, 2 sizes, 11 frames, ids that do not wrap | `TexturesOwned`, `ReadsUndisturbed`, `CleanTarget`, `PicturesInOrder` and the refinement `ImplementsFrameRing`, with resizes, failed creations and reads, other viewports and teardown anywhere |
| `pipeline` | 2 files of either orientation, a picture, cache of 1, GPU decoding possible, 2 loads or clears, any number of diffuse reloads; fair | `RequestsKept`: nothing overtakes and the last request is not lost; `MapsInOrder`: an older map is shown again only if the queue catches up with the cache or a decode; `CacheBounded`; `WorkerServes`: the last request is served, shutdown ends; `DecodedMapsFit`: the axes of the picture fit the map drawn, unless that came from the cache |
| `diffuse_cached` | the same without GPU decoding, 3 loads | **violation** of `SwappedOnMismatch` |
| `loop` | ring of 3, reads of 2 frames, 2 changes of each kind; fair | `RingHasRoom`, and `Freshness`: at rest the FBO shows the last edit, map and view |
| `loop_idle` | 1 change; fair | **violation** of `EventuallyIdle` |
| `device` | 2 viewports, 5 view ids, 2 sizes, 3 framebuffer handles, 3 readback textures, 2 failing inits, any part of a surface refused; a delete queue over 16 frame ids, waits of up to 6 frames, 2 items | `SurfacesKept`: ids neither shared nor lost, every viewport has its reference (`DeviceAccounted`), surfaces are whole or not there and nothing of them is left behind (`SurfacesWhole`), views draw into their own framebuffer (`ViewsDrawHome`); `RefusedForCause`; `FreedOnTime`: a closure runs in exactly the frame it is due, across the wrap. The delete queue's state is relative to the current frame, so behaviours of any length are covered |
| `overlay` | 2 rectangles in lists of up to 2, 2 maps, reads of 2 frames, 4 changes, 2 clicks; fair | `ReadsServeTheirList`: a read in flight is for the list and memory that are there; `ClicksServed`: heights catch up after a click, and the click gets its answer |
| `item` | six parts, see below | `SlotsObey`, `RefsMatch`, `BinariesMatch`, `GesturesKept`, `FocusKept`, `PickedIsNearest`, `HandlesNamed` |
| `hit_outside` | 3 objects | **violation** of `DeepestHit` |
| `bridge` | 2 connections, 3 requests, 1 event, 1 topic; fair | `BusKnowsListeners`, `EachAnswered`, `IdleClientsWatched`; `ComesBack`: every nested wait returns |
| `client` | 2 concurrent calls, 3 connections, callers that give up; fair | `PendingServes`, `ConnectionsFollow`; `CallsEnd` |
| `terrain` | seven parts, see below | `TerrainDrawn`, `SlopesMatch`, `TexturesGivenBack`, `ValidateAgrees`, `HeightsKept` (`HeightsRestored` of files, `BulkKept` of ranges), `DecodedAsOnCpu`, `ResourcesKept`, `OneAnswer`; `FilesKept`: what the cache serves was written whole, or its flush failed (`WholeUnlessUnflushed`), and a file that was announced stays valid until a reply to an older request replaces it (`AnnouncedFilesStay`) |

Bounds and why they are enough.
- *Presenter*: the program has a ring of 3, a drain of 16 frames, and reads of about
  2 frames. Reads of 5 frames and a drain of 2 are what it has when the GPU falls
  behind: more happens than at its usual pace, where the ring never fills (`loop`
  has that one). Eleven frames hold a fill, a resize whose drain gives up, another
  fill and a teardown.
- *Pipeline*: the worker, the result queue and the mailbox can hold three requests
  at once; two loads plus the reloads a diffuse map causes (not bounded) fill them.
  A cache of one map is full and pruned from the first file on. One file is wide and one
  tall, and the picture is wide: each map changes the axes.
- *Device*: 5 ids for 2 viewports are one too few once the invalid id is lost and a
  resize, which takes new ids before it gives the old ones back, needs two more: every way
  of running out occurs. Three framebuffers for two viewports let a handle be used again
  by either, during a resize too.
- *Loop*: the settle margin of 20 frames is 5 here: what matters is that it is
  longer than a picture takes to the FBO. Two changes of each kind let each one
  arrive while the previous is in any stage. An edit may ask for an auto-fit, as those of
  the transform and the pixel size do.
- *Overlay*: a read takes as long as the ring of ids the code keeps; four changes
  are one more than a list, a map, a transform and a click need to cross a read.
- *Item*. Live shaders: two binaries, one of which may equal the stock one, three
  slots, four requests: two to a slot while a build has failed. Compile service: two
  slots that share a source, two renderers, six requests and restarts. Mouse: a slack
  of 3 on four positions, seven events: a gesture, a cut-off gesture and a third.
  Scene: five requests (list, map, rotation and focus with one to spare), rectangles
  of every coordinate type, inside the map and across its edge, three of an
  algorithm, maps wider and higher, and a source without a file. Pick: all pairs of
  seven rectangles, heights that are zero, positive or missing, rays from 9 places
  in 12 directions. Probe: 3 addresses for up to 4 objects, so that addresses are
  used again under old handles.
- *Terrain*. Textures: two maps, five handles for at most four textures, retirement
  after 2 and 1 frames (60 and 5 in the code: only their order matters), defer
  count as in the code. Subdivision: depth 2, workgroups of 2, levels below, at and
  above the deepest mesh. Files: all of up to 4 bytes of 4 values, and those of 8
  whose last samples include voids; images of every format. Trim: all ascending lists
  of 6 elevations that need up to two trims. GPU: up to three workgroups of 2 x 2 in
  two passes, with partial groups, any creation failing. Resources: two renderers, one of
  which may be torn down, or fail, while the other lives; two creations refused. Assets:
  two URLs' extensions, three content types, a body that is a picture and one that is
  nothing, three requests and one restart: a third request finds what the others left.
  `StillOwned` ends a behaviour
  of `TerrainMaps` after a failed restore, where the code really loses a texture (5).
- *Bridge*, *client*: two of each party meet in every order; a third
  request or connection is the one that finds what the others left.
- Deadlock is checked in `loop` and `device`, which run for ever. Elsewhere the
  system ends (released, shut down, everything answered) or reaches its bound.

Fairness and why the code justifies it.
- `HeightfieldPipeline`: an update that began ends (it is straight code), the worker
  is a thread the OS schedules, and updates keep beginning. The last is what
  `RenderLoop` is about: `shouldContinueRendering()` holds while a readback is in flight.
- `RenderLoop`: Qt serves an `update()` it was asked for; the worker is scheduled;
  bgfx does not refuse *every* readback for ever (strong fairness: refusals may come
  infinitely often). No fairness is assumed of the GUI.
- `OverlayMax`: `WF(Frame)`, as frames run while a click is pending; `SF(EndRender(FALSE))`:
  frames in which other viewports do not retire reads for it occur, too.
- `TestBridge`: timers of `bus.wait` fire (`WaitTimeout`), an innermost event loop
  that was quit returns (`Return`), `log.wait` returns at its deadline (`EndLogWait`).
  None of clients or of the bus: a wait ends though nobody ever sends anything. It ends
  because requests are finitely many: clients that wait and leave without end could keep
  loops on top of the first one. And timeouts are not negative: `QTimer` does not start
  with a negative `timeout_ms`, and such a wait ends with its event or its client only.
- `McpClient`: asyncio resumes a task whose future is done, and its timers fire.
  None of the server, and none of callers who cancel their calls (`Abandon`).

## 4. Proofs

`ReadbackPresenterProofs`, for every ring size, read latency, drain limit, set of
sizes and number of frames, from `PresenterAssumption`:

| theorem | statement | assumption |
|---|---|---|
| `TypeCorrect` | `Spec => []TypeOK` | - |
| `SlotsOwned`, `TexturesHaveOwner` | `Spec => []SlotOwnership`, `Spec => []TexturesOwned` | - |
| `TargetIsClean` | `Spec => []CleanTarget` | - |
| `TexturesKept`, `BuffersKept`, `UploadsRetired` | the three parts of the next | `NoWrap` |
| `ReadsComplete` | `Spec => []ReadsUndisturbed` | `NoWrap` |
| `InOrder` | `Spec => PicturesInOrder` | `NoWrap` |
| `PresenterIsFrameRing` | `Spec => ImplementsFrameRing` (`Ring!Spec`) | `NoWrap` |

`NoWrap` says that the id of no read reaches the sentinel: `MaxFrame + ReadLatency <
NeverRetired`. It is needed because the presenter compares ids as plain numbers (5).

The argument. None of the last properties is inductive. `RingInv` is the conjunction of
- `SurfaceInv`: how surface, device, FBO size and `pc` go together. `CleanTarget`
  follows from it. The FBO shows unwritten memory exactly while its size is not
  the surface's, which is what makes "clear when recreated" enough.
- `SlotOwnership`: a texture is in use exactly while one record holds it, and no
  two records share one. Inductive together with `SurfaceInv` alone, so it holds
  with wrapping ids too.
- `FrameInv`: every frame named anywhere has happened, and a read is due within
  the latency.
- `OrderInv`: the reads in flight, then the blits, are in the order they were
  taken; all are newer than the picture just retired and than the one shown.
- `ReadInv`: a read on a living texture has its record under the id it is due
  in; a read whose texture is gone is older than everything in the ring and its
  buffer is in the delete queue.

A read is retired by its id; `ReadInv` and `OrderInv` tie the id to the frame bgfx
really completes it in, whence buffers and uploads; `OrderInv` is the order of
pictures. There is one lemma per part (`SurfaceStep`, `SlotStep`, `FrameStep`,
`OrderStep`, `ReadStep`), each with one step per action, and lemmas about the
queues (`RetireQueues`, `ScheduleQueues`, `BlitQueues`) they share.

The refinement needs two facts more (`MatchInv`): the sizes of surface and records agree,
so that a read that completes always fits the FBO, and no read is due later than the
latency. `Flight` is what the pictures are under the mapping, `FlightElements` says which is
the k-th. The lemmas `FlightTicks`, `FlightRetires`, `FlightSkips`, `FlightShows`,
`FlightTakes`, `FlightReads` and `FlightDrops` say what a change of the queues is on
that sequence; `RingSteps` then has one step per action, each a step of `FrameRing` or a
stutter. That a blit finds room (`RoomForBlit`) is a matter of counting: the
pictures in flight hold different textures, none of them the free one.

`RingAlwaysHasRoom`: `LoopSpec => []RingHasRoom` for every ring deeper than a readback takes,
`Latency < Depth`: 2 frames and 3 slots in the program. Without it the theorem is false: the
ring may fill up, which is why `render()` has a branch for it. A frame starts at most one
read, so the pictures in flight wait for different numbers of frames (`FlightApart`), and
there are only `Latency` such numbers between frames. The types need `FitsAreCounted`: the
auto-fit moves the camera at most once for a source or an edit, however late the map comes.

`HeightfieldPipelineProofs`, for every set of files, cache size and number of loads,
from `PipelineAssumption` alone:

| theorem | statement |
|---|---|
| `TypeCorrect` | `Spec => []TypeOK` |
| `OrderKept`, `LatestKept` | the two parts of the next |
| `RequestsReachUpdate` | `Spec => []RequestsKept` |
| `UploadsOrdered`, `RestoredForward` | the two parts of the next |
| `MapsAlwaysInOrder` | `Spec => MapsInOrder` |
| `CacheAlwaysBounded` | `Spec => []CacheBounded` |
| `PipelineInside` | `PictureSpec => Spec`: `DiffuseTexture` implements the pipeline |
| `PictureOnMap` | `PictureSpec => []DecodedMapsFit`, from `PictureAssumption` |

`InRequestOrder` is inductive with the types: the mailbox is no older than what the
worker has, that no older than the results, and a request keeps its place as it moves.
`LatestInFlight` needs it: when an update takes a result, nothing newer can be
behind it unless it is still on its way. `UploadsInOrder` needs `UploadInv`: what is
queued for upload is in the order of its loads, no older than what was uploaded
last and no newer than what has been taken. The cache is free to overtake the
queue; the other half of `MapsInOrder` is that it does so only forward, and follows
from `TakenInv`: nothing that is shown, or is about to be, is newer than what was
taken. `CacheBounded` is inductive with the types; the work is in the lemmas about the
cache as a sequence (`WithoutOne`, `UsedKeeps`): using a map keeps the number, and
pruning takes one away unless all it finds is the empty path. `PipelineInside` carries
all of these over to `PictureSpec`. `DecodedMapsFit` is not inductive: while a new picture
is on its way the axes may be those of the old one. `AxesFit` says that then another
picture has been asked for than is shown, and that this update will load it before it draws.

`RenderDeviceProofs`, for every number of ids from 2 on, every finite set of
viewports, and any sizes, framebuffer handles and number of readback textures:

| theorem | statement |
|---|---|
| `TypeCorrect` | `Spec => []TypeOK` |
| `IdsUnique`, `IdsReturned`, `RefsSuffice` | the three parts of the next |
| `DeviceKept` | `Spec => []DeviceAccounted` |
| `RefusalsHaveCause` | `Spec => RefusedForCause` |
| `DeviceInside` | `SurfaceSpec => Spec`: `Surfaces` implements `RenderDevice` |
| `SurfacesAlwaysWhole`, `ViewsAlwaysHome` | the two parts of the next that are about what surfaces are made of |
| `SurfacesAlwaysKept` | `SurfaceSpec => []SurfacesKept` |
| `AlwaysFreedOnTime` | `QueueSpec => FreedOnTime`, for waits of less than half of the frame ids |
| `HeightsAlwaysOfRects` | `OverlaySpec => []HeightsOfCurrentRects` |
| `ReadsAlwaysServe` | `OverlaySpec => []ReadsServeTheirList`, for reads of at most two frames |

`IdsDisjoint` and `NoIdLeak` need each other: an id is fresh only if the set of used
ids has all that surfaces have, and freeing leaves the set right only if no other
surface has the id. Both need `SurfaceHasDevice`, because `doInit` empties the set.
Lemma `Creation` says what two calls of `allocateViewId` give; the theorems use only
that. `SurfInv` needs `IdsInv`, carried over by `DeviceInside`: a view draws into its
surface's framebuffer only because nobody else has its id. What a creation leaves depends
on how far it gets; `Reached` names the place, and one lemma says what is there for all of them.

*Delete queue*. `QueueInv` ties the id an item waits for to the ghost that counts the
frames it really has to: `safe = (lastFrameId + left) % IdMod`. `OneFrameOn` is the
arithmetic: one frame on, an id that is less than half a turn ahead is not retired unless
it is the frame that begins. From there on the theorem is about one item.

*Overlay*, for any rectangles, lists, maps and latency. `HeightsOfCurrentRects` is not
inductive: heights come out of textures, buffers and reads in flight. `TexturesKept` says that
while there are quads the texture holds what was measured for the list they come from.
`ReadsKept` says that a read that is not cancelled is for the current list, and what it
does not reach in its buffer was never written; that old heights are left only while a cancelled
read is in flight, when there are no quads; and that an item that is gone has its buffer in
the delete queue, or its read is nearly due. For the last of these a read may take no more than
two frames, the most bgfx needs here: the queue keeps the buffer one frame longer than the item.
That quads are no more than rectangles, which bounds the widths, is `Subsequences` again.

The other modules:

| module | theorem | for every |
|---|---|---|
| `ItemProofs` | `ProgramsAreCounted`: `ShaderSpec => []RefsMatch`; `SlotsDoAsAsked`: `ShaderSpec => []SlotsObey` | set of binaries, number of requests |
| | `BinariesAlwaysMatch`: `CompilerSpec => []BinariesMatch` | set of slots, sources and renderers |
| | `AlwaysNamed`: `ProbeSpec => []HandlesNamed` | set of addresses, names and shapes |
| | `GesturesMoveTheView`: `InputSpec => []GesturesKept`; `FocusIsGranted`: `InputSpec => FocusKept` | slack, pointer positions, camera limits; rectangles, map sizes |
| | `AlwaysNearest`: `PickSpec => []PickedIsNearest` | map sizes, rectangles, heights, rays |
| `TerrainProofs` | `ResourcesAlwaysKept`: `ResourcesSpec => []ResourcesKept` | finite set of renderers, number of refused creations |
| | `TexturesAlwaysGivenBack`: `TexturesSpec => []TexturesGivenBack`, from `TexturesDestroyedOnce` of `MapsSpec` and `TemporariesAlwaysReturned` of `GpuSpec`; `SlopesAlwaysMatch`: `MapsSpec => []SlopesMatch` | set of maps, number of handles, delays; set of pictures, side of a workgroup |
| | `AlwaysDrawn`: `LodSpec => []TerrainDrawn` | depth of the tree, size of a workgroup, levels |
| | `ValidateAlwaysAgrees`: `PassesSpec => []ValidateAgrees` | set of resources, number of passes |
| | `AlwaysOneAnswer`: `AssetsSpec => []OneAnswer`; `FilesAlwaysKept`: `AssetsSpec => FilesKept`, from `FilesAlwaysWhole` and `AnnouncedFilesAlwaysStay` | set of bodies, content types and URL extensions, number of requests and restarts |
| `McpClientProofs` | `AlwaysServes`: `Spec => []PendingServes`; `AlwaysFollow`: `Spec => []ConnectionsFollow` | finite set of calls and number of connections |
| `TestBridgeProofs` | `AlwaysAnswered`: `Spec => []EachAnswered`; `AlwaysWatched`: `Spec => []IdleClientsWatched` | number of connections, requests, events; set of topics |
| | `ListenersAlwaysKnown`: `Spec => []BusKnowsListeners`, with `BridgeInv` and `ListensInv` | the same |
| `SubsequencesProofs` | `SubsequenceIs`, `SubsequenceKeeps`, `WithoutLeaves` | sequence, set of places |

A specification such as `QueueSpec`, `CompilerSpec` or `InputSpec` is the `Init` and `Next`
of a part that `MCRenderDevice`, `MCItem` or `MCTerrain` runs. Besides the assumptions their
modules state, these theorems need none.

- *Live shaders*. `ShaderInv`: what a live program has replaced is kept aside while one is
  live (`TerrainKept`, `ComputeKept`), which is what a revert gives back; `Coming` is what a slot will report
  when the requests in mailboxes and slots are served, and it is what was last asked
  (`RequestsKept`), but for slots in doubt because two requests met in a mailbox. The count of
  a program is the number of handles that name it, up to what an apply of the stock
  shader leaks (`NoLeak` has that exception, 5).
- *Compile service*. `CacheInv` says of each file on disk that it is what its hash says or
  was left by a shaderc that failed, of each record of a process that it is for its renderer
  and has a file, and of each request that it was recorded. A restart forgets the records, so that a
  binary of another renderer can be on disk but is never asked for.
- *QML probe*. `ProbeInv`: the registry's entry for an address is for the object that lives there
  exactly if a reply has named that object. Objects have stamps, and so an address that is
  used again does not match.
- *Mouse and focus*. `GestureTrue`: while one button is held alone, the camera is where the
  pointer's path from the press puts it, and the handler's "last position" is the pointer's.
  It does not survive a chord, and so a gesture ends with one. For the focus, the side the code
  picks, first in the order of its comparisons, is nearest to the rectangle; that there is
  a first among equals is an argument by a least element.
- *Clicks*. After n quads the loop has the first of the nearest it has met (`NearestOf`): there
  is only one (`NearestOnly`), and the loop's step finds it (`NearerIsNearest`). The test of
  `pointInQuad2D` compares products with the quad's area, which is positive because the
  rectangle is not degenerate, and so it says what `Covers` does (`QuadCovers`), turned or not.
- *Textures*. `MapsInv`: a handle is installed in one place, or due once, or free
  (`HandlesOwned`), and the renderer knows what its two textures hold (`HeightsKnown`,
  `SlopesKnown`): the slopes are the map's except while `needsRegen` says they are not.
  `StepsKnown` is why a frame does not draw in between. All of it is under `~underUse`: a
  failed restore destroys a texture that stays installed (5).
- *GPU decode*. `RecordingInv` says, by where the recording stands, how often each texture has
  been given back: while it goes on, all but the last once, or with a range from the request none.
- *Subdivision*. `ThreadsRun`: the slots read are the whole terrain, those written so far
  are what the threads that ran have read (`Follows`), and so is what they drew. A key has the leaves of its
  children and no leaf is in both (`ChildrenCover`, from quotients by powers of two), so a
  thread adds what it has read, once. That every thread runs is that one group more than a
  quotient is enough; that a buffer is whole again in the next frame is that in and out change places.
- *Frame passes*. The state of validate's loop after n passes is what
  `CheckedThrough` says at once: both satisfy one recurrence (`CheckedIs`).
- *Resources*. The number of things bgfx has of a kind is that of the renderers that hold one
  (`HoldersChange`: what one renderer takes or gives up changes it by one).
- *Asset fetch*. `FetchInv`: a request has its answer, or is in exactly one of network, event
  queue and handler (`AllServed`); a path in the event queue is good unless a handler has made
  room since (`HitsGood`); while a file is good, only requests older than it are on their way
  (`Older`), which is why only they can take it away; what is about to be renamed is whole
  (`WholeToRename`). That `cachedPath` finds the first valid name and that there is one is the
  least-element argument again.
- *MCP client*. `ClientInv`: ids are given once, as many as requests were submitted; the server
  answers only what was submitted; every connection that is there has a reader and
  every request a connection; whoever connects is alone. A future that nobody waits for is one
whose send failed or whose caller dropped the call (`leaked`). `ConnectionsFollow` has an exception for a
  reader that outlives its connection (5), which the history `overlapped` notes: without it
  the theorem is false.
- *TestBridge*. `BridgeInv` follows a request: sent, it is in its asker's inbox, once; handed on,
  it is answered at once, or held by one loop of the stack or by the log, and taken exactly if it wants
  an answer; while it is held, its asker is the client or is gone. `ReplyToAsker` is then
  a matter of links that only get worse, and `OneReply` of the two places. Of the events that
  are posted to the GUI thread it says nothing. `ListensInv` does: every handler is the endpoint or
  the helper of a wait on the stack, for its topic; every call queued to a helper is for such a
  wait and of an event posted since it began; and the last event in the queue that decides whether
  the endpoint listens to a topic, or the bus if there is none, says what `subs` says.
- *Induction*. The library's induction theorems take an operator, but a set of natural numbers
  has a least member (`WFMin`, whose parameter is a relation): a set that has 0 and, of each number, the next, has
  all (`CountUp`). For one recursion at a time that is enough: a closed form satisfies the
  equation, so there is a solution (`PowersExist`), and two solutions agree. Where there is no
  closed form, the solution is the value that the loop's invariant allows (`NearestMetIs`).
- *Subsequences*. The place of the `k`-th element kept is found by counting those before it;
  as many counts as places and all different, so there is one for each `k` (`FS_Injection`).

Only model-checked. Liveness (`Freshness`, `WorkerServes`, `ClicksServed`, `ComesBack`,
`CallsEnd`) is out of the prover's reach. What the decoders compute stays with TLC too:
`HeightsKept` compares quotients and trims of any list, and `DecodedAsOnCpu` a reduction in
any number of passes.

## 5. What the models found

Three disagreements between the code and what its docs or comments say are runs that
TLC refutes, with the lines in `PROJECT.json`:

1. `render_viewport_item.cpp:171` (`loop_idle`): every frame blits a readback and a
   readback in flight asks for a frame, so the loop does not idle.
2. `qml_probe.cpp:687` (`hit_outside`): the hit test returns for any point outside an
   item, also if the item does not clip, so that a child that sticks out and is seen is
   never hit; the clip test below it (`:693`) is never reached with effect.
3. `terrain_renderer_heightfield.cpp:994` (`diffuse_cached`): a map that comes from the cache
   keeps the axes of the picture that fitted the map before; all other maps choose them anew.

Others were met while modelling, and are what a model says in so many words (an
exception in a property, or a guard), but have no run of their own.

*Ids and queues*
- `resource_arena.h:108`: a safe frame equal to `0xFFFFFFFF` never comes.
  `readback_presenter.cpp:241`: near the wrap reads of before it stay queued, as ids are
  compared as plain numbers; `OverlayMax` has the same.
- `render_device.cpp:424`: after some 250 surfaces a surface can render in view 254 and
  blit in view 0, which bgfx executes first: pictures one frame behind.

- `render_viewport_item.cpp:206`: a frame whose surface cannot be created asks for no other,
  and the viewport stays blank until the next input.

*Resources*
- `terrain_renderer.cpp:211`: an `init` that throws loses what it has made, as
  `destroyAllResources` returns early while `m_resourcesValid` is false; the grid's two
  buffers are destroyed nowhere. `terrain_renderer_overlay.cpp:27`: `nextPow2` does not end
  for more than 16384 rectangles (a loop over 16 bits; `OverlayMax` assumes shorter lists).

*Maps*
- `render_scene.cpp:774`: an upload of an earlier request sets the ready flag a new load
  has cleared; the camera is fitted to the wrong map (`ViewportInput.Frame`, whose fit waits
  for that flag only). A source without a file (`render_scene.cpp:615`) has the fit done on
  the old map, too.
- `terrain_renderer_heightfield.cpp:539`: the cache overtakes the upload queue, and so
  can a GPU decode: the older map is shown under the newer path. A late result may bring
  a cleared map back; a failed GPU decode leaves an earlier map "ready".
- `:1082`: the empty path is both a cache key and "none found"; `:277`: a file that
  cannot be read is cached as a flat map.
- `:1006`: a failed restore leaves a texture installed that is scheduled for destruction.
- `kSmapUseDeferFrames` (3) defers 2 frames and draws a flat dummy meanwhile, not "the
  previous smap" (`terrain_renderer.h:344`); `clearHeightfield` retires the DMAP with the
  frames of other textures, not with `kDmapRetireFrames`; full tier without an RGBA32F
  target keeps flat slopes for ever; `setGpuSubdivision` does not clamp.

*Decoding*
- `decodePixel` takes blue as the first byte in both layouts, so that for RGBA with
  `orderId` 1 it is not what the shader computes (`terrain_cpu_compute.h:10` says it is).
  The shader shifts by `heightMin` only if that is negative, against the comments at
  `terrain_renderer_heightfield.cpp:496`, `:509`, `:813`.
- `terrain_cpu_compute.h:19`: sentinels are said to collapse to the lower bound; they are
  put at height 0. `:688` says the range is trimmed; the live path has 0 .. 0.3, and the
  reduction runs only after a refused texture, whose fallback gives the raw texture back
  before it is read and destroys it again.
- On GPU backends a gray RGBA PNG is decoded as float bits, not luma
  (`docs/HEIGHTFIELD_FORMATS.md:16`); `.r16le` does not undo `rawBigEndian`.

*Overlay and picking*
- Neither a GPU decode nor a cached map cancels or repeats a read of heights; the first
  click after such a change uses stale heights. A read keeps its texture's old width. A
  pick without a map stays pending and keeps the loop running.
- Rectangles that stick out by one pixel weigh infinitely in the densest side, by more
  negatively; the weight of orientation is the same for both pairs of sides. Id -1, the
  default, can be drawn but not clicked. Which of a dense side and its opposite the camera
  faces depends on the sign of a rotation in bx, which is left open here.

*Mouse and camera*
- Chords jump: Left and Middle together recentre the target without saving, rotate within
  the slack and then pick as well. A focus reloads the saved configuration, which undoes
  fits and moves; `lock_view_scale`, without which nothing is saved, is set by nothing in
  the repository.

*Live shaders*
- A failed apply goes back to stock and keeps the failed hash, against
  `docs/LIVE_SHADER_DIRECTION.md:19`; requests between two frames overwrite each other; with
  the full tier the live program becomes the "original"; a live copy of the stock shader
  leaks a reference an apply.
- The cache trusts any file that is not empty: what a killed or failed shaderc left is
  "compiled" at the next call (`main.cpp:307`). Included files are not in the hash. A
  revert of any slot clears the last applied hash.

*TestBridge and its clients*
- A reply to a request of a nested wait may reach the next client; subscriptions survive
  their client; `bus.wait` gives the last event of a batch; a wait of more than 30 s loses
  its client to the idle timer.
- `asset_fetch_service.cpp`: the result of the flush is not looked at; a bad second reply
  destroys an announced file; files without an extension are never validated; no timeout
  of a transfer; no user of the service in the repository.
- `ws_client.py`: a reader of a connection in its closing handshake forgets the next one and
  cancels its calls; the ping timeout of 20 s may end a client during `log.wait`;
  subscriptions are not renewed after a reconnection. A future stays in `_pending` if its
  send fails, and if the caller of `call` is cancelled: only a timeout removes it (`:150`).
- Handles of the probe are addresses: once an address is announced again, an old client's
  handle reaches the new object. The hit test takes the last child, whatever its `z`;
  `tree`'s `truncated` stays false where the depth cuts.

## 6. Not modelled

Vendored code (nanovg, fontstash, the particle system, `bgfx_utils`) is not on the active
render path and about 10 000 of the 23 500 lines; with the tests, scripts and shader headers it
is most of what the map leaves out. Drawing and statistics have no control state; nor has the wiring in `main()`. Of the modelled parts: view and projection
matrices; the camera's pitch and its stop; the setters of scale and pixel size as far as the
mouse and focus go; rectangles with a side below a thousandth of a unit, which the quads leave
out; that key buffers hold 2^27 bytes and no more; an FBO that Qt replaces by one of the same size
between two frames; calls of `WSClient` after its `close`; screen-space rectangles and `getOverlayRectWorldBounds`, which nothing calls;
`cpuGenerateSmap`, `cpuComputeRectMax`, `decodeBGR` and the patch tables; the ring of log lines and its regular expressions; the
probe's `tree`, its values and key names, and the screen grabber; subscription callbacks and the
tools of `server.py`, which are calls; the device's shutdown at
process exit (no viewport is left), and its generation, which never changes once bgfx has started;
two processes that share an asset directory; a socket deleted inside its own signal.

## 7. Plan

Done: every component of section 1 that has control state. What is left would be
- a proof of what the decoders compute;
- the probe's `tree` against the set of items seen, and the screen grabber;
- `LiveShader` and `ShaderCompile` as one, and `McpClient` against `TestBridge` instead of
  a server that answers at will.

## 8. Running it

    tlc -config ReadbackPresenter.cfg MCReadbackPresenter.tla
    tlapm ReadbackPresenterProofs.tla

`PROJECT.json` lists each run's module and configuration, the mutants each property
refuses, and the lines each definition models.

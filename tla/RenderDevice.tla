---------------------------- MODULE RenderDevice ----------------------------
(***************************************************************************)
(* engine::RenderDevice as the viewports share it: the reference count,    *)
(* bgfx's one initialisation, and the pool of view ids from which every    *)
(* surface has one to render and one to blit with.  Calls are atomic       *)
(* (m_mutex).  A viewport is its ReadbackPresenter, and what it calls the  *)
(* device with: ensureSurface and drainAndRelease.                         *)
(***************************************************************************)
EXTENDS Integers, FiniteSets

CONSTANTS
    Viewports,
    NumIds,       \* the ids of a uint8_t: 256 in the program
    MaxFailures   \* bound: how often bgfx::init fails

ASSUME DeviceAssumption ==
    /\ NumIds \in Nat
    /\ NumIds >= 2
    /\ MaxFailures \in Nat
    /\ IsFiniteSet(Viewports)

VARIABLES
    initialized,    \* m_initialized
    refCount,       \* m_refCount
    nextViewId,     \* m_nextViewId
    usedViewIds,    \* m_usedViewIds
    runtimeInited,  \* m_runtimeInited of each viewport
    surface         \* the view ids in each viewport's m_surface

ids == <<nextViewId, usedViewIds, surface>>
vars == <<initialized, refCount, runtimeInited, ids>>

ViewId == 0 .. NumIds - 1
kInvalidViewId == NumIds - 1

NoSurface == [render |-> kInvalidViewId, blit |-> kInvalidViewId]

(* A surface with view ids is one whose framebuffer is valid.              *)
HasSurface(v) == surface[v] # NoSurface

IdsOf(s) == {s.render, s.blit} \ {kInvalidViewId}

(* bgfx has one device, the viewports agree on whether it runs.            *)
TypeOK ==
    /\ initialized \in BOOLEAN
    /\ refCount \in Nat
    /\ nextViewId \in ViewId
    /\ usedViewIds \subseteq ViewId
    /\ runtimeInited \in [Viewports -> BOOLEAN]
    /\ surface \in [Viewports -> [render : ViewId, blit : ViewId]]
    /\ \A v \in Viewports : runtimeInited[v] => initialized

Init ==
    /\ initialized = FALSE
    /\ refCount = 0
    /\ nextViewId = 0
    /\ usedViewIds = {}
    /\ runtimeInited = [v \in Viewports |-> FALSE]
    /\ surface = [v \in Viewports |-> NoSurface]
-----------------------------------------------------------------------------
AllocatesUpward(id, used, next) ==    \* mutant: the search does not wrap
    \/ next .. NumIds - 1 \subseteq used /\ id = kInvalidViewId
    \/ id \in next .. NumIds - 1 \ used /\ next .. id - 1 \subseteq used

(* allocateViewId: the first id from next on, around the wrap, that is not *)
(* used; kInvalidViewId -- which is also the last of the ids -- if none.   *)
Allocates(id, used, next) ==
    IF ViewId \subseteq used
      THEN id = kInvalidViewId
      ELSE \E i \in ViewId :
               /\ id = (next + i) % NumIds
               /\ id \notin used
               /\ \A j \in 0 .. i - 1 : (next + j) % NumIds \in used

NextAfter(id, used, next) ==
    IF ViewId \subseteq used THEN next ELSE (id + 1) % NumIds

FreedRender(used, s) == used \ ({s.render} \ {kInvalidViewId})    \* mutant

(* destroySurfaceResources(surface, true): freeViewId of both, which does  *)
(* nothing for kInvalidViewId.                                             *)
Freed(used, s) == used \ IdsOf(s)
-----------------------------------------------------------------------------
(* doInit: the pool of ids is emptied, then bgfx::init is tried.           *)
DoInit(ok) ==
    /\ nextViewId' = 0
    /\ usedViewIds' = {}
    /\ initialized' = ok

(* acquire, which a viewport calls again with the next frame when bgfx did *)
(* not start.  The reference is counted either way.                        *)
Acquire(v, ok) ==
    /\ ~runtimeInited[v]
    /\ initialized \/ ok \/ refCount < MaxFailures
    /\ refCount' = refCount + 1
    /\ IF initialized
         THEN UNCHANGED <<initialized, nextViewId, usedViewIds>>
         ELSE DoInit(ok)
    /\ runtimeInited' = [runtimeInited EXCEPT ![v] = initialized']
    /\ UNCHANGED surface

(* createSurface: two ids, then the textures and the framebuffer (ok).     *)
TakeIds(v, ok) ==
    /\ runtimeInited[v]
    /\ \E r, b \in ViewId :
           LET made == [render |-> r, blit |-> b]
               afterRender == usedViewIds \cup {r}
               nextBlit == NextAfter(r, usedViewIds, nextViewId)
               created == ok /\ kInvalidViewId \notin {r, b}
           IN /\ Allocates(r, usedViewIds, nextViewId)
              /\ Allocates(b, afterRender, nextBlit)
              /\ nextViewId' = NextAfter(b, afterRender, nextBlit)
              /\ usedViewIds' = IF created
                                  THEN afterRender \cup {b}
                                  ELSE Freed(afterRender \cup {b}, made)
              /\ surface' = [surface EXCEPT ![v] =
                                 IF created THEN made ELSE NoSurface]
    /\ UNCHANGED <<initialized, refCount, runtimeInited>>

CreateSurface(v, ok) == ~HasSurface(v) /\ TakeIds(v, ok)

(* resizeSurface to another size keeps the ids, unless it fails.           *)
KeepIds(v, ok) ==
    /\ runtimeInited[v]
    /\ surface' = IF ok THEN surface ELSE [surface EXCEPT ![v] = NoSurface]
    /\ usedViewIds' = IF ok THEN usedViewIds ELSE Freed(usedViewIds, surface[v])
    /\ UNCHANGED <<initialized, refCount, nextViewId, runtimeInited>>

ResizeSurface(v, ok) == HasSurface(v) /\ KeepIds(v, ok)

(* drainAndRelease: destroySurface and release.  The device keeps running  *)
(* when the count is zero.                                                 *)
DrainAndRelease(v) ==
    /\ runtimeInited[v]
    /\ usedViewIds' = Freed(usedViewIds, surface[v])
    /\ surface' = [surface EXCEPT ![v] = NoSurface]
    /\ refCount' = IF refCount <= 0 THEN refCount ELSE refCount - 1
    /\ runtimeInited' = [runtimeInited EXCEPT ![v] = FALSE]
    /\ UNCHANGED <<initialized, nextViewId>>

Next ==
    \E v \in Viewports :
        \/ \E ok \in BOOLEAN :
               \/ Acquire(v, ok)
               \/ CreateSurface(v, ok)
               \/ ResizeSurface(v, ok)
        \/ DrainAndRelease(v)

Spec == Init /\ [][Next]_vars
-----------------------------------------------------------------------------
(* No two surfaces, and not the two views of one, share a view id: bgfx    *)
(* would render a viewport into another one's framebuffer.                 *)
IdsDisjoint ==
    \A v, w \in Viewports :
        /\ HasSurface(v) => /\ surface[v].render # surface[v].blit
                            /\ kInvalidViewId \notin {surface[v].render, surface[v].blit}
        /\ v # w => IdsOf(surface[v]) \cap IdsOf(surface[w]) = {}

(* An id that no surface has is free again, whatever failed on the way.    *)
(* The one exception is kInvalidViewId: once handed out it is not taken    *)
(* back, and so never handed out again.                                    *)
NoIdLeak ==
    usedViewIds \ {kInvalidViewId} =
        UNION {IdsOf(surface[v]) : v \in Viewports}

(* Every viewport that runs has a reference: release() always finds one.   *)
RefsCover ==
    Cardinality({v \in Viewports : runtimeInited[v]}) <= refCount

(* Surfaces that are made, resized, refused and destroyed in any order     *)
(* neither share an id nor lose one, and whatever acquire counted, no      *)
(* viewport is left without the reference it releases.                     *)
DeviceAccounted == TypeOK /\ IdsDisjoint /\ NoIdLeak /\ RefsCover

(* createSurface is refused for want of ids only when fewer than two are   *)
(* free, or the one time kInvalidViewId is handed out as an id.            *)
RefusedForCause ==
    [][\A v \in Viewports :
           CreateSurface(v, TRUE) /\ surface'[v] = NoSurface
             => \/ kInvalidViewId \in usedViewIds' \ usedViewIds
                \/ \A r, b \in ViewId \ usedViewIds : r = b]_vars
=============================================================================

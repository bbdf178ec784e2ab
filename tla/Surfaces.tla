------------------------------ MODULE Surfaces ------------------------------
(***************************************************************************)
(* What a viewport's surface is made of: RenderDevice with the textures    *)
(* and the framebuffer that its calls create, one by one, and destroy, the *)
(* framebuffers that bgfx's views render into, and the size of the back    *)
(* buffer.                                                                 *)
(***************************************************************************)
EXTENDS RenderDevice

CONSTANTS
    Sizes,       \* sizes of viewports
    Frames,      \* framebuffer handles
    NoFrame,     \* BGFX_INVALID_HANDLE: of a view, the back buffer
    Readbacks    \* kReadbackBufferCount

ASSUME SurfaceAssumption ==
    /\ Sizes \subseteq [w : Nat, h : Nat]
    /\ NoFrame \notin Frames
    /\ Readbacks \in Nat

VARIABLES
    parts,     \* what each viewport's m_surface holds, and how many textures
               \* bgfx has made for it and not destroyed
    frames,    \* framebuffers that exist
    target,    \* the framebuffer of each of bgfx's views
    back       \* m_backbufferWidth and m_backbufferHeight

surfaceVars == <<parts, frames, target, back>>

NumTextures == 2 + Readbacks    \* colorTex, depthTex and readbackTex
NoSize == [w |-> 0, h |-> 0]
NoParts == [frame |-> NoFrame, textures |-> 0, size |-> NoSize, alive |-> 0]

SurfaceTypeOK ==
    /\ parts \in [Viewports -> [frame : Frames \cup {NoFrame}, textures : Nat,
                                size : [w : Nat, h : Nat], alive : Int]]
    /\ frames \subseteq Frames
    /\ target \in [ViewId -> Frames \cup {NoFrame}]
    /\ back \in [w : Nat, h : Nat]

SurfaceInit ==
    /\ Init
    /\ parts = [v \in Viewports |-> NoParts]
    /\ frames = {}
    /\ target = [id \in ViewId |-> NoFrame]
    /\ back = NoSize
-----------------------------------------------------------------------------
Larger(a, b) == IF a < b THEN b ELSE a

(* ensureResolutionInternal: the back buffer only grows.                   *)
Grown(b, s) == [w |-> Larger(1, Larger(s.w, b.w)), h |-> Larger(1, Larger(s.h, b.h))]

(* destroySurfaceResources.                                                *)
Emptied(p) == [NoParts EXCEPT !.alive = p.alive - p.textures]

(* createSurfaceResources gets as far as n textures and the framebuffer f: *)
(* both targets are tried, then the framebuffer, then one readback texture *)
(* after the other.                                                        *)
Reached(n, f) ==
    /\ n \in 0 .. NumTextures
    /\ n < 2 => f = NoFrame
    /\ n > 2 => f # NoFrame

Kept(p, s, n, f) ==    \* mutant: what was made before a failure is kept
    [frame |-> f, textures |-> n, size |-> s, alive |-> p.alive + n]

Created(p, s, n, f) ==
    LET made == [frame |-> f, textures |-> n, size |-> s, alive |-> p.alive + n]
    IN  IF n = NumTextures /\ f # NoFrame THEN made ELSE Emptied(made)

(* The surface's resources are replaced.  Destroying the framebuffer comes *)
(* first, so bgfx may give its handle out again.                           *)
Replace(v, p) ==
    /\ parts' = [parts EXCEPT ![v] = p]
    /\ frames' = (frames \ {parts[v].frame}) \cup ({p.frame} \ {NoFrame})

Unbound(v) == UNCHANGED target    \* mutant: the views keep their framebuffers

(* setViewFrameBuffer, at the end of createSurfaceResources.               *)
Bind(v) ==
    target' = IF parts'[v].frame = NoFrame THEN target
              ELSE [target EXCEPT ![surface'[v].render] = parts'[v].frame,
                                  ![surface'[v].blit] = NoFrame]
-----------------------------------------------------------------------------
(* acquire, with the size of the viewport.                                 *)
Start(v, s, ok) ==
    /\ Acquire(v, ok)
    /\ back' = Grown(IF initialized THEN back ELSE NoSize, s)
    /\ UNCHANGED <<parts, frames, target>>

(* createSurface, which is called without a framebuffer.  Two ids are      *)
(* needed before anything else is made.                                    *)
Make(v, s, n, f) ==
    /\ parts[v].frame = NoFrame
    /\ LET whole == n = NumTextures /\ f # NoFrame IN
       /\ TakeIds(v, whole)
       /\ Replace(v, IF whole /\ surface'[v] = NoSurface
                       THEN Emptied(Emptied(parts[v]))
                       ELSE Created(Emptied(parts[v]), s, n, f))
    /\ Bind(v)
    /\ back' = Grown(back, s)

(* resizeSurface to another size, which is called with a framebuffer.      *)
Resize(v, s, n, f) ==
    /\ parts[v].frame # NoFrame /\ s # parts[v].size
    /\ KeepIds(v, n = NumTextures /\ f # NoFrame)
    /\ Replace(v, Created(Emptied(parts[v]), s, n, f))
    /\ Bind(v)
    /\ back' = Grown(back, s)

(* destroySurface and release, in drainAndRelease.                         *)
Drain(v) ==
    /\ DrainAndRelease(v)
    /\ Replace(v, Emptied(parts[v]))
    /\ UNCHANGED <<target, back>>

SurfaceNext ==
    \E v \in Viewports :
        \/ \E s \in Sizes :
               \/ \E ok \in BOOLEAN : Start(v, s, ok)
               \/ \E n \in 0 .. NumTextures :
                  \E f \in (Frames \ (frames \ {parts[v].frame})) \cup {NoFrame} :
                      Reached(n, f) /\ (Make(v, s, n, f) \/ Resize(v, s, n, f))
        \/ Drain(v)

SurfaceSpec == SurfaceInit /\ [][SurfaceNext]_<<vars, surfaceVars>>
-----------------------------------------------------------------------------
(***************************************************************************)
(* Properties                                                              *)
(***************************************************************************)
(* Whichever of its parts cannot be made, a surface has all of them, of a  *)
(* size that the back buffer covers, and two view ids, or none; nothing it *)
(* no longer has is left behind in bgfx, and nothing is destroyed twice.   *)
SurfacesWhole ==
    /\ SurfaceTypeOK
    /\ \A v \in Viewports :
           LET p == parts[v] IN
           /\ p.alive = p.textures
           /\ \/ /\ HasSurface(v) /\ p.frame # NoFrame /\ p.textures = NumTextures
                 /\ p.size \in Sizes /\ p.size.w <= back.w /\ p.size.h <= back.h
              \/ ~HasSurface(v) /\ p = NoParts
    /\ frames = {parts[v].frame : v \in Viewports} \ {NoFrame}

(* However view ids and handles are used again, a viewport's view renders  *)
(* into its own framebuffer, and nobody else's does.                       *)
ViewsDrawHome ==
    \A v \in Viewports : HasSurface(v) =>
        /\ target[surface[v].render] = parts[v].frame
        /\ target[surface[v].blit] = NoFrame
        /\ \A w \in Viewports \ {v} :
               HasSurface(w) => target[surface[w].render] # parts[v].frame

(* What viewports have of the device and of bgfx: ids that nobody shares   *)
(* and none is lost of, a reference each, whole surfaces, their own views. *)
SurfacesKept == DeviceAccounted /\ SurfacesWhole /\ ViewsDrawHome
=============================================================================

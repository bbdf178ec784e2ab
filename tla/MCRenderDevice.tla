--------------------------- MODULE MCRenderDevice ---------------------------
(***************************************************************************)
(* RenderDevice and its delete queue on small instances: two viewports     *)
(* and few enough view ids that they wrap and run out; 16 frame ids, so    *)
(* that every pair of ids a caller can produce is compared, across the     *)
(* wrap too.  The two share no state, and each is explored alone.          *)
(***************************************************************************)
EXTENDS Surfaces, DeferredDeleteQueue, TLC

McSizes == {[w |-> 2, h |-> 1], [w |-> 1, h |-> 2]}

Handles == Permutations(Frames) \cup Permutations(Viewports)

VARIABLE explored

MCInit == explored \in {"device", "queue"} /\ SurfaceInit /\ QueueInit

MCNext ==
    /\ UNCHANGED explored
    /\ \/ explored = "device" /\ SurfaceNext /\ UNCHANGED queue
       \/ explored = "queue" /\ QueueNext /\ UNCHANGED <<vars, surfaceVars>>

MCSpec == MCInit /\ [][MCNext]_<<vars, surfaceVars, queue, explored>>
=============================================================================

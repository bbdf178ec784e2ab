----------------------------- MODULE TerrainLod -----------------------------
(***************************************************************************)
(* The subdivision the compute tier draws the terrain with: two coarse     *)
(* triangles, each split along a binary tree of keys, kept in GPU buffers  *)
(* that TerrainRenderer::renderTerrain reads and writes alternately.  Each *)
(* frame dispatches cs_terrain_init or cs_terrain_update_indirect, then    *)
(* cs_terrain_lod with a thread per key, then cs_terrain_update_draw, and  *)
(* draws one instance of a small mesh per key.                             *)
(*                                                                         *)
(* What a thread computes from camera and heights is a choice here.  The   *)
(* threads run in the order of their ids: writeKey's atomic counter makes  *)
(* any other order a permutation of the same slots.  Key buffers are as    *)
(* long as needed; the program's have 2^27 bytes.                          *)
(***************************************************************************)
EXTENDS Integers, Sequences, FiniteSets

CONSTANTS
    MaxDepth,    \* level of a leaf key: 31 in the program
    GroupSize,   \* COMPUTE_THREAD_COUNT and UPDATE_INDIRECT_VALUE_DIVIDE
    Levels       \* values given to setGpuSubdivision

ASSUME LodAssumption ==
    /\ MaxDepth \in Nat \ {0}
    /\ GroupSize \in Nat \ {0}
    /\ 3 \in Levels /\ Levels \subseteq 0 .. 3    \* there are tables L0 to L3

VARIABLES
    gpuSubd,     \* m_uniforms.gpuSubd
    freeze,      \* m_freeze
    restart,     \* m_restart
    pingPong,    \* m_pingPong
    mesh,        \* level of the instanced mesh's buffers
    subd,        \* m_bufferSubd[0..1]
    culled,      \* m_bufferCulledSubd
    counters,    \* m_bufferCounter, in words
    groups,      \* m_dispatchIndirect: groups of cs_terrain_lod
    draw,        \* m_dispatchIndirect: the draw's arguments
    thread,      \* threads of cs_terrain_lod that have run
    lodStep      \* the next step of renderTerrain

gpu == <<pingPong, mesh, subd, culled, counters, groups, draw>>
lod == <<gpuSubd, freeze, restart, gpu, thread, lodStep>>

TwoTo[n \in Nat] == IF n = 0 THEN 1 ELSE 2 * TwoTo[n - 1]

Key  == 1 .. TwoTo[MaxDepth + 1] - 1
Slot == [prim : {0, 1}, key : Key]

LodTypeOK ==
    /\ gpuSubd \in 0 .. 3 /\ mesh \in 0 .. 3
    /\ {freeze, restart} \subseteq BOOLEAN
    /\ pingPong \in 0 .. 1
    /\ subd \in [0 .. 1 -> Seq(Slot)]
    /\ culled \in Seq(Slot)
    /\ counters \in [0 .. 2 -> Nat]
    /\ groups \in Nat /\ thread \in Nat
    /\ draw \in [indices : Nat, instances : Nat]
    /\ lodStep \in {"idle", "threads", "submit"}
-----------------------------------------------------------------------------
(***************************************************************************)
(* Keys (isubd.sh)                                                         *)
(***************************************************************************)
FindMSB(key) == CHOOSE d \in 0 .. MaxDepth : TwoTo[d] <= key /\ key < TwoTo[d + 1]

IsLeafKey(key) == FindMSB(key) = MaxDepth

ParentKey(key) == key \div 2

ChildrenKeys(key) == <<2 * key, 2 * key + 1>>

Roots == <<[prim |-> 0, key |-> 1], [prim |-> 1, key |-> 1]>>

(* Indices drawn per instance (cs_terrain_init, cs_terrain_update_draw).   *)
IndexCount(level) == IF 2 * level - 1 <= 0 THEN 3 ELSE 6 * TwoTo[2 * level - 1]

(* loadInstancedGeometryBuffers: 1, 4, 16 or 64 triangles.                 *)
MeshIndices(level) == 3 * <<1, 4, 16, 64>>[level + 1]
-----------------------------------------------------------------------------
(***************************************************************************)
(* Between frames: the GUI's settings, and teardown.  A frame whose        *)
(* heightfield is not ready changes nothing here, however long it takes.   *)
(***************************************************************************)
SetGpuSubdivision(level) ==
    /\ lodStep = "idle"
    /\ level # gpuSubd
    /\ gpuSubd' = level
    /\ restart' = TRUE
    /\ UNCHANGED <<freeze, gpu, thread, lodStep>>

SetFreeze(on) ==
    /\ lodStep = "idle"
    /\ freeze # on
    /\ freeze' = on
    /\ UNCHANGED <<gpuSubd, restart, gpu, thread, lodStep>>

(* shutdown, and an init that follows: buffers are forgotten.              *)
InvalidateAllHandles ==
    /\ lodStep = "idle"
    /\ ~restart
    /\ restart' = TRUE
    /\ UNCHANGED <<gpuSubd, freeze, gpu, thread, lodStep>>
-----------------------------------------------------------------------------
(***************************************************************************)
(* renderTerrain's dispatches                                              *)
(***************************************************************************)
Out == pingPong
In  == 1 - pingPong

(* Threads beyond the last key return at once, so one group too many does  *)
(* no harm.                                                                *)
GroupsFor(n) == n \div GroupSize + 1

(* m_restart: the mesh and the buffers are made anew and cs_terrain_init   *)
(* seeds them with the coarse triangles.                                   *)
InitIndirect ==
    /\ lodStep = "idle" /\ lodStep' = "threads"
    /\ restart
    /\ restart' = FALSE
    /\ pingPong' = 1
    /\ mesh' = gpuSubd
    /\ subd' = [b \in 0 .. 1 |-> Roots]
    /\ culled' = Roots
    /\ counters' = [c \in 0 .. 2 |-> IF c = 2 THEN 2 ELSE 0]
    /\ groups' = GroupsFor(2)
    /\ draw' = [indices |-> IndexCount(gpuSubd), instances |-> 0]
    /\ thread' = 0
    /\ UNCHANGED <<gpuSubd, freeze>>

(* cs_terrain_update_indirect: the keys written last are the ones to read. *)
UpdateIndirect ==
    /\ lodStep = "idle" /\ lodStep' = "threads"
    /\ ~restart
    /\ counters' = [c \in 0 .. 2 |-> IF c = 2 THEN counters[0] \div 2 ELSE 0]
    /\ groups' = GroupsFor(counters[0] \div 2)
    /\ thread' = 0
    /\ UNCHANGED <<gpuSubd, freeze, restart, pingPong, mesh, subd, culled, draw>>

(* writeKey: slots reserved by the counter, n words up to now, are filled. *)
Written(buffer, n, slots) ==
    LET first == n \div 2 IN
    SubSeq(buffer, 1, first) \o slots
        \o SubSeq(buffer, first + Len(slots) + 1, Len(buffer))

MergesToParent(slot, choice) ==    \* mutant: a key that could merge is replaced
    IF choice = "subdivide" /\ ~IsLeafKey(slot.key)
      THEN [i \in 1 .. 2 |-> [slot EXCEPT !.key = ChildrenKeys(slot.key)[i]]]
      ELSE IF choice = "merge" /\ slot.key # 1
        THEN <<[slot EXCEPT !.key = ParentKey(slot.key)]>>
        ELSE <<slot>>

(* updateSubdBuffer: a key that could merge is kept, as its sibling is     *)
(* judged on its own.                                                      *)
UpdateSubdBuffer(slot, choice) ==
    IF choice = "subdivide" /\ ~IsLeafKey(slot.key)
      THEN [i \in 1 .. 2 |-> [slot EXCEPT !.key = ChildrenKeys(slot.key)[i]]]
      ELSE <<slot>>

Threads == IF groups * GroupSize < counters[2] THEN groups * GroupSize ELSE counters[2]

(* One thread of cs_terrain_lod.  Nothing is culled (configureUniforms).   *)
LodThread(choice) ==
    /\ lodStep = "threads"
    /\ thread < Threads
    /\ freeze => choice = "keep"
    /\ LET slot == subd[In][thread + 1]
           next == UpdateSubdBuffer(slot, choice) IN
         /\ subd' = [subd EXCEPT ![Out] = Written(@, counters[0], next)]
         /\ culled' = Written(culled, counters[1], <<slot>>)
         /\ counters' = [counters EXCEPT ![0] = @ + 2 * Len(next), ![1] = @ + 2]
    /\ thread' = thread + 1
    /\ UNCHANGED <<gpuSubd, freeze, restart, pingPong, mesh, groups, draw, lodStep>>

(* cs_terrain_update_draw, when the threads are done.                      *)
UpdateDraw ==
    /\ lodStep = "threads" /\ lodStep' = "submit"
    /\ thread = Threads
    /\ draw' = [indices |-> IndexCount(gpuSubd), instances |-> counters[1] \div 2]
    /\ thread' = 0
    /\ UNCHANGED <<gpuSubd, freeze, restart, pingPong, mesh, subd, culled,
                   counters, groups>>

(* The draw is submitted and the buffers change places.                    *)
Submit ==
    /\ lodStep = "submit" /\ lodStep' = "idle"
    /\ pingPong' = 1 - pingPong
    /\ UNCHANGED <<gpuSubd, freeze, restart, mesh, subd, culled, counters,
                   groups, draw, thread>>
-----------------------------------------------------------------------------
LodInit ==
    /\ gpuSubd = 3
    /\ freeze = FALSE
    /\ restart = TRUE
    /\ pingPong = 0
    /\ mesh = 0
    /\ subd = [b \in 0 .. 1 |-> <<>>]
    /\ culled = <<>>
    /\ counters = [c \in 0 .. 2 |-> 0]
    /\ groups = 0
    /\ draw = [indices |-> 0, instances |-> 0]
    /\ thread = 0
    /\ lodStep = "idle"

LodNext ==
    \/ \E level \in Levels : SetGpuSubdivision(level)
    \/ \E on \in BOOLEAN : SetFreeze(on)
    \/ InvalidateAllHandles
    \/ InitIndirect \/ UpdateIndirect
    \/ \E choice \in {"subdivide", "keep", "merge"} : LodThread(choice)
    \/ UpdateDraw \/ Submit

LodSpec == LodInit /\ [][LodNext]_lod
-----------------------------------------------------------------------------
(***************************************************************************)
(* Properties                                                              *)
(***************************************************************************)

LeafKeys == TwoTo[MaxDepth] .. TwoTo[MaxDepth + 1] - 1

(* A key's triangle contains the deepest triangle at "leaf".               *)
Covers(key, leaf) == key = leaf \div TwoTo[MaxDepth - FindMSB(key)]

(* Every point of both coarse triangles lies in exactly one of the first   *)
(* n slots of a buffer.                                                    *)
Tiles(buffer, n) ==
    \A prim \in {0, 1}, leaf \in LeafKeys :
        Cardinality({i \in 1 .. n : /\ buffer[i].prim = prim
                                    /\ Covers(buffer[i].key, leaf)}) = 1

(* What is drawn covers the terrain exactly: no triangle is missing where  *)
(* siblings were judged differently or the last group of threads was       *)
(* partial, and none is drawn twice ("Merging a parent from only one child *)
(* is not topology-safe", terrain_common.sh:95), over any number of        *)
(* frames, restarts, freezes and changes of level.                         *)
DrawnTiles == lodStep = "submit" => Tiles(culled, draw.instances)

(* The draw asks for as many indices as the mesh has that is bound, also   *)
(* when the level changed while nothing could be drawn.                    *)
IndicesExist == lodStep = "submit" => draw.indices = MeshIndices(mesh)

(* Whatever changed since the last frame, the draw shows the terrain, with *)
(* the mesh it is drawn with.                                              *)
TerrainDrawn == LodTypeOK /\ DrawnTiles /\ IndicesExist
=============================================================================

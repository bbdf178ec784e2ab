----------------------------- MODULE FramePasses -----------------------------
(***************************************************************************)
(* engine::FramePassList: a linear list of the passes of a frame with what *)
(* each reads and writes, whose order TerrainRenderer::init validates and  *)
(* the render.resources snapshot reports.  The list describes update(), it *)
(* does not drive it.                                                      *)
(***************************************************************************)
EXTENDS Integers, Sequences

CONSTANTS
    Resources,    \* resources of the passes that are added
    MaxPasses     \* bound: passes added to a list

ASSUME PassesAssumption == MaxPasses \in Nat

VARIABLES
    base,         \* the list started from
    passes        \* FramePassList::m_passes

Pass(reads, writes) == [reads |-> reads, writes |-> writes]

Target == {"ColorTarget", "DepthTarget"}

(* buildTerrainFramePasses: the tiers differ in names and view ids only.   *)
TerrainFramePasses ==
    <<Pass({"Heightfield"}, {"Dmap"}),
      Pass({"Dmap"}, {"Smap"}),
      Pass({"Dmap"}, {"OverlayMax"}),
      Pass({"Dmap", "Smap", "Diffuse"}, Target),
      Pass({}, Target),
      Pass({"OverlayMax"}, {"ColorTarget"}),
      Pass({"ColorTarget"}, {})>>

Produced(list) == UNION {list[i].writes : i \in 1 .. Len(list)}

AllReads(p, produced) == p.reads    \* mutant: external inputs are not exempt

ProducedReads(p, produced) == p.reads \cap produced

(* The loop of validate: one pass's reads against what earlier passes have *)
(* made available.                                                         *)
Check(acc, p, produced) ==
    [ok |-> acc.ok /\ ProducedReads(p, produced) \subseteq acc.available,
     available |-> acc.available \cup p.writes]

Checked(list, produced) ==
    LET after[n \in 0 .. Len(list)] ==
            IF n = 0 THEN [ok |-> TRUE, available |-> {}]
            ELSE Check(after[n - 1], list[n], produced)
    IN  after

Validate(list) == Checked(list, Produced(list))[Len(list)].ok

PassesInit == base \in {<<>>, TerrainFramePasses} /\ passes = base

(* FramePassList::add                                                      *)
Add ==
    /\ Len(passes) < Len(base) + MaxPasses
    /\ \E reads, writes \in SUBSET Resources :
         passes' = Append(passes, Pass(reads, writes))
    /\ UNCHANGED base

PassesNext == Add

(* validate accepts a list if and only if no pass reads what only itself   *)
(* and later passes write ("must not be *read* by an earlier pass than the *)
(* one that writes it", frame_graph.h:73); the terrain's own list is one.  *)
ValidateAgrees ==
    /\ Validate(passes) <=>
         \A i \in 1 .. Len(passes) : \A r \in passes[i].reads :
            \/ \A j \in 1 .. Len(passes) : r \notin passes[j].writes
            \/ \E j \in 1 .. i - 1 : r \in passes[j].writes
    /\ passes = TerrainFramePasses => Validate(passes)
=============================================================================

------------------------------ MODULE GpuDecode ------------------------------
(***************************************************************************)
(* dispatchGpuHeightfieldDecode: the decoding of a heightfield by compute  *)
(* shaders.  The render thread makes textures, records dispatches and      *)
(* gives the temporary textures back, each creation possibly failing; the  *)
(* GPU runs the dispatches later, in order.  In a reduction the threads of *)
(* a workgroup share memory and meet at barriers.                          *)
(*                                                                         *)
(* The request always has the range 0 .. 0.3 of an image, so that the      *)
(* reduction is recorded only if the texture for that range is refused.    *)
(* Workgroups write different texels and read none of each other's, so     *)
(* they run in turn.                                                       *)
(***************************************************************************)
EXTENDS HeightDecode
LOCAL INSTANCE FiniteSetsExt

CONSTANTS
    Side,        \* GROUP_SIZE, the side of a workgroup: a power of 2
    Pictures,    \* images: [w, h, bgra, pixels], their colours row by row
    DisplayMax   \* asset.heightMax of an image, above heightMin = 0

ASSUME GpuAssumption == Side \in Nat \ {0} /\ DisplayMax \in Nat \ {0}

VARIABLES
    picture,     \* the request
    pc,          \* where dispatchGpuHeightfieldDecode is
    textures,    \* the textures made: [w, h, texels]
    destroyed,   \* bgfx::destroy calls for each of them
    minmaxIn,    \* the texture with the range, or its latest reduction
    fellBack,    \* the texture for the range was refused
    commands,    \* dispatches recorded and not run
    group,       \* the workgroup at work
    shared,      \* sMin and sMax of each of its threads
    stage        \* barriers each thread has passed, or waits at

recording == <<pc, textures, destroyed, minmaxIn, fellBack>>
workgroup == <<group, shared, stage>>
gpuDecode == <<picture, recording, commands, workgroup>>

Raw == 1        \* the textures are numbered as they are made
Invocations == 0 .. Side * Side - 1
Groups(n) == (n + Side - 1) \div Side
Texel(t, x, y) == textures[t].texels[y * textures[t].w + x + 1]

Make(w, h, texels) ==
    /\ textures' = Append(textures, [w |-> w, h |-> h, texels |-> texels])
    /\ destroyed' = Append(destroyed, 0)

Blank(w, h) == [i \in 1 .. w * h |-> NoHeight]

Destroy(ts) ==
    destroyed' = [t \in DOMAIN destroyed |-> destroyed[t] + (IF t \in ts THEN 1 ELSE 0)]

Record(kind, from, to) == Append(commands, [kind |-> kind, from |-> from, to |-> to])

Fails(ts) ==
    /\ Destroy(ts)
    /\ pc' = "failed" /\ commands' = commands
    /\ UNCHANGED <<textures, minmaxIn, fellBack>>
-----------------------------------------------------------------------------
(***************************************************************************)
(* The render thread                                                       *)
(***************************************************************************)
CreateRaw(ok) ==
    /\ pc = "begin"
    /\ \/ ok /\ Make(picture.w, picture.h, picture.pixels) /\ pc' = "range"
          /\ UNCHANGED <<minmaxIn, fellBack, commands>>
       \/ ~ok /\ Fails({})
    /\ UNCHANGED <<picture, workgroup>>

(* A refusal gives the raw texture back and goes on with the reduction,    *)
(* which reads it: bgfx keeps a destroyed texture to the end of the frame. *)
CreateRange(ok) ==
    /\ pc = "range"
    /\ \/ ok /\ Make(1, 1, <<<<0, DisplayMax>>>>)
          /\ minmaxIn' = Len(textures) + 1 /\ pc' = "dmap" /\ UNCHANGED fellBack
       \/ ~ok /\ Destroy({Raw}) /\ fellBack' = TRUE /\ pc' = "tiles"
          /\ UNCHANGED <<textures, minmaxIn>>
    /\ UNCHANGED <<picture, commands, workgroup>>

CreateTiles(ok) ==
    /\ pc = "tiles"
    /\ LET w == Groups(picture.w)  h == Groups(picture.h)  new == Len(textures) + 1 IN
       \/ ok /\ Make(w, h, Blank(w, h))
          /\ commands' = Record("minmax", Raw, new)
          /\ minmaxIn' = new /\ pc' = "reduce" /\ UNCHANGED fellBack
       \/ ~ok /\ Fails({Raw})
    /\ UNCHANGED <<picture, workgroup>>

(* One pass of the while loop; the texture it reads is given back.         *)
CreateReduced(ok) ==
    /\ pc = "reduce"
    /\ LET in  == textures[minmaxIn]
           w   == Groups(in.w)
           h   == Groups(in.h)
           new == Len(textures) + 1 IN
       \/ in.w <= 1 /\ in.h <= 1 /\ ok /\ pc' = "dmap"
          /\ UNCHANGED <<textures, destroyed, minmaxIn, fellBack, commands>>
       \/ /\ in.w > 1 \/ in.h > 1
          /\ ok
          /\ textures' = Append(textures, [w |-> w, h |-> h, texels |-> Blank(w, h)])
          /\ destroyed' = Append([destroyed EXCEPT ![minmaxIn] = @ + 1], 0)
          /\ commands' = Record("reduce", minmaxIn, new)
          /\ minmaxIn' = new
          /\ UNCHANGED <<pc, fellBack>>
       \/ (in.w > 1 \/ in.h > 1) /\ ~ok /\ Fails({minmaxIn, Raw})
    /\ UNCHANGED <<picture, workgroup>>

KeepsRange == {Raw}     \* mutant: the last reduction is never given back

Temporaries == {minmaxIn, Raw}

CreateDmap(ok) ==
    /\ pc = "dmap"
    /\ LET new == Len(textures) + 1 IN
       \/ ok /\ textures' = Append(textures, [w |-> picture.w, h |-> picture.h,
                                              texels |-> Blank(picture.w, picture.h)])
          /\ destroyed' = Append([t \in DOMAIN destroyed |->
                              destroyed[t] + (IF t \in Temporaries THEN 1 ELSE 0)], 0)
          /\ commands' = Record("normalize", minmaxIn, new)
          /\ pc' = "recorded" /\ UNCHANGED <<minmaxIn, fellBack>>
       \/ ~ok /\ Fails({minmaxIn, Raw})
    /\ UNCHANGED <<picture, workgroup>>
-----------------------------------------------------------------------------
(***************************************************************************)
(* The GPU: cs_heightfield_minmax.sc, cs_heightfield_reduce.sc and         *)
(* cs_heightfield_normalize.sc                                             *)
(***************************************************************************)
Command == Head(commands)

Combined(p, q) ==
    CASE p = NoHeight -> q
      [] p # NoHeight /\ q = NoHeight -> p
      [] OTHER -> <<Min({p[1], q[1]}), Max({p[2], q[2]})>>

(* The heights that decodeHeight finds in the raw texture.                 *)
OrderPacked == OrderId(picture.bgra) + (IF picture.bgra THEN 0 ELSE 4)

ShaderHeight(p) == Height(ShaderPacked(p, OrderPacked))

HeightsBy(HeightOf(_)) == [i \in DOMAIN picture.pixels |-> HeightOf(picture.pixels[i])]

(* What a thread starts from: its texel, if it has a valid one.            *)
Loaded(t) ==
    LET x    == group[1] * Side + (t % Side)
        y    == group[2] * Side + (t \div Side)
        from == textures[Command.from] IN
    IF x >= from.w \/ y >= from.h THEN NoHeight
    ELSE LET v == Texel(Command.from, x, y) IN
         IF Command.kind = "reduce" THEN v
         ELSE IF ShaderHeight(v) = NoHeight THEN NoHeight
         ELSE <<ShaderHeight(v), ShaderHeight(v)>>

Stride(s) == (Side * Side) \div 2 ^ s

Stages == CHOOSE s \in 0 .. Side * Side : Stride(s) = 1

NoBarrier(s) == TRUE        \* mutant: barrier() left out

AllAt(s) == \A t \in Invocations : stage[t] >= s

Reducing == commands # <<>> /\ pc \in {"recorded", "failed"} /\ Command.kind # "normalize"

LoadTexel(t) ==
    /\ Reducing /\ stage[t] = 0
    /\ shared' = [shared EXCEPT ![t] = Loaded(t)]
    /\ stage' = [stage EXCEPT ![t] = 1]
    /\ UNCHANGED <<picture, recording, commands, group>>

(* Past its barrier a thread of the lower half takes in the upper half's.  *)
Reduce(t) ==
    /\ Reducing /\ stage[t] \in 1 .. Stages /\ AllAt(stage[t])
    /\ LET stride == Stride(stage[t]) IN
       shared' = IF t < stride
                   THEN [shared EXCEPT ![t] = Combined(@, shared[t + stride])]
                   ELSE shared
    /\ stage' = [stage EXCEPT ![t] = @ + 1]
    /\ UNCHANGED <<picture, recording, commands, group>>

(* Thread 0 stores the result of its group past the last barrier; the next *)
(* group or dispatch begins when all are done.                             *)
EndGroup ==
    /\ Reducing /\ AllAt(Stages + 1)
    /\ LET to   == textures[Command.to]
           cell == group[2] * to.w + group[1]
           next == cell + 1 IN
       /\ textures' = [textures EXCEPT ![Command.to].texels[cell + 1] = shared[0]]
       /\ IF next < to.w * to.h
            THEN group' = <<next % to.w, next \div to.w>> /\ UNCHANGED commands
            ELSE group' = <<0, 0>> /\ commands' = Tail(commands)
    /\ shared' = [t \in Invocations |-> NoHeight]
    /\ stage' = [t \in Invocations |-> 0]
    /\ UNCHANGED <<picture, pc, destroyed, minmaxIn, fellBack>>

(* A range that is no range makes a flat map.                              *)
NormalizeTexels ==
    /\ commands # <<>> /\ pc = "recorded" /\ Command.kind = "normalize"
    /\ LET minmax == Texel(Command.from, 0, 0) IN
       textures' = [textures EXCEPT ![Command.to].texels =
                       Normalized(HeightsBy(ShaderHeight), IF minmax = NoHeight THEN <<0, 0>> ELSE minmax)]
    /\ commands' = Tail(commands)
    /\ UNCHANGED <<picture, pc, destroyed, minmaxIn, fellBack, workgroup>>
-----------------------------------------------------------------------------
GpuInit ==
    /\ picture \in Pictures
    /\ pc = "begin"
    /\ textures = <<>> /\ destroyed = <<>>
    /\ minmaxIn = 0 /\ fellBack = FALSE
    /\ commands = <<>>
    /\ group = <<0, 0>>
    /\ shared = [t \in Invocations |-> NoHeight]
    /\ stage = [t \in Invocations |-> 0]

GpuNext ==
    \/ \E ok \in BOOLEAN : \/ CreateRaw(ok) \/ CreateRange(ok) \/ CreateTiles(ok)
                           \/ CreateReduced(ok) \/ CreateDmap(ok)
    \/ \E t \in Invocations : LoadTexel(t) \/ Reduce(t)
    \/ EndGroup \/ NormalizeTexels
-----------------------------------------------------------------------------
(***************************************************************************)
(* Properties                                                              *)
(***************************************************************************)
Over == pc = "recorded" /\ commands = <<>>

(* However the threads of the workgroups interleave and however many       *)
(* passes the reduction takes, the map the GPU makes is the one the CPU    *)
(* makes of the heights it decodes in decodeRGBAHeightfield and, of BGRA   *)
(* images, in decodePixel ("matching cs_heightfield_minmax.sc encoding     *)
(* rules", terrain_cpu_compute.h:10): in the range of the heights if the   *)
(* GPU has to find it, in that of the request otherwise.                   *)
LegacyHeight(p) == Height(CpuPacked(p, picture.bgra))

PixelHeight(p) == Height(PixelPacked(p, picture.bgra))

DecodedAsOnCpu ==
    Over =>
        LET dmap == textures[Len(textures)].texels
            normal(values) == IF fellBack THEN CpuNormalized(values)
                              ELSE Normalized(values, <<0, DisplayMax>>) IN
        /\ dmap = normal(HeightsBy(LegacyHeight))
        /\ picture.bgra => dmap = normal(HeightsBy(PixelHeight))

(* Whichever creations fail, no temporary texture is kept and none but the *)
(* raw one of a fallback is given back twice; a failed decode leaves no    *)
(* texture, a successful one its map, which no one gave back.              *)
TemporariesReturned ==
    pc \in {"recorded", "failed"} =>
        \A t \in DOMAIN textures :
            destroyed[t] = CASE t = Len(textures) /\ pc = "recorded" -> 0
                             [] t = Raw /\ fellBack -> 2
                             [] OTHER -> 1
=============================================================================

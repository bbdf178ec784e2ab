---------------------------- MODULE TerrainProofs ----------------------------
(***************************************************************************)
(* Theorems about what a TerrainRenderer holds of bgfx, for any number of  *)
(* renderers, handles, maps and frames: what it holds exists, nothing is   *)
(* destroyed twice or left behind.  And about the service that fetches the *)
(* files it is loaded from, for any bodies, extensions and requests; and   *)
(* about the check of the list of its passes, the textures of a decode and *)
(* the keys that are drawn.                                                *)
(***************************************************************************)
EXTENDS TerrainTextures, TerrainResources, AssetFetch, FramePasses, TerrainLod,
        SubsequencesProofs

(* A renderer holds nothing before init, and init is called again only     *)
(* after one that threw.                                                   *)
ResourcesInv ==
    /\ ResourcesKept
    /\ \A r \in Renderers : /\ state[r] = "new" => held[r] = {}
                            /\ state[r] = "broken" => threw

One(m, s) == IF m \in s THEN 1 ELSE 0

LEMMA HoldersFinite ==
    ASSUME NEW m
    PROVE  IsFiniteSet(Holders(m)) /\ Cardinality(Holders(m)) \in Nat
  BY FS_Subset, FS_CardinalityType, ResourceAssumption DEF Holders

(* What one renderer takes or gives up changes the number of holders.      *)
LEMMA HoldersChange ==
    ASSUME ResourcesTypeOK, NEW r \in Renderers, NEW new \in SUBSET Members,
           held' = [held EXCEPT ![r] = new], NEW m \in Members
    PROVE  Cardinality(Holders(m)') = Cardinality(Holders(m)) - One(m, held[r]) + One(m, new)
  <1>1. held \in [Renderers -> SUBSET Members]
    BY DEF ResourcesTypeOK
  <1>2. IsFiniteSet(Holders(m)) /\ Cardinality(Holders(m)) \in Nat
    BY HoldersFinite
  <1>3. CASE m \in held[r] /\ m \notin new
    <2>1. Holders(m)' = Holders(m) \ {r} /\ r \in Holders(m)
      BY <1>1, <1>3 DEF Holders
    <2>2. Cardinality(Holders(m) \ {r}) = Cardinality(Holders(m)) - 1
      BY <2>1, <1>2, FS_RemoveElement
    <2>3. QED
      BY <2>1, <2>2, <1>2, <1>3 DEF One
  <1>4. CASE m \notin held[r] /\ m \in new
    <2>1. Holders(m)' = Holders(m) \cup {r} /\ r \notin Holders(m)
      BY <1>1, <1>4 DEF Holders
    <2>2. Cardinality(Holders(m) \cup {r}) = Cardinality(Holders(m)) + 1
      BY <2>1, <1>2, FS_AddElement
    <2>3. QED
      BY <2>1, <2>2, <1>2, <1>4 DEF One
  <1>5. CASE (m \in held[r]) = (m \in new)
    <2>1. Holders(m)' = Holders(m)
      BY <1>1, <1>5 DEF Holders
    <2>2. QED
      BY <2>1, <1>2, <1>5 DEF One
  <1>6. QED
    BY <1>3, <1>4, <1>5

LEMMA Counts ==
    ASSUME ResourcesTypeOK, NEW gone, NEW created, NEW m \in Members,
           alive' = CountedWith(alive, gone, created)
    PROVE  /\ alive' \in [Members -> Int]
           /\ alive'[m] = alive[m] - One(m, gone) + One(m, created)
  BY DEF ResourcesTypeOK, CountedWith, One

LEMMA ResourcesStart == ResourcesInit => ResourcesInv
  <1> SUFFICES ASSUME ResourcesInit PROVE ResourcesInv
    OBVIOUS
  <1>1. ResourcesTypeOK
    <2>1. failures = 0 /\ 0 \in 0 .. MaxFailures
      BY ResourceAssumption DEF ResourcesInit
    <2>2. held \in [Renderers -> SUBSET Members] /\ alive \in [Members -> Int]
      BY DEF ResourcesInit
    <2>3. /\ simple \in BOOLEAN /\ threw \in BOOLEAN
          /\ state \in [Renderers -> {"new", "valid", "broken", "gone"}]
      BY DEF ResourcesInit
    <2>4. QED
      BY <2>1, <2>2, <2>3 DEF ResourcesTypeOK
  <1>2. \A m \in Members : Holders(m) = {}
    BY DEF ResourcesInit, Holders
  <1>3. \A m \in Members : alive[m] = Cardinality(Holders(m)) /\ alive[m] \in Int
    BY <1>2, FS_EmptySet DEF ResourcesInit
  <1>4. QED
    BY <1>1, <1>3 DEF ResourcesInit, ResourcesInv, ResourcesKept

LEMMA WhatInitMakes ==
    ASSUME NEW h
    PROVE  InitMakes(h) \subseteq Members /\ Grid \subseteq Members
  BY DEF InitMakes, Members

LEMMA FailuresBounded ==
    ASSUME ResourcesInv, NEW wanted, NEW failed, NEW throws, Failing(wanted, failed, throws)
    PROVE  failures' \in 0 .. MaxFailures
  <1>1. failed = {} \/ \E m : failed = {m}
    BY DEF Failing
  <1>2. Cardinality(failed) \in Nat
    BY <1>1, FS_EmptySet, FS_Singleton, FS_CardinalityType
  <1>3. failures \in Nat /\ MaxFailures \in Nat
    BY ResourceAssumption DEF ResourcesInv, ResourcesKept, ResourcesTypeOK
  <1>4. QED
    BY <1>2, <1>3 DEF Failing

LEMMA ResourcesAfterInit ==
    ASSUME ResourcesInv, NEW r \in Renderers, NEW failed, NEW throws \in BOOLEAN,
           InitRenderer(r, failed, throws)
    PROVE  ResourcesInv'
  <1> DEFINE before == Invalidated(held[r])
             wanted == InitMakes(before)
             made == wanted \ failed
             after == (before \ wanted) \cup made
             new == IF throws THEN Invalidated(after) ELSE after
  <1>1. /\ ResourcesTypeOK /\ threw \in BOOLEAN
        /\ held \in [Renderers -> SUBSET Members]
        /\ state \in [Renderers -> {"new", "valid", "broken", "gone"}]
    BY DEF ResourcesInv, ResourcesKept, ResourcesTypeOK
  <1>2. /\ held' = [held EXCEPT ![r] = new] /\ alive' = CountedWith(alive, {}, made)
        /\ state' = [state EXCEPT ![r] = IF throws THEN "broken" ELSE "valid"]
        /\ threw' = (threw \/ throws) /\ simple' = simple
        /\ state[r] \in {"new", "broken"}
    BY DEF InitRenderer
  <1>3. failures' \in 0 .. MaxFailures
    BY FailuresBounded DEF InitRenderer
  <1>4. new \in SUBSET Members /\ made \subseteq Members
    <2>1. wanted \subseteq Members /\ before \subseteq Members
      BY <1>1, WhatInitMakes DEF Invalidated
    <2>2. QED
      BY <2>1 DEF Invalidated
  <1>5. ResourcesTypeOK'
    <2>1. simple \in BOOLEAN /\ alive \in [Members -> Int]
      BY <1>1 DEF ResourcesTypeOK
    <2>2. alive' \in [Members -> Int]
      BY <2>1, <1>2 DEF CountedWith
    <2>3. held' \in [Renderers -> SUBSET Members]
      <3> HIDE DEF new
      <3>1. QED
        BY <1>1, <1>2, <1>4
    <2>4. /\ simple' \in BOOLEAN /\ threw' \in BOOLEAN
          /\ state' \in [Renderers -> {"new", "valid", "broken", "gone"}]
      BY <2>1, <1>1, <1>2
    <2>5. QED
      BY <1>3, <2>2, <2>3, <2>4 DEF ResourcesTypeOK
  <1>6. ASSUME NEW m \in Members
        PROVE  /\ alive'[m] >= Cardinality(Holders(m)')
               /\ ~threw' => alive'[m] = Cardinality(Holders(m)')
    <2>1. Cardinality(Holders(m)') = Cardinality(Holders(m)) - One(m, held[r]) + One(m, new)
      BY <1>1, <1>2, <1>4, HoldersChange
    <2>2. alive'[m] = alive[m] - One(m, {}) + One(m, made)
      BY <1>1, <1>2, Counts
    <2>3. /\ alive[m] \in Int /\ alive[m] >= Cardinality(Holders(m))
          /\ ~threw => alive[m] = Cardinality(Holders(m))
          /\ Cardinality(Holders(m)) \in Nat
      BY HoldersFinite DEF ResourcesInv, ResourcesKept, ResourcesTypeOK
    <2>4. m \in new => m \in made \/ m \in held[r]
      BY DEF Invalidated
    <2>5. CASE threw'
      BY <2>1, <2>2, <2>3, <2>4, <2>5 DEF One
    <2>6. CASE ~threw'
      <3>1. ~throws /\ ~threw /\ state[r] = "new"
        BY <2>6, <1>1, <1>2 DEF ResourcesInv
      <3>2. held[r] = {} /\ new = made
        BY <3>1 DEF ResourcesInv, Invalidated
      <3>3. QED
        BY <2>1, <2>2, <2>3, <3>1, <3>2 DEF One
    <2>7. QED
      BY <2>5, <2>6
  <1>7. ASSUME NEW q \in Renderers
        PROVE  /\ state'[q] # "valid" => held'[q] \subseteq Grid
               /\ state'[q] = "new" => held'[q] = {}
               /\ state'[q] = "broken" => threw'
    <2>1. CASE q = r
      <3>1. held'[r] = new /\ state'[r] = IF throws THEN "broken" ELSE "valid"
        BY <1>1, <1>2
      <3>2. QED
        BY <2>1, <3>1, <1>2 DEF Invalidated
    <2>2. CASE q # r
      BY <2>2, <1>1, <1>2 DEF ResourcesInv, ResourcesKept
    <2>3. QED
      BY <2>1, <2>2
  <1>8. QED
    BY <1>5, <1>6, <1>7 DEF ResourcesInv, ResourcesKept, Holders

LEMMA ResourcesAfterReplace ==
    ASSUME ResourcesInv, NEW r \in Renderers, NEW failed, NEW wanted \in SUBSET Members,
           Replace(r, wanted, failed)
    PROVE  ResourcesInv'
  <1> DEFINE made == wanted \ failed
             new == (held[r] \ wanted) \cup made
  <1>1. /\ ResourcesTypeOK /\ threw \in BOOLEAN /\ simple \in BOOLEAN
        /\ held \in [Renderers -> SUBSET Members] /\ alive \in [Members -> Int]
        /\ state \in [Renderers -> {"new", "valid", "broken", "gone"}]
    BY DEF ResourcesInv, ResourcesKept, ResourcesTypeOK
  <1>2. /\ held' = [held EXCEPT ![r] = new]
        /\ alive' = CountedWith(alive, held[r] \cap wanted, made)
        /\ state' = state /\ threw' = threw /\ simple' = simple
        /\ state[r] = "valid"
    BY DEF Replace
  <1>3. failures' \in 0 .. MaxFailures
    BY FailuresBounded DEF Replace
  <1>4. new \in SUBSET Members
    BY <1>1
  <1>5. ResourcesTypeOK'
    <2>1. alive' \in [Members -> Int]
      BY <1>1, <1>2 DEF CountedWith
    <2>2. held' \in [Renderers -> SUBSET Members]
      <3> HIDE DEF new
      <3>1. QED
        BY <1>1, <1>2, <1>4
    <2>3. QED
      BY <1>1, <1>2, <1>3, <2>1, <2>2 DEF ResourcesTypeOK
  <1>6. ASSUME NEW m \in Members
        PROVE  /\ alive'[m] >= Cardinality(Holders(m)')
               /\ ~threw' => alive'[m] = Cardinality(Holders(m)')
    <2>1. Cardinality(Holders(m)') = Cardinality(Holders(m)) - One(m, held[r]) + One(m, new)
      BY <1>1, <1>2, <1>4, HoldersChange
    <2>2. alive'[m] = alive[m] - One(m, held[r] \cap wanted) + One(m, made)
      BY <1>1, <1>2, Counts
    <2>3. /\ alive[m] \in Int /\ alive[m] >= Cardinality(Holders(m))
          /\ ~threw => alive[m] = Cardinality(Holders(m))
          /\ Cardinality(Holders(m)) \in Nat
      BY <1>1, HoldersFinite DEF ResourcesInv, ResourcesKept
    <2>4. One(m, new) - One(m, held[r]) = One(m, made) - One(m, held[r] \cap wanted)
      BY DEF One
    <2>5. /\ One(m, new) \in Int /\ One(m, held[r]) \in Int
          /\ One(m, made) \in Int /\ One(m, held[r] \cap wanted) \in Int
      BY DEF One
    <2>6. QED
      <3> HIDE DEF new, made
      <3>1. QED
        BY <1>2, <2>1, <2>2, <2>3, <2>4, <2>5
  <1>7. ASSUME NEW q \in Renderers
        PROVE  /\ state'[q] # "valid" => held'[q] \subseteq Grid
               /\ state'[q] = "new" => held'[q] = {}
               /\ state'[q] = "broken" => threw'
    <2>1. CASE q = r
      BY <2>1, <1>2
    <2>2. CASE q # r
      BY <2>2, <1>1, <1>2 DEF ResourcesInv, ResourcesKept
    <2>3. QED
      BY <2>1, <2>2
  <1>8. QED
    BY <1>5, <1>6, <1>7 DEF ResourcesInv, ResourcesKept, Holders

LEMMA ResourcesAfterShutdown ==
    ASSUME ResourcesInv, NEW r \in Renderers, Shutdown(r)
    PROVE  ResourcesInv'
  <1> DEFINE gone == IF state[r] = "valid" THEN Destroyed(held[r]) ELSE {}
             new == Invalidated(held[r])
  <1>1. /\ ResourcesTypeOK /\ threw \in BOOLEAN /\ simple \in BOOLEAN
        /\ held \in [Renderers -> SUBSET Members] /\ alive \in [Members -> Int]
        /\ state \in [Renderers -> {"new", "valid", "broken", "gone"}]
        /\ failures \in 0 .. MaxFailures
    BY DEF ResourcesInv, ResourcesKept, ResourcesTypeOK
  <1>2. /\ held' = [held EXCEPT ![r] = new]
        /\ alive' = CountedWith(alive, gone, {})
        /\ state' = [state EXCEPT ![r] = "gone"]
        /\ threw' = threw /\ simple' = simple /\ failures' = failures
    BY DEF Shutdown
  <1>3. new \in SUBSET Members /\ new \subseteq Grid
    BY <1>1 DEF Invalidated
  <1>4. ResourcesTypeOK'
    <2>1. alive' \in [Members -> Int]
      BY <1>1, <1>2 DEF CountedWith
    <2>2. held' \in [Renderers -> SUBSET Members]
      <3> HIDE DEF new
      <3>1. QED
        BY <1>1, <1>2, <1>3
    <2>3. QED
      BY <1>1, <1>2, <2>1, <2>2 DEF ResourcesTypeOK
  <1>5. ASSUME NEW m \in Members
        PROVE  /\ alive'[m] >= Cardinality(Holders(m)')
               /\ ~threw' => alive'[m] = Cardinality(Holders(m)')
    <2>1. Cardinality(Holders(m)') = Cardinality(Holders(m)) - One(m, held[r]) + One(m, new)
      BY <1>1, <1>2, <1>3, HoldersChange
    <2>2. alive'[m] = alive[m] - One(m, gone) + One(m, {})
      BY <1>1, <1>2, Counts
    <2>3. /\ alive[m] \in Int /\ alive[m] >= Cardinality(Holders(m))
          /\ ~threw => alive[m] = Cardinality(Holders(m))
          /\ Cardinality(Holders(m)) \in Nat
      BY <1>1, HoldersFinite DEF ResourcesInv, ResourcesKept
    <2>4. state[r] # "valid" => held[r] \subseteq Grid
      BY DEF ResourcesInv, ResourcesKept
    <2>5. One(m, new) - One(m, held[r]) = One(m, {}) - One(m, gone)
      BY <2>4 DEF One, Destroyed, Invalidated
    <2>6. /\ One(m, new) \in Int /\ One(m, held[r]) \in Int
          /\ One(m, {}) \in Int /\ One(m, gone) \in Int
      BY DEF One
    <2>7. QED
      <3> HIDE DEF new, gone
      <3>1. QED
        BY <1>2, <2>1, <2>2, <2>3, <2>5, <2>6
  <1>6. ASSUME NEW q \in Renderers
        PROVE  /\ state'[q] # "valid" => held'[q] \subseteq Grid
               /\ state'[q] = "new" => held'[q] = {}
               /\ state'[q] = "broken" => threw'
    <2>1. CASE q = r
      <3>1. held'[r] = new /\ state'[r] = "gone"
        BY <1>1, <1>2
      <3>2. QED
        BY <2>1, <3>1, <1>3
    <2>2. CASE q # r
      BY <2>2, <1>1, <1>2 DEF ResourcesInv, ResourcesKept
    <2>3. QED
      BY <2>1, <2>2
  <1>7. QED
    BY <1>4, <1>5, <1>6 DEF ResourcesInv, ResourcesKept, Holders

(* Every step of every renderer keeps it.                                  *)
LEMMA ResourcesStep == ResourcesInv /\ [ResourcesNext]_resources => ResourcesInv'
  <1> SUFFICES ASSUME ResourcesInv, [ResourcesNext]_resources PROVE ResourcesInv'
    OBVIOUS
  <1>1. CASE UNCHANGED resources
    BY <1>1 DEF resources, ResourcesInv, ResourcesKept, ResourcesTypeOK, Holders
  <1>2. ASSUME NEW r \in Renderers, Shutdown(r) PROVE ResourcesInv'
    BY <1>2, ResourcesAfterShutdown
  <1>3. ASSUME NEW r \in Renderers, NEW failed, NEW throws \in BOOLEAN,
               InitRenderer(r, failed, throws)
        PROVE  ResourcesInv'
    BY <1>3, ResourcesAfterInit
  <1>4. ASSUME NEW r \in Renderers, NEW failed,
               \/ RestartPatches(r, failed)
               \/ EnsureRectBuffers(r, failed) \/ EnsureMaxTexture(r, failed)
        PROVE  ResourcesInv'
    <2>1. PICK wanted \in SUBSET Members : Replace(r, wanted, failed)
      BY <1>4 DEF RestartPatches, EnsureRectBuffers, EnsureMaxTexture, Members, Patches, Rects
    <2>2. QED
      BY <2>1, ResourcesAfterReplace
  <1>5. QED
    BY <1>1, <1>2, <1>3, <1>4 DEF ResourcesNext

(* What a renderer holds exists, and nothing is destroyed twice or left    *)
(* behind (init, renderTerrain, ensureOverlay*, destroyAllResources), for  *)
(* any number of renderers and failures.                                   *)
THEOREM ResourcesAlwaysKept == ResourcesSpec => []ResourcesKept
  <1>1. ResourcesInv => ResourcesKept
    BY DEF ResourcesInv
  <1>2. QED
    BY ResourcesStart, ResourcesStep, <1>1, PTL DEF ResourcesSpec
-----------------------------------------------------------------------------
(***************************************************************************)
(* TerrainMaps.  A handle is installed in one place, or due once, or free; *)
(* and while no restore has failed the renderer knows what its two         *)
(* textures hold.                                                          *)
(***************************************************************************)
Once(content, queue, d, s) ==
    \/ content = Free /\ ~d /\ ~s /\ queue = Never
    \/ content # Free /\ ((d /\ ~s) \/ (s /\ ~d)) /\ queue = Never
    \/ content # Free /\ ~d /\ ~s /\ \E left \in Left : queue = Due(left)

HandlesOwned ==
    \A g \in Handle : Once(texture[g], retiring[g], g = dmap, g = smap)

Contents == [kind : {"free", "heights", "slopes"}, map : Maps \cup {None}]

(* Slopes are computed from the map that is there, which in the NoCompute  *)
(* tier is the one that is kept in memory too.                             *)
HeightsKnown ==
    dmap # Invalid =>
        sized /\ \E m \in Maps : texture[dmap] = Heights(m) /\ (noCompute => cpuMap = m)

SlopesKnown ==
    smap # Invalid =>
        \E n \in Maps \cup {None} :
            /\ texture[smap] = Slopes(n)
            /\ ~noCompute /\ ~writable => n = None
            /\ dmap # Invalid /\ ~needsRegen /\ (noCompute \/ writable) =>
                  n = texture[dmap].map

StepsKnown ==
    /\ step \in {"render", "draw"} /\ dmap # Invalid /\ (noCompute \/ writable) => ~needsRegen
    /\ step = "draw" => dmap # Invalid /\ smap # Invalid

TierKnown == (noCompute => ~useGpuSmap /\ ~writable) /\ (writable => useGpuSmap)

Known == HandlesOwned /\ HeightsKnown /\ SlopesKnown /\ StepsKnown

MapsInv == MapsTypeOK /\ TierKnown /\ (~underUse => Known)

LEMMA OwnedOnce == DestroyedOnce <=> MapsTypeOK /\ (~underUse => HandlesOwned)
  <1>1. ASSUME NEW g \in Handle
        PROVE  Once(texture[g], retiring[g], g = dmap, g = smap) <=>
                 \/ texture[g] = Free /\ g \notin {dmap, smap} /\ retiring[g] = Never
                 \/ texture[g] # Free /\ (g = dmap) # (g = smap) /\ retiring[g] = Never
                 \/ /\ texture[g] # Free /\ g \notin {dmap, smap}
                    /\ \E left \in Left : retiring[g] = Due(left)
    <2>1. CASE g = dmap /\ g = smap
      BY <2>1, Zenon DEF Once
    <2>2. CASE g = dmap /\ g # smap
      BY <2>2, Zenon DEF Once
    <2>3. CASE g # dmap /\ g = smap
      BY <2>3, Zenon DEF Once
    <2>4. CASE g # dmap /\ g # smap
      BY <2>4, Zenon DEF Once
    <2>5. QED
      BY <2>1, <2>2, <2>3, <2>4
  <1>2. QED
    BY <1>1, Zenon DEF DestroyedOnce, HandlesOwned

LEMMA Frames ==
    /\ RetireDmap \in Left /\ RetireTexture \in Left /\ 1 \in Left
    /\ RetireDmap \in Nat /\ RetireDmap >= 1 /\ DeferFrames \in Nat
    /\ Invalid \notin Handle
  BY MapsAssumption DEF Left, Invalid, Handle

LEMMA Queues ==
    /\ Never \in [Left -> Nat]
    /\ \A left \in Left : /\ Due(left) \in [Left -> Nat]
                          /\ [Never EXCEPT ![left] = @ + 1] = Due(left)
  BY Frames DEF Never, Due

(* What deferDestroyTexture does to the queue.                             *)
LEMMA Retires ==
    ASSUME NEW queue \in [Handle -> [Left -> Nat]], NEW h \in {Invalid} \cup Handle,
           NEW k \in Left
    PROVE  /\ Retire(queue, h, k) \in [Handle -> [Left -> Nat]]
           /\ \A g \in Handle : g # h => Retire(queue, h, k)[g] = queue[g]
           /\ h # Invalid /\ queue[h] = Never => Retire(queue, h, k)[h] = Due(k)
  <1>1. CASE h = Invalid
    BY <1>1, Frames DEF Retire
  <1>2. CASE h \in Handle /\ h # Invalid
    <2>1. Retire(queue, h, k) = [queue EXCEPT ![h] = [queue[h] EXCEPT ![k] = @ + 1]]
      BY <1>2 DEF Retire
    <2>2. [queue[h] EXCEPT ![k] = @ + 1] \in [Left -> Nat]
      BY <1>2
    <2>3. queue[h] = Never => [queue[h] EXCEPT ![k] = @ + 1] = Due(k)
      BY Queues
    <2>4. QED
      BY <1>2, <2>1, <2>2, <2>3
  <1>3. QED
    BY <1>1, <1>2, Frames

(* A created handle was free, and nobody's.                                *)
LEMMA CreatedIsFree ==
    ASSUME NEW h \in Creatable
    PROVE  h = Invalid \/ (h \in Handle /\ texture[h] = Free)
  BY Zenon DEF Creatable

LEMMA HoldingType ==
    ASSUME texture \in [Handle -> Contents], NEW h \in Creatable, NEW content \in Contents
    PROVE  /\ Holding(h, content) \in [Handle -> Contents]
           /\ h \in {Invalid} \cup Handle
           /\ \A g \in Handle : g # h => Holding(h, content)[g] = texture[g]
           /\ h # Invalid => Holding(h, content)[h] = content
  BY CreatedIsFree, Frames DEF Holding

(* A texture is replaced: the old one is due once, the new one installed   *)
(* once, the other stays what it is.                                       *)
LEMMA Replaced ==
    ASSUME MapsTypeOK, HandlesOwned,
           NEW old, NEW other, (old = dmap /\ other = smap) \/ (old = smap /\ other = dmap),
           NEW h \in Creatable, NEW content \in Contents, content # Free, NEW k \in Left
    PROVE  /\ \A g \in Handle : Once(Holding(h, content)[g], Retire(retiring, old, k)[g],
                                     g = h, g = other)
           /\ h # Invalid => h # other
  <1> DEFINE q == Retire(retiring, old, k)
             t == Holding(h, content)
  <1>1. /\ texture \in [Handle -> Contents] /\ retiring \in [Handle -> [Left -> Nat]]
        /\ old \in {Invalid} \cup Handle /\ other \in {Invalid} \cup Handle
    BY DEF MapsTypeOK, Contents
  <1>a. /\ \A g \in Handle : g # old => q[g] = retiring[g]
        /\ old # Invalid /\ retiring[old] = Never => q[old] = Due(k)
    BY <1>1, Retires
  <1>b. /\ \A g \in Handle : g # h => t[g] = texture[g]
        /\ h # Invalid => t[h] = content
    BY <1>1, HoldingType
  <1>2. ASSUME NEW g \in Handle
        PROVE  Once(texture[g], retiring[g], g = old, g = other)
    <2>1. Once(texture[g], retiring[g], g = dmap, g = smap)
      BY DEF HandlesOwned
    <2>2. CASE old = dmap /\ other = smap
      BY <2>1, <2>2
    <2>3. CASE old = smap /\ other = dmap
      BY <2>1, <2>3, Zenon DEF Once
    <2>4. QED
      BY <2>2, <2>3
  <1>3. h # Invalid => h \in Handle /\ texture[h] = Free /\ h # old /\ h # other
                       /\ retiring[h] = Never
    <2>1. CASE h # Invalid
      <3>1. h \in Handle /\ texture[h] = Free
        BY <2>1, CreatedIsFree
      <3>2. QED
        BY <3>1, <1>2, Zenon DEF Once
    <2>2. QED
      BY <2>1
  <1> HIDE DEF q, t
  <1>4. ASSUME NEW g \in Handle PROVE Once(t[g], q[g], g = h, g = other)
    <2>1. CASE g = h
      <3>1. g # Invalid
        BY Frames
      <3>2. t[g] = content /\ q[g] = retiring[g] /\ retiring[g] = Never /\ g # other
        BY <2>1, <3>1, <1>3, <1>a, <1>b
      <3>3. QED
        BY <2>1, <3>2, Zenon DEF Once
    <2>2. CASE g # h /\ g = old
      <3>1. g # Invalid
        BY Frames
      <3>2. texture[g] # Free /\ retiring[g] = Never /\ g # other
        BY <1>2, <2>2, Zenon DEF Once
      <3>3. t[g] = texture[g] /\ q[g] = Due(k)
        BY <1>a, <1>b, <2>2, <3>1, <3>2
      <3>4. QED
        BY <2>2, <3>2, <3>3, Zenon DEF Once
    <2>3. CASE g # h /\ g # old
      <3>1. t[g] = texture[g] /\ q[g] = retiring[g]
        BY <1>a, <1>b, <2>3
      <3>2. QED
        BY <1>2, <2>3, <3>1, Zenon DEF Once
    <2>4. QED
      BY <2>1, <2>2, <2>3
  <1>5. QED
    BY <1>3, <1>4 DEF q, t

LEMMA ContentsKinds ==
    ASSUME NEW m
    PROVE  /\ m \in Maps => Heights(m) \in Contents
           /\ m \in Maps \cup {None} => Slopes(m) \in Contents
           /\ Heights(m) # Free /\ Slopes(m) # Free
           /\ Heights(m).map = m /\ Slopes(m).map = m
  BY DEF Heights, Slopes, Contents, Free

(* The types, one by one.                                                  *)
LEMMA MapsTypes ==
    ASSUME MapsTypeOK
    PROVE  /\ texture \in [Handle -> Contents] /\ retiring \in [Handle -> [Left -> Nat]]
           /\ dmap \in {Invalid} \cup Handle /\ smap \in {Invalid} \cup Handle
  BY DEF MapsTypeOK, Contents

HandleTypes == /\ texture \in [Handle -> Contents] /\ retiring \in [Handle -> [Left -> Nat]]
               /\ dmap \in {Invalid} \cup Handle /\ smap \in {Invalid} \cup Handle

LEMMA DmapReplaced ==
    ASSUME MapsInv, NEW m \in Maps, NEW h \in Creatable,
           texture' = Holding(h, Heights(m)), dmap' = h, smap' = smap,
           retiring' = Retire(retiring, dmap, RetireDmap)
    PROVE  /\ HandleTypes'
           /\ ~underUse => /\ HandlesOwned'
                           /\ dmap' # Invalid => texture'[dmap'] = Heights(m)
                           /\ smap' # Invalid => texture'[smap'] = texture[smap]
  <1>1. /\ MapsTypeOK /\ HandleTypes /\ Heights(m) \in Contents /\ Heights(m) # Free
        /\ RetireDmap \in Left
    BY MapsTypes, ContentsKinds, Frames DEF MapsInv, HandleTypes
  <1>2. HandleTypes'
    BY <1>1, HoldingType, Retires DEF HandleTypes
  <1>3. CASE ~underUse
    <2>1. /\ \A g \in Handle : Once(Holding(h, Heights(m))[g],
                                    Retire(retiring, dmap, RetireDmap)[g], g = h, g = smap)
          /\ h # Invalid => h # smap
      BY <1>1, <1>3, Replaced DEF MapsInv, Known
    <2>2. HandlesOwned'
      BY <2>1 DEF HandlesOwned
    <2>3. dmap' # Invalid => texture'[dmap'] = Heights(m)
      BY <1>1, HoldingType DEF HandleTypes
    <2>4. smap' # Invalid => texture'[smap'] = texture[smap]
      BY <1>1, <2>1, HoldingType DEF HandleTypes
    <2>5. QED
      BY <1>2, <2>2, <2>3, <2>4
  <1>4. QED
    BY <1>2, <1>3

LEMMA SmapReplaced ==
    ASSUME MapsInv, NEW n \in Maps \cup {None}, InstallSlopes(n), dmap' = dmap
    PROVE  /\ HandleTypes'
           /\ ~underUse => /\ HandlesOwned'
                           /\ smap' # Invalid => texture'[smap'] = Slopes(n)
                           /\ dmap' # Invalid => texture'[dmap'] = texture[dmap]
  <1>0. PICK h \in Creatable : /\ texture' = Holding(h, Slopes(n)) /\ smap' = h
                               /\ retiring' = Retire(retiring, smap, RetireTexture)
    BY DEF InstallSlopes
  <1>1. /\ MapsTypeOK /\ HandleTypes /\ Slopes(n) \in Contents /\ Slopes(n) # Free
        /\ RetireTexture \in Left
    BY MapsTypes, ContentsKinds, Frames DEF MapsInv, HandleTypes
  <1>2. HandleTypes'
    BY <1>0, <1>1, HoldingType, Retires DEF HandleTypes
  <1>3. CASE ~underUse
    <2>1. /\ \A g \in Handle : Once(Holding(h, Slopes(n))[g],
                                    Retire(retiring, smap, RetireTexture)[g], g = h, g = dmap)
          /\ h # Invalid => h # dmap
      BY <1>1, <1>3, Replaced DEF MapsInv, Known
    <2>2. HandlesOwned'
      <3> SUFFICES ASSUME NEW g \in Handle
                   PROVE  Once(texture'[g], retiring'[g], g = dmap', g = smap')
        BY DEF HandlesOwned
      <3>1. Once(texture'[g], retiring'[g], g = smap', g = dmap')
        BY <1>0, <2>1
      <3>2. QED
        BY <3>1, Zenon DEF Once
    <2>3. smap' # Invalid => texture'[smap'] = Slopes(n)
      BY <1>0, <1>1, HoldingType DEF HandleTypes
    <2>4. dmap' # Invalid => texture'[dmap'] = texture[dmap]
      BY <1>0, <1>1, <2>1, HoldingType DEF HandleTypes
    <2>5. QED
      BY <1>2, <2>2, <2>3, <2>4
  <1>4. QED
    BY <1>2, <1>3

(* A new map: restored, uploaded or decoded.                               *)
LEMMA MapReplaced ==
    ASSUME MapsInv, NEW m \in Maps, NEW h \in Creatable,
           texture' = Holding(h, Heights(m)), dmap' = h, smap' = smap,
           retiring' = Retire(retiring, dmap, RetireDmap),
           sized' = TRUE, needsRegen' = TRUE, UNCHANGED <<tier, useGpuSmap, underUse>>,
           noCompute => cpuMap' = m, step' \notin {"render", "draw"}
    PROVE  HandleTypes' /\ TierKnown' /\ (~underUse' => Known')
  <1>1. /\ HandleTypes'
        /\ ~underUse => /\ HandlesOwned'
                        /\ dmap' # Invalid => texture'[dmap'] = Heights(m)
                        /\ smap' # Invalid => texture'[smap'] = texture[smap]
    BY DmapReplaced
  <1>2. TierKnown'
    BY DEF MapsInv, TierKnown, tier
  <1>3. CASE ~underUse
    <2>1. HeightsKnown'
      BY <1>1, <1>3 DEF HeightsKnown, Heights, tier
    <2>2. SlopesKnown'
      BY <1>1, <1>3 DEF MapsInv, Known, SlopesKnown, Slopes, tier
    <2>3. StepsKnown'
      BY DEF StepsKnown
    <2>4. QED
      BY <1>1, <1>2, <1>3, <2>1, <2>2, <2>3 DEF Known
  <1>4. QED
    BY <1>1, <1>2, <1>3

LEMMA AfterUpload ==
    ASSUME MapsInv, NEW m \in Maps, Upload(m)
    PROVE  MapsInv'
  <1>1. PICK h \in Creatable : texture' = Holding(h, Heights(m)) /\ dmap' = h
    BY DEF Upload
  <1>2. /\ smap' = smap /\ retiring' = Retire(retiring, dmap, RetireDmap)
        /\ sized' = TRUE /\ needsRegen' = TRUE /\ UNCHANGED <<tier, useGpuSmap, underUse>>
        /\ noCompute => cpuMap' = m
        /\ step' = "decode"
    BY DEF Upload, NormalizedCopy, Goes
  <1>3. HandleTypes' /\ TierKnown' /\ (~underUse' => Known')
    BY <1>1, <1>2, MapReplaced
  <1>4. MapsTypeOK'
    BY <1>2, <1>3 DEF MapsInv, MapsTypeOK, HandleTypes, Contents, Upload, NormalizedCopy, tier
  <1>5. QED
    BY <1>3, <1>4 DEF MapsInv

LEMMA AfterDecode ==
    ASSUME MapsInv, NEW m \in Maps, Decode(m)
    PROVE  MapsInv'
  <1>1. PICK h \in Creatable : texture' = Holding(h, Heights(m)) /\ dmap' = h
    BY DEF Decode
  <1>2. /\ smap' = smap /\ retiring' = Retire(retiring, dmap, RetireDmap)
        /\ sized' = TRUE /\ needsRegen' = TRUE /\ UNCHANGED <<tier, useGpuSmap, underUse>>
        /\ ~noCompute
        /\ step' = "load"
    BY DEF Decode, RegenAfterDecode, Goes
  <1>3. HandleTypes' /\ TierKnown' /\ (~underUse' => Known')
    BY <1>1, <1>2, MapReplaced
  <1>4. MapsTypeOK'
    BY <1>2, <1>3 DEF MapsInv, MapsTypeOK, HandleTypes, Contents, Decode, tier
  <1>5. QED
    BY <1>3, <1>4 DEF MapsInv

(* A restore that fails keeps the DMAP, and schedules it for destruction:  *)
(* from then on only the types are known.                                  *)
LEMMA AfterRestore ==
    ASSUME MapsInv, NEW m \in Maps, Restore(m)
    PROVE  MapsInv'
  <1>1. /\ smap' = smap /\ retiring' = Retire(retiring, dmap, RetireDmap)
        /\ step = "cache" /\ step' = "cache" /\ UNCHANGED <<tier, useGpuSmap>>
    BY DEF Restore, Goes
  <1>2. PICK h \in Creatable :
         \/ /\ h = Invalid
            /\ underUse' = (underUse \/ dmap # Invalid)
            /\ UNCHANGED <<dmap, texture, sized, ready, needsRegen, cpuMap>>
         \/ /\ h # Invalid
            /\ texture' = Holding(h, Heights(m))
            /\ dmap' = h
            /\ sized' = TRUE
            /\ ready' = TRUE
            /\ needsRegen' = TRUE
            /\ cpuMap' = NormalizedCopy(m)
            /\ UNCHANGED underUse
    BY DEF Restore
  <1>3. CASE h # Invalid
    <2>1. HandleTypes' /\ TierKnown' /\ (~underUse' => Known')
      BY <1>1, <1>2, <1>3, MapReplaced DEF NormalizedCopy
    <2>2. MapsTypeOK'
      BY <1>1, <1>2, <1>3, <2>1
         DEF MapsInv, MapsTypeOK, HandleTypes, Contents, Restore, NormalizedCopy, tier
    <2>3. QED
      BY <2>1, <2>2 DEF MapsInv
  <1>4. CASE h = Invalid
    <2>1. /\ underUse' = (underUse \/ dmap # Invalid)
          /\ UNCHANGED <<dmap, texture, sized, ready, needsRegen, cpuMap>>
      BY <1>2, <1>4
    <2>2. retiring' \in [Handle -> [Left -> Nat]]
      BY <1>1, MapsTypes, Frames, Retires DEF MapsInv
    <2>3. underUse' \in BOOLEAN
      BY <2>1 DEF MapsInv, MapsTypeOK
    <2>4. MapsTypeOK'
      BY <1>1, <2>1, <2>2, <2>3 DEF MapsInv, MapsTypeOK, Restore, tier
    <2>5. TierKnown'
      BY <1>1 DEF MapsInv, TierKnown, tier
    <2>6. CASE ~underUse'
      <3>1. ~underUse /\ dmap = Invalid
        BY <2>1, <2>6 DEF MapsInv, MapsTypeOK
      <3>2. retiring' = retiring
        BY <1>1, <3>1 DEF Retire
      <3>3. Known
        BY <3>1 DEF MapsInv
      <3>4. HandlesOwned'
        BY <1>1, <2>1, <3>2, <3>3 DEF Known, HandlesOwned
      <3>5. HeightsKnown' /\ SlopesKnown' /\ StepsKnown'
        BY <1>1, <2>1, <3>1, <3>3 DEF Known, HeightsKnown, SlopesKnown, StepsKnown, tier
      <3>6. QED
        BY <2>4, <2>5, <3>4, <3>5 DEF MapsInv, Known
    <2>7. QED
      BY <2>4, <2>5, <2>6 DEF MapsInv
  <1>5. QED
    BY <1>3, <1>4

(* New slopes: flat ones, or those of the map that is there.               *)
LEMMA NewSlopes ==
    ASSUME MapsInv, NEW n \in Maps \cup {None}, InstallSlopes(n),
           UNCHANGED <<tier, sized, dmap, cpuMap, underUse>>,
           ~underUse => \/ dmap = Invalid \/ n = texture[dmap].map
                        \/ ~noCompute /\ ~writable,
           ~noCompute /\ ~writable => n = None
    PROVE  HandleTypes' /\ (~underUse' => HandlesOwned' /\ HeightsKnown' /\ SlopesKnown')
  <1>1. /\ HandleTypes'
        /\ ~underUse => /\ HandlesOwned'
                        /\ smap' # Invalid => texture'[smap'] = Slopes(n)
                        /\ dmap' # Invalid => texture'[dmap'] = texture[dmap]
    BY SmapReplaced
  <1>2. CASE ~underUse
    <2>1. HeightsKnown'
      BY <1>1, <1>2 DEF MapsInv, Known, HeightsKnown, tier
    <2>2. SlopesKnown'
      BY <1>1, <1>2 DEF SlopesKnown, tier
    <2>3. QED
      BY <1>1, <2>1, <2>2
  <1>3. QED
    BY <1>1, <1>2

(* loadSmapTextureGPU runs where there are compute shaders.                *)
LEMMA GpuSlopes ==
    ASSUME MapsInv, useGpuSmap, LoadSmapTextureGPU,
           UNCHANGED <<tier, sized, dmap, cpuMap, underUse>>
    PROVE  /\ HandleTypes' /\ TierKnown'
           /\ useGpuSmap' \in BOOLEAN /\ defer' \in 0 .. DeferFrames
           /\ ~underUse' => HandlesOwned' /\ HeightsKnown' /\ SlopesKnown'
  <1>1. /\ ~noCompute /\ (writable => useGpuSmap) /\ noCompute' = noCompute
        /\ writable' = writable /\ useGpuSmap \in BOOLEAN /\ defer \in 0 .. DeferFrames
        /\ texture \in [Handle -> Contents] /\ dmap \in {Invalid} \cup Handle
    BY MapsTypes DEF MapsInv, TierKnown, MapsTypeOK, tier
  <1>2. CASE (dmap = Invalid \/ ~sized) /\ InstallSlopes(None) /\ UNCHANGED <<useGpuSmap, defer>>
    <2>1. ~underUse => dmap = Invalid
      BY <1>2 DEF MapsInv, Known, HeightsKnown
    <2>2. HandleTypes' /\ (~underUse' => HandlesOwned' /\ HeightsKnown' /\ SlopesKnown')
      BY <1>2, <2>1, NewSlopes
    <2>3. QED
      BY <1>1, <1>2, <2>2 DEF TierKnown
  <1>3. CASE ~writable /\ useGpuSmap' = FALSE /\ InstallSlopes(None) /\ UNCHANGED defer
    <2>1. HandleTypes' /\ (~underUse' => HandlesOwned' /\ HeightsKnown' /\ SlopesKnown')
      BY <1>1, <1>3, NewSlopes
    <2>2. QED
      BY <1>1, <1>3, <2>1 DEF TierKnown
  <1>4. CASE /\ dmap # Invalid /\ writable /\ InstallSlopes(texture[dmap].map)
             /\ defer' = DeferFrames /\ UNCHANGED useGpuSmap
    <2>1. texture[dmap].map \in Maps \cup {None}
      BY <1>1, <1>4 DEF Contents
    <2>2. HandleTypes' /\ (~underUse' => HandlesOwned' /\ HeightsKnown' /\ SlopesKnown')
      BY <1>4, <2>1, NewSlopes
    <2>3. defer' \in 0 .. DeferFrames
      BY <1>4, Frames
    <2>4. QED
      BY <1>1, <1>4, <2>2, <2>3 DEF TierKnown
  <1>5. QED
    BY <1>2, <1>3, <1>4 DEF LoadSmapTextureGPU

(* cpuRegenerateSmap runs where there are none.                            *)
LEMMA CpuSlopes ==
    ASSUME MapsInv, noCompute, CpuCanRegenerate, InstallSlopes(cpuMap),
           UNCHANGED <<tier, sized, dmap, cpuMap, underUse, useGpuSmap>>
    PROVE  /\ HandleTypes' /\ TierKnown'
           /\ ~underUse' => HandlesOwned' /\ HeightsKnown' /\ SlopesKnown'
  <1>1. cpuMap \in Maps \cup {None}
    BY DEF MapsInv, MapsTypeOK
  <1>2. ~underUse => dmap = Invalid \/ cpuMap = texture[dmap].map
    BY ContentsKinds DEF MapsInv, Known, HeightsKnown
  <1>3. HandleTypes' /\ (~underUse' => HandlesOwned' /\ HeightsKnown' /\ SlopesKnown')
    BY <1>1, <1>2, NewSlopes
  <1>4. QED
    BY <1>3 DEF MapsInv, TierKnown, tier

(* Handles, and what is known of them, do not change.                      *)
LEMMA SameHandles ==
    ASSUME MapsInv, UNCHANGED <<tier, handles, underUse>>, sized' = sized \/ dmap = Invalid,
           cpuMap' = cpuMap, needsRegen => needsRegen'
    PROVE  HandleTypes' /\ (~underUse' => HandlesOwned' /\ HeightsKnown' /\ SlopesKnown')
  <1>1. /\ HandleTypes' /\ noCompute' = noCompute /\ writable' = writable
        /\ texture' = texture /\ retiring' = retiring /\ dmap' = dmap /\ smap' = smap
        /\ underUse' = underUse
    BY MapsTypes DEF MapsInv, HandleTypes, handles, tier
  <1>2. CASE ~underUse
    <2>1. HandlesOwned'
      BY <1>1, <1>2 DEF MapsInv, Known, HandlesOwned
    <2>2. HeightsKnown'
      BY <1>1, <1>2 DEF MapsInv, Known, HeightsKnown
    <2>3. SlopesKnown'
      BY <1>1, <1>2 DEF MapsInv, Known, SlopesKnown
    <2>4. QED
      BY <1>1, <2>1, <2>2, <2>3
  <1>3. QED
    BY <1>1, <1>2

LEMMA AfterLoadTextures == MapsInv /\ LoadTextures => MapsInv'
  <1> SUFFICES ASSUME MapsInv, LoadTextures PROVE MapsInv'
    OBVIOUS
  <1>1. /\ UNCHANGED <<tier, hasPath, ready, sized, dmap, cpuMap, underUse>>
        /\ step' = "regen" /\ reload' = FALSE
    BY DEF LoadTextures, Goes
  <1>2. /\ HandleTypes' /\ TierKnown' /\ useGpuSmap' \in BOOLEAN /\ defer' \in 0 .. DeferFrames
        /\ needsRegen' \in BOOLEAN
        /\ ~underUse' => HandlesOwned' /\ HeightsKnown' /\ SlopesKnown'
    <2>0. /\ useGpuSmap \in BOOLEAN /\ defer \in 0 .. DeferFrames /\ needsRegen \in BOOLEAN
          /\ TierKnown /\ noCompute' = noCompute /\ writable' = writable
      BY <1>1 DEF MapsInv, MapsTypeOK, tier
    <2>1. CASE useGpuSmap /\ LoadSmapTextureGPU /\ UNCHANGED needsRegen
      BY <1>1, <2>0, <2>1, GpuSlopes
    <2>2. CASE /\ ~useGpuSmap /\ noCompute /\ cpuMap # None
               /\ CpuCanRegenerate /\ InstallSlopes(cpuMap) /\ needsRegen' = FALSE
               /\ UNCHANGED <<useGpuSmap, defer>>
      BY <1>1, <2>0, <2>2, CpuSlopes
    <2>3. CASE /\ ~useGpuSmap /\ noCompute /\ cpuMap # None
               /\ UNCHANGED <<handles, needsRegen>> /\ UNCHANGED <<useGpuSmap, defer>>
      <3>1. HandleTypes' /\ (~underUse' => HandlesOwned' /\ HeightsKnown' /\ SlopesKnown')
        BY <1>1, <2>3, SameHandles
      <3>2. QED
        BY <2>0, <2>3, <3>1 DEF TierKnown
    <2>4. CASE /\ ~useGpuSmap /\ ~(noCompute /\ cpuMap # None) /\ InstallSlopes(None)
               /\ UNCHANGED <<useGpuSmap, defer, needsRegen>>
      <3>1. ~underUse => dmap = Invalid \/ (~noCompute /\ ~writable)
        BY <2>0, <2>4, MapsAssumption DEF MapsInv, Known, HeightsKnown, TierKnown
      <3>2. HandleTypes' /\ (~underUse' => HandlesOwned' /\ HeightsKnown' /\ SlopesKnown')
        BY <1>1, <2>4, <3>1, NewSlopes
      <3>3. QED
        BY <2>0, <2>4, <3>2 DEF TierKnown
    <2>5. QED
      BY <2>1, <2>2, <2>3, <2>4 DEF LoadTextures
  <1>3. StepsKnown'
    BY <1>1 DEF StepsKnown
  <1>4. MapsTypeOK'
    BY <1>1, <1>2 DEF MapsInv, MapsTypeOK, HandleTypes, Contents, tier
  <1>5. QED
    BY <1>2, <1>3, <1>4 DEF MapsInv, Known

LEMMA AfterRegenerate == MapsInv /\ RegenerateSmap => MapsInv'
  <1> SUFFICES ASSUME MapsInv, RegenerateSmap PROVE MapsInv'
    OBVIOUS
  <1>1. /\ UNCHANGED <<tier, hasPath, reload, ready, sized, dmap, cpuMap, underUse>>
        /\ step' = "render" /\ needsRegen' = FALSE
    BY DEF RegenerateSmap, Goes
  <1>2. /\ HandleTypes' /\ TierKnown' /\ useGpuSmap' \in BOOLEAN /\ defer' \in 0 .. DeferFrames
        /\ ~underUse' => HandlesOwned' /\ HeightsKnown' /\ SlopesKnown'
    <2>1. CASE useGpuSmap /\ LoadSmapTextureGPU
      BY <1>1, <2>1, GpuSlopes
    <2>2. CASE /\ ~useGpuSmap /\ noCompute /\ CpuCanRegenerate /\ InstallSlopes(cpuMap)
               /\ UNCHANGED <<useGpuSmap, defer>>
      <3>1. useGpuSmap \in BOOLEAN /\ defer \in 0 .. DeferFrames
        BY DEF MapsInv, MapsTypeOK
      <3>2. QED
        BY <1>1, <2>2, <3>1, CpuSlopes
    <2>3. QED
      BY <2>1, <2>2 DEF RegenerateSmap
  <1>3. StepsKnown'
    BY <1>1 DEF StepsKnown
  <1>4. MapsTypeOK'
    BY <1>1, <1>2 DEF MapsInv, MapsTypeOK, HandleTypes, Contents, tier
  <1>5. QED
    BY <1>2, <1>3, <1>4 DEF MapsInv, Known

(* The GUI's calls, and the steps of update() with nothing to do.          *)
LEMMA AfterOthers ==
    MapsInv /\ (LoadHeightfield \/ ReloadTextures \/ Unneeded \/ CountDown) => MapsInv'
  <1> SUFFICES ASSUME MapsInv, LoadHeightfield \/ ReloadTextures \/ Unneeded \/ CountDown
               PROVE  MapsInv'
    OBVIOUS
  <1>1. /\ UNCHANGED <<tier, useGpuSmap, sized, handles, needsRegen, cpuMap, underUse>>
        /\ defer' = defer \/ defer' = CountedDown
    BY DEF LoadHeightfield, ReloadTextures, Unneeded, CountDown
  <1>2. MapsTypeOK'
    <2>1. defer' \in 0 .. DeferFrames
      BY <1>1, Frames DEF MapsInv, MapsTypeOK, CountedDown
    <2>2. HandleTypes'
      BY <1>1, SameHandles
    <2>3. hasPath' \in BOOLEAN /\ ready' \in BOOLEAN /\ reload' \in BOOLEAN
      BY DEF MapsInv, MapsTypeOK, LoadHeightfield, ReloadTextures, Unneeded, CountDown
    <2>4. step' \in {"idle", "cache", "upload", "decode", "load", "regen", "render",
                     "draw", "end", "gone"}
      BY DEF LoadHeightfield, ReloadTextures, Unneeded, CountDown, Goes
    <2>5. QED
      BY <1>1, <2>1, <2>2, <2>3, <2>4 DEF MapsInv, MapsTypeOK, HandleTypes, Contents, tier
  <1>3. TierKnown'
    BY <1>1 DEF MapsInv, TierKnown, tier
  <1>4. CASE ~underUse
    <2>1. HandlesOwned' /\ HeightsKnown' /\ SlopesKnown'
      BY <1>1, <1>4, SameHandles
    <2>2. dmap' = dmap /\ smap' = smap /\ noCompute' = noCompute /\ writable' = writable
      BY <1>1 DEF tier, handles
    <2>3. dmap # Invalid => sized /\ (noCompute => cpuMap # None)
      BY <1>4, MapsAssumption DEF MapsInv, Known, HeightsKnown
    <2>4. StepsKnown'
      <3>1. CASE LoadHeightfield \/ ReloadTextures
        BY <3>1 DEF LoadHeightfield, ReloadTextures, Goes, StepsKnown
      <3>2. CASE Unneeded
        <4>1. /\ step' # "draw"
              /\ step' = "render" /\ needsRegen =>
                    ~useGpuSmap /\ ~(noCompute /\ CpuCanRegenerate)
          BY <3>2 DEF Unneeded, Goes
        <4>2. QED
          BY <1>1, <2>2, <2>3, <4>1 DEF MapsInv, TierKnown, StepsKnown, CpuCanRegenerate
      <3>3. CASE CountDown
        BY <1>1, <1>4, <2>2, <3>3
           DEF CountDown, Goes, Drawable, MapsInv, Known, StepsKnown
      <3>4. QED
        BY <3>1, <3>2, <3>3
    <2>5. QED
      BY <1>2, <1>3, <2>1, <2>4 DEF MapsInv, Known
  <1>5. QED
    BY <1>1, <1>2, <1>3, <1>4 DEF MapsInv

LEMMA AfterClear == MapsInv /\ ClearHeightfield => MapsInv'
  <1> SUFFICES ASSUME MapsInv, ClearHeightfield PROVE MapsInv'
    OBVIOUS
  <1>1. /\ UNCHANGED <<tier, useGpuSmap, texture, needsRegen, defer, cpuMap, underUse>>
        /\ dmap' = Invalid /\ smap' = Invalid /\ step' = "idle"
        /\ hasPath' = FALSE /\ ready' = FALSE /\ reload' = TRUE /\ sized' = FALSE
        /\ retiring' = Retire(Retire(retiring, dmap, RetireTexture), smap, RetireTexture)
    BY DEF ClearHeightfield, RetireBoth, Goes
  <1>2. /\ texture \in [Handle -> Contents] /\ retiring \in [Handle -> [Left -> Nat]]
        /\ dmap \in {Invalid} \cup Handle /\ smap \in {Invalid} \cup Handle
        /\ RetireTexture \in Left
    BY MapsTypes, Frames DEF MapsInv
  <1> DEFINE once == Retire(retiring, dmap, RetireTexture)
             both == Retire(once, smap, RetireTexture)
  <1>3. /\ once \in [Handle -> [Left -> Nat]]
        /\ \A g \in Handle : g # dmap => once[g] = retiring[g]
        /\ dmap # Invalid /\ retiring[dmap] = Never => once[dmap] = Due(RetireTexture)
    BY <1>2, Retires
  <1> HIDE DEF once
  <1>a. /\ both \in [Handle -> [Left -> Nat]]
        /\ \A g \in Handle : g # smap => both[g] = once[g]
        /\ smap # Invalid /\ once[smap] = Never => both[smap] = Due(RetireTexture)
    BY <1>2, <1>3, Retires
  <1>b. retiring' = both
    BY <1>1 DEF once
  <1> HIDE DEF both
  <1>4. MapsTypeOK'
    BY <1>1, <1>2, <1>a, <1>b DEF MapsInv, MapsTypeOK, tier
  <1>5. CASE ~underUse
    <2>1. HandlesOwned'
      <3> SUFFICES ASSUME NEW g \in Handle
                   PROVE  Once(texture[g], both[g], FALSE, FALSE)
        <4>1. \A g \in Handle : g # Invalid
          BY Frames
        <4>2. \A g \in Handle : Once(texture[g], both[g], g = Invalid, g = Invalid)
          BY <4>1, Zenon DEF Once
        <4>3. QED
          BY <1>1, <1>b, <4>2 DEF HandlesOwned
      <3>1. Once(texture[g], retiring[g], g = dmap, g = smap)
        BY <1>5 DEF MapsInv, Known, HandlesOwned
      <3>2. g # Invalid
        BY Frames
      <3>3. CASE g = dmap
        <4>1. texture[g] # Free /\ g # smap /\ retiring[g] = Never
          BY <3>1, <3>3, Zenon DEF Once
        <4>2. once[g] = Due(RetireTexture)
          BY <1>3, <3>2, <3>3, <4>1
        <4>3. both[g] = once[g]
          BY <1>a, <4>1
        <4>4. QED
          BY <1>2, <4>1, <4>2, <4>3, Zenon DEF Once
      <3>4. CASE g = smap /\ g # dmap
        <4>1. texture[g] # Free /\ retiring[g] = Never
          BY <3>1, <3>4, Zenon DEF Once
        <4>2. once[g] = Never
          BY <1>3, <3>4, <4>1
        <4>3. both[g] = Due(RetireTexture)
          BY <1>a, <3>2, <3>4, <4>2
        <4>4. QED
          BY <1>2, <4>1, <4>3, Zenon DEF Once
      <3>5. CASE g # smap /\ g # dmap
        <4>1. once[g] = retiring[g]
          BY <1>3, <3>5
        <4>2. both[g] = once[g]
          BY <1>a, <3>5
        <4>3. QED
          BY <3>1, <3>5, <4>1, <4>2, Zenon DEF Once
      <3>6. QED
        BY <3>3, <3>4, <3>5
    <2>2. HeightsKnown' /\ SlopesKnown' /\ StepsKnown'
      BY <1>1 DEF HeightsKnown, SlopesKnown, StepsKnown
    <2>3. QED
      BY <1>1, <1>4, <2>1, <2>2 DEF MapsInv, Known, TierKnown, tier
  <1>6. QED
    BY <1>1, <1>4, <1>5 DEF MapsInv, TierKnown, tier

LEMMA AfterDestroyAll == MapsInv /\ DestroyAll => MapsInv'
  <1> SUFFICES ASSUME MapsInv, DestroyAll PROVE MapsInv'
    OBVIOUS
  <1>1. /\ UNCHANGED <<tier, useGpuSmap, hasPath, retiring, defer, cpuMap, underUse>>
        /\ dmap' = Invalid /\ smap' = Invalid /\ step' = "gone"
        /\ ready' = FALSE /\ reload' = FALSE /\ sized' = FALSE /\ needsRegen' = FALSE
        /\ texture' = [h \in Handle |-> IF h \in {dmap, smap} THEN Free ELSE texture[h]]
    BY DEF DestroyAll, Goes
  <1>2. texture \in [Handle -> Contents] /\ Free \in Contents
    BY MapsTypes DEF MapsInv, Free, Contents
  <1>3. MapsTypeOK'
    <2>1. texture' \in [Handle -> Contents]
      BY <1>1, <1>2
    <2>2. QED
      BY <1>1, <2>1 DEF MapsInv, MapsTypeOK, Contents, tier
  <1>4. CASE ~underUse
    <2>1. HandlesOwned'
      <3> SUFFICES ASSUME NEW g \in Handle
                   PROVE  Once(texture'[g], retiring[g], g = Invalid, g = Invalid)
        BY <1>1 DEF HandlesOwned
      <3>1. Once(texture[g], retiring[g], g = dmap, g = smap)
        BY <1>4 DEF MapsInv, Known, HandlesOwned
      <3>2. g # Invalid
        BY Frames
      <3>3. CASE g \in {dmap, smap}
        <4>1. retiring[g] = Never /\ texture'[g] = Free
          BY <1>1, <3>1, <3>3, Zenon DEF Once
        <4>2. QED
          BY <3>2, <4>1, Zenon DEF Once
      <3>4. CASE g \notin {dmap, smap}
        <4>1. texture'[g] = texture[g]
          BY <1>1, <3>4
        <4>2. QED
          BY <3>1, <3>2, <3>4, <4>1, Zenon DEF Once
      <3>5. QED
        BY <3>3, <3>4
    <2>2. HeightsKnown' /\ SlopesKnown' /\ StepsKnown'
      BY <1>1 DEF HeightsKnown, SlopesKnown, StepsKnown
    <2>3. QED
      BY <1>1, <1>3, <2>1, <2>2 DEF MapsInv, Known, TierKnown, tier
  <1>5. QED
    BY <1>1, <1>3, <1>4 DEF MapsInv, TierKnown, tier

(* A frame ends: what is due now is destroyed, the rest one frame nearer.  *)
Nearer(queue) == [left \in Left |-> IF left = RetireDmap THEN 0 ELSE queue[left + 1]]

LEMMA QueueMoves ==
    /\ \A queue \in [Left -> Nat] : Nearer(queue) \in [Left -> Nat]
    /\ Nearer(Never) = Never /\ Never[1] = 0
    /\ Due(1)[1] > 0 /\ Nearer(Due(1)) = Never
    /\ \A left \in Left : left # 1 => /\ left - 1 \in Left /\ Due(left)[1] = 0
                                      /\ Nearer(Due(left)) = Due(left - 1)
  <1>1. \A left \in Left : left # RetireDmap => left + 1 \in Left
    BY Frames DEF Left
  <1>2. \A queue \in [Left -> Nat] : Nearer(queue) \in [Left -> Nat]
    BY <1>1 DEF Nearer
  <1>3. Nearer(Never) = Never /\ Never[1] = 0
    BY <1>1, Frames DEF Nearer, Never
  <1>4. Due(1)[1] > 0 /\ Nearer(Due(1)) = Never
    BY <1>1, Frames DEF Nearer, Never, Due, Left
  <1>5. ASSUME NEW left \in Left, left # 1
        PROVE  /\ left - 1 \in Left /\ Due(left)[1] = 0
               /\ Nearer(Due(left)) = Due(left - 1)
    <2>1. left - 1 \in Left /\ Due(left)[1] = 0
      BY <1>5, Frames DEF Left, Due, Never
    <2>2. \A l \in Left : Nearer(Due(left))[l] = Due(left - 1)[l]
      BY <1>1, <1>5, <2>1, Frames DEF Nearer, Due, Never, Left
    <2>3. Nearer(Due(left)) = Due(left - 1)
      BY <2>2, <2>1 DEF Nearer, Due, Never
    <2>4. QED
      BY <2>1, <2>3
  <1>6. QED
    BY <1>2, <1>3, <1>4, <1>5

LEMMA AfterEndFrame == MapsInv /\ EndFrame => MapsInv'
  <1> SUFFICES ASSUME MapsInv, EndFrame PROVE MapsInv'
    OBVIOUS
  <1>1. /\ UNCHANGED <<tier, useGpuSmap, hasPath, reload, ready, sized, dmap, smap,
                       needsRegen, defer, cpuMap, underUse>>
        /\ step' \in {"idle", "gone"}
        /\ retiring' = [h \in Handle |-> Nearer(retiring[h])]
        /\ texture' = [h \in Handle |-> IF retiring[h][1] > 0 THEN Free ELSE texture[h]]
    BY DEF EndFrame, Goes, Nearer
  <1>2. /\ texture \in [Handle -> Contents] /\ Free \in Contents
        /\ retiring \in [Handle -> [Left -> Nat]]
        /\ dmap \in {Invalid} \cup Handle /\ smap \in {Invalid} \cup Handle
    BY MapsTypes DEF MapsInv, Free, Contents
  <1>3. MapsTypeOK'
    <2>1. texture' \in [Handle -> Contents] /\ retiring' \in [Handle -> [Left -> Nat]]
      BY <1>1, <1>2, QueueMoves
    <2>2. QED
      BY <1>1, <2>1 DEF MapsInv, MapsTypeOK, Contents, tier
  <1>4. CASE ~underUse
    <2>1. ASSUME NEW g \in Handle
          PROVE  /\ Once(texture'[g], retiring'[g], g = dmap, g = smap)
                 /\ g \in {dmap, smap} => texture'[g] = texture[g]
      <3>1. Once(texture[g], retiring[g], g = dmap, g = smap)
        BY <1>4 DEF MapsInv, Known, HandlesOwned
      <3>2. /\ retiring'[g] = Nearer(retiring[g])
            /\ texture'[g] = IF retiring[g][1] > 0 THEN Free ELSE texture[g]
        BY <1>1
      <3>3. CASE retiring[g] = Never
        <4>1. retiring'[g] = Never /\ texture'[g] = texture[g]
          BY <3>2, <3>3, QueueMoves
        <4>2. QED
          BY <3>1, <3>3, <4>1
      <3>4. CASE retiring[g] # Never
        <4>1. texture[g] # Free /\ g # dmap /\ g # smap
          BY <3>1, <3>4, Zenon DEF Once
        <4>2. PICK left \in Left : retiring[g] = Due(left)
          BY <3>1, <3>4, Zenon DEF Once
        <4>3. CASE left = 1
          <5>1. retiring'[g] = Never /\ texture'[g] = Free
            BY <3>2, <4>2, <4>3, QueueMoves
          <5>2. QED
            BY <4>1, <5>1, Zenon DEF Once
        <4>4. CASE left # 1
          <5>1. /\ retiring'[g] = Due(left - 1) /\ left - 1 \in Left
                /\ texture'[g] = texture[g]
            BY <3>2, <4>2, <4>4, QueueMoves
          <5>2. QED
            BY <4>1, <5>1, Zenon DEF Once
        <4>5. QED
          BY <4>3, <4>4
      <3>5. QED
        BY <3>3, <3>4
    <2>2. HandlesOwned'
      BY <1>1, <2>1 DEF HandlesOwned
    <2>3. /\ dmap # Invalid => texture'[dmap] = texture[dmap]
          /\ smap # Invalid => texture'[smap] = texture[smap]
      BY <1>2, <2>1
    <2>4. noCompute' = noCompute /\ writable' = writable
      BY <1>1 DEF tier
    <2>5. HeightsKnown' /\ SlopesKnown' /\ StepsKnown'
      BY <1>1, <1>4, <2>3, <2>4
         DEF MapsInv, Known, HeightsKnown, SlopesKnown, StepsKnown
    <2>6. QED
      BY <1>1, <1>3, <2>2, <2>5 DEF MapsInv, Known, TierKnown, tier
  <1>5. QED
    BY <1>1, <1>3, <1>4 DEF MapsInv, TierKnown, tier

LEMMA MapsStart == MapsInit => MapsInv
  <1> SUFFICES ASSUME MapsInit PROVE MapsInv
    OBVIOUS
  <1>1. texture \in [Handle -> Contents] /\ retiring \in [Handle -> [Left -> Nat]]
    BY Queues DEF MapsInit, Contents, Free
  <1>2. MapsTypeOK
    <2>1. useGpuSmap \in BOOLEAN /\ noCompute \in BOOLEAN /\ writable \in BOOLEAN
      BY Zenon DEF MapsInit
    <2>2. 0 \in 0 .. DeferFrames
      BY Frames
    <2>3. QED
      BY <1>1, <2>1, <2>2 DEF MapsInit, MapsTypeOK, Contents
  <1>3. HandlesOwned
    <2> SUFFICES ASSUME NEW g \in Handle
                 PROVE  Once(texture[g], retiring[g], g = dmap, g = smap)
      BY DEF HandlesOwned
    <2>1. texture[g] = Free /\ retiring[g] = Never /\ g # dmap /\ g # smap
      BY Frames DEF MapsInit
    <2>2. QED
      BY <2>1, Zenon DEF Once
  <1>4. QED
    BY <1>2, <1>3 DEF MapsInit, MapsInv, Known, HeightsKnown, SlopesKnown, StepsKnown, TierKnown

LEMMA MapsStep == MapsInv /\ [MapsNext]_maps => MapsInv'
  <1> SUFFICES ASSUME MapsInv, [MapsNext]_maps PROVE MapsInv'
    OBVIOUS
  <1>1. CASE UNCHANGED maps
    BY <1>1 DEF maps, tier, handles, MapsInv, MapsTypeOK, TierKnown, Known, HandlesOwned,
                HeightsKnown, SlopesKnown, StepsKnown
  <1>2. CASE LoadHeightfield \/ ReloadTextures \/ Unneeded \/ CountDown
    BY <1>2, AfterOthers
  <1>3. ASSUME NEW m \in Maps, Restore(m) \/ Upload(m) \/ Decode(m) PROVE MapsInv'
    BY <1>3, AfterRestore, AfterUpload, AfterDecode
  <1>4. CASE ClearHeightfield \/ DestroyAll \/ EndFrame
    BY <1>4, AfterClear, AfterDestroyAll, AfterEndFrame
  <1>5. CASE LoadTextures \/ RegenerateSmap
    BY <1>5, AfterLoadTextures, AfterRegenerate
  <1>6. QED
    BY <1>1, <1>2, <1>3, <1>4, <1>5 DEF MapsNext

(* A texture is neither lost nor destroyed twice nor under its user        *)
(* (deferDestroyTexture and every place that calls it), for any number of  *)
(* handles and frames, unless a restore fails.                             *)
THEOREM TexturesDestroyedOnce == MapsSpec => []DestroyedOnce
  <1>1. MapsInv => DestroyedOnce
    BY OwnedOnce DEF MapsInv, Known
  <1>2. QED
    BY MapsStart, MapsStep, <1>1, PTL DEF MapsSpec

(* Slopes that are drawn belong to the map that is drawn (update, loads    *)
(* and regeneration in both tiers), for any number of maps.                *)
THEOREM SlopesAlwaysMatch == MapsSpec => []SlopesMatch
  <1>1. MapsInv => SlopesMatch
    <2> SUFFICES ASSUME MapsInv, step = "draw", ~underUse
                 PROVE  LET m == texture[dmap].map IN
                        /\ texture[dmap] = Heights(m)
                        /\ SlopesShown \in {Slopes(None), Slopes(m)}
                        /\ (noCompute \/ (writable /\ defer = 0)) => SlopesShown = Slopes(m)
      BY DEF SlopesMatch
    <2>1. dmap # Invalid /\ smap # Invalid /\ ((noCompute \/ writable) => ~needsRegen)
      BY DEF MapsInv, Known, StepsKnown
    <2>2. PICK m \in Maps : texture[dmap] = Heights(m)
      BY <2>1 DEF MapsInv, Known, HeightsKnown
    <2>3. texture[dmap].map = m
      BY <2>2, ContentsKinds
    <2>4. PICK n \in Maps \cup {None} :
            /\ texture[smap] = Slopes(n)
            /\ ~noCompute /\ ~writable => n = None
            /\ noCompute \/ writable => n = m
      BY <2>1, <2>3 DEF MapsInv, Known, SlopesKnown
    <2>5. defer \in Nat
      BY Frames DEF MapsInv, MapsTypeOK
    <2>6. QED
      BY <2>2, <2>3, <2>4, <2>5 DEF SlopesShown
  <1>2. QED
    BY MapsStart, MapsStep, <1>1, PTL DEF MapsSpec
-----------------------------------------------------------------------------
(***************************************************************************)
(* AssetFetch.  A request has its answer or exactly one place where it     *)
(* waits for it; a path that waits to be announced is good as long as no   *)
(* handler has made room since; while a file is good, only requests made   *)
(* before it was put in place are still on their way.                      *)
(***************************************************************************)
Served(number, forgot, net, handler, queued) ==
    \/ ~forgot /\ number = 1 /\ ~net /\ ~handler /\ queued = {}
    \/ forgot /\ number = 0 /\ ~net /\ ~handler /\ queued = {}
    \/ /\ ~forgot /\ number = 0
       /\ \/ net /\ ~handler /\ queued = {}
          \/ ~net /\ handler /\ queued = {}
          \/ ~net /\ ~handler /\ \E i \in Nat : queued = {i}

Queued(r)  == {i \in DOMAIN hits : hits[i].id = r}
Handled(r) == reply # Nothing /\ reply.id = r

AllServed ==
    \A r \in 1 .. asked :
        Served(answers[r], r \in forgotten, r \in inflight, Handled(r), Queued(r))

NoneAhead ==
    \A r \in Requests : r > asked =>
        /\ answers[r] = 0 /\ r \notin forgotten /\ r \notin inflight
        /\ ~Handled(r) /\ Queued(r) = {}

HitsGood ==
    \A i \in DOMAIN hits :
        /\ hits[i].at <= removals
        /\ hits[i].at = removals => hits[i].ext \in GoodFiles

Older ==
    \A e \in GoodFiles :
        /\ \A id \in inflight : id <= since[e]
        /\ reply # Nothing => reply.id <= since[e]

WholeToRename ==
    phase \in {"clear", "rename"} /\ disk[Tmp(reply.ext)] # Nothing
        /\ ~disk[Tmp(reply.ext)].whole => unflushed

FetchInv == /\ AssetsTypeOK /\ AllServed /\ NoneAhead /\ HitsGood /\ Older
            /\ WholeUnlessUnflushed /\ WholeToRename

LEMMA FetchNames ==
    /\ \A e, f : Final(e) # Tmp(f) /\ (Final(e) = Final(f) => e = f) /\ (Tmp(e) = Tmp(f) => e = f)
    /\ \A e \in Extensions : Final(e) \in Names /\ Tmp(e) \in Names
  BY DEF Final, Tmp, Names

LEMMA ServedOnce == AssetsTypeOK /\ AllServed => OneAnswer
  <1> SUFFICES ASSUME AssetsTypeOK, AllServed, NEW r \in 1 .. asked
               PROVE  LET queued == {i \in DOMAIN hits : hits[i].id = r}
                          handled == reply # Nothing /\ reply.id = r
                      IN  \/ /\ r \notin forgotten /\ answers[r] = 1
                             /\ r \notin inflight /\ ~handled /\ queued = {}
                          \/ /\ r \in forgotten /\ answers[r] = 0
                             /\ r \notin inflight /\ ~handled /\ queued = {}
                          \/ /\ r \notin forgotten /\ answers[r] = 0
                             /\ \/ r \in inflight /\ ~handled /\ queued = {}
                                \/ r \notin inflight /\ handled /\ queued = {}
                                \/ /\ r \notin inflight /\ ~handled
                                   /\ \E i \in DOMAIN hits : queued = {i}
    BY DEF OneAnswer
  <1>1. Served(answers[r], r \in forgotten, r \in inflight, Handled(r), Queued(r))
    BY DEF AllServed
  <1>2. \A i : Queued(r) = {i} => i \in DOMAIN hits
    BY DEF Queued
  <1>3. QED
    BY <1>1, <1>2, Zenon DEF Served, Handled, Queued

(* A name is good as long as its file is not touched.                      *)
LEMMA SameGood ==
    ASSUME NEW e, disk'[Final(e)] = disk[Final(e)]
    PROVE  Good(e)' = Good(e)
  BY DEF Good, Valid

LEMMA LostNotGood ==
    ASSUME NEW e, disk'[Final(e)] = Nothing
    PROVE  ~Good(e)'
  BY DEF Good

(* What cachedPath leaves: every good file, and every temporary one.       *)
LEMMA Sweeps ==
    ASSUME AssetsTypeOK
    PROVE  /\ Swept(disk) \in [Names -> CacheFiles \cup {Nothing}]
           /\ \A n \in Names : Swept(disk)[n] = disk[n] \/ Swept(disk)[n] = Nothing
           /\ \A e \in Extensions : /\ Good(e) => Swept(disk)[Final(e)] = disk[Final(e)]
                                    /\ Swept(disk)[Tmp(e)] = disk[Tmp(e)]
  <1>1. \A e \in Passed : ~Good(e)
    <2>1. \A k \in DOMAIN Exts : k \in 1 .. k
      BY DEF Exts
    <2>2. QED
      BY <2>1 DEF Passed
  <1>2. disk \in [Names -> CacheFiles \cup {Nothing}]
    BY DEF AssetsTypeOK
  <1>3. \A n \in Names : Swept(disk)[n] = IF n \in {Final(e) : e \in Passed} THEN Nothing
                                                                            ELSE disk[n]
    BY DEF Swept
  <1>4. Swept(disk) \in [Names -> CacheFiles \cup {Nothing}]
    BY <1>2 DEF Swept
  <1>5. ASSUME NEW e \in Extensions
        PROVE  /\ Good(e) => Swept(disk)[Final(e)] = disk[Final(e)]
               /\ Swept(disk)[Tmp(e)] = disk[Tmp(e)]
    <2>1. Tmp(e) \notin {Final(f) : f \in Passed}
      BY FetchNames
    <2>2. Good(e) => Final(e) \notin {Final(f) : f \in Passed}
      BY <1>1, FetchNames
    <2>3. QED
      BY <1>3, <2>1, <2>2, FetchNames
  <1>6. QED
    BY <1>3, <1>4, <1>5

(* The queue of announcements: what its ends do to the places of a request.*)
LEMMA QueueGrows ==
    ASSUME AssetsTypeOK, NEW hit, hits' = Append(hits, hit), NEW r
    PROVE  Queued(r)' = IF hit.id = r THEN Queued(r) \cup {Len(hits) + 1} ELSE Queued(r)
  <1>1. /\ DOMAIN hits' = 1 .. Len(hits) + 1 /\ DOMAIN hits = 1 .. Len(hits)
        /\ Len(hits) \in Nat /\ hits'[Len(hits) + 1] = hit
        /\ \A i \in 1 .. Len(hits) : hits'[i] = hits[i]
    BY DEF AssetsTypeOK
  <1>2. 1 .. Len(hits) + 1 = (1 .. Len(hits)) \cup {Len(hits) + 1}
        /\ Len(hits) + 1 \notin 1 .. Len(hits)
    BY <1>1
  <1>3. QED
    BY <1>1, <1>2 DEF Queued

LEMMA QueueShrinks ==
    ASSUME AssetsTypeOK, hits # <<>>, hits' = Tail(hits), NEW r
    PROVE  /\ Queued(r) = {} => Queued(r)' = {}
           /\ \A i \in Nat : Queued(r) = {i} =>
                 \/ i = 1 /\ Head(hits).id = r /\ Queued(r)' = {}
                 \/ Head(hits).id # r /\ i - 1 \in Nat /\ Queued(r)' = {i - 1}
           /\ Head(hits).id = r => 1 \in Queued(r)
  <1>1. /\ DOMAIN hits' = 1 .. Len(hits) - 1 /\ DOMAIN hits = 1 .. Len(hits)
        /\ Len(hits) \in Nat /\ Len(hits) >= 1 /\ Head(hits) = hits[1]
        /\ \A i \in 1 .. Len(hits) - 1 : hits'[i] = hits[i + 1]
    BY DEF AssetsTypeOK
  <1>2. \A i \in 1 .. Len(hits) - 1 : i \in Queued(r)' <=> i + 1 \in Queued(r)
    BY <1>1 DEF Queued
  <1>3. Queued(r)' \subseteq 1 .. Len(hits) - 1 /\ Queued(r) \subseteq 1 .. Len(hits)
    BY <1>1 DEF Queued
  <1>4. 1 \in Queued(r) <=> Head(hits).id = r
    BY <1>1 DEF Queued
  <1>5. Queued(r) = {} => Queued(r)' = {}
    BY <1>1, <1>2, <1>3
  <1>6. ASSUME NEW i \in Nat, Queued(r) = {i}
        PROVE  \/ i = 1 /\ Head(hits).id = r /\ Queued(r)' = {}
               \/ Head(hits).id # r /\ i - 1 \in Nat /\ Queued(r)' = {i - 1}
    <2>1. i \in 1 .. Len(hits)
      BY <1>3, <1>6
    <2>2. CASE i = 1
      <3>1. Queued(r)' = {}
        BY <1>1, <1>2, <1>3, <1>6, <2>2
      <3>2. QED
        BY <1>4, <1>6, <2>2, <3>1
    <2>3. CASE i # 1
      <3>1. i - 1 \in 1 .. Len(hits) - 1 /\ (i - 1) + 1 = i
        BY <1>1, <2>1, <2>3
      <3>2. i - 1 \in Queued(r)'
        BY <1>2, <1>6, <3>1
      <3>3. ASSUME NEW j \in Queued(r)' PROVE j = i - 1
        <4>1. j \in 1 .. Len(hits) - 1 /\ j + 1 \in Queued(r)
          BY <1>2, <1>3
        <4>2. QED
          BY <1>1, <1>6, <2>1, <4>1
      <3>4. Queued(r)' = {i - 1}
        BY <3>2, <3>3
      <3>5. QED
        BY <1>4, <1>6, <2>3, <3>1, <3>4
    <2>4. QED
      BY <2>2, <2>3
  <1>7. QED
    BY <1>4, <1>5, <1>6

(* Types that the answer to a request keeps.                               *)
LEMMA AnswerType ==
    ASSUME AssetsTypeOK, NEW id \in Requests, NEW e \in Extensions \cup {Nothing}, NEW at \in Nat,
           Answer(id, e, at)
    PROVE  /\ signal' \in [id : Requests, ext : Extensions \cup {Nothing}, at : Nat]
                             \cup {Nothing}
           /\ answers' \in [Requests -> Nat]
           /\ answers'[id] = answers[id] + 1
           /\ \A r \in Requests : r # id => answers'[r] = answers[r]
  <1>1. answers \in [Requests -> Nat]
    BY DEF AssetsTypeOK
  <1>2. QED
    BY <1>1 DEF Answer

LEMMA RequestBounds ==
    ASSUME AssetsTypeOK
    PROVE  /\ asked \in Nat /\ MaxRequests \in Nat /\ asked <= MaxRequests
           /\ 1 .. asked \subseteq Requests
           /\ \A r \in Requests : r \in Nat /\ (r \in 1 .. asked <=> ~(r > asked))
  BY FetchAssumption DEF AssetsTypeOK, Requests

(* Every request waits in one place; to answer one is to empty its place.  *)
LEMMA ServedSame ==
    ASSUME AllServed, NoneAhead, UNCHANGED <<asked, answers, forgotten, inflight, hits>>,
           \A r : Handled(r)' = Handled(r)
    PROVE  AllServed' /\ NoneAhead'
  <1>1. \A r : Queued(r)' = Queued(r)
    BY DEF Queued
  <1>2. QED
    BY <1>1 DEF AllServed, NoneAhead, Served

LEMMA ServedByNetwork ==
    ASSUME FetchInv, NEW id \in inflight, inflight' = inflight \ {id},
           NEW e \in Extensions \cup {Nothing}, NEW at \in Nat,
           Answer(id, e, at), UNCHANGED <<asked, forgotten, hits, reply>>
    PROVE  AllServed' /\ NoneAhead'
  <1>1. AssetsTypeOK /\ AllServed /\ NoneAhead /\ id \in Requests
    BY DEF FetchInv, AssetsTypeOK
  <1>2. /\ answers'[id] = answers[id] + 1
        /\ \A r \in Requests : r # id => answers'[r] = answers[r]
    BY <1>1, AnswerType
  <1>3. \A r : Queued(r)' = Queued(r) /\ Handled(r)' = Handled(r)
    BY DEF Queued, Handled
  <1>4. id \in 1 .. asked
    BY <1>1, RequestBounds DEF NoneAhead
  <1>5. ASSUME NEW r \in 1 .. asked
        PROVE  Served(answers'[r], r \in forgotten, r \in inflight', Handled(r), Queued(r))
    <2>1. Served(answers[r], r \in forgotten, r \in inflight, Handled(r), Queued(r))
      BY <1>1 DEF AllServed
    <2>2. CASE r = id
      <3>1. r \notin forgotten /\ answers[r] = 0 /\ ~Handled(r) /\ Queued(r) = {}
        BY <2>1, <2>2, Zenon DEF Served
      <3>2. answers'[r] = 1 /\ r \notin inflight'
        BY <1>2, <2>2, <3>1
      <3>3. QED
        BY <3>1, <3>2, Zenon DEF Served
    <2>3. CASE r # id
      <3>1. answers'[r] = answers[r] /\ (r \in inflight' <=> r \in inflight)
        BY <1>1, <1>2, <2>3, RequestBounds
      <3>2. QED
        BY <2>1, <3>1, Zenon DEF Served
    <2>4. QED
      BY <2>2, <2>3
  <1>6. AllServed'
    BY <1>3, <1>5 DEF AllServed
  <1>7. NoneAhead'
    BY <1>1, <1>2, <1>3, <1>4, RequestBounds DEF NoneAhead
  <1>8. QED
    BY <1>6, <1>7

LEMMA ServedByHandler ==
    ASSUME FetchInv, reply # Nothing, reply' = Nothing,
           NEW e \in Extensions \cup {Nothing}, NEW at \in Nat,
           Answer(reply.id, e, at), UNCHANGED <<asked, forgotten, hits, inflight>>
    PROVE  AllServed' /\ NoneAhead'
  <1> DEFINE id == reply.id
  <1>1. AssetsTypeOK /\ AllServed /\ NoneAhead /\ id \in Requests
    BY DEF FetchInv, AssetsTypeOK, Replies
  <1>2. /\ answers'[id] = answers[id] + 1
        /\ \A r \in Requests : r # id => answers'[r] = answers[r]
    BY <1>1, AnswerType
  <1>3. \A r : /\ Queued(r)' = Queued(r) /\ ~Handled(r)' /\ (Handled(r) <=> r = id)
    BY DEF Queued, Handled
  <1>4. id \in 1 .. asked
    BY <1>1, <1>3, RequestBounds DEF NoneAhead
  <1> HIDE DEF id
  <1>5. ASSUME NEW r \in 1 .. asked
        PROVE  Served(answers'[r], r \in forgotten, r \in inflight, FALSE, Queued(r))
    <2>1. Served(answers[r], r \in forgotten, r \in inflight, Handled(r), Queued(r))
      BY <1>1 DEF AllServed
    <2>2. CASE r = id
      <3>1. r \notin forgotten /\ answers[r] = 0 /\ r \notin inflight /\ Queued(r) = {}
        BY <1>3, <2>1, <2>2, Zenon DEF Served
      <3>2. answers'[r] = 1
        BY <1>2, <2>2, <3>1
      <3>3. QED
        BY <3>1, <3>2, Zenon DEF Served
    <2>3. CASE r # id
      <3>1. answers'[r] = answers[r] /\ ~Handled(r)
        BY <1>1, <1>2, <1>3, <2>3, RequestBounds
      <3>2. QED
        BY <2>1, <3>1, Zenon DEF Served
    <2>4. QED
      BY <2>2, <2>3
  <1>6. AllServed'
    <2> SUFFICES ASSUME NEW r \in 1 .. asked
                 PROVE  Served(answers'[r], r \in forgotten', r \in inflight',
                               Handled(r)', Queued(r)')
      BY DEF AllServed
    <2>1. QED
      BY <1>3, <1>5, Zenon DEF Served
  <1>7. NoneAhead'
    BY <1>1, <1>2, <1>3, <1>4, RequestBounds DEF NoneAhead
  <1>8. QED
    BY <1>6, <1>7

LEMMA ServedByRequest == FetchInv /\ Request => AllServed' /\ NoneAhead'
  <1> SUFFICES ASSUME FetchInv, Request PROVE AllServed' /\ NoneAhead'
    OBVIOUS
  <1>0. PICK n \in Int : n = asked + 1
    BY FetchInv DEF FetchInv, AssetsTypeOK
  <1>1. AssetsTypeOK /\ AllServed /\ NoneAhead
    BY DEF FetchInv
  <1>2. /\ asked' = n /\ UNCHANGED <<answers, forgotten, reply>> /\ asked < MaxRequests
        /\ n \in Nat /\ n > asked /\ n \in Requests /\ 1 .. n = (1 .. asked) \cup {n}
        /\ \A r \in Requests : r > n => r > asked /\ r # n
        /\ \A r \in 1 .. asked : r # n
    BY <1>0, <1>1, RequestBounds DEF Request, Requests
  <1>3. \A r : Handled(r)' = Handled(r)
    BY <1>2 DEF Handled
  <1>4. /\ answers[n] = 0 /\ n \notin forgotten /\ n \notin inflight
        /\ ~Handled(n) /\ Queued(n) = {}
    BY <1>1, <1>2 DEF NoneAhead
  <1>5. \/ /\ \A r : r # n => Queued(r)' = Queued(r)
           /\ \E i \in Nat : Queued(n)' = {i}
           /\ inflight' = inflight
        \/ /\ \A r : Queued(r)' = Queued(r)
           /\ inflight' = inflight \cup {n}
    <2>1. CASE hits' = hits /\ inflight' = inflight \cup {asked'}
      BY <1>2, <2>1 DEF Queued
    <2>2. CASE /\ \E i \in DOMAIN Exts :
                     hits' = Append(hits, [id |-> asked', ext |-> Exts[i], at |-> removals])
               /\ inflight' = inflight
      <3>1. PICK i \in DOMAIN Exts :
                     hits' = Append(hits, [id |-> asked', ext |-> Exts[i], at |-> removals])
        BY <2>2
      <3> DEFINE hit == [id |-> asked', ext |-> Exts[i], at |-> removals]
      <3>2. hits' = Append(hits, hit) /\ hit.id = n
        BY <1>2, <3>1
      <3> HIDE DEF hit
      <3>3. \A r : Queued(r)' = IF hit.id = r THEN Queued(r) \cup {Len(hits) + 1}
                                             ELSE Queued(r)
        BY <1>1, <3>2, QueueGrows
      <3>4. Len(hits) + 1 \in Nat
        BY <1>1 DEF AssetsTypeOK
      <3>5. \A r : r # n => Queued(r)' = Queued(r)
        BY <3>2, <3>3
      <3>6. Queued(n)' = {Len(hits) + 1}
        BY <1>4, <3>2, <3>3
      <3>7. QED
        BY <2>2, <3>4, <3>5, <3>6, Zenon
    <2>3. QED
      BY <2>1, <2>2 DEF Request
  <1>6. ASSUME NEW r \in 1 .. asked
        PROVE  Served(answers[r], r \in forgotten, r \in inflight', Handled(r), Queued(r)')
    <2>1. Served(answers[r], r \in forgotten, r \in inflight, Handled(r), Queued(r))
      BY <1>1 DEF AllServed
    <2>2. Queued(r)' = Queued(r) /\ (r \in inflight' <=> r \in inflight)
      BY <1>2, <1>5
    <2>3. QED
      BY <2>1, <2>2, Zenon DEF Served
  <1>7. Served(answers[n], n \in forgotten, n \in inflight', Handled(n), Queued(n)')
    <2>1. CASE n \in inflight' /\ Queued(n)' = {}
      BY <1>4, <2>1, Zenon DEF Served
    <2>2. CASE n \notin inflight' /\ \E i \in Nat : Queued(n)' = {i}
      BY <1>4, <2>2, Zenon DEF Served
    <2>3. QED
      BY <1>4, <1>5, <2>1, <2>2
  <1>8. ASSUME NEW r \in 1 .. n
        PROVE  Served(answers[r], r \in forgotten, r \in inflight', Handled(r), Queued(r)')
    BY <1>2, <1>6, <1>7
  <1>9. AllServed'
    <2> SUFFICES ASSUME NEW r \in 1 .. asked'
                 PROVE  Served(answers'[r], r \in forgotten', r \in inflight',
                               Handled(r)', Queued(r)')
      BY DEF AllServed
    <2>1. QED
      BY <1>2, <1>3, <1>8, Zenon
  <1>10. NoneAhead'
    BY <1>1, <1>2, <1>3, <1>5 DEF NoneAhead
  <1>11. QED
    BY <1>9, <1>10

LEMMA ServedByEmit == FetchInv /\ EmitHit => AllServed' /\ NoneAhead'
  <1> SUFFICES ASSUME FetchInv, EmitHit PROVE AllServed' /\ NoneAhead'
    OBVIOUS
  <1> DEFINE id == Head(hits).id
  <1>1. AssetsTypeOK /\ AllServed /\ NoneAhead
    BY DEF FetchInv
  <1>2. /\ hits # <<>> /\ hits' = Tail(hits) /\ Answer(id, Head(hits).ext, Head(hits).at)
        /\ UNCHANGED <<asked, forgotten, inflight, reply>>
    BY DEF EmitHit
  <1>3. id \in Requests /\ Head(hits).ext \in Extensions /\ Head(hits).at \in Nat
    <2> DEFINE S == [id : Requests, ext : Extensions, at : Nat]
    <2>1. hits \in Seq(S)
      BY <1>1 DEF AssetsTypeOK
    <2> HIDE DEF S
    <2>2. Head(hits) \in S
      BY <1>2, <2>1
    <2>3. QED
      BY <2>2 DEF S
  <1>4. /\ answers'[id] = answers[id] + 1
        /\ \A r \in Requests : r # id => answers'[r] = answers[r]
    BY <1>1, <1>2, <1>3, AnswerType
  <1>5. \A r : /\ Queued(r) = {} => Queued(r)' = {}
               /\ \A i \in Nat : Queued(r) = {i} =>
                     \/ i = 1 /\ id = r /\ Queued(r)' = {}
                     \/ id # r /\ i - 1 \in Nat /\ Queued(r)' = {i - 1}
               /\ id = r => 1 \in Queued(r)
    BY <1>1, <1>2, QueueShrinks
  <1>6. \A r : Handled(r)' = Handled(r)
    BY <1>2 DEF Handled
  <1> HIDE DEF id
  <1>7. id \in 1 .. asked
    BY <1>1, <1>3, <1>5, RequestBounds DEF NoneAhead
  <1>8. ASSUME NEW r \in 1 .. asked
        PROVE  Served(answers'[r], r \in forgotten, r \in inflight, Handled(r), Queued(r)')
    <2>1. Served(answers[r], r \in forgotten, r \in inflight, Handled(r), Queued(r))
      BY <1>1 DEF AllServed
    <2>2. CASE r = id
      <3>1. /\ r \notin forgotten /\ answers[r] = 0 /\ r \notin inflight /\ ~Handled(r)
            /\ \E i \in Nat : Queued(r) = {i}
        BY <1>5, <2>1, <2>2 DEF Served
      <3>2. answers'[r] = 1 /\ Queued(r)' = {}
        BY <1>4, <1>5, <2>2, <3>1
      <3>3. QED
        BY <3>1, <3>2, Zenon DEF Served
    <2>3. CASE r # id
      <3>1. answers'[r] = answers[r]
        BY <1>1, <1>4, <2>3, RequestBounds
      <3>2. /\ Queued(r) = {} => Queued(r)' = {}
            /\ (\E i \in Nat : Queued(r) = {i}) => \E i \in Nat : Queued(r)' = {i}
        BY <1>5, <2>3
      <3>3. QED
        BY <2>1, <3>1, <3>2, Zenon DEF Served
    <2>4. QED
      BY <2>2, <2>3
  <1>9. AllServed'
    <2> SUFFICES ASSUME NEW r \in 1 .. asked
                 PROVE  Served(answers'[r], r \in forgotten', r \in inflight',
                               Handled(r)', Queued(r)')
      BY <1>2 DEF AllServed
    <2>1. QED
      BY <1>2, <1>6, <1>8, Zenon
  <1>10. NoneAhead'
    BY <1>1, <1>2, <1>4, <1>5, <1>6, <1>7, RequestBounds DEF NoneAhead
  <1>11. QED
    BY <1>9, <1>10

(* The network hands the request to the handler.                           *)
LEMMA ServedByFinish ==
    ASSUME FetchInv, phase = "idle", NEW id \in inflight, inflight' = inflight \ {id},
           reply' # Nothing, reply'.id = id, UNCHANGED <<asked, answers, forgotten, hits>>
    PROVE  AllServed' /\ NoneAhead'
  <1>1. AssetsTypeOK /\ AllServed /\ NoneAhead /\ id \in Requests /\ reply = Nothing
    BY DEF FetchInv, AssetsTypeOK
  <1>2. \A r : Queued(r)' = Queued(r) /\ (Handled(r)' <=> r = id) /\ ~Handled(r)
    BY <1>1 DEF Queued, Handled
  <1>3. id \in 1 .. asked
    BY <1>1, RequestBounds DEF NoneAhead
  <1>4. ASSUME NEW r \in 1 .. asked
        PROVE  Served(answers[r], r \in forgotten, r \in inflight', r = id, Queued(r))
    <2>1. Served(answers[r], r \in forgotten, r \in inflight, FALSE, Queued(r))
      BY <1>1, <1>2, Zenon DEF AllServed, Served
    <2>2. CASE r = id
      BY <2>1, <2>2, Zenon DEF Served
    <2>3. CASE r # id
      <3>1. r \in inflight' <=> r \in inflight
        BY <2>3
      <3>2. QED
        BY <2>1, <2>3, <3>1, Zenon DEF Served
    <2>4. QED
      BY <2>2, <2>3
  <1>5. AllServed'
    <2> SUFFICES ASSUME NEW r \in 1 .. asked
                 PROVE  Served(answers'[r], r \in forgotten', r \in inflight',
                               Handled(r)', Queued(r)')
      BY DEF AllServed
    <2>1. QED
      BY <1>2, <1>4, Zenon DEF Served
  <1>6. NoneAhead'
    BY <1>1, <1>2, <1>3, RequestBounds DEF NoneAhead
  <1>7. QED
    BY <1>5, <1>6

LEMMA ServedByRestart == FetchInv /\ Restart => AllServed' /\ NoneAhead'
  <1> SUFFICES ASSUME FetchInv, Restart PROVE AllServed' /\ NoneAhead'
    OBVIOUS
  <1>1. AssetsTypeOK /\ AllServed /\ NoneAhead
    BY DEF FetchInv
  <1>2. /\ forgotten' = {r \in 1 .. asked : answers[r] = 0}
        /\ inflight' = {} /\ hits' = <<>> /\ reply' = Nothing
        /\ UNCHANGED <<asked, answers>>
    BY DEF Restart, Leave
  <1>3. \A r : Queued(r)' = {} /\ ~Handled(r)'
    BY <1>2 DEF Queued, Handled
  <1>4. ASSUME NEW r \in 1 .. asked
        PROVE  Served(answers[r], r \in forgotten', FALSE, FALSE, {})
    <2>1. Served(answers[r], r \in forgotten, r \in inflight, Handled(r), Queued(r))
      BY <1>1 DEF AllServed
    <2>2. answers[r] = 0 \/ answers[r] = 1
      BY <2>1, Zenon DEF Served
    <2>3. r \in forgotten' <=> answers[r] = 0
      BY <1>2
    <2>4. QED
      BY <2>2, <2>3 DEF Served
  <1>5. AllServed'
    <2> SUFFICES ASSUME NEW r \in 1 .. asked
                 PROVE  Served(answers'[r], r \in forgotten', r \in inflight',
                               Handled(r)', Queued(r)')
      BY <1>2 DEF AllServed
    <2>1. r \notin inflight'
      BY <1>2
    <2>2. QED
      BY <1>2, <1>3, <1>4, <2>1, Zenon DEF Served
  <1>6. NoneAhead'
    BY <1>1, <1>2, <1>3, RequestBounds DEF NoneAhead
  <1>7. QED
    BY <1>5, <1>6

LEMMA FetchServes == FetchInv /\ [AssetsNext]_assets => AllServed' /\ NoneAhead'
  <1> SUFFICES ASSUME FetchInv, [AssetsNext]_assets PROVE AllServed' /\ NoneAhead'
    OBVIOUS
  <1>1. AssetsTypeOK /\ AllServed /\ NoneAhead
    BY DEF FetchInv
  <1>2. ASSUME UNCHANGED <<asked, answers, forgotten, inflight, hits, reply>>
        PROVE  AllServed' /\ NoneAhead'
    BY <1>1, <1>2, ServedSame DEF Handled
  <1>3. phase # "idle" => reply # Nothing /\ reply.ext \in Extensions
    BY <1>1 DEF AssetsTypeOK, Replies
  <1>4. removals \in Nat
    BY <1>1 DEF AssetsTypeOK
  <1>5. CASE CachedPath
    BY <1>2, <1>5 DEF CachedPath, ghosts
  <1>6. CASE Request
    BY <1>6, ServedByRequest
  <1>7. CASE EmitHit
    BY <1>7, ServedByEmit
  <1>8. ASSUME NEW id \in inflight, ReplyFails(id) PROVE AllServed' /\ NoneAhead'
    BY <1>4, <1>8, ServedByNetwork DEF ReplyFails
  <1>9. ASSUME NEW id \in inflight, NEW type \in Types, NEW body \in Bodies,
               ReplyFinished(id, type, body)
        PROVE  AllServed' /\ NoneAhead'
    <2>1. ExtOf(type) \in Extensions /\ id \in Requests
      BY <1>1, FetchAssumption DEF AssetsTypeOK, ExtOf
    <2>2. reply' \in Replies /\ reply'.id = id
      BY <1>9, <2>1 DEF ReplyFinished, Replies
    <2>3. QED
      BY <1>9, <2>2, FetchAssumption, ServedByFinish DEF ReplyFinished, ghosts
  <1>10. CASE WriteFails
    BY <1>3, <1>4, <1>10, ServedByHandler DEF WriteFails, Leave
  <1>11. ASSUME NEW n \in Sizes, Write(n) PROVE AllServed' /\ NoneAhead'
    BY <1>2, <1>11 DEF Write
  <1>12. ASSUME NEW removed \in BOOLEAN, RemoveOld(removed) PROVE AllServed' /\ NoneAhead'
    BY <1>2, <1>12 DEF RemoveOld
  <1>13. CASE RenameFails
    BY <1>3, <1>4, <1>13, ServedByHandler DEF RenameFails, Leave
  <1>14. CASE Rename
    BY <1>2, <1>14 DEF Rename
  <1>15. CASE CheckSignature
    BY <1>3, <1>4, <1>15, ServedByHandler DEF CheckSignature, Leave
  <1>16. CASE Restart
    BY <1>16, ServedByRestart
  <1>17. CASE UNCHANGED assets
    BY <1>2, <1>17 DEF assets, ghosts
  <1>18. QED
    BY <1>5, <1>6, <1>7, <1>8, <1>9, <1>10, <1>11, <1>12, <1>13, <1>14, <1>15, <1>16,
       <1>17 DEF AssetsNext, Finished

LEMMA FetchTypes == FetchInv /\ [AssetsNext]_assets => AssetsTypeOK'
  <1> SUFFICES ASSUME FetchInv, [AssetsNext]_assets PROVE AssetsTypeOK'
    OBVIOUS
  <1>1. AssetsTypeOK /\ NoneAhead
    BY DEF FetchInv
  <1>2. /\ phase # "idle" => /\ reply \in Replies /\ reply # Nothing /\ reply.id \in Requests
                          /\ reply.ext \in Extensions /\ reply.body \in Bodies
        /\ disk \in [Names -> CacheFiles \cup {Nothing}] /\ removals \in Nat
        /\ hits \in Seq([id : Requests, ext : Extensions, at : Nat])
    BY <1>1 DEF AssetsTypeOK, Replies
  <1>3. \A body \in Bodies, n \in Sizes, b \in BOOLEAN :
            [magic |-> body.magic, size |-> n, whole |-> b] \in CacheFiles
    BY DEF CacheFiles
  <1>4. ASSUME NEW id \in Requests, NEW e \in Extensions \cup {Nothing}, NEW at \in Nat,
               Answer(id, e, at)
        PROVE  /\ signal' \in [id : Requests, ext : Extensions \cup {Nothing}, at : Nat]
                                 \cup {Nothing}
               /\ answers' \in [Requests -> Nat]
    BY <1>1, <1>4, AnswerType
  <1>5. CASE CachedPath
    BY <1>1, <1>5, Sweeps DEF CachedPath, ghosts, AssetsTypeOK
  <1>6. CASE Request
    <2>1. asked' \in 0 .. MaxRequests /\ asked' \in Requests
      BY <1>1, <1>6, RequestBounds DEF Request, Requests
    <2>2. disk' \in [Names -> CacheFiles \cup {Nothing}]
      BY <1>1, <1>6, Sweeps DEF Request
    <2> DEFINE S == [id : Requests, ext : Extensions, at : Nat]
    <2>3. \A i \in DOMAIN Exts : [id |-> asked', ext |-> Exts[i], at |-> removals] \in S
      BY <1>2, <2>1 DEF Extensions
    <2>4. hits \in Seq(S) /\ inflight \subseteq Requests
      BY <1>1, <1>2 DEF AssetsTypeOK
    <2> HIDE DEF S
    <2>5. hits' \in Seq(S)
      <3>1. CASE hits' = hits
        BY <2>4, <3>1
      <3>2. ASSUME NEW i \in DOMAIN Exts,
                   hits' = Append(hits, [id |-> asked', ext |-> Exts[i], at |-> removals])
            PROVE  hits' \in Seq(S)
        BY <2>3, <2>4, <3>2
      <3>3. QED
        BY <1>6, <3>1, <3>2 DEF Request
    <2>6. inflight' \subseteq Requests
      BY <1>6, <2>1, <2>4 DEF Request
    <2> USE DEF S
    <2>7. QED
      BY <1>1, <1>6, <2>1, <2>2, <2>5, <2>6 DEF Request, AssetsTypeOK
  <1>7. CASE EmitHit
    <2> DEFINE S == [id : Requests, ext : Extensions, at : Nat]
    <2>1. hits \in Seq(S) /\ hits # <<>> /\ hits' = Tail(hits)
      BY <1>2, <1>7 DEF EmitHit
    <2> HIDE DEF S
    <2>2. Head(hits) \in S /\ hits' \in Seq(S)
      BY <2>1
    <2> USE DEF S
    <2>3. Head(hits).id \in Requests /\ Head(hits).ext \in Extensions /\ Head(hits).at \in Nat
      BY <2>2
    <2>4. QED
      BY <1>1, <1>4, <1>7, <2>2, <2>3 DEF EmitHit, AssetsTypeOK
  <1>8. ASSUME NEW id \in inflight, ReplyFails(id) PROVE AssetsTypeOK'
    BY <1>1, <1>2, <1>4, <1>8 DEF ReplyFails, AssetsTypeOK
  <1>9. ASSUME NEW id \in inflight, NEW type \in Types, NEW body \in Bodies,
               ReplyFinished(id, type, body)
        PROVE  AssetsTypeOK'
    <2>1. ExtOf(type) \in Extensions /\ id \in Requests
      BY <1>1, FetchAssumption DEF AssetsTypeOK, ExtOf
    <2>2. reply' \in Replies /\ reply' # Nothing
      BY <1>9, <2>1, FetchAssumption DEF ReplyFinished, Replies
    <2>3. disk' \in [Names -> CacheFiles \cup {Nothing}]
      <3>1. 0 \in Sizes
        BY DEF Sizes
      <3>2. QED
        BY <1>2, <1>3, <1>9, <3>1 DEF ReplyFinished
    <2>4. QED
      BY <1>1, <1>9, <2>2, <2>3 DEF ReplyFinished, ghosts, AssetsTypeOK
  <1>10. CASE WriteFails
    <2>1. disk' \in [Names -> CacheFiles \cup {Nothing}]
      BY <1>2, <1>10 DEF WriteFails
    <2>2. QED
      BY <1>1, <1>2, <1>4, <1>10, <2>1 DEF WriteFails, Leave, AssetsTypeOK
  <1>11. ASSUME NEW n \in Sizes, Write(n) PROVE AssetsTypeOK'
    <2>1. reply.body \in Bodies
      BY <1>2, <1>11 DEF Write
    <2>2. disk' \in [Names -> CacheFiles \cup {Nothing}]
      <3>1. (n = reply.body.size) \in BOOLEAN
        OBVIOUS
      <3>2. [magic |-> reply.body.magic, size |-> n, whole |-> n = reply.body.size] \in CacheFiles
        BY <1>3, <2>1, <3>1
      <3>3. QED
        BY <1>2, <1>11, <3>2, Zenon DEF Write
    <2>3. unflushed' \in BOOLEAN
      BY <1>1, <1>11 DEF Write, AssetsTypeOK
    <2>4. QED
      BY <1>1, <1>11, <2>2, <2>3 DEF Write, AssetsTypeOK
  <1>12. ASSUME NEW removed \in BOOLEAN, RemoveOld(removed) PROVE AssetsTypeOK'
    <2>1. disk' \in [Names -> CacheFiles \cup {Nothing}]
      BY <1>2, <1>12 DEF RemoveOld
    <2>2. QED
      BY <1>1, <1>12, <2>1 DEF RemoveOld, AssetsTypeOK
  <1>13. CASE RenameFails
    <2>1. disk' \in [Names -> CacheFiles \cup {Nothing}]
      BY <1>2, <1>13 DEF RenameFails
    <2>2. QED
      BY <1>1, <1>2, <1>4, <1>13, <2>1 DEF RenameFails, Leave, AssetsTypeOK
  <1>14. CASE Rename
    <2>1. disk' \in [Names -> CacheFiles \cup {Nothing}]
      <3>1. disk[Tmp(reply.ext)] \in CacheFiles \cup {Nothing}
        BY <1>2, <1>14, FetchNames DEF Rename
      <3>2. QED
        BY <1>2, <1>14, <3>1 DEF Rename
    <2>2. since' \in [Extensions -> 0 .. MaxRequests]
      BY <1>1, <1>14 DEF Rename, AssetsTypeOK
    <2>3. QED
      BY <1>1, <1>14, <2>1, <2>2 DEF Rename, AssetsTypeOK
  <1>15. CASE CheckSignature
    <2>1. disk' \in [Names -> CacheFiles \cup {Nothing}]
      BY <1>2, <1>15 DEF CheckSignature
    <2>2. \E e \in Extensions \cup {Nothing} : Answer(reply.id, e, removals)
      BY <1>2, <1>15 DEF CheckSignature
    <2>3. QED
      BY <1>1, <1>2, <1>4, <1>15, <2>1, <2>2 DEF CheckSignature, Leave, AssetsTypeOK
  <1>16. CASE Restart
    <2>1. restarts' \in 0 .. MaxRestarts
      BY <1>1, <1>16, FetchAssumption DEF Restart, AssetsTypeOK
    <2>2. forgotten' \subseteq Requests
      BY <1>1, <1>16, RequestBounds DEF Restart
    <2>3. hits' \in Seq([id : Requests, ext : Extensions, at : Nat])
      BY <1>16 DEF Restart
    <2>4. QED
      BY <1>1, <1>16, <2>1, <2>2, <2>3 DEF Restart, Leave, AssetsTypeOK
  <1>17. CASE UNCHANGED assets
    BY <1>1, <1>17 DEF assets, ghosts, AssetsTypeOK
  <1>18. QED
    BY <1>5, <1>6, <1>7, <1>8, <1>9, <1>10, <1>11, <1>12, <1>13, <1>14, <1>15, <1>16,
       <1>17 DEF AssetsNext, Finished

(* As long as nothing becomes good or ceases to be, and nobody new waits.  *)
LEMMA GoodAsBefore ==
    ASSUME HitsGood, Older, \A e \in Extensions : Good(e)' = Good(e),
           UNCHANGED <<removals, since>>,
           \A i \in DOMAIN hits' : \E j \in DOMAIN hits : hits'[i] = hits[j],
           inflight' \subseteq inflight,
           reply' \in {reply, Nothing} \/ reply'.id \in inflight
    PROVE  HitsGood' /\ Older'
  <1>1. GoodFiles' = GoodFiles
    BY DEF GoodFiles
  <1>2. HitsGood'
    BY <1>1 DEF HitsGood
  <1>3. Older'
    BY <1>1 DEF Older
  <1>4. QED
    BY <1>2, <1>3

LEMMA FetchGood == FetchInv /\ [AssetsNext]_assets => HitsGood' /\ Older'
  <1> SUFFICES ASSUME FetchInv, [AssetsNext]_assets PROVE HitsGood' /\ Older'
    OBVIOUS
  <1>1. AssetsTypeOK /\ NoneAhead /\ HitsGood /\ Older
    BY DEF FetchInv
  <1>2. /\ phase # "idle" => /\ reply # Nothing /\ reply.id \in Requests
                          /\ reply.ext \in Extensions
        /\ disk \in [Names -> CacheFiles \cup {Nothing}] /\ removals \in Nat
        /\ since \in [Extensions -> 0 .. MaxRequests]
        /\ \A i \in DOMAIN hits : hits[i].at \in Nat
    <2>1. \A i \in DOMAIN hits : hits[i] \in [id : Requests, ext : Extensions, at : Nat]
      <3> DEFINE S == [id : Requests, ext : Extensions, at : Nat]
      <3>1. hits \in Seq(S)
        BY <1>1 DEF AssetsTypeOK
      <3> HIDE DEF S
      <3>2. \A i \in DOMAIN hits : hits[i] \in S
        BY <3>1
      <3>3. QED
        BY <3>2 DEF S
    <2>2. QED
      BY <1>1, <2>1 DEF AssetsTypeOK, Replies
  <1>3. \A e \in Extensions : disk'[Final(e)] = disk[Final(e)] => Good(e)' = Good(e)
    BY SameGood
  <1>4. ASSUME \A e \in Extensions : Good(e)' = Good(e), UNCHANGED <<removals, since, hits>>,
               inflight' \subseteq inflight,
               reply' \in {reply, Nothing} \/ reply'.id \in inflight
        PROVE  HitsGood' /\ Older'
    BY <1>1, <1>4, GoodAsBefore
  <1>5. ASSUME NEW e \in Extensions, NEW f,
               disk' = [disk EXCEPT ![Tmp(e)] = f], UNCHANGED <<removals, since, hits>>,
               inflight' \subseteq inflight,
               reply' \in {reply, Nothing} \/ reply'.id \in inflight
        PROVE  HitsGood' /\ Older'
    <2>1. \A n \in Extensions : disk'[Final(n)] = disk[Final(n)]
      BY <1>2, <1>5, FetchNames
    <2>2. QED
      BY <1>3, <1>4, <1>5, <2>1
  <1>6. disk' = Swept(disk) => \A e \in Extensions : Good(e)' = Good(e)
    <2> SUFFICES ASSUME disk' = Swept(disk), NEW e \in Extensions
                 PROVE  Good(e)' = Good(e)
      OBVIOUS
    <2>1. CASE disk'[Final(e)] = disk[Final(e)]
      BY <1>3, <2>1
    <2>2. CASE disk'[Final(e)] # disk[Final(e)]
      <3>1. ~Good(e) /\ disk'[Final(e)] = Nothing
        BY <1>1, <2>2, Sweeps, FetchNames
      <3>2. QED
        BY <3>1, LostNotGood DEF Good
    <2>3. QED
      BY <2>1, <2>2
  <1>7. CASE CachedPath
    BY <1>4, <1>6, <1>7 DEF CachedPath, ghosts
  <1>8. CASE Request
    <2>1. /\ GoodFiles' = GoodFiles
          /\ UNCHANGED <<removals, since, reply>>
      BY <1>6, <1>8 DEF Request, GoodFiles
    <2>2. Older'
      <3>1. CASE inflight' = inflight
        BY <1>1, <2>1, <3>1 DEF Older
      <3>2. CASE Missed
        <4>1. GoodFiles = {}
          BY <3>2 DEF Missed, GoodFiles, Extensions
        <4>2. QED
          BY <2>1, <4>1 DEF Older
      <3>3. QED
        BY <1>8, <3>1, <3>2 DEF Request
    <2>3. HitsGood'
      <3>1. CASE hits' = hits
        BY <1>1, <2>1, <3>1 DEF HitsGood
      <3>2. ASSUME NEW i \in DOMAIN Exts, Hit(i),
                   hits' = Append(hits, [id |-> asked', ext |-> Exts[i], at |-> removals])
            PROVE  HitsGood'
        <4> DEFINE hit == [id |-> asked', ext |-> Exts[i], at |-> removals]
        <4>1. Exts[i] \in GoodFiles
          BY <3>2 DEF Hit, GoodFiles, Extensions
        <4>2. hits' = Append(hits, hit) /\ hit.at = removals /\ hit.ext \in GoodFiles
          BY <3>2, <4>1
        <4>3. hits \in Seq([id : Requests, ext : Extensions, at : Nat])
          BY <1>1 DEF AssetsTypeOK
        <4> HIDE DEF hit
        <4>4. /\ DOMAIN hits' = 1 .. Len(hits) + 1 /\ DOMAIN hits = 1 .. Len(hits)
              /\ Len(hits) \in Nat /\ hits'[Len(hits) + 1] = hit
              /\ \A k \in 1 .. Len(hits) : hits'[k] = hits[k]
          BY <4>2, <4>3
        <4>5. \A k \in DOMAIN hits' : hits'[k] = hit \/ (k \in DOMAIN hits /\ hits'[k] = hits[k])
          BY <4>4
        <4>6. QED
          BY <1>1, <1>2, <2>1, <4>2, <4>5 DEF HitsGood
      <3>3. QED
        BY <1>8, <3>1, <3>2 DEF Request
    <2>4. QED
      BY <2>2, <2>3
  <1>9. CASE EmitHit
    <2>1. \A e \in Extensions : Good(e)' = Good(e)
      BY <1>3, <1>9 DEF EmitHit
    <2>2. \A i \in DOMAIN hits' : \E j \in DOMAIN hits : hits'[i] = hits[j]
      <3> DEFINE S == [id : Requests, ext : Extensions, at : Nat]
      <3>1. hits \in Seq(S) /\ hits # <<>> /\ hits' = Tail(hits)
        BY <1>1, <1>9 DEF EmitHit, AssetsTypeOK
      <3> HIDE DEF S
      <3>2. /\ DOMAIN hits' = 1 .. Len(hits) - 1 /\ DOMAIN hits = 1 .. Len(hits)
            /\ Len(hits) \in Nat
            /\ \A i \in 1 .. Len(hits) - 1 : hits'[i] = hits[i + 1]
        BY <3>1
      <3>3. \A i \in 1 .. Len(hits) - 1 : i + 1 \in 1 .. Len(hits)
        BY <3>2
      <3>4. QED
        BY <3>2, <3>3, Zenon
    <2>3. QED
      BY <1>1, <1>9, <2>1, <2>2, GoodAsBefore DEF EmitHit
  <1>10. ASSUME NEW id \in inflight, ReplyFails(id) PROVE HitsGood' /\ Older'
    BY <1>3, <1>4, <1>10 DEF ReplyFails
  <1>11. ASSUME NEW id \in inflight, NEW type \in Types, NEW body \in Bodies,
                ReplyFinished(id, type, body)
         PROVE  HitsGood' /\ Older'
    <2>1. ExtOf(type) \in Extensions
      BY <1>1, FetchAssumption DEF AssetsTypeOK, ExtOf
    <2>2. reply'.id \in inflight
      BY <1>11 DEF ReplyFinished
    <2>3. QED
      BY <1>5, <1>11, <2>1, <2>2 DEF ReplyFinished, ghosts
  <1>12. CASE WriteFails
    BY <1>2, <1>5, <1>12 DEF WriteFails, Leave
  <1>13. ASSUME NEW n \in Sizes, Write(n) PROVE HitsGood' /\ Older'
    BY <1>2, <1>5, <1>13 DEF Write
  <1>14. ASSUME NEW removed \in BOOLEAN, RemoveOld(removed) PROVE HitsGood' /\ Older'
    <2>1. \A e \in Extensions : Good(e)' => Good(e)
      <3> SUFFICES ASSUME NEW e \in Extensions PROVE Good(e)' => Good(e)
        OBVIOUS
      <3>1. disk'[Final(e)] = disk[Final(e)] \/ disk'[Final(e)] = Nothing
        BY <1>2, <1>14, FetchNames DEF RemoveOld
      <3>2. QED
        BY <1>3, <3>1, LostNotGood
    <2>2. GoodFiles' \subseteq GoodFiles
      BY <2>1 DEF GoodFiles
    <2>3. Older'
      BY <1>1, <1>14, <2>2 DEF Older, RemoveOld
    <2>4. HitsGood'
      BY <1>1, <1>2, <1>14 DEF HitsGood, RemoveOld
    <2>5. QED
      BY <2>3, <2>4
  <1>15. CASE RenameFails
    BY <1>2, <1>5, <1>15 DEF RenameFails, Leave
  <1>16. CASE Rename
    <2>1. reply # Nothing /\ reply.id \in Requests /\ reply.ext \in Extensions
      BY <1>2, <1>16 DEF Rename
    <2>2. /\ \A e \in Extensions : e # reply.ext => disk'[Final(e)] = disk[Final(e)]
          /\ \A e \in Extensions : e # reply.ext => since'[e] = since[e]
          /\ since'[reply.ext] = asked
      BY <1>2, <1>16, <2>1, FetchNames DEF Rename
    <2>3. \A e \in Extensions : e # reply.ext => (e \in GoodFiles <=> e \in GoodFiles')
      BY <1>3, <2>2 DEF GoodFiles
    <2>4. reply.ext \notin GoodFiles
      BY <1>16 DEF Rename, GoodFiles, Good
    <2>5. HitsGood'
      <3>1. GoodFiles \subseteq GoodFiles'
        BY <2>3, <2>4 DEF GoodFiles
      <3>2. QED
        BY <1>1, <1>16, <3>1 DEF Rename, HitsGood
    <2>6. Older'
      <3>1. UNCHANGED <<inflight, reply>>
        BY <1>16 DEF Rename
      <3>2. (\A id \in inflight : id <= asked) /\ reply.id <= asked
        <4>1. inflight \subseteq Requests
          BY <1>1 DEF AssetsTypeOK
        <4>2. QED
          BY <1>1, <2>1, <4>1, RequestBounds DEF NoneAhead, Handled
      <3>3. \A e \in GoodFiles' : e \in Extensions
        BY DEF GoodFiles
      <3>4. QED
        BY <1>1, <2>2, <2>3, <3>1, <3>2, <3>3 DEF Older
    <2>7. QED
      BY <2>5, <2>6
  <1>17. CASE CheckSignature
    <2>1. \A e \in Extensions : Good(e)' = Good(e)
      <3>1. CASE Good(reply.ext)
        BY <1>3, <1>17, <3>1 DEF CheckSignature
      <3>2. CASE ~Good(reply.ext)
        <4> SUFFICES ASSUME NEW e \in Extensions PROVE Good(e)' = Good(e)
          OBVIOUS
        <4>1. CASE e = reply.ext
          <5>1. disk'[Final(e)] = Nothing
            BY <1>2, <1>17, <3>2, <4>1, FetchNames DEF CheckSignature
          <5>2. QED
            BY <3>2, <4>1, <5>1, LostNotGood DEF Good
        <4>2. CASE e # reply.ext
          <5>1. disk'[Final(e)] = disk[Final(e)]
            BY <1>2, <1>17, <3>2, <4>2, FetchNames DEF CheckSignature
          <5>2. QED
            BY <1>3, <5>1
        <4>3. QED
          BY <4>1, <4>2
      <3>3. QED
        BY <3>1, <3>2
    <2>2. QED
      BY <1>4, <1>17, <2>1 DEF CheckSignature, Leave
  <1>18. CASE Restart
    <2>1. \A e \in Extensions : Good(e)' = Good(e)
      BY <1>3, <1>18 DEF Restart
    <2>2. DOMAIN hits' = {}
      BY <1>18 DEF Restart
    <2>3. QED
      BY <1>1, <1>18, <2>1, <2>2, GoodAsBefore DEF Restart, Leave
  <1>19. CASE UNCHANGED assets
    BY <1>3, <1>4, <1>19 DEF assets, ghosts
  <1>20. QED
    BY <1>7, <1>8, <1>9, <1>10, <1>11, <1>12, <1>13, <1>14, <1>15, <1>16, <1>17, <1>18,
       <1>19 DEF AssetsNext, Finished

LEMMA FetchWhole == FetchInv /\ [AssetsNext]_assets => WholeUnlessUnflushed' /\ WholeToRename'
  <1> SUFFICES ASSUME FetchInv, [AssetsNext]_assets PROVE WholeUnlessUnflushed' /\ WholeToRename'
    OBVIOUS
  <1>1. AssetsTypeOK /\ WholeUnlessUnflushed /\ WholeToRename
    BY DEF FetchInv
  <1>2. /\ phase # "idle" => reply.ext \in Extensions
        /\ disk \in [Names -> CacheFiles \cup {Nothing}]
    BY <1>1 DEF AssetsTypeOK, Replies
  <1>3. ASSUME \A e \in Extensions : disk'[Final(e)] \in {disk[Final(e)], Nothing},
               unflushed' = unflushed, phase' \notin {"clear", "rename"}
        PROVE  WholeUnlessUnflushed' /\ WholeToRename'
    BY <1>1, <1>3 DEF WholeUnlessUnflushed, WholeToRename
  <1>4. ASSUME NEW e \in Extensions, NEW f,
               disk' = [disk EXCEPT ![Tmp(e)] = f]
        PROVE  /\ \A x \in Extensions : disk'[Final(x)] = disk[Final(x)]
               /\ disk'[Tmp(e)] = f
    BY <1>2, <1>4, FetchNames
  <1>5. disk' = Swept(disk) =>
            \A e \in Extensions : disk'[Final(e)] \in {disk[Final(e)], Nothing}
    BY <1>1, Sweeps, FetchNames
  <1>6. CASE CachedPath
    BY <1>3, <1>5, <1>6 DEF CachedPath, ghosts
  <1>7. CASE Request
    BY <1>3, <1>5, <1>7 DEF Request
  <1>8. CASE EmitHit
    BY <1>3, <1>8 DEF EmitHit
  <1>9. ASSUME NEW id \in inflight, ReplyFails(id)
        PROVE  WholeUnlessUnflushed' /\ WholeToRename'
    BY <1>3, <1>9 DEF ReplyFails
  <1>10. ASSUME NEW id \in inflight, NEW type \in Types, NEW body \in Bodies,
                ReplyFinished(id, type, body)
         PROVE  WholeUnlessUnflushed' /\ WholeToRename'
    <2>1. ExtOf(type) \in Extensions
      BY <1>1, FetchAssumption DEF AssetsTypeOK, ExtOf
    <2>2. QED
      BY <1>3, <1>4, <1>10, <2>1 DEF ReplyFinished, ghosts
  <1>11. CASE WriteFails
    BY <1>2, <1>3, <1>4, <1>11 DEF WriteFails, Leave
  <1>12. ASSUME NEW n \in Sizes, Write(n)
         PROVE  WholeUnlessUnflushed' /\ WholeToRename'
    <2> DEFINE f == [magic |-> reply.body.magic, size |-> n, whole |-> n = reply.body.size]
    <2>0. f.whole <=> n = reply.body.size
      OBVIOUS
    <2> HIDE DEF f
    <2>1. /\ \A e \in Extensions : disk'[Final(e)] = disk[Final(e)]
          /\ disk'[Tmp(reply.ext)].whole <=> n = reply.body.size
          /\ unflushed' <=> unflushed \/ n # reply.body.size
          /\ reply' = reply
      <3>1. reply.ext \in Extensions /\ disk' = [disk EXCEPT ![Tmp(reply.ext)] = f]
        BY <1>2, <1>12 DEF Write, f
      <3>2. /\ \A e \in Extensions : disk'[Final(e)] = disk[Final(e)]
            /\ disk'[Tmp(reply.ext)] = f
        BY <1>4, <3>1
      <3>3. (unflushed' <=> unflushed \/ n # reply.body.size) /\ reply' = reply
        BY <1>1, <1>12 DEF Write, AssetsTypeOK
      <3>4. QED
        BY <2>0, <3>2, <3>3, Zenon
    <2>2. WholeUnlessUnflushed'
      BY <1>1, <2>1 DEF WholeUnlessUnflushed
    <2>3. QED
      BY <2>1, <2>2 DEF WholeToRename
  <1>13. ASSUME NEW removed \in BOOLEAN, RemoveOld(removed)
         PROVE  WholeUnlessUnflushed' /\ WholeToRename'
    <2>1. /\ \A e \in Extensions : disk'[Final(e)] \in {disk[Final(e)], Nothing}
          /\ disk'[Tmp(reply.ext)] = disk[Tmp(reply.ext)]
          /\ phase = "clear" /\ UNCHANGED <<reply, unflushed>>
      BY <1>2, <1>13, FetchNames DEF RemoveOld
    <2>2. WholeUnlessUnflushed'
      BY <1>1, <2>1 DEF WholeUnlessUnflushed
    <2>3. QED
      BY <1>1, <2>1, <2>2 DEF WholeToRename
  <1>14. CASE RenameFails
    BY <1>2, <1>3, <1>4, <1>14 DEF RenameFails, Leave
  <1>15. CASE Rename
    <2>1. /\ \A e \in Extensions : e # reply.ext => disk'[Final(e)] = disk[Final(e)]
          /\ disk'[Final(reply.ext)] = disk[Tmp(reply.ext)]
          /\ disk[Tmp(reply.ext)] # Nothing
          /\ phase = "rename" /\ phase' = "check" /\ unflushed' = unflushed
      BY <1>2, <1>15, FetchNames DEF Rename
    <2>2. WholeUnlessUnflushed'
      BY <1>1, <2>1 DEF WholeUnlessUnflushed, WholeToRename
    <2>3. QED
      BY <2>1, <2>2 DEF WholeToRename
  <1>16. CASE CheckSignature
    <2>1. \A e \in Extensions : disk'[Final(e)] \in {disk[Final(e)], Nothing}
      BY <1>2, <1>16, FetchNames DEF CheckSignature
    <2>2. QED
      BY <1>3, <1>16, <2>1 DEF CheckSignature, Leave
  <1>17. CASE Restart
    BY <1>3, <1>17 DEF Restart, Leave
  <1>18. CASE UNCHANGED assets
    BY <1>1, <1>18 DEF assets, ghosts, WholeUnlessUnflushed, WholeToRename
  <1>19. QED
    BY <1>6, <1>7, <1>8, <1>9, <1>10, <1>11, <1>12, <1>13, <1>14, <1>15, <1>16, <1>17,
       <1>18 DEF AssetsNext, Finished

LEMMA FetchInit == AssetsInit => FetchInv
  <1> SUFFICES ASSUME AssetsInit PROVE FetchInv
    OBVIOUS
  <1>1. /\ 0 \in 0 .. MaxRequests /\ 0 \in 0 .. MaxRestarts
        /\ 1 .. asked = {} /\ DOMAIN hits = {}
    BY FetchAssumption DEF AssetsInit
  <1>2. AssetsTypeOK
    <2>1. /\ disk \in [Names -> CacheFiles \cup {Nothing}]
          /\ hits \in Seq([id : Requests, ext : Extensions, at : Nat])
          /\ answers \in [Requests -> Nat] /\ since \in [Extensions -> 0 .. MaxRequests]
      BY <1>1 DEF AssetsInit
    <2>2. QED
      BY <1>1, <2>1 DEF AssetsInit, AssetsTypeOK
  <1>3. AllServed /\ NoneAhead
    BY <1>1 DEF AssetsInit, AllServed, NoneAhead, Handled, Queued
  <1>4. HitsGood
    BY <1>1 DEF HitsGood
  <1>5. /\ GoodFiles = {} /\ WholeUnlessUnflushed /\ WholeToRename
    BY FetchNames DEF AssetsInit, GoodFiles, Good, WholeUnlessUnflushed, WholeToRename
  <1>6. Older
    BY <1>5 DEF Older
  <1>7. QED
    BY <1>2, <1>3, <1>4, <1>5, <1>6 DEF FetchInv

LEMMA FetchInvariant == AssetsSpec => []FetchInv
  <1>1. FetchInv /\ [AssetsNext]_assets => FetchInv'
    BY FetchTypes, FetchServes, FetchGood, FetchWhole DEF FetchInv
  <1>2. QED
    BY <1>1, FetchInit, PTL DEF AssetsSpec

(* A request is answered once, or waits in exactly one of three places, or *)
(* died with its process.                                                  *)
THEOREM AlwaysOneAnswer == AssetsSpec => []OneAnswer
  <1>1. FetchInv => OneAnswer
    BY ServedOnce DEF FetchInv
  <1>2. QED
    BY <1>1, FetchInvariant, PTL

(* No death of the process, and no failing call on the disk, leaves a part *)
(* of a body under a name the cache serves.                                *)
THEOREM FilesAlwaysWhole == AssetsSpec => []WholeUnlessUnflushed
  <1>1. FetchInv => WholeUnlessUnflushed
    BY DEF FetchInv
  <1>2. QED
    BY <1>1, FetchInvariant, PTL

(* A path is announced while its file is good, and a good file goes only   *)
(* on account of a reply that was on its way when the file came.           *)
THEOREM AnnouncedFilesAlwaysStay == AssetsSpec => AnnouncedFilesStay
  <1> DEFINE A == signal' \notin {signal, Nothing} /\ signal'.ext # Nothing
                      /\ signal'.at = removals' => signal'.ext \in GoodFiles'
             B == \A e \in GoodFiles \ GoodFiles' : reply # Nothing /\ reply.id <= since[e]
  <1>1. FetchInv /\ [AssetsNext]_assets => [A]_assets
    <2> SUFFICES ASSUME FetchInv, [AssetsNext]_assets,
                        signal' # signal, signal' # Nothing, signal'.ext # Nothing,
                        signal'.at = removals'
                 PROVE  signal'.ext \in GoodFiles'
      OBVIOUS
    <2>1. AssetsTypeOK /\ HitsGood
      BY DEF FetchInv
    <2>2. CASE EmitHit
      <3> DEFINE S == [id : Requests, ext : Extensions, at : Nat]
      <3>1. hits \in Seq(S) /\ hits # <<>>
        BY <2>1, <2>2 DEF EmitHit, AssetsTypeOK
      <3> HIDE DEF S
      <3>2. 1 \in DOMAIN hits /\ Head(hits) = hits[1]
        BY <3>1
      <3>3. GoodFiles' = GoodFiles
        BY <2>2 DEF EmitHit, GoodFiles, Good, Valid
      <3>4. signal'.ext = hits[1].ext /\ signal'.at = hits[1].at /\ removals' = removals
        BY <2>2, <3>2 DEF EmitHit, Answer
      <3>5. QED
        BY <2>1, <3>2, <3>3, <3>4 DEF HitsGood
    <2>3. CASE CheckSignature
      <3>1. Good(reply.ext) /\ reply.ext \in Extensions /\ signal'.ext = reply.ext
            /\ disk' = disk
        BY <2>1, <2>3 DEF CheckSignature, Answer, AssetsTypeOK, Replies
      <3>2. QED
        BY <3>1 DEF GoodFiles, Good, Valid
    <2>4. CASE CachedPath \/ Request \/ Rename
      BY <2>4 DEF CachedPath, Request, Rename
    <2>5. CASE WriteFails \/ RenameFails
      BY <2>5 DEF WriteFails, RenameFails, Answer
    <2>6. CASE Restart
      BY <2>6 DEF Restart
    <2>7. ASSUME NEW id \in inflight,
                 \/ ReplyFails(id)
                 \/ \E type \in Types, body \in Bodies : ReplyFinished(id, type, body)
          PROVE  FALSE
      BY <2>7 DEF ReplyFails, ReplyFinished, Answer
    <2>8. CASE (\E n \in Sizes : Write(n)) \/ \E removed \in BOOLEAN : RemoveOld(removed)
      BY <2>8 DEF Write, RemoveOld
    <2>9. CASE UNCHANGED assets
      BY <2>9 DEF assets
    <2>10. QED
      BY <2>2, <2>3, <2>4, <2>5, <2>6, <2>7, <2>8, <2>9 DEF AssetsNext, Finished
  <1>2. FetchInv /\ [AssetsNext]_assets => [B]_assets
    <2> SUFFICES ASSUME FetchInv, [AssetsNext]_assets, NEW e \in GoodFiles \ GoodFiles'
                 PROVE  reply # Nothing /\ reply.id <= since[e]
      OBVIOUS
    <2>1. AssetsTypeOK /\ Older /\ disk \in [Names -> CacheFiles \cup {Nothing}]
      BY DEF FetchInv, AssetsTypeOK
    <2>2. /\ e \in Extensions /\ Good(e) /\ disk'[Final(e)] # disk[Final(e)]
          /\ disk[Final(e)] # Nothing
      BY SameGood DEF GoodFiles, Good
    <2>3. phase # "idle" => reply # Nothing /\ reply.ext \in Extensions
      BY <2>1 DEF AssetsTypeOK, Replies
    <2>4. reply # Nothing => reply.id <= since[e]
      BY <2>1 DEF Older
    <2>5. CASE phase # "idle"
      BY <2>3, <2>4, <2>5
    <2>6. CASE CachedPath \/ Request
      BY <2>1, <2>2, <2>6, Sweeps DEF CachedPath, Request
    <2>7. ASSUME NEW id \in inflight, NEW type \in Types, NEW body \in Bodies,
                 ReplyFinished(id, type, body)
          PROVE  FALSE
      <3>1. ExtOf(type) \in Extensions
        BY <2>1, FetchAssumption DEF AssetsTypeOK, ExtOf
      <3>2. disk'[Final(e)] = disk[Final(e)]
        BY <2>1, <2>2, <2>7, <3>1, FetchNames DEF ReplyFinished
      <3>3. QED
        BY <2>2, <3>2
    <2>8. CASE EmitHit \/ Restart \/ \E id \in inflight : ReplyFails(id)
      BY <2>2, <2>8 DEF EmitHit, Restart, ReplyFails
    <2>9. CASE Finished
      BY <2>5, <2>9 DEF Finished, WriteFails, Write, RemoveOld, RenameFails, Rename, CheckSignature
    <2>10. CASE UNCHANGED assets
      BY <2>2, <2>10 DEF assets
    <2>11. QED
      BY <2>6, <2>7, <2>8, <2>9, <2>10 DEF AssetsNext
  <1>3. QED
    BY <1>1, <1>2, FetchInvariant, PTL
       DEF AssetsSpec, AnnouncedFilesStay, AnnouncedIsGood, LeavesByOlderReply

(* Clients are served whole files, which stay while they should.           *)
THEOREM FilesAlwaysKept == AssetsSpec => FilesKept
  BY FilesAlwaysWhole, AnnouncedFilesAlwaysStay, PTL DEF FilesKept

-----------------------------------------------------------------------------
(* The list of passes.                                                     *)

PassesSpec == PassesInit /\ [][PassesNext]_<<base, passes>>

(* What the loop of validate has after n passes, said at once.             *)
PassLists(S) == Seq([reads : SUBSET S, writes : SUBSET S])

WrittenIn(list, n) == UNION {list[j].writes : j \in 1 .. n}

CheckedThrough(list, produced, n) ==
    [ok |-> \A i \in 1 .. n : ProducedReads(list[i], produced) \subseteq WrittenIn(list, i - 1),
     available |-> WrittenIn(list, n)]

LEMMA CheckedNext ==
    ASSUME NEW S, NEW list \in PassLists(S), NEW produced, NEW n \in 1 .. Len(list)
    PROVE  CheckedThrough(list, produced, n) =
              Check(CheckedThrough(list, produced, n - 1), list[n], produced)
  <1> DEFINE Reads(i) == ProducedReads(list[i], produced)
  <1>1. 1 .. n = (1 .. n - 1) \cup {n}
    OBVIOUS
  <1>2. WrittenIn(list, n) = WrittenIn(list, n - 1) \cup list[n].writes
    BY <1>1 DEF WrittenIn
  <1>3. (\A i \in 1 .. n : Reads(i) \subseteq WrittenIn(list, i - 1))
          = ((\A i \in 1 .. n - 1 : Reads(i) \subseteq WrittenIn(list, i - 1))
                 /\ Reads(n) \subseteq WrittenIn(list, n - 1))
    BY <1>1
  <1> QED
    BY <1>2, <1>3, Zenon DEF CheckedThrough, Check

(* The loop's last state is the one said at once: both satisfy the same    *)
(* recurrence, so they agree at 0 and, where they do at n, at n + 1.       *)
LEMMA CheckedIs ==
    ASSUME NEW S, NEW list \in PassLists(S), NEW produced
    PROVE  Checked(list, produced)[Len(list)] = CheckedThrough(list, produced, Len(list))
  <1> DEFINE N == Len(list)
             Start == [ok |-> TRUE, available |-> {}]
             Step(f) == [n \in 0 .. N |-> IF n = 0 THEN Start
                                          ELSE Check(f[n - 1], list[n], produced)]
             g == [n \in 0 .. N |-> CheckedThrough(list, produced, n)]
             f == Checked(list, produced)
             T == {n \in 0 .. N : f[n] = g[n]}
  <1>1. N \in Nat
    BY DEF PassLists
  <1>2. CheckedThrough(list, produced, 0) = Start
    <2>1. 1 .. 0 = {} 
      OBVIOUS
    <2> QED
      BY <2>1 DEF CheckedThrough, WrittenIn
  <1>3. g = Step(g)
    <2> SUFFICES ASSUME NEW n \in 0 .. N
                 PROVE  g[n] = IF n = 0 THEN Start ELSE Check(g[n - 1], list[n], produced)
      BY Zenon
    <2>1. CASE n = 0
      BY <1>2, <2>1
    <2>2. CASE n # 0
      <3>1. n \in 1 .. N /\ n - 1 \in 0 .. N
        BY <1>1, <2>2
      <3> QED
        BY <2>2, <3>1, CheckedNext
    <2> QED
      BY <2>1, <2>2
  <1>4. f = CHOOSE h : h = Step(h)
    BY DEF Checked
  <1>5. f = Step(f)
    <2> HIDE DEF g, Step, f
    <2>1. \E h : h = Step(h)
      BY <1>3
    <2> QED
      BY <1>4, <2>1
  <1>6. 0 .. N \subseteq T
    <2>1. 0 \in T
      <3>1. f[0] = Start /\ 0 \in 0 .. N
        BY <1>1, <1>5
      <3>2. g[0] = Start
        BY <1>2, <3>1
      <3> QED
        BY <3>1, <3>2, Zenon
    <2>2. ASSUME NEW k \in 0 .. N - 1, k \in T PROVE k + 1 \in T
      <3>1. k + 1 \in 1 .. N /\ k + 1 \in 0 .. N /\ k + 1 # 0 /\ (k + 1) - 1 = k /\ k \in 0 .. N
        BY <1>1
      <3>2. f[k + 1] = Check(f[k], list[k + 1], produced)
        BY <1>5, <3>1
      <3>3. g[k + 1] = Check(g[k], list[k + 1], produced)
        BY <1>3, <3>1
      <3> HIDE DEF f, g
      <3> QED
        BY <2>2, <3>1, <3>2, <3>3
    <2> HIDE DEF T, N
    <2> QED
      BY <1>1, <2>1, <2>2, CountUp
  <1> QED
    BY <1>1, <1>6

(* Every pass reads and writes sets of resources.                          *)
PassesInv == \E S : passes \in PassLists(S)

Unproduced(list, r) == \A j \in 1 .. Len(list) : r \notin list[j].writes

TerrainNames == {"Heightfield", "Dmap", "Smap", "OverlayMax", "Diffuse"} \cup Target

(* The list of the terrain has seven passes over these resources.          *)
LEMMA TerrainListIs == TerrainFramePasses \in PassLists(TerrainNames) /\ Len(TerrainFramePasses) = 7
  <1>1. ASSUME NEW reads \in SUBSET TerrainNames, NEW writes \in SUBSET TerrainNames
        PROVE  Pass(reads, writes) \in [reads : SUBSET TerrainNames, writes : SUBSET TerrainNames]
    BY DEF Pass
  <1>2. /\ {"Heightfield"} \subseteq TerrainNames /\ {"Dmap"} \subseteq TerrainNames
        /\ {"Smap"} \subseteq TerrainNames /\ {"OverlayMax"} \subseteq TerrainNames
        /\ {"Dmap", "Smap", "Diffuse"} \subseteq TerrainNames
        /\ {"ColorTarget"} \subseteq TerrainNames /\ Target \subseteq TerrainNames
        /\ {} \subseteq TerrainNames
    BY DEF TerrainNames, Target
  <1> DEFINE P == [reads : SUBSET TerrainNames, writes : SUBSET TerrainNames]
  <1>3. /\ Pass({"Heightfield"}, {"Dmap"}) \in P /\ Pass({"Dmap"}, {"Smap"}) \in P
        /\ Pass({"Dmap"}, {"OverlayMax"}) \in P /\ Pass({"Dmap", "Smap", "Diffuse"}, Target) \in P
        /\ Pass({}, Target) \in P /\ Pass({"OverlayMax"}, {"ColorTarget"}) \in P
        /\ Pass({"ColorTarget"}, {}) \in P
    BY <1>1, <1>2, Zenon
  <1> HIDE DEF P
  <1>4. TerrainFramePasses \in Seq(P) /\ Len(TerrainFramePasses) = 7
    BY <1>3 DEF TerrainFramePasses
  <1> QED
    BY <1>4 DEF P, PassLists

(* No pass of the terrain's list reads what a later one writes.            *)
LEMMA TerrainList ==
    \A j \in 1 .. Len(TerrainFramePasses) : \A r \in TerrainFramePasses[j].reads :
       \/ Unproduced(TerrainFramePasses, r)
       \/ \E i \in 1 .. j - 1 : r \in TerrainFramePasses[i].writes
  <1> DEFINE L == TerrainFramePasses
  <1>1. 1 .. Len(L) = {1, 2, 3, 4, 5, 6, 7}
    BY TerrainListIs
  <1>2. /\ L[1].reads = {"Heightfield"} /\ L[2].reads = {"Dmap"} /\ L[3].reads = {"Dmap"}
        /\ L[4].reads = {"Dmap", "Smap", "Diffuse"} /\ L[5].reads = {} /\ L[6].reads = {"OverlayMax"}
        /\ L[7].reads = {"ColorTarget"}
    BY DEF TerrainFramePasses, Pass
  <1>3. /\ L[1].writes = {"Dmap"} /\ L[2].writes = {"Smap"} /\ L[3].writes = {"OverlayMax"}
        /\ L[4].writes = Target /\ L[5].writes = Target /\ L[6].writes = {"ColorTarget"}
        /\ L[7].writes = {}
    BY DEF TerrainFramePasses, Pass
  <1> HIDE DEF L
  <1>4. Unproduced(L, "Heightfield") /\ Unproduced(L, "Diffuse")
    BY <1>1, <1>3 DEF Unproduced, Target
  <1>5. ASSUME NEW j \in 2 .. 7 PROVE 1 \in 1 .. j - 1
    OBVIOUS
  <1>6. 2 \in 1 .. 4 - 1 /\ 3 \in 1 .. 6 - 1 /\ 4 \in 1 .. 7 - 1
    OBVIOUS
  <1>7. "ColorTarget" \in L[4].writes
    BY <1>3 DEF Target
  <1> SUFFICES ASSUME NEW j \in 1 .. Len(L), NEW r \in L[j].reads
               PROVE  Unproduced(L, r) \/ \E i \in 1 .. j - 1 : r \in L[i].writes
    BY DEF L
  <1>8. CASE j = 1
    BY <1>8, <1>2, <1>4, Zenon
  <1>9. CASE j = 2 \/ j = 3
    BY <1>9, <1>2, <1>3, <1>5
  <1>10. CASE j = 4
    BY <1>10, <1>2, <1>3, <1>4, <1>5, <1>6
  <1>11. CASE j = 5
    BY <1>11, <1>2
  <1>12. CASE j = 6
    BY <1>12, <1>2, <1>3, <1>6
  <1>13. CASE j = 7
    BY <1>13, <1>2, <1>6, <1>7
  <1> QED
    BY <1>1, <1>8, <1>9, <1>10, <1>11, <1>12, <1>13

(* ValidateAgrees, for any list of passes over any resources.              *)
LEMMA ValidateIs ==
    ASSUME NEW S, NEW list \in PassLists(S)
    PROVE  Validate(list) <=>
             \A i \in 1 .. Len(list) : \A r \in list[i].reads :
                \/ Unproduced(list, r)
                \/ \E j \in 1 .. i - 1 : r \in list[j].writes
  <1>1. Validate(list) = \A i \in 1 .. Len(list) :
                            ProducedReads(list[i], Produced(list)) \subseteq WrittenIn(list, i - 1)
    <2>1. Checked(list, Produced(list))[Len(list)] = CheckedThrough(list, Produced(list), Len(list))
      BY CheckedIs
    <2>2. CheckedThrough(list, Produced(list), Len(list)).ok
             = \A i \in 1 .. Len(list) :
                  ProducedReads(list[i], Produced(list)) \subseteq WrittenIn(list, i - 1)
      BY DEF CheckedThrough
    <2> QED
      BY <2>1, <2>2, Zenon DEF Validate
  <1>2. ASSUME NEW i \in 1 .. Len(list)
        PROVE  ProducedReads(list[i], Produced(list)) \subseteq WrittenIn(list, i - 1)
                 <=> \A r \in list[i].reads :
                        \/ Unproduced(list, r)
                        \/ \E j \in 1 .. i - 1 : r \in list[j].writes
    BY Zenon DEF ProducedReads, Produced, WrittenIn, Unproduced
  <1> QED
    BY <1>1, <1>2

(* What init accepts: a list of passes is valid if and only if no pass     *)
(* reads what only itself or a later pass writes, however many passes are  *)
(* added and whatever they read and write; and the terrain's own list is.  *)
THEOREM ValidateAlwaysAgrees == PassesSpec => []ValidateAgrees
  <1>1. PassesInit => PassesInv
    <2>1. <<>> \in PassLists({})
      BY DEF PassLists
    <2> QED
      BY <2>1, TerrainListIs, Zenon DEF PassesInit, PassesInv
  <1>2. PassesInv /\ [PassesNext]_<<base, passes>> => PassesInv'
    <2> SUFFICES ASSUME PassesInv, [PassesNext]_<<base, passes>> PROVE PassesInv'
      OBVIOUS
    <2>1. PICK S : passes \in PassLists(S)
      BY DEF PassesInv
    <2>2. CASE UNCHANGED <<base, passes>>
      BY <2>2 DEF PassesInv
    <2>3. CASE Add
      <3> DEFINE T == S \cup Resources
                 O == [reads : SUBSET S, writes : SUBSET S]
                 P == [reads : SUBSET T, writes : SUBSET T]
      <3>1. PICK reads \in SUBSET Resources, writes \in SUBSET Resources :
               passes' = Append(passes, Pass(reads, writes))
        BY <2>3, Zenon DEF Add
      <3>2. Pass(reads, writes) \in P
        BY DEF Pass
      <3>3. O \subseteq P /\ passes \in Seq(O)
        BY <2>1 DEF PassLists
      <3> HIDE DEF O, P
      <3>4. passes \in Seq(P)
        BY <3>3
      <3>5. passes' \in Seq(P)
        BY <3>1, <3>2, <3>4
      <3> QED
        BY <3>5, Zenon DEF P, PassLists, PassesInv
    <2> QED
      BY <2>2, <2>3 DEF PassesNext
  <1>3. PassesInv => ValidateAgrees
    <2> SUFFICES ASSUME PassesInv PROVE ValidateAgrees
      OBVIOUS
    <2>1. PICK S : passes \in PassLists(S)
      BY DEF PassesInv
    <2>2. Validate(passes) <=>
             \A i \in 1 .. Len(passes) : \A r \in passes[i].reads :
                \/ Unproduced(passes, r)
                \/ \E j \in 1 .. i - 1 : r \in passes[j].writes
      BY <2>1, ValidateIs
    <2>3. Validate(TerrainFramePasses)
      BY TerrainListIs, TerrainList, ValidateIs
    <2> QED
      BY <2>2, <2>3, Zenon DEF ValidateAgrees, Unproduced
  <1> QED
    BY <1>1, <1>2, <1>3, PTL DEF PassesSpec

-----------------------------------------------------------------------------
(* The textures of a decode by the GPU.                                    *)

GpuSpec == GpuInit /\ [][GpuNext]_gpuDecode

(* How often each texture has been given back, by where the recording is.  *)
GivenBackSoFar(n) ==
    \/ pc = "begin" /\ n = 0 /\ ~fellBack
    \/ pc = "range" /\ n = 1 /\ ~fellBack /\ destroyed[1] = 0
    \/ pc = "tiles" /\ n = 1 /\ fellBack /\ destroyed[1] = 1
    \/ /\ pc = "dmap" /\ n = 2 /\ ~fellBack /\ minmaxIn = 2
       /\ destroyed[1] = 0 /\ destroyed[2] = 0
    \/ /\ pc \in {"reduce", "dmap"} /\ n >= 2 /\ fellBack /\ minmaxIn = n
       /\ \A t \in 1 .. n : destroyed[t] = IF t = n THEN 0 ELSE 1
    \/ /\ pc \in {"recorded", "failed"}
       /\ \A t \in 1 .. n : destroyed[t] = CASE t = n /\ pc = "recorded" -> 0
                                              [] t = Raw /\ fellBack -> 2
                                              [] OTHER -> 1

AList(s) == \E S : s \in Seq(S)

RecordingInv ==
    /\ AList(textures)
    /\ destroyed \in Seq(Nat) /\ Len(destroyed) = Len(textures)
    /\ fellBack \in BOOLEAN
    /\ GivenBackSoFar(Len(textures))

LEMMA ListAppended ==
    ASSUME NEW s, AList(s), NEW e
    PROVE  AList(Append(s, e)) /\ Len(s) \in Nat /\ Len(Append(s, e)) = Len(s) + 1
  <1>1. PICK S : s \in Seq(S)
    BY DEF AList
  <1>2. s \in Seq(S \cup {e})
    BY <1>1
  <1>3. Append(s, e) \in Seq(S \cup {e})
    BY <1>2
  <1> QED
    BY <1>1, <1>3 DEF AList

(* A texture is made, and nothing given back.                              *)
LEMMA TextureMade ==
    ASSUME AList(textures), destroyed \in Seq(Nat), Len(destroyed) = Len(textures), NEW new,
           textures' = Append(textures, new), destroyed' = Append(destroyed, 0)
    PROVE  /\ AList(textures') /\ Len(textures') = Len(textures) + 1
           /\ destroyed' \in Seq(Nat) /\ Len(destroyed') = Len(textures) + 1
           /\ destroyed'[Len(textures) + 1] = 0
           /\ \A t \in 1 .. Len(textures) : destroyed'[t] = destroyed[t]
  <1>1. AList(textures') /\ Len(textures') = Len(textures) + 1
    BY ListAppended, Zenon
  <1>2. /\ destroyed' \in Seq(Nat) /\ Len(destroyed') = Len(destroyed) + 1
        /\ destroyed'[Len(destroyed) + 1] = 0
        /\ \A t \in 1 .. Len(destroyed) : destroyed'[t] = destroyed[t]
    OBVIOUS
  <1> QED
    BY <1>1, <1>2, Zenon

LEMMA DestroyIs ==
    ASSUME NEW s \in Seq(Nat), NEW ts, NEW r,
           r = [t \in DOMAIN s |-> s[t] + (IF t \in ts THEN 1 ELSE 0)]
    PROVE  /\ r \in Seq(Nat) /\ Len(r) = Len(s)
           /\ \A t \in 1 .. Len(s) : r[t] = s[t] + (IF t \in ts THEN 1 ELSE 0)
  <1> DEFINE d(t) == s[t] + (IF t \in ts THEN 1 ELSE 0)
  <1>1. DOMAIN s = 1 .. Len(s) /\ Len(s) \in Nat
    OBVIOUS
  <1>2. r = [t \in 1 .. Len(s) |-> d(t)]
    BY <1>1
  <1>3. \A t \in 1 .. Len(s) : d(t) \in Nat
    OBVIOUS
  <1> HIDE DEF d
  <1>4. r \in Seq(Nat)
    BY <1>1, <1>2, <1>3
  <1>5. DOMAIN r = 1 .. Len(s)
    BY <1>2
  <1>6. Len(r) = Len(s)
    BY <1>1, <1>4, <1>5
  <1>7. \A t \in 1 .. Len(s) : r[t] = d(t)
    BY <1>2
  <1> QED
    BY <1>4, <1>6, <1>7 DEF d

LEMMA CreateRawStep ==
    ASSUME RecordingInv, NEW ok \in BOOLEAN, CreateRaw(ok)
    PROVE  RecordingInv'
  <1>1. pc = "begin" /\ Len(textures) = 0 /\ ~fellBack /\ Len(destroyed) = 0
    BY DEF RecordingInv, GivenBackSoFar, CreateRaw
  <1>2. AList(textures) /\ destroyed \in Seq(Nat) /\ Len(destroyed) = Len(textures)
    BY DEF RecordingInv
  <1>3. CASE ~ok
    <2>1. Destroy({}) /\ pc' = "failed" /\ UNCHANGED <<textures, fellBack>>
      BY <1>3 DEF CreateRaw, Fails
    <2>2. destroyed' \in Seq(Nat) /\ Len(destroyed') = 0
      BY <1>1, <1>2, <2>1, DestroyIs DEF Destroy
    <2>3. GivenBackSoFar(0)'
      <3>1. \A t \in 1 .. 0 : FALSE
        OBVIOUS
      <3> QED
        BY <2>1, <3>1 DEF GivenBackSoFar
    <2> QED
      BY <1>1, <1>2, <2>1, <2>2, <2>3 DEF RecordingInv
  <1>4. CASE ok
    <2>1. PICK new : /\ textures' = Append(textures, new) /\ destroyed' = Append(destroyed, 0)
                     /\ pc' = "range" /\ UNCHANGED fellBack
      BY <1>4 DEF CreateRaw, Make
    <2>2. /\ AList(textures') /\ Len(textures') = Len(textures) + 1
          /\ destroyed' \in Seq(Nat) /\ Len(destroyed') = Len(textures) + 1
          /\ destroyed'[Len(textures) + 1] = 0
          /\ \A t \in 1 .. Len(textures) : destroyed'[t] = destroyed[t]
      BY <1>1, <1>2, <2>1, TextureMade, Zenon
    <2>3. Len(textures') = 1 /\ Len(destroyed') = 1 /\ destroyed'[1] = 0
      BY <1>1, <2>2
    <2>4. GivenBackSoFar(1)'
      BY <1>1, <2>1, <2>3 DEF GivenBackSoFar
    <2> QED
      BY <1>1, <2>1, <2>2, <2>3, <2>4 DEF RecordingInv
  <1> QED
    BY <1>3, <1>4

LEMMA CreateRangeStep ==
    ASSUME RecordingInv, NEW ok \in BOOLEAN, CreateRange(ok)
    PROVE  RecordingInv'
  <1>1. pc = "range" /\ Len(textures) = 1 /\ ~fellBack /\ Len(destroyed) = 1 /\ destroyed[1] = 0
    BY DEF RecordingInv, GivenBackSoFar, CreateRange
  <1>2. AList(textures) /\ destroyed \in Seq(Nat) /\ Len(destroyed) = Len(textures)
    BY DEF RecordingInv
  <1>3. CASE ~ok
    <2>1. Destroy({Raw}) /\ pc' = "tiles" /\ fellBack' = TRUE /\ UNCHANGED textures
      BY <1>3 DEF CreateRange
    <2>2. destroyed' \in Seq(Nat) /\ Len(destroyed') = 1 /\ destroyed'[1] = 1
      BY <1>1, <1>2, <2>1, DestroyIs DEF Destroy, Raw
    <2>3. GivenBackSoFar(1)'
      BY <2>1, <2>2 DEF GivenBackSoFar
    <2> QED
      BY <1>1, <1>2, <2>1, <2>2, <2>3 DEF RecordingInv
  <1>4. CASE ok
    <2>1. PICK new : /\ textures' = Append(textures, new) /\ destroyed' = Append(destroyed, 0)
                     /\ pc' = "dmap" /\ minmaxIn' = Len(textures) + 1 /\ UNCHANGED fellBack
      BY <1>4 DEF CreateRange, Make
    <2>2. /\ AList(textures') /\ Len(textures') = Len(textures) + 1
          /\ destroyed' \in Seq(Nat) /\ Len(destroyed') = Len(textures) + 1
          /\ destroyed'[Len(textures) + 1] = 0
          /\ \A t \in 1 .. Len(textures) : destroyed'[t] = destroyed[t]
      BY <1>1, <1>2, <2>1, TextureMade, Zenon
    <2>3. Len(textures') = 2 /\ Len(destroyed') = 2 /\ destroyed'[1] = 0 /\ destroyed'[2] = 0
      BY <1>1, <2>2
    <2>4. GivenBackSoFar(2)'
      BY <1>1, <2>1, <2>3 DEF GivenBackSoFar
    <2> QED
      BY <1>1, <2>1, <2>2, <2>3, <2>4 DEF RecordingInv
  <1> QED
    BY <1>3, <1>4

LEMMA CreateTilesStep ==
    ASSUME RecordingInv, NEW ok \in BOOLEAN, CreateTiles(ok)
    PROVE  RecordingInv'
  <1>1. pc = "tiles" /\ Len(textures) = 1 /\ fellBack /\ Len(destroyed) = 1 /\ destroyed[1] = 1
    BY DEF RecordingInv, GivenBackSoFar, CreateTiles
  <1>2. AList(textures) /\ destroyed \in Seq(Nat) /\ Len(destroyed) = Len(textures) /\ fellBack = TRUE
    BY <1>1 DEF RecordingInv
  <1>3. CASE ~ok
    <2>1. Destroy({Raw}) /\ pc' = "failed" /\ UNCHANGED <<textures, fellBack>>
      BY <1>3 DEF CreateTiles, Fails
    <2>2. destroyed' \in Seq(Nat) /\ Len(destroyed') = 1 /\ destroyed'[1] = 2
      BY <1>1, <1>2, <2>1, DestroyIs DEF Destroy, Raw
    <2>3. GivenBackSoFar(1)'
      BY <1>1, <2>1, <2>2 DEF GivenBackSoFar, Raw
    <2> QED
      BY <1>1, <1>2, <2>1, <2>2, <2>3 DEF RecordingInv
  <1>4. CASE ok
    <2>1. PICK new : /\ textures' = Append(textures, new) /\ destroyed' = Append(destroyed, 0)
                     /\ pc' = "reduce" /\ minmaxIn' = Len(textures) + 1 /\ UNCHANGED fellBack
      BY <1>4 DEF CreateTiles, Make
    <2>2. /\ AList(textures') /\ Len(textures') = Len(textures) + 1
          /\ destroyed' \in Seq(Nat) /\ Len(destroyed') = Len(textures) + 1
          /\ destroyed'[Len(textures) + 1] = 0
          /\ \A t \in 1 .. Len(textures) : destroyed'[t] = destroyed[t]
      BY <1>1, <1>2, <2>1, TextureMade, Zenon
    <2>3. Len(textures') = 2 /\ Len(destroyed') = 2 /\ destroyed'[1] = 1 /\ destroyed'[2] = 0
      BY <1>1, <2>2
    <2>4. GivenBackSoFar(2)'
      BY <1>1, <2>1, <2>3 DEF GivenBackSoFar
    <2> QED
      BY <1>1, <1>2, <2>1, <2>2, <2>3, <2>4 DEF RecordingInv
  <1> QED
    BY <1>3, <1>4

(* A reduction in which only the last texture is not given back.           *)
Reduced(n) == /\ n >= 2 /\ fellBack /\ minmaxIn = n
              /\ \A t \in 1 .. n : destroyed[t] = IF t = n THEN 0 ELSE 1

LEMMA CreateReducedStep ==
    ASSUME RecordingInv, NEW ok \in BOOLEAN, CreateReduced(ok)
    PROVE  RecordingInv'
  <1>0. PICK n : n = Len(textures)
    OBVIOUS
  <1>1. pc = "reduce" /\ Reduced(n)
    BY <1>0 DEF RecordingInv, GivenBackSoFar, CreateReduced, Reduced
  <1>2. AList(textures) /\ destroyed \in Seq(Nat) /\ Len(destroyed) = Len(textures) /\ fellBack = TRUE /\ Len(destroyed) = n /\ n \in Nat
    BY <1>0, <1>1, ListAppended DEF RecordingInv, Reduced
  <1>3. n >= 2 /\ minmaxIn = n /\ \A t \in 1 .. n : destroyed[t] = IF t = n THEN 0 ELSE 1
    BY <1>1 DEF Reduced
  <1>4. CASE pc' = "dmap" /\ UNCHANGED <<textures, destroyed, minmaxIn, fellBack>>
    <2>1. GivenBackSoFar(n)'
      BY <1>1, <1>4 DEF GivenBackSoFar, Reduced
    <2> QED
      BY <1>0, <1>2, <1>4, <2>1 DEF RecordingInv
  <1>5. CASE Fails({minmaxIn, Raw})
    <2>1. Destroy({minmaxIn, Raw}) /\ pc' = "failed" /\ UNCHANGED <<textures, fellBack>>
      BY <1>5 DEF Fails
    <2>2. /\ destroyed' \in Seq(Nat) /\ Len(destroyed') = n
          /\ \A t \in 1 .. n : destroyed'[t] = destroyed[t] + (IF t \in {n, Raw} THEN 1 ELSE 0)
      BY <1>2, <1>3, <2>1, DestroyIs DEF Destroy
    <2>3. \A t \in 1 .. n : destroyed'[t] = IF t = Raw THEN 2 ELSE 1
      BY <1>2, <1>3, <2>2 DEF Raw
    <2>4. GivenBackSoFar(n)'
      BY <1>2, <2>1, <2>3 DEF GivenBackSoFar, Raw
    <2> QED
      BY <1>0, <1>2, <2>1, <2>2, <2>4 DEF RecordingInv
  <1>6. ASSUME NEW new, textures' = Append(textures, new),
               destroyed' = Append([destroyed EXCEPT ![minmaxIn] = @ + 1], 0),
               minmaxIn' = Len(textures) + 1, UNCHANGED <<pc, fellBack>>
        PROVE  RecordingInv'
    <2> DEFINE d == [destroyed EXCEPT ![minmaxIn] = @ + 1]
    <2>1. AList(textures') /\ Len(textures') = n + 1
      BY <1>0, <1>2, <1>6, ListAppended, Zenon
    <2>2. d \in Seq(Nat) /\ Len(d) = n /\ \A t \in 1 .. n : d[t] = 1
      BY <1>2, <1>3
    <2> HIDE DEF d
    <2>3. /\ destroyed' \in Seq(Nat) /\ Len(destroyed') = n + 1 /\ destroyed'[n + 1] = 0
          /\ \A t \in 1 .. n : destroyed'[t] = 1
      <3>1. destroyed' = Append(d, 0)
        BY <1>6 DEF d
      <3> QED
        BY <1>2, <2>2, <3>1
    <2>4. GivenBackSoFar(n + 1)'
      <3>1. \A t \in 1 .. n + 1 : destroyed'[t] = IF t = n + 1 THEN 0 ELSE 1
        BY <1>2, <2>3
      <3>2. minmaxIn' = n + 1
        BY <1>0, <1>6
      <3> QED
        BY <1>1, <1>2, <1>3, <1>6, <2>1, <3>1, <3>2 DEF GivenBackSoFar
    <2> QED
      BY <1>2, <1>6, <2>1, <2>3, <2>4 DEF RecordingInv
  <1> QED
    BY <1>4, <1>5, <1>6 DEF CreateReduced

LEMMA CreateDmapStep ==
    ASSUME RecordingInv, NEW ok \in BOOLEAN, CreateDmap(ok)
    PROVE  RecordingInv'
  <1>0. PICK n : n = Len(textures)
    OBVIOUS
  <1>1. /\ AList(textures) /\ destroyed \in Seq(Nat) /\ Len(destroyed) = n /\ n \in Nat
        /\ fellBack \in BOOLEAN
    BY <1>0, ListAppended DEF RecordingInv
  <1>2. /\ n >= 2 /\ minmaxIn = n
        /\ \A t \in 1 .. n : destroyed[t] = IF t = n \/ (t = Raw /\ ~fellBack) THEN 0 ELSE 1
    <2>1. \/ n = 2 /\ ~fellBack /\ minmaxIn = 2 /\ destroyed[1] = 0 /\ destroyed[2] = 0
          \/ Reduced(n)
      BY <1>0 DEF RecordingInv, GivenBackSoFar, CreateDmap, Reduced
    <2>2. CASE n = 2 /\ ~fellBack /\ minmaxIn = 2 /\ destroyed[1] = 0 /\ destroyed[2] = 0
      BY <2>2 DEF Raw
    <2>3. CASE Reduced(n)
      BY <2>3 DEF Reduced
    <2> QED
      BY <2>1, <2>2, <2>3
  <1> DEFINE more(t) == IF t \in {n, Raw} THEN 1 ELSE 0
  <1>3. \A t \in 1 .. n : destroyed[t] + more(t) = IF t = Raw /\ fellBack THEN 2 ELSE 1
    BY <1>1, <1>2 DEF Raw
  <1>4. CASE ~ok
    <2>1. Destroy({n, Raw}) /\ pc' = "failed" /\ UNCHANGED <<textures, fellBack>>
      BY <1>2, <1>4 DEF CreateDmap, Fails
    <2>2. /\ destroyed' \in Seq(Nat) /\ Len(destroyed') = n
          /\ \A t \in 1 .. n : destroyed'[t] = IF t = Raw /\ fellBack THEN 2 ELSE 1
      BY <1>1, <1>3, <2>1, DestroyIs DEF Destroy
    <2>3. GivenBackSoFar(n)'
      BY <2>1, <2>2 DEF GivenBackSoFar
    <2> QED
      BY <1>0, <1>1, <2>1, <2>2, <2>3 DEF RecordingInv
  <1>5. CASE ok
    <2> DEFINE d == [t \in DOMAIN destroyed |-> destroyed[t] + (IF t \in {n, Raw} THEN 1 ELSE 0)]
    <2>1. PICK new : /\ textures' = Append(textures, new) /\ destroyed' = Append(d, 0)
                     /\ pc' = "recorded" /\ UNCHANGED fellBack
      BY <1>2, <1>5 DEF CreateDmap, Temporaries
    <2>2. /\ d \in Seq(Nat) /\ Len(d) = n
          /\ \A t \in 1 .. n : d[t] = IF t = Raw /\ fellBack THEN 2 ELSE 1
      BY <1>1, <1>3, DestroyIs
    <2> HIDE DEF d
    <2>3. AList(textures') /\ Len(textures') = n + 1
      BY <1>0, <1>1, <2>1, ListAppended, Zenon
    <2>4. /\ destroyed' \in Seq(Nat) /\ Len(destroyed') = n + 1 /\ destroyed'[n + 1] = 0
          /\ \A t \in 1 .. n : destroyed'[t] = IF t = Raw /\ fellBack THEN 2 ELSE 1
      BY <1>1, <2>1, <2>2
    <2>5. GivenBackSoFar(n + 1)'
      <3>1. \A t \in 1 .. n + 1 : t # n + 1 => t \in 1 .. n
        BY <1>1
      <3>2. n + 1 # Raw
        BY <1>1, <1>2 DEF Raw
      <3>3. ASSUME NEW t \in 1 .. n + 1
            PROVE  destroyed'[t] = CASE t = n + 1 -> 0
                                     [] t = Raw /\ fellBack -> 2
                                     [] OTHER -> 1
        <4>1. CASE t = n + 1
          BY <2>4, <3>2, <4>1
        <4>2. CASE t # n + 1
          BY <2>4, <3>1, <4>2
        <4> QED
          BY <4>1, <4>2
      <3> QED
        BY <2>1, <3>3 DEF GivenBackSoFar
    <2> QED
      BY <1>1, <2>1, <2>3, <2>4, <2>5 DEF RecordingInv
  <1> QED
    BY <1>4, <1>5

(* What is stored in a texture is in no other place.                       *)
LEMMA ListStored ==
    ASSUME NEW s, AList(s), NEW r, r \in [DOMAIN s -> {r[t] : t \in DOMAIN s}]
    PROVE  AList(r) /\ Len(r) = Len(s)
  <1>1. PICK S : s \in Seq(S)
    BY DEF AList
  <1> DEFINE T == {r[t] : t \in DOMAIN s}
  <1>2. DOMAIN s = 1 .. Len(s) /\ Len(s) \in Nat
    BY <1>1
  <1>3. r \in [DOMAIN s -> T]
    OBVIOUS
  <1> HIDE DEF T
  <1>4. r \in Seq(T)
    BY <1>2, <1>3
  <1>5. Len(r) = Len(s)
    BY <1>2, <1>3, <1>4
  <1> QED
    BY <1>4, <1>5 DEF AList

(* The GPU writes into the textures and leaves the recording alone.        *)
LEMMA GpuStep ==
    ASSUME RecordingInv,
           \/ \E t \in Invocations : LoadTexel(t) \/ Reduce(t)
           \/ EndGroup \/ NormalizeTexels \/ UNCHANGED gpuDecode
    PROVE  RecordingInv'
  <1>1. UNCHANGED <<pc, destroyed, minmaxIn, fellBack>>
    BY DEF LoadTexel, Reduce, EndGroup, NormalizeTexels, gpuDecode, recording
  <1>2. AList(textures') /\ Len(textures') = Len(textures)
    <2>1. CASE UNCHANGED textures
      BY <2>1 DEF RecordingInv
    <2>2. CASE \E c, v : textures' = [textures EXCEPT ![c].texels = v]
      <3>1. DOMAIN textures' = DOMAIN textures
        BY <2>2
      <3>2. textures' \in [DOMAIN textures -> {textures'[t] : t \in DOMAIN textures}]
        BY <2>2
      <3> QED
        BY <3>2, ListStored DEF RecordingInv
    <2> QED
      BY <2>1, <2>2 DEF LoadTexel, Reduce, EndGroup, NormalizeTexels, gpuDecode, recording
  <1> QED
    BY <1>1, <1>2 DEF RecordingInv, GivenBackSoFar

(* Whatever the picture, the size of a workgroup and the creations that    *)
(* fail, no temporary texture of a decode is kept and none but the raw one *)
(* of a fallback is given back twice (dispatchGpuHeightfieldDecode).       *)
THEOREM TemporariesAlwaysReturned == GpuSpec => []TemporariesReturned
  <1>1. GpuInit => RecordingInv
    <2>1. <<>> \in Seq(Nat) /\ Len(<<>>) = 0 /\ FALSE \in BOOLEAN
      OBVIOUS
    <2> QED
      BY <2>1 DEF GpuInit, RecordingInv, GivenBackSoFar, AList
  <1>2. RecordingInv /\ [GpuNext]_gpuDecode => RecordingInv'
    BY CreateRawStep, CreateRangeStep, CreateTilesStep, CreateReducedStep, CreateDmapStep, GpuStep,
       Zenon DEF GpuNext
  <1>3. RecordingInv => TemporariesReturned
    <2> SUFFICES ASSUME RecordingInv, pc \in {"recorded", "failed"} PROVE TemporariesReturned
      BY DEF TemporariesReturned
    <2>1. DOMAIN textures = 1 .. Len(textures)
      BY DEF RecordingInv, AList
    <2>2. \A t \in 1 .. Len(textures) :
             destroyed[t] = CASE t = Len(textures) /\ pc = "recorded" -> 0
                              [] t = Raw /\ fellBack -> 2
                              [] OTHER -> 1
      BY DEF RecordingInv, GivenBackSoFar
    <2> QED
      BY <2>1, <2>2, Zenon DEF TemporariesReturned
  <1> QED
    BY <1>1, <1>2, <1>3, PTL DEF GpuSpec

(* Decode and renderer together: neither touches the other's textures, but *)
(* for the map that the one makes and the other installs.                  *)
THEOREM TexturesAlwaysGivenBack == TexturesSpec => []TexturesGivenBack
  <1>1. TexturesSpec => MapsSpec /\ GpuSpec
    <2>1. [TexturesNext]_<<maps, gpuDecode>> => [MapsNext]_maps /\ [GpuNext]_gpuDecode
      BY DEF TexturesNext
    <2> QED
      BY <2>1, PTL DEF TexturesSpec, MapsSpec, GpuSpec
  <1> QED
    BY <1>1, TexturesDestroyedOnce, TemporariesAlwaysReturned, PTL DEF TexturesGivenBack
-----------------------------------------------------------------------------
(***************************************************************************)
(* What is drawn: the keys of a terrain's subdivision.                     *)
(***************************************************************************)

(* TwoTo up to n.                                                          *)
Powers(g, n) == /\ g \in [0 .. n -> Nat] /\ g[0] = 1
                /\ \A k \in 1 .. n : g[k] = 2 * g[k - 1]

LEMMA PowersExist ==
    ASSUME NEW n \in Nat
    PROVE  \E g : Powers(g, n)
  <1> DEFINE S == {m \in Nat : \E g : Powers(g, m)}
  <1>1. 0 \in S
    <2>1. Powers([k \in 0 .. 0 |-> 1], 0)
      BY DEF Powers
    <2> QED
      BY <2>1
  <1>2. ASSUME NEW k \in 0 .. n - 1, k \in S PROVE k + 1 \in S
    <2>1. PICK g : Powers(g, k)
      BY <1>2
    <2> DEFINE h == [i \in 0 .. k + 1 |-> IF i <= k THEN g[i] ELSE 2 * g[k]]
    <2>2. h \in [0 .. k + 1 -> Nat] /\ h[0] = 1
      BY <2>1 DEF Powers
    <2>3. \A i \in 1 .. k + 1 : h[i] = 2 * h[i - 1]
      BY <2>1 DEF Powers
    <2> HIDE DEF h
    <2>4. Powers(h, k + 1)
      BY <2>2, <2>3 DEF Powers
    <2> QED
      BY <2>4
  <1>3. 0 .. n \subseteq S
    <2> HIDE DEF S
    <2> QED
      BY <1>1, <1>2, CountUp
  <1> QED
    BY <1>3

LEMMA PowersAgree ==
    ASSUME NEW m \in Nat, NEW g, Powers(g, m), NEW n \in Nat, NEW h, Powers(h, n),
           NEW k \in Nat, k <= m, k <= n
    PROVE  g[k] = h[k]
  <1> DEFINE S == {i \in Nat : g[i] = h[i]}
  <1>1. 0 \in S
    BY DEF Powers
  <1>2. ASSUME NEW i \in 0 .. k - 1, i \in S PROVE i + 1 \in S
    <2>1. i + 1 \in 1 .. m /\ i + 1 \in 1 .. n /\ (i + 1) - 1 = i
      OBVIOUS
    <2>2. g[i + 1] = 2 * g[i] /\ h[i + 1] = 2 * h[i]
      BY <2>1 DEF Powers
    <2> QED
      BY <1>2, <2>2
  <1>3. 0 .. k \subseteq S
    <2> HIDE DEF S
    <2> QED
      BY <1>1, <1>2, CountUp
  <1> QED
    BY <1>3

LEMMA TwoToIs ==
    /\ TwoTo[0] = 1
    /\ \A n \in Nat : TwoTo[n] \in Nat /\ TwoTo[n + 1] = 2 * TwoTo[n]
  <1> DEFINE G(n) == CHOOSE g : Powers(g, n)
             F == [n \in Nat |-> G(n)[n]]
             Step(f) == [n \in Nat |-> IF n = 0 THEN 1 ELSE 2 * f[n - 1]]
  <1>1. ASSUME NEW n \in Nat PROVE Powers(G(n), n)
    BY PowersExist
  <1> HIDE DEF G
  <1>2. F[0] = 1
    BY <1>1 DEF Powers
  <1>3. ASSUME NEW n \in Nat PROVE F[n] \in Nat /\ F[n + 1] = 2 * F[n]
    <2>1. Powers(G(n), n) /\ Powers(G(n + 1), n + 1)
      BY <1>1
    <2>2. G(n + 1)[n] = G(n)[n]
      BY <2>1, PowersAgree
    <2>3. n + 1 \in 1 .. n + 1 /\ (n + 1) - 1 = n /\ n \in 0 .. n
      OBVIOUS
    <2>4. G(n + 1)[n + 1] = 2 * G(n + 1)[n] /\ G(n)[n] \in Nat
      BY <2>1, <2>3 DEF Powers
    <2> QED
      BY <2>2, <2>4
  <1>4. F = Step(F)
    <2> SUFFICES ASSUME NEW n \in Nat PROVE F[n] = IF n = 0 THEN 1 ELSE 2 * F[n - 1]
      BY Zenon
    <2>1. CASE n = 0
      BY <1>2, <2>1
    <2>2. CASE n # 0
      <3>1. n - 1 \in Nat /\ (n - 1) + 1 = n
        BY <2>2
      <3> HIDE DEF F
      <3> QED
        BY <1>3, <2>2, <3>1
    <2> QED
      BY <2>1, <2>2
  <1>5. TwoTo = CHOOSE f : f = Step(f)
    BY DEF TwoTo
  <1>6. TwoTo = Step(TwoTo)
    <2> HIDE DEF F, Step
    <2>1. \E f : f = Step(f)
      BY <1>4
    <2> QED
      BY <1>5, <2>1
  <1>7. TwoTo[0] = 1
    BY <1>6
  <1>8. ASSUME NEW n \in Nat PROVE TwoTo[n + 1] = 2 * TwoTo[n]
    <2>1. n + 1 \in Nat /\ n + 1 # 0 /\ (n + 1) - 1 = n
      OBVIOUS
    <2> QED
      BY <1>6, <2>1
  <1>9. ASSUME NEW n \in Nat PROVE TwoTo[n] \in Nat
    <2> DEFINE S == {i \in Nat : TwoTo[i] \in Nat}
    <2>1. 0 \in S
      BY <1>7
    <2>2. ASSUME NEW k \in 0 .. n - 1, k \in S PROVE k + 1 \in S
      BY <1>8, <2>2
    <2>3. 0 .. n \subseteq S
      <3> HIDE DEF S
      <3> QED
        BY <2>1, <2>2, CountUp
    <2> QED
      BY <2>3
  <1> QED
    BY <1>7, <1>8, <1>9

LEMMA TwoToGrows ==
    ASSUME NEW i \in Nat, NEW j \in Nat, i <= j
    PROVE  TwoTo[i] <= TwoTo[j]
  <1> DEFINE S == {k \in Nat : TwoTo[i] <= TwoTo[i + k]}
  <1>1. 0 \in S
    BY TwoToIs
  <1>2. ASSUME NEW k \in 0 .. (j - i) - 1, k \in S PROVE k + 1 \in S
    <2>1. i + k \in Nat /\ i + (k + 1) = (i + k) + 1 /\ k + 1 \in Nat
      OBVIOUS
    <2>2. TwoTo[(i + k) + 1] = 2 * TwoTo[i + k] /\ TwoTo[i + k] \in Nat /\ TwoTo[i] \in Nat
      BY <2>1, TwoToIs
    <2> QED
      BY <1>2, <2>1, <2>2
  <1>3. 0 .. j - i \subseteq S
    <2> HIDE DEF S
    <2>1. j - i \in Nat
      OBVIOUS
    <2> QED
      BY <1>1, <1>2, <2>1, CountUp
  <1>4. j - i \in S /\ i + (j - i) = j
    BY <1>3
  <1> QED
    BY <1>4

LEMMA TwoToPositive ==
    ASSUME NEW n \in Nat
    PROVE  TwoTo[n] \in Nat \ {0}
  <1>1. TwoTo[0] <= TwoTo[n]
    BY TwoToGrows
  <1> QED
    BY <1>1, TwoToIs

(* The quotient that Covers takes.                                         *)
Within(a, q, c) == c * q <= a /\ a < (c + 1) * q

LEMMA QuotientIs ==
    ASSUME NEW a \in Nat, NEW q \in Nat \ {0}, NEW c \in Nat
    PROVE  (c = a \div q) <=> Within(a, q, c)
  BY DEF Within

(* The level of a key, and the leaves its triangle contains.               *)
LEMMA DepthIs ==
    ASSUME NEW key \in Key
    PROVE  /\ FindMSB(key) \in 0 .. MaxDepth
           /\ TwoTo[FindMSB(key)] <= key /\ key < TwoTo[FindMSB(key) + 1]
  <1> DEFINE S == {n \in Nat : TwoTo[n] <= key}
  <1>1. MaxDepth + 1 \in Nat /\ key \in Nat /\ key >= 1 /\ key < TwoTo[MaxDepth + 1]
    BY LodAssumption, TwoToIs DEF Key
  <1>2. 0 \in S
    BY <1>1, TwoToIs
  <1>3. MaxDepth + 1 \notin S
    BY <1>1, TwoToIs
  <1>4. \E d \in 0 .. MaxDepth : d \in S /\ d + 1 \notin S
    <2> HIDE DEF S
    <2> SUFFICES ASSUME \A d \in 0 .. (MaxDepth + 1) - 1 : d \in S => d + 1 \in S
                 PROVE  FALSE
      BY LodAssumption
    <2>1. 0 .. MaxDepth + 1 \subseteq S
      BY <1>1, <1>2, CountUp
    <2> QED
      BY <1>1, <1>3, <2>1
  <1>5. \E d \in 0 .. MaxDepth : TwoTo[d] <= key /\ key < TwoTo[d + 1]
    <2>1. PICK d \in 0 .. MaxDepth : d \in S /\ d + 1 \notin S
      BY <1>4
    <2>2. d \in Nat /\ d + 1 \in Nat
      BY LodAssumption
    <2>3. TwoTo[d + 1] \in Nat
      BY <2>2, TwoToIs
    <2> QED
      BY <1>1, <2>1, <2>2, <2>3
  <1> QED
    BY <1>5, Zenon DEF FindMSB

LEMMA DepthUnique ==
    ASSUME NEW key \in Key, NEW d \in 0 .. MaxDepth, TwoTo[d] <= key, key < TwoTo[d + 1]
    PROVE  FindMSB(key) = d
  <1> DEFINE e == FindMSB(key)
  <1>1. e \in 0 .. MaxDepth /\ TwoTo[e] <= key /\ key < TwoTo[e + 1]
    BY DepthIs
  <1> HIDE DEF e
  <1>2. /\ d \in Nat /\ e \in Nat /\ d + 1 \in Nat /\ e + 1 \in Nat
        /\ key \in Int /\ TwoTo[MaxDepth + 1] \in Int
        /\ TwoTo[d] \in Nat /\ TwoTo[e] \in Nat /\ TwoTo[d + 1] \in Nat /\ TwoTo[e + 1] \in Nat
    BY <1>1, LodAssumption, TwoToIs DEF Key
  <1>3. ~(d + 1 <= e)
    <2> SUFFICES ASSUME d + 1 <= e PROVE FALSE
      OBVIOUS
    <2>1. TwoTo[d + 1] <= TwoTo[e]
      BY <1>2, TwoToGrows
    <2> QED
      BY <1>1, <1>2, <2>1
  <1>4. ~(e + 1 <= d)
    <2> SUFFICES ASSUME e + 1 <= d PROVE FALSE
      OBVIOUS
    <2>1. TwoTo[e + 1] <= TwoTo[d]
      BY <1>2, TwoToGrows
    <2> QED
      BY <1>1, <1>2, <2>1
  <1>5. e = d
    BY <1>2, <1>3, <1>4
  <1> QED
    BY <1>5 DEF e

(* Half of the leaves of a triangle are in each of its children.           *)
LEMMA ChildrenAre ==
    ASSUME NEW key \in Key, ~IsLeafKey(key), NEW c \in {2 * key, 2 * key + 1}
    PROVE  c \in Key /\ FindMSB(c) = FindMSB(key) + 1 /\ FindMSB(key) + 1 \in 0 .. MaxDepth
  <1> DEFINE d == FindMSB(key)
  <1>1. d \in 0 .. MaxDepth /\ TwoTo[d] <= key /\ key < TwoTo[d + 1] /\ d # MaxDepth
    BY DepthIs DEF IsLeafKey
  <1> HIDE DEF d
  <1>2. /\ d \in Nat /\ d + 1 \in Nat /\ (d + 1) + 1 \in Nat /\ MaxDepth + 1 \in Nat
        /\ d + 1 \in 0 .. MaxDepth /\ (d + 1) + 1 <= MaxDepth + 1
    BY <1>1, LodAssumption
  <1>3. /\ TwoTo[d] \in Nat /\ TwoTo[d + 1] = 2 * TwoTo[d] /\ TwoTo[d + 1] \in Nat
        /\ TwoTo[(d + 1) + 1] = 2 * TwoTo[d + 1] /\ TwoTo[MaxDepth + 1] \in Nat
    BY <1>2, TwoToIs
  <1>4. TwoTo[(d + 1) + 1] <= TwoTo[MaxDepth + 1]
    BY <1>2, TwoToGrows
  <1>5. key \in Nat /\ key >= 1 /\ c \in Nat /\ 2 * key <= c /\ c <= 2 * key + 1
    BY <1>3 DEF Key
  <1>6. TwoTo[d + 1] <= c /\ c < TwoTo[(d + 1) + 1] /\ c >= 1
    BY <1>1, <1>3, <1>5
  <1>7. c \in Key
    BY <1>3, <1>4, <1>5, <1>6 DEF Key
  <1>8. FindMSB(c) = d + 1
    BY <1>2, <1>6, <1>7, DepthUnique
  <1> QED
    BY <1>2, <1>7, <1>8 DEF d

LEMMA LeafKeysAreNatural == LeafKeys \subseteq Nat
  <1>1. TwoTo[MaxDepth] \in Nat /\ TwoTo[MaxDepth + 1] \in Nat
    BY LodAssumption, TwoToIs
  <1> QED
    BY <1>1 DEF LeafKeys

LEMMA ChildrenCover ==
    ASSUME NEW key \in Key, ~IsLeafKey(key), NEW leaf \in LeafKeys
    PROVE  /\ Covers(key, leaf) <=> Covers(2 * key, leaf) \/ Covers(2 * key + 1, leaf)
           /\ ~(Covers(2 * key, leaf) /\ Covers(2 * key + 1, leaf))
  <1> DEFINE d == FindMSB(key)
  <1>1. /\ d \in 0 .. MaxDepth /\ d + 1 \in 0 .. MaxDepth
        /\ FindMSB(2 * key) = d + 1 /\ FindMSB(2 * key + 1) = d + 1
        /\ 2 * key \in Key /\ 2 * key + 1 \in Key
    BY DepthIs, ChildrenAre
  <1>2. PICK q : q = TwoTo[MaxDepth - (d + 1)]
    OBVIOUS
  <1>3. /\ Covers(key, leaf) <=> key = leaf \div TwoTo[MaxDepth - d]
        /\ Covers(2 * key, leaf) <=> 2 * key = leaf \div q
        /\ Covers(2 * key + 1, leaf) <=> 2 * key + 1 = leaf \div q
    BY <1>1, <1>2, Zenon DEF Covers
  <1> HIDE DEF d
  <1>4. MaxDepth - (d + 1) \in Nat /\ (MaxDepth - (d + 1)) + 1 = MaxDepth - d
    BY <1>1, LodAssumption
  <1>5. q \in Nat \ {0} /\ TwoTo[MaxDepth - d] = 2 * q
    BY <1>2, <1>4, TwoToIs, TwoToPositive
  <1>6. key \in Nat /\ 2 * key \in Nat /\ 2 * key + 1 \in Nat /\ leaf \in Nat /\ 2 * q \in Nat \ {0}
    BY <1>1, <1>5, LeafKeysAreNatural, TwoToIs, LodAssumption DEF Key
  <1>7. /\ Covers(key, leaf) <=> Within(leaf, 2 * q, key)
        /\ Covers(2 * key, leaf) <=> Within(leaf, q, 2 * key)
        /\ Covers(2 * key + 1, leaf) <=> Within(leaf, q, 2 * key + 1)
    <2>1. (key = leaf \div (2 * q)) <=> Within(leaf, 2 * q, key)
      BY <1>6, QuotientIs
    <2>2. q \in Nat \ {0} /\ 2 * key \in Nat /\ 2 * key + 1 \in Nat /\ leaf \in Nat
      BY <1>5, <1>6
    <2>3. (2 * key = leaf \div q) <=> Within(leaf, q, 2 * key)
      BY <2>2, QuotientIs
    <2>4. (2 * key + 1 = leaf \div q) <=> Within(leaf, q, 2 * key + 1)
      BY <2>2, QuotientIs
    <2> QED
      BY <1>3, <1>5, <2>1, <2>3, <2>4, Zenon
  <1>8. PICK k : k = key * q
    OBVIOUS
  <1>9. /\ k \in Nat /\ key * (2 * q) = 2 * k /\ (key + 1) * (2 * q) = 2 * k + 2 * q
        /\ (2 * key) * q = 2 * k /\ (2 * key + 1) * q = 2 * k + q
        /\ ((2 * key + 1) + 1) * q = 2 * k + 2 * q
    BY <1>5, <1>6, <1>8
  <1>10. /\ Within(leaf, 2 * q, key) <=> 2 * k <= leaf /\ leaf < 2 * k + 2 * q
         /\ Within(leaf, q, 2 * key) <=> 2 * k <= leaf /\ leaf < 2 * k + q
         /\ Within(leaf, q, 2 * key + 1) <=> 2 * k + q <= leaf /\ leaf < 2 * k + 2 * q
    BY <1>9, Zenon DEF Within
  <1> QED
    BY <1>5, <1>6, <1>7, <1>9, <1>10

LEMMA RootCovers ==
    ASSUME NEW leaf \in LeafKeys
    PROVE  1 \in Key /\ Covers(1, leaf)
  <1>1. /\ MaxDepth \in Nat /\ TwoTo[MaxDepth] \in Nat \ {0} /\ TwoTo[0] = 1 /\ TwoTo[0 + 1] = 2
        /\ TwoTo[MaxDepth + 1] = 2 * TwoTo[MaxDepth] /\ MaxDepth - 0 = MaxDepth
    BY LodAssumption, TwoToIs, TwoToPositive
  <1>2. 1 \in Key
    BY <1>1 DEF Key
  <1>3. FindMSB(1) = 0
    BY <1>1, <1>2, DepthUnique
  <1>4. Covers(1, leaf) <=> 1 = leaf \div TwoTo[MaxDepth]
    BY <1>1, <1>3 DEF Covers
  <1>5. leaf \in Nat /\ TwoTo[MaxDepth] <= leaf /\ leaf < 2 * TwoTo[MaxDepth]
    BY <1>1 DEF LeafKeys
  <1>6. Within(leaf, TwoTo[MaxDepth], 1)
    BY <1>1, <1>5 DEF Within
  <1> QED
    BY <1>1, <1>2, <1>4, <1>5, <1>6, QuotientIs

(* Which slots of a buffer have a leaf.                                    *)
Has(slot, prim, leaf) == slot.prim = prim /\ Covers(slot.key, leaf)

HasAny(buffer, n, prim, leaf) == \E i \in 1 .. n : Has(buffer[i], prim, leaf)

HasNoTwo(buffer, n, prim, leaf) ==
    \A i, j \in 1 .. n : Has(buffer[i], prim, leaf) /\ Has(buffer[j], prim, leaf) => i = j

(* The first n slots of a buffer are the whole terrain; those of out are   *)
(* what the first n of another one are.                                    *)
Whole(buffer, n) ==
    \A prim \in {0, 1}, leaf \in LeafKeys :
       HasAny(buffer, n, prim, leaf) /\ HasNoTwo(buffer, n, prim, leaf)

Follows(out, k, in, n) ==
    \A prim \in {0, 1}, leaf \in LeafKeys :
       /\ HasNoTwo(out, k, prim, leaf)
       /\ HasAny(out, k, prim, leaf) <=> HasAny(in, n, prim, leaf)

LEMMA WholeTiles ==
    ASSUME NEW buffer, NEW n, Whole(buffer, n)
    PROVE  Tiles(buffer, n)
  <1> SUFFICES ASSUME NEW prim \in {0, 1}, NEW leaf \in LeafKeys
               PROVE  Cardinality({i \in 1 .. n : /\ buffer[i].prim = prim
                                                  /\ Covers(buffer[i].key, leaf)}) = 1
    BY Zenon DEF Tiles
  <1>1. PICK i \in 1 .. n : Has(buffer[i], prim, leaf)
    BY DEF Whole, HasAny
  <1>2. {j \in 1 .. n : Has(buffer[j], prim, leaf)} = {i}
    BY <1>1, Zenon DEF Whole, HasNoTwo
  <1>3. Cardinality({i}) = 1
    BY FS_Singleton
  <1> QED
    BY <1>2, <1>3, Zenon DEF Has

LEMMA WholeFollows ==
    ASSUME NEW out, NEW k, NEW in, NEW n, Follows(out, k, in, n), Whole(in, n)
    PROVE  Whole(out, k)
  BY Zenon DEF Follows, Whole

LEMMA ConcatenationIs ==
    ASSUME NEW S, NEW p \in Seq(S), NEW q \in Seq(S)
    PROVE  /\ p \o q \in Seq(S) /\ Len(p \o q) = Len(p) + Len(q)
           /\ \A i \in 1 .. Len(p) : (p \o q)[i] = p[i]
           /\ \A i \in 1 .. Len(q) : (p \o q)[Len(p) + i] = q[i]
  <1>0. PICK r : r = p \o q
    OBVIOUS
  <1>1. r \in Seq(S) /\ Len(r) = Len(p) + Len(q)
    BY <1>0
  <1>2. ASSUME NEW i \in 1 .. Len(p) PROVE r[i] = p[i]
    BY <1>0
  <1>3. ASSUME NEW i \in 1 .. Len(q) PROVE r[Len(p) + i] = q[i]
    <2>1. Len(p) + i \in 1 .. Len(p) + Len(q) /\ ~(Len(p) + i <= Len(p)) /\ (Len(p) + i) - Len(p) = i
      OBVIOUS
    <2> QED
      BY <1>0, <2>1
  <1> QED
    BY <1>0, <1>1, <1>2, <1>3

(* writeKey keeps what is there and adds the slots.                        *)
LEMMA WrittenIs ==
    ASSUME NEW buffer \in Seq(Slot), NEW k \in 0 .. Len(buffer), NEW slots \in Seq(Slot)
    PROVE  LET r == Written(buffer, 2 * k, slots) IN
           /\ r \in Seq(Slot) /\ k + Len(slots) <= Len(r)
           /\ \A i \in 1 .. k : r[i] = buffer[i]
           /\ \A i \in 1 .. Len(slots) : r[k + i] = slots[i]
  <1>0. PICK r : r = Written(buffer, 2 * k, slots)
    OBVIOUS
  <1>1. (2 * k) \div 2 = k
    OBVIOUS
  <1> DEFINE head == SubSeq(buffer, 1, k)
             tail == SubSeq(buffer, k + Len(slots) + 1, Len(buffer))
  <1>2. head \in Seq(Slot) /\ Len(head) = k /\ \A i \in 1 .. k : head[i] = buffer[i]
    OBVIOUS
  <1>3. tail \in Seq(Slot)
    OBVIOUS
  <1>4. r = (head \o slots) \o tail
    BY <1>0, <1>1 DEF Written
  <1> HIDE DEF head, tail
  <1>5. PICK b : b = head \o slots
    OBVIOUS
  <1>6. /\ b \in Seq(Slot) /\ Len(b) = k + Len(slots)
        /\ \A i \in 1 .. k : b[i] = buffer[i]
        /\ \A i \in 1 .. Len(slots) : b[k + i] = slots[i]
    <2>1. /\ b \in Seq(Slot) /\ Len(b) = Len(head) + Len(slots)
          /\ \A i \in 1 .. Len(head) : b[i] = head[i]
          /\ \A i \in 1 .. Len(slots) : b[Len(head) + i] = slots[i]
      <3>1. slots \in Seq(Slot) /\ head \in Seq(Slot)
        BY <1>2
      <3>2. /\ head \o slots \in Seq(Slot) /\ Len(head \o slots) = Len(head) + Len(slots)
            /\ \A i \in 1 .. Len(head) : (head \o slots)[i] = head[i]
            /\ \A i \in 1 .. Len(slots) : (head \o slots)[Len(head) + i] = slots[i]
        BY <3>1, ConcatenationIs
      <3> QED
        BY <1>5, <3>2
    <2> QED
      BY <1>2, <2>1, Zenon
  <1>7. /\ r \in Seq(Slot) /\ Len(b) <= Len(r)
        /\ \A i \in 1 .. Len(b) : r[i] = b[i]
    <2>1. /\ r \in Seq(Slot) /\ Len(r) = Len(b) + Len(tail)
          /\ \A i \in 1 .. Len(b) : r[i] = b[i]
      <3>0. b \in Seq(Slot) /\ tail \in Seq(Slot)
        BY <1>3, <1>6
      <3>1. /\ b \o tail \in Seq(Slot) /\ Len(b \o tail) = Len(b) + Len(tail)
            /\ \A i \in 1 .. Len(b) : (b \o tail)[i] = b[i]
        BY <3>0, ConcatenationIs
      <3> QED
        BY <1>4, <1>5, <3>1
    <2>2. Len(tail) \in Nat /\ Len(b) \in Nat
      BY <1>3, <1>6
    <2> QED
      BY <2>1, <2>2
  <1>8. \A i \in 1 .. k : i \in 1 .. Len(b)
    BY <1>6
  <1>9. \A i \in 1 .. Len(slots) : k + i \in 1 .. Len(b)
    BY <1>6
  <1> QED
    BY <1>0, <1>6, <1>7, <1>8, <1>9

(* A thread writes the leaves of its slot, each once.                      *)
LEMMA UpdateIs ==
    ASSUME NEW slot \in Slot, NEW choice, NEW next, next = UpdateSubdBuffer(slot, choice)
    PROVE  /\ next \in Seq(Slot) /\ Len(next) \in Nat
           /\ \A prim \in {0, 1}, leaf \in LeafKeys :
                 /\ HasNoTwo(next, Len(next), prim, leaf)
                 /\ HasAny(next, Len(next), prim, leaf) <=> Has(slot, prim, leaf)
  <1>1. CASE choice = "subdivide" /\ ~IsLeafKey(slot.key)
    <2>1. slot.key \in Key /\ slot.prim \in {0, 1} /\ slot = [prim |-> slot.prim, key |-> slot.key]
      BY DEF Slot
    <2>2. 2 * slot.key \in Key /\ 2 * slot.key + 1 \in Key
      BY <1>1, <2>1, ChildrenAre
    <2>3. next = <<[prim |-> slot.prim, key |-> 2 * slot.key], [prim |-> slot.prim, key |-> 2 * slot.key + 1]>>
      BY <1>1, <2>1 DEF UpdateSubdBuffer, ChildrenKeys
    <2> DEFINE x == [prim |-> slot.prim, key |-> 2 * slot.key]
               y == [prim |-> slot.prim, key |-> 2 * slot.key + 1]
    <2>4. x \in Slot /\ y \in Slot
      BY <2>1, <2>2 DEF Slot
    <2>5. ASSUME NEW prim \in {0, 1}, NEW leaf \in LeafKeys
          PROVE  /\ Has(slot, prim, leaf) <=> Has(x, prim, leaf) \/ Has(y, prim, leaf)
                 /\ ~(Has(x, prim, leaf) /\ Has(y, prim, leaf))
      BY <1>1, <2>1, ChildrenCover DEF Has
    <2> HIDE DEF x, y
    <2>6. next = <<x, y>>
      BY <2>3 DEF x, y
    <2>7. next \in Seq(Slot) /\ Len(next) = 2 /\ next[1] = x /\ next[2] = y
      BY <2>4, <2>6
    <2>8. 1 .. 2 = {1, 2}
      OBVIOUS
    <2>9. ASSUME NEW prim \in {0, 1}, NEW leaf \in LeafKeys
          PROVE  /\ HasNoTwo(next, 2, prim, leaf)
                 /\ HasAny(next, 2, prim, leaf) <=> Has(slot, prim, leaf)
      BY <2>5, <2>7, <2>8, Zenon DEF HasNoTwo, HasAny
    <2> QED
      BY <2>7, <2>9
  <1>2. CASE ~(choice = "subdivide" /\ ~IsLeafKey(slot.key))
    <2>1. next = <<slot>>
      BY <1>2 DEF UpdateSubdBuffer
    <2>2. next \in Seq(Slot) /\ Len(next) = 1 /\ next[1] = slot
      BY <2>1
    <2>3. 1 .. 1 = {1}
      OBVIOUS
    <2>4. ASSUME NEW prim \in {0, 1}, NEW leaf \in LeafKeys
          PROVE  /\ HasNoTwo(next, 1, prim, leaf)
                 /\ HasAny(next, 1, prim, leaf) <=> Has(slot, prim, leaf)
      BY <2>2, <2>3, Zenon DEF HasNoTwo, HasAny
    <2> QED
      BY <2>2, <2>4
  <1> QED
    BY <1>1, <1>2

(* What one thread adds to the slots written.                              *)
LEMMA FollowsOn ==
    ASSUME NEW out, NEW k \in Nat, NEW in, NEW n \in Nat, NEW m \in Nat, n < m,
           Follows(out, k, in, n), Whole(in, m), NEW next, NEW l \in Nat,
           \A prim \in {0, 1}, leaf \in LeafKeys :
              /\ HasNoTwo(next, l, prim, leaf)
              /\ HasAny(next, l, prim, leaf) <=> Has(in[n + 1], prim, leaf),
           NEW r, \A i \in 1 .. k : r[i] = out[i], \A i \in 1 .. l : r[k + i] = next[i]
    PROVE  Follows(r, k + l, in, n + 1)
  <1> SUFFICES ASSUME NEW prim \in {0, 1}, NEW leaf \in LeafKeys
               PROVE  /\ HasNoTwo(r, k + l, prim, leaf)
                      /\ HasAny(r, k + l, prim, leaf) <=> HasAny(in, n + 1, prim, leaf)
    BY Zenon DEF Follows
  <1> DEFINE inNext(i) == Has(next[i], prim, leaf)
             inOut(i)  == Has(out[i], prim, leaf)
             inIn(i)   == Has(in[i], prim, leaf)
             inR(i)    == Has(r[i], prim, leaf)
  <1>1. /\ \A i, j \in 1 .. k : inOut(i) /\ inOut(j) => i = j
        /\ (\E i \in 1 .. k : inOut(i)) <=> (\E i \in 1 .. n : inIn(i))
    BY Zenon DEF Follows, HasNoTwo, HasAny
  <1>2. \A i, j \in 1 .. m : inIn(i) /\ inIn(j) => i = j
    BY Zenon DEF Whole, HasNoTwo
  <1>3. /\ \A i, j \in 1 .. l : inNext(i) /\ inNext(j) => i = j
        /\ (\E i \in 1 .. l : inNext(i)) <=> inIn(n + 1)
    BY Zenon DEF HasNoTwo, HasAny
  <1>4. /\ \A i \in 1 .. k : inR(i) <=> inOut(i)
        /\ \A i \in 1 .. l : inR(k + i) <=> inNext(i)
    BY Zenon
  <1> HIDE DEF inNext, inOut, inIn, inR
  <1>5. \A i \in 1 .. k + l : i \in 1 .. k \/ \E j \in 1 .. l : i = k + j
    <2> SUFFICES ASSUME NEW i \in 1 .. k + l, i \notin 1 .. k PROVE \E j \in 1 .. l : i = k + j
      OBVIOUS
    <2>1. i - k \in 1 .. l /\ i = k + (i - k)
      OBVIOUS
    <2> QED
      BY <2>1
  <1>6. \A i \in 1 .. n : i \in 1 .. m /\ n + 1 \in 1 .. m /\ i # n + 1
    OBVIOUS
  <1>7. ~((\E i \in 1 .. k : inOut(i)) /\ (\E i \in 1 .. l : inNext(i)))
    BY <1>1, <1>2, <1>3, <1>6, Zenon
  <1>8. \A i, j \in 1 .. k + l : inR(i) /\ inR(j) => i = j
    <2> SUFFICES ASSUME NEW i \in 1 .. k + l, NEW j \in 1 .. k + l, inR(i), inR(j) PROVE i = j
      OBVIOUS
    <2>1. CASE i \in 1 .. k /\ j \in 1 .. k
      BY <1>1, <1>4, <2>1, Zenon
    <2>2. ASSUME NEW x \in 1 .. l, i = k + x, NEW y \in 1 .. l, j = k + y PROVE i = j
      BY <1>3, <1>4, <2>2, Zenon
    <2>3. ASSUME i \in 1 .. k, NEW y \in 1 .. l, j = k + y PROVE FALSE
      BY <1>4, <1>7, <2>3, Zenon
    <2>4. ASSUME j \in 1 .. k, NEW x \in 1 .. l, i = k + x PROVE FALSE
      BY <1>4, <1>7, <2>4, Zenon
    <2> QED
      BY <1>5, <2>1, <2>2, <2>3, <2>4, Zenon
  <1>9. (\E i \in 1 .. k + l : inR(i)) <=> (\E i \in 1 .. k : inOut(i)) \/ (\E i \in 1 .. l : inNext(i))
    <2>1. \A i \in 1 .. k : i \in 1 .. k + l
      OBVIOUS
    <2>2. \A i \in 1 .. l : k + i \in 1 .. k + l
      OBVIOUS
    <2> QED
      BY <1>4, <1>5, <2>1, <2>2, Zenon
  <1>10. (\E i \in 1 .. n + 1 : inIn(i)) <=> (\E i \in 1 .. n : inIn(i)) \/ inIn(n + 1)
    <2>1. 1 .. n + 1 = (1 .. n) \cup {n + 1}
      OBVIOUS
    <2> QED
      BY <2>1, Zenon
  <1>11. HasNoTwo(r, k + l, prim, leaf)
    BY <1>8, Zenon DEF HasNoTwo, inR
  <1>12. HasAny(r, k + l, prim, leaf) <=> \E i \in 1 .. k + l : inR(i)
    BY Zenon DEF HasAny, inR
  <1>13. HasAny(in, n + 1, prim, leaf) <=> \E i \in 1 .. n + 1 : inIn(i)
    BY Zenon DEF HasAny, inIn
  <1> QED
    BY <1>1, <1>3, <1>9, <1>10, <1>11, <1>12, <1>13, Zenon

(* While the threads of a frame run, what they have written is what they   *)
(* have read, and the slots they read are the whole terrain.               *)
ThreadsRun ==
    /\ counters[2] \in 0 .. Len(subd[In]) /\ Whole(subd[In], counters[2])
    /\ groups = GroupsFor(counters[2])
    /\ thread \in 0 .. counters[2]
    /\ \E k \in 0 .. Len(subd[Out]) :
         counters[0] = 2 * k /\ Follows(subd[Out], k, subd[In], thread)
    /\ counters[1] = 2 * thread /\ thread <= Len(culled)
    /\ \A i \in 1 .. thread : culled[i] = subd[In][i]

FrameInv ==
    /\ ~restart => mesh = gpuSubd
    /\ lodStep # "idle" => ~restart
    /\ lodStep = "idle" /\ ~restart =>
         \E k \in 0 .. Len(subd[In]) : counters[0] = 2 * k /\ Whole(subd[In], k)
    /\ lodStep = "threads" => ThreadsRun
    /\ lodStep = "submit" =>
         /\ \E k \in 0 .. Len(subd[Out]) : counters[0] = 2 * k /\ Whole(subd[Out], k)
         /\ Whole(culled, draw.instances)
         /\ draw.indices = IndexCount(gpuSubd)

LodInv == LodTypeOK /\ FrameInv

LEMMA IndexCounts ==
    ASSUME NEW level \in 0 .. 3
    PROVE  IndexCount(level) = MeshIndices(level) /\ IndexCount(level) \in Nat
  <1>1. TwoTo[0] = 1 /\ TwoTo[0 + 1] = 2 * TwoTo[0] /\ TwoTo[1 + 1] = 2 * TwoTo[1] /\ TwoTo[2 + 1] = 2 * TwoTo[2]
        /\ TwoTo[3 + 1] = 2 * TwoTo[3] /\ TwoTo[4 + 1] = 2 * TwoTo[4]
    BY TwoToIs
  <1>2. TwoTo[1] = 2 /\ TwoTo[3] = 8 /\ TwoTo[5] = 32
    <2>1. TwoTo[1] = 2
      BY <1>1
    <2>2. TwoTo[2] = 4
      BY <1>1, <2>1
    <2>3. TwoTo[3] = 8
      BY <1>1, <2>2
    <2>4. TwoTo[4] = 16
      BY <1>1, <2>3
    <2>5. TwoTo[5] = 32
      BY <1>1, <2>4
    <2> QED
      BY <2>1, <2>3, <2>5
  <1>3. CASE level = 0
    BY <1>3 DEF IndexCount, MeshIndices
  <1>4. CASE level = 1
    BY <1>2, <1>4 DEF IndexCount, MeshIndices
  <1>5. CASE level = 2
    BY <1>2, <1>5 DEF IndexCount, MeshIndices
  <1>6. CASE level = 3
    BY <1>2, <1>6 DEF IndexCount, MeshIndices
  <1> QED
    BY <1>3, <1>4, <1>5, <1>6

LEMMA RootsAreWhole == Roots \in Seq(Slot) /\ Len(Roots) = 2 /\ Whole(Roots, 2)
  <1>1. 1 \in Key
    <2>1. TwoTo[MaxDepth] \in Nat \ {0} /\ TwoTo[MaxDepth + 1] = 2 * TwoTo[MaxDepth]
      BY LodAssumption, TwoToIs, TwoToPositive
    <2> QED
      BY <2>1 DEF Key
  <1>2. [prim |-> 0, key |-> 1] \in Slot /\ [prim |-> 1, key |-> 1] \in Slot
    BY <1>1 DEF Slot
  <1>3. Roots \in Seq(Slot) /\ Len(Roots) = 2
    BY <1>2 DEF Roots
  <1>4. /\ Roots[1].prim = 0 /\ Roots[1].key = 1 /\ Roots[2].prim = 1 /\ Roots[2].key = 1
        /\ 1 .. 2 = {1, 2}
    BY DEF Roots
  <1>5. ASSUME NEW prim \in {0, 1}, NEW leaf \in LeafKeys
        PROVE  HasAny(Roots, 2, prim, leaf) /\ HasNoTwo(Roots, 2, prim, leaf)
    <2>1. Covers(1, leaf)
      BY RootCovers
    <2>2. Has(Roots[1], prim, leaf) <=> prim = 0
      BY <1>4, <2>1 DEF Has
    <2>3. Has(Roots[2], prim, leaf) <=> prim = 1
      BY <1>4, <2>1 DEF Has
    <2> QED
      BY <1>4, <2>2, <2>3 DEF HasAny, HasNoTwo
  <1> QED
    BY <1>3, <1>5 DEF Whole

LEMMA LodStart == LodInit => LodInv
  <1> SUFFICES ASSUME LodInit PROVE LodInv
    OBVIOUS
  <1>1. <<>> \in Seq(Slot) /\ 0 \in Nat /\ {FALSE, TRUE} \subseteq BOOLEAN
    OBVIOUS
  <1>2. LodTypeOK
    BY <1>1 DEF LodInit, LodTypeOK
  <1>3. FrameInv
    BY DEF LodInit, FrameInv
  <1> QED
    BY <1>2, <1>3 DEF LodInv

LEMMA BetweenFrames ==
    ASSUME LodInv,
           \/ \E level \in Levels : SetGpuSubdivision(level)
           \/ \E on \in BOOLEAN : SetFreeze(on)
           \/ InvalidateAllHandles
    PROVE  LodInv'
  <1>1. Levels \subseteq 0 .. 3
    BY LodAssumption
  <1>2. LodTypeOK'
    BY <1>1 DEF LodInv, LodTypeOK, SetGpuSubdivision, SetFreeze, InvalidateAllHandles, gpu
  <1>3. FrameInv'
    BY DEF LodInv, FrameInv, SetGpuSubdivision, SetFreeze, InvalidateAllHandles, gpu, In, Out
  <1> QED
    BY <1>2, <1>3 DEF LodInv

LEMMA InitIndirectStep ==
    ASSUME LodInv, InitIndirect
    PROVE  LodInv'
  <1>1. /\ lodStep' = "threads" /\ restart' = FALSE /\ pingPong' = 1 /\ mesh' = gpuSubd
        /\ subd' = [b \in 0 .. 1 |-> Roots] /\ culled' = Roots
        /\ counters' = [c \in 0 .. 2 |-> IF c = 2 THEN 2 ELSE 0]
        /\ groups' = GroupsFor(2) /\ draw' = [indices |-> IndexCount(gpuSubd), instances |-> 0]
        /\ thread' = 0 /\ gpuSubd' = gpuSubd /\ freeze' = freeze
    BY DEF InitIndirect
  <1>2. GroupsFor(2) \in Nat
    BY LodAssumption DEF GroupsFor
  <1>3. LodTypeOK'
    <2>1. gpuSubd' \in 0 .. 3 /\ mesh' \in 0 .. 3 /\ {freeze', restart'} \subseteq BOOLEAN
      BY <1>1 DEF LodInv, LodTypeOK
    <2>2. subd' \in [0 .. 1 -> Seq(Slot)] /\ culled' \in Seq(Slot)
      BY <1>1, RootsAreWhole
    <2>3. counters' \in [0 .. 2 -> Nat] /\ groups' \in Nat /\ thread' \in Nat
      BY <1>1, <1>2
    <2>4. draw' \in [indices : Nat, instances : Nat]
      BY <1>1, IndexCounts DEF LodInv, LodTypeOK
    <2> QED
      BY <1>1, <2>1, <2>2, <2>3, <2>4 DEF LodTypeOK
  <1>4. ThreadsRun'
    <2>1. In' = 0 /\ Out' = 1 /\ subd'[0] = Roots /\ subd'[1] = Roots
          /\ counters'[0] = 0 /\ counters'[1] = 0 /\ counters'[2] = 2
      BY <1>1 DEF In, Out
    <2>2. Follows(Roots, 0, Roots, 0)
      <3>1. 1 .. 0 = {}
        OBVIOUS
      <3> QED
        BY <3>1, Zenon DEF Follows, HasAny, HasNoTwo
    <2>3. 2 \in 0 .. Len(Roots) /\ 0 \in 0 .. Len(Roots) /\ 0 = 2 * 0 /\ 0 \in 0 .. 2 /\ 0 <= Len(Roots)
      BY RootsAreWhole
    <2>4. \A i \in 1 .. 0 : FALSE
      OBVIOUS
    <2> QED
      BY <1>1, <2>1, <2>2, <2>3, <2>4, RootsAreWhole DEF ThreadsRun
  <1>5. FrameInv'
    BY <1>1, <1>4 DEF FrameInv
  <1> QED
    BY <1>3, <1>5 DEF LodInv

LEMMA UpdateIndirectStep ==
    ASSUME LodInv, UpdateIndirect
    PROVE  LodInv'
  <1>1. /\ lodStep' = "threads" /\ ~restart
        /\ counters' = [c \in 0 .. 2 |-> IF c = 2 THEN counters[0] \div 2 ELSE 0]
        /\ groups' = GroupsFor(counters[0] \div 2) /\ thread' = 0
        /\ UNCHANGED <<gpuSubd, freeze, restart, pingPong, mesh, subd, culled, draw>>
    BY DEF UpdateIndirect
  <1>2. PICK k \in 0 .. Len(subd[In]) : counters[0] = 2 * k /\ Whole(subd[In], k)
    BY <1>1 DEF LodInv, FrameInv, UpdateIndirect
  <1>3. /\ subd[In] \in Seq(Slot) /\ subd[Out] \in Seq(Slot) /\ culled \in Seq(Slot)
        /\ Len(subd[In]) \in Nat /\ Len(subd[Out]) \in Nat /\ Len(culled) \in Nat /\ k \in Nat
    BY DEF LodInv, LodTypeOK, In, Out
  <1>4. counters[0] \div 2 = k /\ GroupsFor(k) \in Nat
    <2>1. k \in Nat /\ counters[0] = 2 * k
      BY <1>2, <1>3
    <2>2. counters[0] \div 2 = k
      BY <2>1
    <2>3. k \div GroupSize \in Nat
      BY <2>1, LodAssumption
    <2> QED
      BY <2>2, <2>3 DEF GroupsFor
  <1>5. LodTypeOK'
    <2>1. counters' \in [0 .. 2 -> Nat] /\ groups' \in Nat /\ thread' \in Nat
      BY <1>1, <1>3, <1>4
    <2> QED
      BY <1>1, <2>1 DEF LodInv, LodTypeOK
  <1>6. ThreadsRun'
    <2>1. In' = In /\ Out' = Out /\ subd' = subd /\ culled' = culled /\ thread' = 0
          /\ counters'[0] = 0 /\ counters'[1] = 0 /\ counters'[2] = k /\ groups' = GroupsFor(k)
      BY <1>1, <1>4 DEF In, Out
    <2>2. Follows(subd[Out], 0, subd[In], 0)
      <3>1. 1 .. 0 = {}
        OBVIOUS
      <3> QED
        BY <3>1, Zenon DEF Follows, HasAny, HasNoTwo
    <2>3. 0 \in 0 .. Len(subd[Out]) /\ 0 = 2 * 0 /\ 0 \in 0 .. k /\ 0 <= Len(culled)
      BY <1>3
    <2>4. \A i \in 1 .. 0 : FALSE
      OBVIOUS
    <2> QED
      BY <1>2, <2>1, <2>2, <2>3, <2>4 DEF ThreadsRun
  <1>7. FrameInv'
    BY <1>1, <1>6 DEF LodInv, FrameInv
  <1> QED
    BY <1>5, <1>7 DEF LodInv

LEMMA LodThreadStep ==
    ASSUME LodInv, NEW choice, LodThread(choice)
    PROVE  LodInv'
  <1> DEFINE slot == subd[In][thread + 1]
             next == UpdateSubdBuffer(slot, choice)
  <1>1. /\ lodStep = "threads" /\ thread < Threads
        /\ subd' = [subd EXCEPT ![Out] = Written(@, counters[0], next)]
        /\ culled' = Written(culled, counters[1], <<slot>>)
        /\ counters' = [counters EXCEPT ![0] = @ + 2 * Len(next), ![1] = @ + 2]
        /\ thread' = thread + 1
        /\ UNCHANGED <<gpuSubd, freeze, restart, pingPong, mesh, groups, draw, lodStep>>
    BY DEF LodThread
  <1>2. LodTypeOK /\ FrameInv /\ ThreadsRun
    BY <1>1 DEF LodInv, FrameInv
  <1>3. PICK k \in 0 .. Len(subd[Out]) : counters[0] = 2 * k /\ Follows(subd[Out], k, subd[In], thread)
    BY <1>2 DEF ThreadsRun
  <1>4. /\ subd \in [0 .. 1 -> Seq(Slot)] /\ subd[In] \in Seq(Slot) /\ subd[Out] \in Seq(Slot)
        /\ In \in 0 .. 1 /\ Out \in 0 .. 1 /\ In # Out
        /\ culled \in Seq(Slot) /\ counters \in [0 .. 2 -> Nat]
        /\ Len(subd[In]) \in Nat /\ Len(subd[Out]) \in Nat /\ Len(culled) \in Nat
        /\ thread \in Nat /\ groups \in Nat /\ k \in Nat
    BY <1>2 DEF LodTypeOK, In, Out
  <1>5. /\ counters[2] \in 0 .. Len(subd[In]) /\ Whole(subd[In], counters[2])
        /\ counters[1] = 2 * thread /\ thread \in 0 .. Len(culled)
        /\ \A i \in 1 .. thread : culled[i] = subd[In][i]
    BY <1>2, <1>4 DEF ThreadsRun
  <1>6. thread < counters[2] /\ thread + 1 \in 1 .. Len(subd[In]) /\ thread + 1 \in 0 .. counters[2]
    <2>1. groups * GroupSize \in Nat
      BY <1>4, LodAssumption
    <2>2. counters[2] \in Nat /\ thread \in Nat /\ counters[2] <= Len(subd[In]) /\ Len(subd[In]) \in Nat
      BY <1>4, <1>5
    <2>3. Threads <= counters[2] /\ Threads \in Nat
      BY <2>1, <2>2 DEF Threads
    <2>4. thread < counters[2]
      BY <1>1, <2>2, <2>3
    <2> QED
      BY <2>2, <2>4
  <1>7. slot \in Slot
    BY <1>4, <1>6
  <1> HIDE DEF slot
  <1>8. /\ next \in Seq(Slot) /\ Len(next) \in Nat
        /\ \A prim \in {0, 1}, leaf \in LeafKeys :
              /\ HasNoTwo(next, Len(next), prim, leaf)
              /\ HasAny(next, Len(next), prim, leaf) <=> Has(slot, prim, leaf)
    BY <1>7, UpdateIs
  <1> HIDE DEF next
  <1>9. PICK r : r = Written(subd[Out], 2 * k, next)
    OBVIOUS
  <1>10. /\ r \in Seq(Slot) /\ k + Len(next) <= Len(r)
         /\ \A i \in 1 .. k : r[i] = subd[Out][i]
         /\ \A i \in 1 .. Len(next) : r[k + i] = next[i]
    <2>1. PICK b : b = subd[Out]
      OBVIOUS
    <2>2. b \in Seq(Slot) /\ k \in 0 .. Len(b) /\ r = Written(b, 2 * k, next)
      BY <1>4, <1>9, <2>1
    <2>3. /\ r \in Seq(Slot) /\ k + Len(next) <= Len(r)
          /\ \A i \in 1 .. k : r[i] = b[i]
          /\ \A i \in 1 .. Len(next) : r[k + i] = next[i]
      BY <1>8, <2>2, WrittenIs
    <2> QED
      BY <2>1, <2>3, Zenon
  <1>11. subd' = [subd EXCEPT ![Out] = r]
    BY <1>1, <1>3, <1>4, <1>9
  <1>12. In' = In /\ Out' = Out /\ subd'[Out] = r /\ subd'[In] = subd[In]
    BY <1>1, <1>4, <1>11 DEF In, Out
  <1>13. PICK c : c = Written(culled, 2 * thread, <<slot>>)
    OBVIOUS
  <1>14. /\ c \in Seq(Slot) /\ thread + 1 <= Len(c)
         /\ \A i \in 1 .. thread : c[i] = culled[i]
         /\ c[thread + 1] = slot
    <2>0. PICK one : one = <<slot>>
      OBVIOUS
    <2>1. one \in Seq(Slot) /\ Len(one) = 1 /\ one[1] = slot /\ 1 \in 1 .. 1
      BY <1>7, <2>0
    <2>2. /\ c \in Seq(Slot) /\ thread + Len(one) <= Len(c)
          /\ \A i \in 1 .. thread : c[i] = culled[i]
          /\ \A i \in 1 .. Len(one) : c[thread + i] = one[i]
      <3>1. culled \in Seq(Slot) /\ thread \in 0 .. Len(culled) /\ c = Written(culled, 2 * thread, one)
        BY <1>4, <1>5, <1>13, <2>0
      <3> QED
        BY <2>1, <3>1, WrittenIs
    <2> QED
      BY <2>1, <2>2, Zenon
  <1>15. culled' = c
    BY <1>1, <1>5, <1>13
  <1>16. /\ counters' \in [0 .. 2 -> Nat] /\ counters'[0] = 2 * (k + Len(next))
         /\ counters'[1] = 2 * (thread + 1) /\ counters'[2] = counters[2]
    <2>1. PICK l \in Nat : l = Len(next)
      BY <1>8
    <2>2. counters' = [counters EXCEPT ![0] = @ + 2 * l, ![1] = @ + 2]
      BY <1>1, <2>1
    <2>3. counters' \in [0 .. 2 -> Nat]
      <3>1. /\ counters[0] \in Nat /\ counters[1] \in Nat
            /\ counters[0] + 2 * l \in Nat /\ counters[1] + 2 \in Nat
        BY <1>4, <2>1
      <3> QED
        BY <1>4, <2>2, <3>1
    <2>4. counters'[0] = counters[0] + 2 * l /\ counters'[1] = counters[1] + 2 /\ counters'[2] = counters[2]
      BY <1>4, <2>2
    <2> QED
      BY <1>3, <1>4, <1>5, <2>1, <2>3, <2>4
  <1>17. Follows(r, k + Len(next), subd[In], thread + 1)
    <2>1. \A prim \in {0, 1}, leaf \in LeafKeys :
             /\ HasNoTwo(next, Len(next), prim, leaf)
             /\ HasAny(next, Len(next), prim, leaf) <=> Has(subd[In][thread + 1], prim, leaf)
      BY <1>8 DEF slot
    <2>2. PICK m \in Nat : m = counters[2]
      BY <1>4
    <2>3. PICK in : in = subd[In]
      OBVIOUS
    <2>4. PICK out : out = subd[Out]
      OBVIOUS
    <2>5. /\ k \in Nat /\ thread \in Nat /\ thread < m /\ Len(next) \in Nat
          /\ Follows(out, k, in, thread) /\ Whole(in, m)
      BY <1>3, <1>4, <1>5, <1>6, <1>8, <2>2, <2>3, <2>4
    <2>6. \A i \in 1 .. k : r[i] = out[i]
      BY <1>10, <2>4
    <2>7. \A i \in 1 .. Len(next) : r[k + i] = next[i]
      BY <1>10
    <2>8. Follows(r, k + Len(next), in, thread + 1)
      BY <2>1, <2>3, <2>5, <2>6, <2>7, FollowsOn, Zenon
    <2> QED
      BY <2>3, <2>8
  <1>18. LodTypeOK'
    <2>1. subd' \in [0 .. 1 -> Seq(Slot)]
      BY <1>4, <1>10, <1>11
    <2>2. culled' \in Seq(Slot) /\ thread' \in Nat
      BY <1>1, <1>4, <1>14, <1>15
    <2> QED
      BY <1>1, <1>2, <1>16, <2>1, <2>2 DEF LodTypeOK
  <1>19. ThreadsRun'
    <2>1. k + Len(next) \in 0 .. Len(r)
      BY <1>4, <1>8, <1>10
    <2>2. \A i \in 1 .. thread + 1 : c[i] = subd[In][i]
      <3>1. \A i \in 1 .. thread + 1 : i \in 1 .. thread \/ i = thread + 1
        BY <1>4
      <3> QED
        BY <1>5, <1>14, <3>1, Zenon DEF slot
    <2>3. groups' = GroupsFor(counters[2])
      BY <1>1, <1>2 DEF ThreadsRun
    <2> QED
      BY <1>1, <1>5, <1>6, <1>12, <1>14, <1>15, <1>16, <1>17, <2>1, <2>2, <2>3 DEF ThreadsRun
  <1>20. FrameInv'
    BY <1>1, <1>2, <1>19 DEF FrameInv
  <1> QED
    BY <1>18, <1>20 DEF LodInv

(* Enough groups were asked for, so every slot was read.                   *)
LEMMA UpdateDrawStep ==
    ASSUME LodInv, UpdateDraw
    PROVE  LodInv'
  <1>1. /\ lodStep = "threads" /\ lodStep' = "submit" /\ thread = Threads
        /\ draw' = [indices |-> IndexCount(gpuSubd), instances |-> counters[1] \div 2]
        /\ thread' = 0
        /\ UNCHANGED <<gpuSubd, freeze, restart, pingPong, mesh, subd, culled, counters, groups>>
    BY DEF UpdateDraw
  <1>2. LodTypeOK /\ FrameInv /\ ThreadsRun
    BY <1>1 DEF LodInv, FrameInv
  <1>3. /\ counters[2] \in Nat /\ counters[1] \in Nat /\ groups \in Nat /\ thread \in Nat
        /\ gpuSubd \in 0 .. 3
    BY <1>2 DEF LodTypeOK
  <1>4. thread = counters[2]
    <2>1. PICK n \in Nat : n = counters[2]
      BY <1>3
    <2>2. groups = n \div GroupSize + 1
      BY <1>2, <2>1 DEF ThreadsRun, GroupsFor
    <2>3. PICK q \in Nat : q = n \div GroupSize
      BY <2>1, LodAssumption
    <2>4. Within(n, GroupSize, q)
      BY <2>1, <2>3, LodAssumption, QuotientIs
    <2>5. n < groups * GroupSize
      BY <2>2, <2>3, <2>4 DEF Within
    <2> QED
      BY <1>1, <2>1, <2>5 DEF Threads
  <1>5. draw' = [indices |-> IndexCount(gpuSubd), instances |-> thread]
    <2>1. counters[1] = 2 * thread
      BY <1>2 DEF ThreadsRun
    <2>2. counters[1] \div 2 = thread
      BY <1>3, <2>1
    <2> QED
      BY <1>1, <2>2
  <1>6. Whole(subd[In], thread) /\ \A i \in 1 .. thread : culled[i] = subd[In][i]
    BY <1>2, <1>4 DEF ThreadsRun
  <1>7. Whole(culled, thread)
    BY <1>6, Zenon DEF Whole, HasAny, HasNoTwo
  <1>8. PICK k \in 0 .. Len(subd[Out]) : counters[0] = 2 * k /\ Follows(subd[Out], k, subd[In], thread)
    BY <1>2 DEF ThreadsRun
  <1>9. Whole(subd[Out], k)
    BY <1>6, <1>8, WholeFollows
  <1>10. LodTypeOK'
    <2>1. draw' \in [indices : Nat, instances : Nat] /\ thread' \in Nat
      BY <1>1, <1>3, <1>5, IndexCounts
    <2> QED
      BY <1>1, <1>2, <2>1 DEF LodTypeOK
  <1>11. FrameInv'
    <2>1. Out' = Out
      BY <1>1 DEF Out
    <2>2. Whole(culled', draw'.instances) /\ draw'.indices = IndexCount(gpuSubd')
      BY <1>1, <1>5, <1>7
    <2> QED
      BY <1>1, <1>2, <1>8, <1>9, <2>1, <2>2 DEF FrameInv
  <1> QED
    BY <1>10, <1>11 DEF LodInv

LEMMA SubmitStep ==
    ASSUME LodInv, Submit
    PROVE  LodInv'
  <1>1. /\ lodStep = "submit" /\ lodStep' = "idle" /\ pingPong' = 1 - pingPong
        /\ UNCHANGED <<gpuSubd, freeze, restart, mesh, subd, culled, counters, groups, draw, thread>>
    BY DEF Submit
  <1>2. LodTypeOK /\ FrameInv
    BY DEF LodInv
  <1>3. In' = Out
    BY <1>1, <1>2 DEF In, Out, LodTypeOK
  <1>4. LodTypeOK'
    BY <1>1, <1>2 DEF LodTypeOK
  <1>5. FrameInv'
    BY <1>1, <1>2, <1>3 DEF FrameInv
  <1> QED
    BY <1>4, <1>5 DEF LodInv

(* For any depth of the tree and size of a workgroup, whatever each thread *)
(* chooses, whatever is set between the frames and however many there are: *)
(* the instances that a frame draws cover the terrain exactly once, with   *)
(* as many indices as the mesh has (renderTerrain and its shaders).        *)
THEOREM AlwaysDrawn == LodSpec => []TerrainDrawn
  <1>1. LodInv /\ [LodNext]_lod => LodInv'
    <2> SUFFICES ASSUME LodInv, [LodNext]_lod PROVE LodInv'
      OBVIOUS
    <2>1. CASE UNCHANGED lod
      BY <2>1 DEF lod, gpu, LodInv, LodTypeOK, FrameInv, ThreadsRun, In, Out
    <2> QED
      BY <2>1, BetweenFrames, InitIndirectStep, UpdateIndirectStep, LodThreadStep, UpdateDrawStep,
         SubmitStep, Zenon DEF LodNext
  <1>2. LodInv => TerrainDrawn
    <2> SUFFICES ASSUME LodInv PROVE TerrainDrawn
      OBVIOUS
    <2>1. DrawnTiles
      BY WholeTiles, Zenon DEF LodInv, FrameInv, DrawnTiles
    <2>2. IndicesExist
      BY IndexCounts DEF LodInv, LodTypeOK, FrameInv, IndicesExist
    <2> QED
      BY <2>1, <2>2 DEF TerrainDrawn, LodInv
  <1> QED
    BY <1>1, <1>2, LodStart, PTL DEF LodSpec
=============================================================================

---------------------------- MODULE ShaderCompile ----------------------------
(***************************************************************************)
(* The application's LiveShaderService: it compiles sources for slots with *)
(* the external shaderc, keeps the binaries in a cache on disk, and asks   *)
(* the viewport item to use one or to go back to the stock program (see    *)
(* LiveShader for what the item does then).  The cache outlives the        *)
(* process, which may die while shaderc runs and start again with another  *)
(* renderer; what the service remembers does not.                          *)
(*                                                                         *)
(* Requests come from the TestBridge on the GUI thread, which waits for    *)
(* shaderc: each is one step.  A hash is what is hashed; 96 bits of        *)
(* SHA-256 do not collide.  Include files do not change.                   *)
(***************************************************************************)
EXTENDS Integers

CONSTANTS
    SupportedSlots, Sources, Renderers,  \* supported slots; texts; backends' directories
    NoBinary, Torn,             \* no file, or an empty one; part of a binary
    Unrequested, StockRequested,
    NoHash,
    MaxCompiles                 \* bound: requests and restarts

Inputs == [slot : SupportedSlots, source : Sources, renderer : Renderers]

ASSUME CompilerAssumption ==
    /\ {NoBinary, Torn, Unrequested, StockRequested, NoHash} \cap Inputs = {}
    /\ NoBinary # Torn /\ MaxCompiles \in Nat

VARIABLES
    renderer,         \* rendererTarget
    binaries,         \* on disk, for each hash: what they were compiled from
    records,          \* m_records: of each hash the field ok, or no record
    lastAppliedHash,
    requested,        \* for each slot the last request to the item
    leftOver,         \* history: hashes for which a shaderc that did not succeed left a file
    compiles

compiler == <<renderer, binaries, records, lastAppliedHash, requested, leftOver, compiles>>

CompilerTypeOK ==
    /\ renderer \in Renderers
    /\ binaries \in [Inputs -> Inputs \cup {NoBinary, Torn}]
    /\ records \in [Inputs -> {"none", "ok", "failed"}]
    /\ lastAppliedHash \in Inputs \cup {NoHash}
    /\ requested \in [SupportedSlots -> Inputs \cup {Unrequested, StockRequested}]
    /\ leftOver \subseteq Inputs /\ compiles \in 0 .. MaxCompiles

Started(r) ==
    /\ renderer' = r
    /\ records' = [hash \in Inputs |-> "none"]
    /\ lastAppliedHash' = NoHash
    /\ requested' = [slot \in SupportedSlots |-> Unrequested]

CompilerInit ==
    /\ renderer \in Renderers
    /\ binaries = [hash \in Inputs |-> NoBinary]
    /\ records = [hash \in Inputs |-> "none"]
    /\ lastAppliedHash = NoHash
    /\ requested = [slot \in SupportedSlots |-> Unrequested]
    /\ leftOver = {} /\ compiles = 0
-----------------------------------------------------------------------------
Called == compiles < MaxCompiles /\ compiles' = compiles + 1

(* What shaderc is given: type and file name follow from the slot,         *)
(* platform and profile from the renderer.                                 *)
Given(slot, source) == [slot |-> slot, source |-> source, renderer |-> renderer]

SourceHash(slot, source) ==    \* mutant: the hash leaves the renderer out
    [slot |-> slot, source |-> source, renderer |-> CHOOSE r \in Renderers : TRUE]

HashOf(slot, source) == [slot |-> slot, source |-> source, renderer |-> renderer]

(* shaderc is not under src: it exits with success and a whole binary or   *)
(* none, or it fails or runs out of time and leaves anything.              *)
Runs(slot, source) ==
    [exit : {"success"}, file : {NoBinary, Given(slot, source)}]
        \cup [exit : {"failure", "late"}, file : {NoBinary, Torn, Given(slot, source)}]

Leaves(hash, run) ==
    /\ binaries' = [binaries EXCEPT ![hash] = run.file]
    /\ leftOver' = IF run.exit # "success" /\ run.file # NoBinary
                   THEN leftOver \cup {hash} ELSE leftOver

(* compile, when the cache has a file.                                     *)
CompileCached(slot, source) ==
    LET hash == HashOf(slot, source)
    IN  /\ Called /\ binaries[hash] # NoBinary
        /\ records' = [records EXCEPT ![hash] = "ok"]
        /\ UNCHANGED <<renderer, binaries, lastAppliedHash, requested, leftOver>>

(* compile, when it has none.  After 30 s shaderc is killed, the caller    *)
(* gets an error, and no record is made.                                   *)
Compile(slot, source, run) ==
    LET hash == HashOf(slot, source)
    IN  /\ Called /\ binaries[hash] = NoBinary
        /\ Leaves(hash, run)
        /\ records' =
              IF run.exit = "late" THEN records
              ELSE [records EXCEPT ![hash] =
                      IF run.exit = "success" /\ run.file # NoBinary THEN "ok" ELSE "failed"]
        /\ UNCHANGED <<renderer, lastAppliedHash, requested>>

(* apply of what the service has compiled.  Without a viewport item        *)
(* nothing is asked.                                                            *)
Apply(hash) ==
    /\ Called /\ records[hash] = "ok"
    /\ requested' = [requested EXCEPT ![hash.slot] = hash]
    /\ lastAppliedHash' = hash
    /\ UNCHANGED <<renderer, binaries, records, leftOver>>

(* revert, which forgets the last applied hash whatever its slot.          *)
RevertSlot(slot) ==
    /\ Called
    /\ requested' = [requested EXCEPT ![slot] = StockRequested]
    /\ lastAppliedHash' = NoHash
    /\ UNCHANGED <<renderer, binaries, records, leftOver>>

(* The process ends and another starts.                                    *)
Restart(r) == Called /\ Started(r) /\ UNCHANGED <<binaries, leftOver>>

(* It dies in a compile, and shaderc lives on, or with it.                 *)
DieCompiling(slot, source, run, r) ==
    LET hash == HashOf(slot, source)
    IN  /\ Called /\ binaries[hash] = NoBinary
        /\ Leaves(hash, run)
        /\ Started(r)

CompilerNext ==
    \/ \E slot \in SupportedSlots, source \in Sources :
          \/ CompileCached(slot, source)
          \/ \E run \in Runs(slot, source) :
                \/ Compile(slot, source, run)
                \/ \E r \in Renderers : DieCompiling(slot, source, run, r)
    \/ \E hash \in Inputs : Apply(hash)
    \/ \E slot \in SupportedSlots : RevertSlot(slot)
    \/ \E r \in Renderers : Restart(r)
-----------------------------------------------------------------------------
(* What the item is asked to use in a slot is a whole binary, compiled for *)
(* that slot and the renderer that runs, whatever was compiled, restarted  *)
(* and reverted before; unless a shaderc that failed or was killed has     *)
(* left a file under its hash, which the next compile takes for good.  The *)
(* hash listed as last applied is the last request for its slot.           *)
BinariesMatch ==
    /\ \A slot \in SupportedSlots :
          LET hash == requested[slot] IN
          hash \in Inputs =>
              \/ binaries[hash] = [slot |-> slot, source |-> hash.source, renderer |-> renderer]
              \/ hash \in leftOver
    /\ lastAppliedHash # NoHash => requested[lastAppliedHash.slot] = lastAppliedHash
=============================================================================

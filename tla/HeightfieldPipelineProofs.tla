---------------------- MODULE HeightfieldPipelineProofs ----------------------
(***************************************************************************)
(* Theorems about HeightfieldPipeline, for every set of files, cache size  *)
(* and number of loads: the variables keep their types, requests keep      *)
(* their order, the last one is never lost, and uploads reach the screen   *)
(* in the order in which they were asked for; and about DiffuseTexture,    *)
(* which composes the pipeline with the picture on the map.                *)
(***************************************************************************)
EXTENDS DiffuseTexture, SequenceTheorems, TLAPS

USE DEF view, shown, queues, loader

(* What a load, a result and a map are made of.                            *)
LEMMA StampsNat == Stamps \subseteq Nat /\ 0 \in Stamps
  BY PipelineAssumption DEF Stamps

LEMMA HeadTail ==
    ASSUME NEW S, NEW q \in Seq(S), q # <<>>
    PROVE  /\ Len(q) \in Nat /\ Len(q) >= 1
           /\ Head(q) = q[1] /\ Head(q) \in S
           /\ Tail(q) \in Seq(S) /\ Len(Tail(q)) = Len(q) - 1
           /\ \A i \in 1 .. Len(q) - 1 : Tail(q)[i] = q[i + 1]
  OBVIOUS

LEMMA Appended ==
    ASSUME NEW S, NEW q \in Seq(S), NEW x \in S
    PROVE  /\ Append(q, x) \in Seq(S)
           /\ Len(q) \in Nat /\ Len(Append(q, x)) = Len(q) + 1
           /\ \A i \in 1 .. Len(q) : Append(q, x)[i] = q[i]
           /\ Append(q, x)[Len(q) + 1] = x
  OBVIOUS

(* The one-slot mailbox and what the worker holds are empty or a request.  *)
LEMMA Slot ==
    ASSUME NEW S
    PROVE  /\ <<>> \in AtMostOne(S)
           /\ \A x \in S : <<x>> \in AtMostOne(S) /\ <<x>> # <<>>
           /\ \A q \in AtMostOne(S) : q # <<>> =>
                Head(q) \in S /\ q[1] = Head(q) /\ q = <<Head(q)>>
  BY DEF AtMostOne

LEMMA EmptyIsSeq == ASSUME NEW S PROVE <<>> \in Seq(S)
  OBVIOUS

(* Stamps can be compared wherever they are kept.                          *)
LEMMA StampTypes ==
    ASSUME TypeOK
    PROVE  /\ loads \in Nat /\ taken \in Nat
           /\ \A i \in 1 .. Len(results) : results[i].stamp \in Nat
           /\ decoding # <<>> => decoding[1].stamp \in Nat
           /\ request # <<>> => request[1].stamp \in Nat
<1>1. loads \in Stamps /\ taken \in Stamps
  BY DEF TypeOK
<1>2. ASSUME NEW i \in 1 .. Len(results) PROVE results[i].stamp \in Stamps
  <2>1. results[i] \in Result
    BY DEF TypeOK
  <2>2. QED
    BY <2>1 DEF Result
<1>3. ASSUME NEW q \in AtMostOne(Request), q # <<>> PROVE q[1].stamp \in Stamps
  <2>1. q[1] \in Request
    BY <1>3, Slot
  <2>2. QED
    BY <2>1 DEF Request
<1>4. QED
  BY <1>1, <1>2, <1>3, StampsNat DEF TypeOK

LEMMA MapType ==
    ASSUME NEW r, r.path \in AnyPath, r.stamp \in Stamps,
           NEW how \in {"upload", "cache", "gpu"}
    PROVE  Map(r, how) \in Texture
  BY DEF Map, Texture

LEMMA NoMapType == NoMap \in Texture
  BY StampsNat DEF NoMap, Texture, AnyPath

(* A use of the cache leaves a sequence of paths.                          *)
LEMMA UsedType ==
    ASSUME NEW c \in Seq(AnyPath), NEW p \in AnyPath
    PROVE  Used(c, p) \in Seq(AnyPath)
<1>1. ASSUME NEW i \in 1 .. Len(c) PROVE Without(c, i) \in Seq(AnyPath)
  <2>1. SubSeq(c, 1, i - 1) \in Seq(AnyPath)
    OBVIOUS
  <2>2. SubSeq(c, i + 1, Len(c)) \in Seq(AnyPath)
    OBVIOUS
  <2>3. QED
    BY <2>1, <2>2 DEF Without
<1>2. CASE \E i \in 1 .. Len(c) : c[i] = p
  <2> DEFINE k == CHOOSE i \in 1 .. Len(c) : c[i] = p
  <2>1. k \in 1 .. Len(c)
    BY <1>2
  <2>2. Without(c, k) \in Seq(AnyPath)
    BY <1>1, <2>1
  <2>3. Used(c, p) = Append(Without(c, k), p)
    BY <1>2 DEF Used
  <2>4. QED
    BY <2>2, <2>3
<1>3. CASE ~ \E i \in 1 .. Len(c) : c[i] = p
  BY <1>3 DEF Used
<1>4. QED
  BY <1>2, <1>3

LEMMA PrunedType ==
    ASSUME NEW c \in Seq(AnyPath)
    PROVE  Pruned(c) \in Seq(AnyPath)
<1>1. CASE c = <<>>
  <2>1. Len(c) = 0 /\ ~(Len(c) >= MaxCache)
    BY <1>1, PipelineAssumption
  <2>2. QED
    BY <2>1 DEF Pruned
<1>2. CASE c # <<>>
  BY <1>2, HeadTail DEF Pruned
<1>3. QED
  BY <1>1, <1>2

LEMMA InitType == Init => TypeOK
<1> SUFFICES ASSUME Init PROVE TypeOK
  OBVIOUS
<1>1. NoPath \in AnyPath /\ 0 \in Stamps
  BY StampsNat DEF AnyPath
<1>2. QED
  BY <1>1, NoMapType, EmptyIsSeq, Slot DEF Init, TypeOK

LEMMA StepType == TypeOK /\ [Next]_vars => TypeOK'
<1> SUFFICES ASSUME TypeOK, [Next]_vars PROVE TypeOK'
  OBVIOUS
<1> USE DEF TypeOK
<1>1. ASSUME NEW p \in Paths, LoadHeightfield(p) PROVE TypeOK'
  <2>1. loads + 1 \in Stamps /\ p \in AnyPath
    BY <1>1, PipelineAssumption DEF LoadHeightfield, Stamps, AnyPath
  <2>2. QED
    BY <1>1, <2>1 DEF LoadHeightfield
<1>2. CASE ClearHeightfield
  <2>1. loads + 1 \in Stamps /\ NoPath \in AnyPath
    BY <1>2, PipelineAssumption DEF ClearHeightfield, Stamps, AnyPath
  <2>2. QED
    BY <1>2, <2>1, NoMapType, EmptyIsSeq, Slot DEF ClearHeightfield
<1>3. CASE LoadDiffuse
  BY <1>3 DEF LoadDiffuse
<1>4. CASE BeginUpdate
  BY <1>4 DEF BeginUpdate
<1>5. ASSUME NEW created \in BOOLEAN, TakeResult(created) PROVE TypeOK'
  <2> DEFINE r == Head(results)
  <2>1. r \in Result /\ Tail(results) \in Seq(Result)
    BY <1>5, HeadTail DEF TakeResult
  <2>2. r.path \in AnyPath /\ r.stamp \in Stamps
    BY <2>1 DEF Result
  <2>3. Used(cache, r.path) \in Seq(AnyPath)
    BY <2>2, UsedType
  <2>4. Map(r, "cache") \in Texture
    BY <2>2, MapType
  <2>5. QueuedLast(r) \in Seq(Result)
    BY <2>1, Appended DEF QueuedLast
  <2>6. OnlyDecode(r) \in AtMostOne(Result)
    BY <2>1, Slot DEF OnlyDecode
  <2>7. taken' = r.stamp /\ results' = Tail(results)
    BY <1>5 DEF TakeResult
  <2>8. cache' \in Seq(AnyPath)
    BY <1>5, <2>3 DEF TakeResult
  <2>9. dmap' \in Texture /\ ready' \in BOOLEAN
    BY <1>5, <2>4 DEF TakeResult
  <2>10. uploads' \in Seq(Result) /\ decodes' \in AtMostOne(Result)
    <3>1. uploads' \in {uploads, QueuedLast(r)} /\ decodes' \in {decodes, OnlyDecode(r)}
      BY <1>5 DEF TakeResult
    <3>2. QED
      BY <3>1, <2>5, <2>6
  <2>11. UNCHANGED <<view, request, worker, decoding, shouldStop, pc>>
    BY <1>5 DEF TakeResult
  <2>12. QED
    BY <2>1, <2>2, <2>7, <2>8, <2>9, <2>10, <2>11
<1>6. CASE NoMoreResults
  BY <1>6 DEF NoMoreResults
<1>7. CASE UploadTask
  <2>1. CASE uploads = <<>>
    BY <1>7, <2>1 DEF UploadTask
  <2>2. CASE uploads # <<>>
    <3> DEFINE r == Head(uploads)
    <3>1. r \in Result /\ Tail(uploads) \in Seq(Result)
      BY <2>2, HeadTail
    <3>2. Map(r, "upload") \in Texture /\ r.path \in AnyPath
      BY <3>1, MapType DEF Result
    <3>3. Used(Pruned(cache), r.path) \in Seq(AnyPath)
      BY <3>2, UsedType, PrunedType
    <3>4. QED
      BY <1>7, <2>2, <3>1, <3>2, <3>3 DEF UploadTask
  <2>3. QED
    BY <2>1, <2>2
<1>8. ASSUME NEW created \in BOOLEAN, DispatchDecode(created) PROVE TypeOK'
  <2>1. ASSUME decodes # <<>> PROVE Map(Head(decodes), "gpu") \in Texture
    <3>1. Head(decodes) \in Result
      BY <2>1, Slot
    <3>2. QED
      BY <3>1, MapType DEF Result
  <2>2. dmap' \in Texture /\ ready' \in BOOLEAN
    BY <1>8, <2>1 DEF DispatchDecode
  <2>3. decodes' \in AtMostOne(Result)
    BY <1>8, Slot DEF DispatchDecode
  <2>4. QED
    BY <1>8, <2>2, <2>3 DEF DispatchDecode
<1>9. CASE Reload
  <2> DEFINE r == [path |-> path, stamp |-> loads]
  <2>1. r \in Request
    BY DEF Request
  <2>2. <<r>> \in AtMostOne(Request)
    BY <2>1, Slot
  <2>3. request' \in AtMostOne(Request)
    <3>1. request' \in {request, <<r>>}
      BY <1>9 DEF Reload
    <3>2. QED
      BY <2>2, <3>1
  <2>4. /\ worker' \in {"none", "waiting", "decoding", "exited"}
        /\ worker' = "decoding" <=> worker = "decoding"
    BY <1>9 DEF Reload
  <2>5. autoFit' \in BOOLEAN /\ fitted' \in Stamps
    BY <1>9 DEF Reload, Texture
  <2>6. QED
    BY <1>9, <2>3, <2>4, <2>5 DEF Reload
<1>10. CASE WorkerTake
  BY <1>10, Slot DEF WorkerTake
<1>11. ASSUME NEW raw \in BOOLEAN, WorkerDecode(raw) PROVE TypeOK'
  <2> DEFINE r == Head(decoding)
             done == [path |-> r.path, stamp |-> r.stamp, raw |-> raw]
  <2>1. decoding # <<>>
    BY <1>11 DEF WorkerDecode
  <2>2. r \in Request
    BY <2>1, Slot
  <2>3. done \in Result
    BY <2>2 DEF Request, Result
  <2>4. PushedLast(done) \in Seq(Result)
    BY <2>3, Appended DEF PushedLast
  <2>5. results' \in Seq(Result)
    BY <1>11, <2>4 DEF WorkerDecode
  <2>6. QED
    BY <1>11, <2>5, Slot DEF WorkerDecode, KeepsRequest
<1>12. CASE WorkerExit
  BY <1>12 DEF WorkerExit, SeesStop
<1>13. CASE Stop
  BY <1>13 DEF Stop
<1>14. CASE Joined
  BY <1>14, NoMapType, EmptyIsSeq, Slot DEF Joined
<1>15. CASE UNCHANGED vars
  BY <1>15 DEF vars
<1>16. QED
  BY <1>1, <1>2, <1>3, <1>4, <1>5, <1>6, <1>7, <1>8, <1>9, <1>10, <1>11, <1>12,
     <1>13, <1>14, <1>15 DEF Next, Gui, Update, Worker

(* The mailbox holds at most one request and the worker one more.          *)
THEOREM TypeCorrect == Spec => []TypeOK
  BY InitType, StepType, PTL DEF Spec
-----------------------------------------------------------------------------
(* A result taken is the oldest, so what is behind it is no older.         *)
LEMMA TakeOrder ==
    ASSUME TypeOK, InRequestOrder, NEW created \in BOOLEAN, TakeResult(created)
    PROVE  InRequestOrder'
<1> USE DEF TypeOK, InRequestOrder
<1>1. /\ results # <<>> /\ results' = Tail(results)
      /\ taken' = Head(results).stamp
      /\ UNCHANGED <<loads, decoding, request>>
  BY DEF TakeResult
<1>2. /\ Len(results) \in Nat /\ Len(results) >= 1
      /\ Head(results) = results[1]
      /\ Len(results') = Len(results) - 1
      /\ \A i \in 1 .. Len(results') : results'[i] = results[i + 1]
  BY <1>1, HeadTail
<1>3. taken' = results[1].stamp /\ 1 \in 1 .. Len(results)
  BY <1>1, <1>2
<1>4. ASSUME NEW i \in 1 .. Len(results')
      PROVE  /\ i + 1 \in 1 .. Len(results) /\ results'[i] = results[i + 1]
             /\ taken' <= results'[i].stamp
  <2>1. i + 1 \in 1 .. Len(results) /\ results'[i] = results[i + 1]
    BY <1>2, SMT
  <2>2. \A j \in 1 .. Len(results) : results[1].stamp <= results[j].stamp
    BY <1>3
  <2> QED
    BY <1>3, <2>1, <2>2, Zenon
<1>5. taken' <= loads'
  BY <1>1, <1>3
<1>6. ASSUME NEW i \in 1 .. Len(results')
      PROVE  /\ taken' <= results'[i].stamp /\ results'[i].stamp <= loads'
             /\ decoding' # <<>> => results'[i].stamp <= decoding'[1].stamp
             /\ request' # <<>> => results'[i].stamp <= request'[1].stamp
  BY <1>1, <1>4
<1>7. ASSUME NEW i \in 1 .. Len(results'), NEW j \in i .. Len(results')
      PROVE  results'[i].stamp <= results'[j].stamp
  <2>1. j \in 1 .. Len(results')
    BY <1>2
  <2>2. i + 1 \in 1 .. Len(results) /\ j + 1 \in i + 1 .. Len(results)
    BY <1>2, <1>4
  <2>3. results'[i] = results[i + 1] /\ results'[j] = results[j + 1]
    BY <1>4, <2>1
  <2>4. QED
    BY <2>2, <2>3
<1>8. /\ decoding' # <<>> =>
           /\ taken' <= decoding'[1].stamp /\ decoding'[1].stamp <= loads'
           /\ request' # <<>> => decoding'[1].stamp <= request'[1].stamp
      /\ request' # <<>> => taken' <= request'[1].stamp /\ request'[1].stamp <= loads'
  BY <1>1, <1>3
<1>9. QED
  BY <1>5, <1>6, <1>7, <1>8

(* A result pushed is no older than those that wait.                       *)
LEMMA DecodeOrder ==
    ASSUME TypeOK, InRequestOrder, NEW raw \in BOOLEAN, WorkerDecode(raw)
    PROVE  InRequestOrder'
<1> USE DEF TypeOK, InRequestOrder
<1> DEFINE r == Head(decoding)
           done == [path |-> r.path, stamp |-> r.stamp, raw |-> raw]
<1>1. /\ decoding # <<>> /\ decoding' = <<>>
      /\ results' = Append(results, done)
      /\ UNCHANGED <<loads, taken, request>>
  BY DEF WorkerDecode, PushedLast, KeepsRequest
<1>2. r \in Request /\ decoding[1] = r
  BY <1>1, Slot
<1>3. done \in Result /\ done.stamp = decoding[1].stamp
  BY <1>2 DEF Request, Result
<1>4. /\ Len(results) \in Nat /\ Len(results') = Len(results) + 1
      /\ \A i \in 1 .. Len(results) : results'[i] = results[i]
      /\ results'[Len(results) + 1] = done
  BY <1>1, <1>3, Appended
<1>5. \A i \in 1 .. Len(results') :
        \/ i \in 1 .. Len(results) /\ results'[i] = results[i]
        \/ i = Len(results) + 1 /\ results'[i] = done
  BY <1>4
<1>6. ASSUME NEW i \in 1 .. Len(results')
      PROVE  /\ taken' <= results'[i].stamp /\ results'[i].stamp <= loads'
             /\ request' # <<>> => results'[i].stamp <= request'[1].stamp
  BY <1>1, <1>3, <1>5
<1>7. ASSUME NEW i \in 1 .. Len(results'), NEW j \in i .. Len(results')
      PROVE  results'[i].stamp <= results'[j].stamp
  <2>1. j \in 1 .. Len(results') /\ i <= j
    BY <1>4
  <2>2. CASE i = j
    <3>1. results'[i] \in Result
      BY <1>3, <1>5
    <3>2. results'[i].stamp \in Nat
      BY <3>1, StampsNat DEF Result
    <3>3. QED
      BY <2>2, <3>2
  <2>3. CASE i < j /\ j \in 1 .. Len(results)
    BY <1>4, <2>3
  <2>4. CASE i < j /\ j = Len(results) + 1
    <3>1. i \in 1 .. Len(results)
      BY <1>4, <2>4
    <3>2. QED
      BY <1>1, <1>3, <1>4, <2>4, <3>1
  <2>5. QED
    BY <1>5, <2>1, <2>2, <2>3, <2>4
<1>8. QED
  BY <1>1, <1>6, <1>7

LEMMA OrderStep == TypeOK /\ InRequestOrder /\ [Next]_vars => InRequestOrder'
<1> SUFFICES ASSUME TypeOK, InRequestOrder, [Next]_vars PROVE InRequestOrder'
  OBVIOUS
<1>1. ASSUME UNCHANGED <<taken, request, decoding, results>>, loads' \in {loads, loads + 1}
      PROVE  InRequestOrder'
  <2>1. loads <= loads'
    BY <1>1, StampTypes
  <2>2. QED
    BY <1>1, <2>1, StampTypes DEF InRequestOrder
<1>2. ASSUME NEW p \in Paths, LoadHeightfield(p) PROVE InRequestOrder'
  BY <1>1, <1>2 DEF LoadHeightfield
<1>3. CASE ClearHeightfield
  BY <1>1, <1>3 DEF ClearHeightfield
<1>4. CASE Reload
  <2> USE DEF TypeOK, InRequestOrder
  <2>1. /\ \/ request' = request
           \/ request' = <<[path |-> path, stamp |-> loads]>>
        /\ UNCHANGED <<loads, taken, decoding, results>>
    BY <1>4 DEF Reload
  <2>2. CASE request' = request
    BY <1>1, <2>1, <2>2
  <2>3. CASE request' = <<[path |-> path, stamp |-> loads]>>
    <3>1. request'[1].stamp = loads /\ loads \in Nat
      BY <2>3, StampsNat
    <3>2. QED
      BY <2>1, <3>1
  <2>4. QED
    BY <2>1, <2>2, <2>3
<1>5. CASE WorkerTake
  <2> USE DEF TypeOK, InRequestOrder
  <2>1. /\ decoding' = request /\ request # <<>> /\ request' = <<>>
        /\ UNCHANGED <<loads, taken, results>>
    BY <1>5 DEF WorkerTake
  <2>2. QED
    BY <2>1
<1>6. ASSUME NEW raw \in BOOLEAN, WorkerDecode(raw) PROVE InRequestOrder'
  BY <1>6, DecodeOrder
<1>7. ASSUME NEW created \in BOOLEAN, TakeResult(created) PROVE InRequestOrder'
  BY <1>7, TakeOrder
<1>8. ASSUME NEW created \in BOOLEAN, DispatchDecode(created) PROVE InRequestOrder'
  BY <1>1, <1>8 DEF DispatchDecode
<1>9. CASE LoadDiffuse \/ BeginUpdate \/ NoMoreResults \/ UploadTask
  BY <1>1, <1>9 DEF LoadDiffuse, BeginUpdate, NoMoreResults, UploadTask
<1>10. CASE WorkerExit \/ Stop \/ Joined \/ UNCHANGED vars
  BY <1>1, <1>10 DEF WorkerExit, Stop, Joined, vars
<1>11. QED
  BY <1>2, <1>3, <1>4, <1>5, <1>6, <1>7, <1>8, <1>9, <1>10
  DEF Next, Gui, Update, Worker

LEMMA InitOrder == Init => InRequestOrder
<1> SUFFICES ASSUME Init PROVE InRequestOrder
  OBVIOUS
<1>1. /\ taken = 0 /\ loads = 0 /\ Len(results) = 0
      /\ request = <<>> /\ decoding = <<>>
  BY DEF Init
<1>2. QED
  BY <1>1 DEF InRequestOrder

(* Nothing overtakes anything between the GUI and update().                *)
THEOREM OrderKept == Spec => []InRequestOrder
<1>1. Init => TypeOK /\ InRequestOrder
  BY InitType, InitOrder
<1>2. TypeOK /\ InRequestOrder /\ [Next]_vars => (TypeOK /\ InRequestOrder)'
  BY StepType, OrderStep
<1>3. QED
  BY <1>1, <1>2, PTL DEF Spec
-----------------------------------------------------------------------------
(* The steps that move a request on keep hold of the last one.             *)
LEMMA LatestStep ==
    TypeOK /\ InRequestOrder /\ LatestInFlight /\ [Next]_vars => LatestInFlight'
<1> SUFFICES ASSUME TypeOK, InRequestOrder, LatestInFlight, [Next]_vars PROVE LatestInFlight'
  OBVIOUS
<1>1. ASSUME UNCHANGED <<loads, needReload, taken, request, decoding, results>>,
             pc # "gone"
      PROVE  LatestInFlight'
  BY <1>1 DEF LatestInFlight
<1>2. ASSUME NEW p \in Paths, LoadHeightfield(p) PROVE LatestInFlight'
  BY <1>2 DEF LoadHeightfield, LatestInFlight
<1>3. CASE ClearHeightfield
  BY <1>3 DEF ClearHeightfield, LatestInFlight
<1>4. CASE Reload
  <2>1. CASE NeedsLoad
    <3>1. request' = <<[path |-> path, stamp |-> loads]>> /\ loads' = loads
      BY <1>4, <2>1 DEF Reload
    <3>2. request' # <<>> /\ request'[1].stamp = loads'
      BY <3>1
    <3>3. QED
      BY <3>2 DEF LatestInFlight
  <2>2. CASE ~NeedsLoad
    <3>1. UNCHANGED <<loads, taken, request, decoding, results>> /\ ~needReload
          /\ pc # "gone"
      BY <1>4, <2>2 DEF Reload, NeedsLoad
    <3>2. QED
      BY <3>1 DEF LatestInFlight
  <2>3. QED
    BY <2>1, <2>2
<1>5. CASE WorkerTake
  <2>1. /\ decoding' = request /\ request # <<>> /\ request' = <<>>
        /\ decoding = <<>>
        /\ UNCHANGED <<loads, needReload, taken, results, pc>>
    BY <1>5 DEF WorkerTake, TypeOK
  <2>2. QED
    BY <2>1 DEF LatestInFlight
<1>6. ASSUME NEW raw \in BOOLEAN, WorkerDecode(raw) PROVE LatestInFlight'
  <2> DEFINE r == Head(decoding)
             done == [path |-> r.path, stamp |-> r.stamp, raw |-> raw]
  <2>1. /\ decoding # <<>> /\ decoding' = <<>> /\ request' = request
        /\ results' = Append(results, done)
        /\ UNCHANGED <<loads, needReload, taken, pc>>
    <3>1. decoding # <<>> /\ decoding' = <<>>
      BY <1>6, Slot DEF WorkerDecode, TypeOK
    <3>2. request' = request /\ results' = Append(results, done)
      BY <1>6 DEF WorkerDecode, PushedLast, KeepsRequest
    <3>3. UNCHANGED <<view, queues, pc>>
      BY <1>6 DEF WorkerDecode
    <3>4. QED
      BY <3>1, <3>2, <3>3
  <2>2. r \in Request /\ decoding[1] = r
    BY <2>1, Slot DEF TypeOK
  <2>3. done \in Result /\ done.stamp = decoding[1].stamp
    BY <2>2 DEF Request, Result
  <2>4. /\ Len(results) \in Nat /\ Len(results') = Len(results) + 1
        /\ \A i \in 1 .. Len(results) : results'[i] = results[i]
        /\ results'[Len(results) + 1] = done
    BY <2>1, <2>3, Appended DEF TypeOK
  <2>5. ASSUME decoding[1].stamp = loads
        PROVE  \E i \in 1 .. Len(results') : results'[i].stamp = loads
    <3>1. Len(results) + 1 \in 1 .. Len(results')
      BY <2>4
    <3>2. QED
      BY <2>3, <2>4, <2>5, <3>1
  <2>6. ASSUME NEW i \in 1 .. Len(results), results[i].stamp = loads
        PROVE  \E j \in 1 .. Len(results') : results'[j].stamp = loads
    BY <2>4, <2>6
  <2>7. QED
    BY <2>1, <2>5, <2>6 DEF LatestInFlight
<1>7. ASSUME NEW created \in BOOLEAN, TakeResult(created) PROVE LatestInFlight'
  <2>1. /\ results # <<>> /\ results' = Tail(results)
        /\ taken' = Head(results).stamp /\ pc = "results"
        /\ UNCHANGED <<loads, needReload, decoding, request, pc>>
    BY <1>7 DEF TakeResult
  <2>2. /\ Len(results) \in Nat /\ Len(results) >= 1
        /\ Head(results) = results[1]
        /\ Len(results') = Len(results) - 1
        /\ \A i \in 1 .. Len(results') : results'[i] = results[i + 1]
    BY <2>1, HeadTail DEF TypeOK
  <2>3. ASSUME NEW i \in 1 .. Len(results), results[i].stamp = loads
        PROVE  loads = taken' \/ \E j \in 1 .. Len(results') : results'[j].stamp = loads
    <3>1. CASE i = 1
      BY <2>1, <2>2, <2>3, <3>1
    <3>2. CASE i # 1
      <4>1. i - 1 \in 1 .. Len(results') /\ (i - 1) + 1 = i
        BY <2>2, <3>2
      <4>2. QED
        BY <2>2, <2>3, <4>1
    <3>3. QED
      BY <3>1, <3>2
  <2>4. ASSUME loads = taken PROVE loads = taken'
    <3>1. taken <= results[1].stamp /\ results[1].stamp <= loads
      BY <2>2 DEF InRequestOrder
    <3>2. QED
      BY <2>1, <2>2, <2>4, <3>1, StampTypes
  <2>5. QED
    BY <2>1, <2>3, <2>4 DEF LatestInFlight
<1>8. ASSUME NEW created \in BOOLEAN, DispatchDecode(created) PROVE LatestInFlight'
  BY <1>1, <1>8 DEF DispatchDecode
<1>9. CASE LoadDiffuse \/ BeginUpdate \/ NoMoreResults \/ UploadTask \/ Stop
  BY <1>1, <1>9 DEF LoadDiffuse, BeginUpdate, NoMoreResults, UploadTask, Stop
<1>10. CASE WorkerExit \/ Joined \/ UNCHANGED vars
  BY <1>10 DEF WorkerExit, Joined, vars, LatestInFlight
<1>11. QED
  BY <1>2, <1>3, <1>4, <1>5, <1>6, <1>7, <1>8, <1>9, <1>10
  DEF Next, Gui, Update, Worker

(* The last load or clear is in the mailbox, with the worker, among the    *)
(* results or taken, from the update that posts it on.                     *)
THEOREM LatestKept == Spec => []LatestInFlight
<1>1. Init => TypeOK /\ InRequestOrder /\ LatestInFlight
  BY InitType, InitOrder DEF Init, LatestInFlight
<1>2. TypeOK /\ InRequestOrder /\ LatestInFlight /\ [Next]_vars
      => (TypeOK /\ InRequestOrder /\ LatestInFlight)'
  BY StepType, OrderStep, LatestStep
<1>3. QED
  BY <1>1, <1>2, PTL DEF Spec

(* Mailbox, worker and results keep the requests, in order, to the last.   *)
THEOREM RequestsReachUpdate == Spec => []RequestsKept
  BY TypeCorrect, OrderKept, LatestKept, PTL DEF RequestsKept
-----------------------------------------------------------------------------
(* The upload queue is in the order of the requests: newer than the map    *)
(* last uploaded, no newer than what was taken.                            *)
UploadInv ==
    /\ \A i \in 1 .. Len(uploads) :
         /\ uploads[i].stamp <= taken
         /\ dmap.from = "upload" => dmap.stamp <= uploads[i].stamp
         /\ \A j \in i .. Len(uploads) : uploads[i].stamp <= uploads[j].stamp
    /\ dmap.from = "upload" => dmap.stamp <= taken

LEMMA UploadTypes ==
    ASSUME TypeOK
    PROVE  /\ \A i \in 1 .. Len(uploads) : uploads[i].stamp \in Nat
           /\ dmap.stamp \in Nat
<1>1. ASSUME NEW i \in 1 .. Len(uploads) PROVE uploads[i].stamp \in Nat
  <2>1. uploads[i] \in Result
    BY DEF TypeOK
  <2>2. QED
    BY <2>1, StampsNat DEF Result
<1>2. dmap.stamp \in Nat
  BY StampsNat DEF TypeOK, Texture
<1>3. QED
  BY <1>1, <1>2

(* Only results are added to the queue, and the newest at its end.         *)
LEMMA TakeUploads ==
    ASSUME TypeOK, InRequestOrder, UploadInv,
           NEW created \in BOOLEAN, TakeResult(created)
    PROVE  UploadInv'
<1> DEFINE r == Head(results)
<1>1. /\ results # <<>> /\ taken' = r.stamp
      /\ uploads' \in {uploads, Append(uploads, r)}
      /\ \/ dmap' = dmap
         \/ dmap' = Map(r, "cache")
  BY DEF TakeResult, QueuedLast
<1>2. r \in Result /\ r = results[1] /\ 1 \in 1 .. Len(results)
  BY <1>1, HeadTail DEF TypeOK
<1>3. taken <= taken' /\ taken' \in Nat /\ taken \in Nat
  BY <1>1, <1>2, StampTypes DEF InRequestOrder
<1>4. dmap'.from = "upload" => dmap' = dmap
  BY <1>1 DEF Map
<1>5. dmap'.from = "upload" => dmap'.stamp <= taken'
  BY <1>3, <1>4, UploadTypes DEF UploadInv
<1>6. CASE uploads' = uploads
  BY <1>3, <1>4, <1>5, <1>6, UploadTypes DEF UploadInv
<1>7. CASE uploads' = Append(uploads, r)
  <2>1. /\ Len(uploads) \in Nat /\ Len(uploads') = Len(uploads) + 1
        /\ \A i \in 1 .. Len(uploads) : uploads'[i] = uploads[i]
        /\ uploads'[Len(uploads) + 1].stamp = taken'
    BY <1>1, <1>2, <1>7, Appended DEF TypeOK
  <2>2. ASSUME NEW i \in 1 .. Len(uploads')
        PROVE  /\ uploads'[i].stamp \in Nat
               /\ uploads'[i].stamp <= taken'
               /\ dmap'.from = "upload" => dmap'.stamp <= uploads'[i].stamp
    <3>1. CASE i = Len(uploads) + 1
      BY <1>3, <1>5, <2>1, <3>1
    <3>2. CASE i \in 1 .. Len(uploads)
      BY <1>3, <1>4, <2>1, <3>2, UploadTypes DEF UploadInv
    <3>3. QED
      BY <2>1, <3>1, <3>2
  <2>3. ASSUME NEW i \in 1 .. Len(uploads'), NEW j \in i .. Len(uploads')
        PROVE  uploads'[i].stamp <= uploads'[j].stamp
    <3>1. CASE j = Len(uploads) + 1
      BY <2>1, <2>2, <3>1
    <3>2. CASE j \in i .. Len(uploads)
      <4>1. i \in 1 .. Len(uploads) /\ j \in 1 .. Len(uploads)
        BY <2>1, <3>2
      <4>2. QED
        BY <2>1, <3>2, <4>1 DEF UploadInv
    <3>3. QED
      BY <2>1, <3>1, <3>2
  <2>4. QED
    BY <1>5, <2>2, <2>3 DEF UploadInv
<1>8. QED
  BY <1>1, <1>6, <1>7

(* The oldest task is uploaded, and is newer than the map it replaces.     *)
LEMMA TaskUploads ==
    ASSUME TypeOK, UploadInv, UploadTask
    PROVE  /\ UploadInv'
           /\ dmap.from = "upload" /\ dmap'.from = "upload" => dmap.stamp <= dmap'.stamp
<1>1. CASE uploads = <<>>
  <2>1. UNCHANGED <<uploads, dmap, taken>>
    BY <1>1 DEF UploadTask
  <2>2. QED
    BY <2>1, UploadTypes DEF UploadInv
<1>2. CASE uploads # <<>>
  <2>1. /\ uploads' = Tail(uploads) /\ taken' = taken
        /\ dmap'.stamp = Head(uploads).stamp
    BY <1>2 DEF UploadTask, Map
  <2>2. /\ Len(uploads) \in Nat /\ Len(uploads) >= 1
        /\ Head(uploads) = uploads[1]
        /\ Len(uploads') = Len(uploads) - 1
        /\ \A i \in 1 .. Len(uploads') : uploads'[i] = uploads[i + 1]
    BY <1>2, <2>1, HeadTail DEF TypeOK
  <2>3. 1 \in 1 .. Len(uploads) /\ dmap'.stamp = uploads[1].stamp
    BY <2>1, <2>2
  <2>4. ASSUME NEW i \in 1 .. Len(uploads')
        PROVE  /\ uploads'[i].stamp <= taken'
               /\ dmap'.stamp <= uploads'[i].stamp
    <3>1. i + 1 \in 1 .. Len(uploads) /\ uploads'[i] = uploads[i + 1]
      BY <2>2
    <3>2. QED
      BY <2>1, <2>3, <3>1 DEF UploadInv
  <2>5. ASSUME NEW i \in 1 .. Len(uploads'), NEW j \in i .. Len(uploads')
        PROVE  uploads'[i].stamp <= uploads'[j].stamp
    <3>1. j \in 1 .. Len(uploads')
      BY <2>2
    <3>2. i + 1 \in 1 .. Len(uploads) /\ j + 1 \in i + 1 .. Len(uploads)
      BY <2>2
    <3>3. uploads'[i] = uploads[i + 1] /\ uploads'[j] = uploads[j + 1]
      BY <2>2, <3>1
    <3>4. QED
      BY <3>2, <3>3 DEF UploadInv
  <2>6. dmap'.stamp <= taken'
    BY <2>1, <2>3 DEF UploadInv
  <2>7. QED
    BY <2>3, <2>4, <2>5, <2>6 DEF UploadInv
<1>3. QED
  BY <1>1, <1>2

LEMMA UploadStep ==
    TypeOK /\ InRequestOrder /\ UploadInv /\ [Next]_vars
    => /\ UploadInv'
       /\ dmap.from = "upload" /\ dmap'.from = "upload" => dmap.stamp <= dmap'.stamp
<1> SUFFICES ASSUME TypeOK, InRequestOrder, UploadInv, [Next]_vars
             PROVE  /\ UploadInv'
                    /\ dmap.from = "upload" /\ dmap'.from = "upload"
                       => dmap.stamp <= dmap'.stamp
  OBVIOUS
<1> DEFINE Goal == /\ UploadInv'
                   /\ dmap.from = "upload" /\ dmap'.from = "upload"
                      => dmap.stamp <= dmap'.stamp
<1>1. ASSUME UNCHANGED <<uploads, taken>>, dmap' = dmap \/ dmap'.from # "upload"
      PROVE  Goal
  BY <1>1, UploadTypes DEF UploadInv
<1>2. ASSUME NEW p \in Paths, LoadHeightfield(p) PROVE Goal
  BY <1>1, <1>2 DEF LoadHeightfield
<1>3. CASE ClearHeightfield
  <2>1. Len(uploads') = 0 /\ dmap'.from # "upload"
    BY <1>3 DEF ClearHeightfield, NoMap
  <2>2. QED
    BY <2>1 DEF UploadInv
<1>4. ASSUME NEW created \in BOOLEAN, TakeResult(created) PROVE Goal
  <2>1. dmap' = dmap \/ dmap'.from = "cache"
    BY <1>4 DEF TakeResult, Map
  <2>2. QED
    BY <1>4, <2>1, TakeUploads, UploadTypes
<1>5. CASE UploadTask
  BY <1>5, TaskUploads
<1>6. ASSUME NEW created \in BOOLEAN, DispatchDecode(created) PROVE Goal
  <2>1. dmap' = dmap \/ dmap'.from = "gpu"
    BY <1>6 DEF DispatchDecode, Map
  <2>2. UNCHANGED <<uploads, taken>>
    BY <1>6 DEF DispatchDecode
  <2>3. QED
    BY <1>1, <2>1, <2>2
<1>7. CASE Joined
  BY <1>1, <1>7 DEF Joined, NoMap
<1>8. CASE \/ LoadDiffuse \/ BeginUpdate \/ NoMoreResults \/ Reload
           \/ WorkerTake \/ (\E raw \in BOOLEAN : WorkerDecode(raw))
           \/ WorkerExit \/ Stop \/ UNCHANGED vars
  BY <1>1, <1>8 DEF LoadDiffuse, BeginUpdate, NoMoreResults, Reload, WorkerTake,
     WorkerDecode, WorkerExit, Stop, vars
<1>9. QED
  BY <1>2, <1>3, <1>4, <1>5, <1>6, <1>7, <1>8 DEF Next, Gui, Update, Worker

(* Uploads reach the screen in the order in which they were asked for.     *)
THEOREM UploadsOrdered == Spec => UploadsInOrder
<1> DEFINE A == dmap.from = "upload" /\ dmap'.from = "upload" => dmap.stamp <= dmap'.stamp
<1>1. Init => UploadInv
  <2> SUFFICES ASSUME Init PROVE UploadInv
    OBVIOUS
  <2>1. Len(uploads) = 0 /\ dmap.from # "upload"
    BY DEF Init, NoMap
  <2>2. QED
    BY <2>1 DEF UploadInv
<1>2. Init => TypeOK /\ InRequestOrder /\ UploadInv
  BY <1>1, InitType, InitOrder
<1>3. TypeOK /\ InRequestOrder /\ UploadInv /\ [Next]_vars
      => (TypeOK /\ InRequestOrder /\ UploadInv)'
  BY StepType, OrderStep, UploadStep
<1>4. TypeOK /\ InRequestOrder /\ UploadInv /\ [Next]_vars => [A]_vars
  BY UploadStep
<1>5. QED
  BY <1>2, <1>3, <1>4, PTL DEF Spec, UploadsInOrder
-----------------------------------------------------------------------------
(* Nothing that is shown, or is about to be, is newer than what was taken. *)
TakenInv ==
    /\ dmap.stamp <= taken
    /\ decodes # <<>> => Head(decodes).stamp <= taken

LEMMA DecodeTypes ==
    ASSUME TypeOK, decodes # <<>>
    PROVE  Head(decodes).stamp \in Nat
<1>1. Head(decodes) \in Result
  BY Slot DEF TypeOK
<1>2. QED
  BY <1>1, StampsNat DEF Result

(* What is taken next is no older than what was taken before.              *)
LEMMA TakeForward ==
    ASSUME TypeOK, InRequestOrder, NEW created \in BOOLEAN, TakeResult(created)
    PROVE  taken <= taken' /\ taken' \in Nat /\ taken' = Head(results).stamp
<1>1. results # <<>> /\ taken' = Head(results).stamp
  BY DEF TakeResult
<1>2. Head(results) = results[1] /\ 1 \in 1 .. Len(results)
  BY <1>1, HeadTail DEF TypeOK
<1>3. QED
  BY <1>1, <1>2, StampTypes DEF InRequestOrder

LEMMA TakenStep ==
    TypeOK /\ InRequestOrder /\ UploadInv /\ TakenInv /\ [Next]_vars
    => /\ TakenInv'
       /\ dmap' # dmap /\ dmap'.from = "cache" => dmap.stamp <= dmap'.stamp
<1> SUFFICES ASSUME TypeOK, InRequestOrder, UploadInv, TakenInv, [Next]_vars
             PROVE  /\ TakenInv'
                    /\ dmap' # dmap /\ dmap'.from = "cache" => dmap.stamp <= dmap'.stamp
  OBVIOUS
<1> DEFINE Goal == /\ TakenInv'
                   /\ dmap' # dmap /\ dmap'.from = "cache" => dmap.stamp <= dmap'.stamp
<1>0. NoMap.stamp = 0 /\ NoMap.from = "none" /\ taken \in Nat /\ dmap.stamp \in Nat
  BY StampTypes, UploadTypes DEF NoMap
<1>1. ASSUME UNCHANGED taken, dmap' = dmap \/ dmap' = NoMap, decodes' = decodes \/ decodes' = <<>>
      PROVE  Goal
  BY <1>0, <1>1 DEF TakenInv
<1>2. ASSUME NEW p \in Paths, LoadHeightfield(p) PROVE Goal
  BY <1>1, <1>2 DEF LoadHeightfield
<1>3. CASE ClearHeightfield
  BY <1>1, <1>3 DEF ClearHeightfield
<1>4. ASSUME NEW created \in BOOLEAN, TakeResult(created) PROVE Goal
  <2>1. taken <= taken' /\ taken' \in Nat /\ taken' = Head(results).stamp
    BY <1>4, TakeForward
  <2>2. dmap' = dmap \/ dmap'.stamp = taken'
    BY <1>4, <2>1 DEF TakeResult, Map
  <2>3. decodes' = decodes \/ (decodes' = <<Head(results)>> /\ Head(decodes') = Head(results))
    BY <1>4 DEF TakeResult, OnlyDecode
  <2>4. decodes' # <<>> => Head(decodes').stamp <= taken'
    BY <1>0, <2>1, <2>3, DecodeTypes DEF TakenInv
  <2>5. QED
    BY <1>0, <2>1, <2>2, <2>4 DEF TakenInv
<1>5. CASE UploadTask
  <2>1. UNCHANGED <<taken, decodes>>
    BY <1>5 DEF UploadTask
  <2>2. dmap' = dmap \/ (dmap'.from = "upload" /\ dmap'.stamp = Head(uploads).stamp /\ uploads # <<>>)
    BY <1>5 DEF UploadTask, Map
  <2>3. uploads # <<>> => Head(uploads) = uploads[1] /\ 1 \in 1 .. Len(uploads)
    BY HeadTail DEF TypeOK
  <2>4. dmap'.stamp <= taken
    BY <1>0, <2>2, <2>3, UploadTypes DEF UploadInv, TakenInv
  <2>5. QED
    BY <2>1, <2>2, <2>4 DEF TakenInv
<1>6. ASSUME NEW created \in BOOLEAN, DispatchDecode(created) PROVE Goal
  <2>1. UNCHANGED taken /\ decodes' = <<>>
    BY <1>6 DEF DispatchDecode
  <2>2. \/ dmap' = dmap
        \/ decodes # <<>> /\ dmap'.from = "gpu" /\ dmap'.stamp = Head(decodes).stamp
    BY <1>6 DEF DispatchDecode, Map
  <2>3. QED
    BY <2>1, <2>2 DEF TakenInv
<1>7. CASE Joined
  BY <1>1, <1>7 DEF Joined
<1>8. CASE \/ LoadDiffuse \/ BeginUpdate \/ NoMoreResults \/ Reload
           \/ WorkerTake \/ (\E raw \in BOOLEAN : WorkerDecode(raw))
           \/ WorkerExit \/ Stop \/ UNCHANGED vars
  BY <1>1, <1>8 DEF LoadDiffuse, BeginUpdate, NoMoreResults, Reload, WorkerTake,
     WorkerDecode, WorkerExit, Stop, vars
<1>9. QED
  BY <1>2, <1>3, <1>4, <1>5, <1>6, <1>7, <1>8 DEF Next, Gui, Update, Worker

(* A map from the cache never replaces a newer one.                        *)
THEOREM RestoredForward == Spec => RestoresForward
<1> DEFINE A == dmap' # dmap /\ dmap'.from = "cache" => dmap.stamp <= dmap'.stamp
<1>1. Init => UploadInv /\ TakenInv
  <2> SUFFICES ASSUME Init PROVE UploadInv /\ TakenInv
    OBVIOUS
  <2>1. Len(uploads) = 0 /\ dmap.from # "upload" /\ dmap.stamp = 0 /\ taken = 0 /\ decodes = <<>>
    BY DEF Init, NoMap
  <2>2. QED
    BY <2>1 DEF UploadInv, TakenInv
<1>2. Init => TypeOK /\ InRequestOrder /\ UploadInv /\ TakenInv
  BY <1>1, InitType, InitOrder
<1>3. TypeOK /\ InRequestOrder /\ UploadInv /\ TakenInv /\ [Next]_vars
      => (TypeOK /\ InRequestOrder /\ UploadInv /\ TakenInv)'
  BY StepType, OrderStep, UploadStep, TakenStep
<1>4. TypeOK /\ InRequestOrder /\ UploadInv /\ TakenInv /\ [Next]_vars => [A]_vars
  BY TakenStep
<1>5. QED
  BY <1>2, <1>3, <1>4, PTL DEF Spec, RestoresForward

(* For any files, cache and number of loads, the map shown goes back to an *)
(* older one only when the upload queue or a decode catches up with a      *)
(* newer one that had overtaken it.                                        *)
THEOREM MapsAlwaysInOrder == Spec => MapsInOrder
  BY UploadsOrdered, RestoredForward, PTL DEF MapsInOrder
-----------------------------------------------------------------------------
(* The cache as a sequence: a use adds at most one entry and loses none.   *)
LEMMA WithoutOne ==
    ASSUME NEW c \in Seq(AnyPath), NEW k \in 1 .. Len(c)
    PROVE  /\ Without(c, k) \in Seq(AnyPath) /\ Len(Without(c, k)) = Len(c) - 1
           /\ \A i \in 1 .. Len(c) - 1 : Without(c, k)[i] = IF i < k THEN c[i] ELSE c[i + 1]
<1> DEFINE a == SubSeq(c, 1, k - 1)
           b == SubSeq(c, k + 1, Len(c))
<1>0. Len(c) \in Nat /\ k \in Nat /\ 1 <= k /\ k <= Len(c) /\ \A i \in 1 .. Len(c) : c[i] \in AnyPath
  OBVIOUS
<1>1. a \in Seq(AnyPath) /\ Len(a) = k - 1 /\ \A i \in 1 .. k - 1 : a[i] = c[i]
  <2>1. \A i \in 1 .. k - 1 : c[i] \in AnyPath
    BY <1>0
  <2>2. /\ a \in Seq(AnyPath) /\ Len(a) = IF 1 <= k - 1 THEN k - 1 - 1 + 1 ELSE 0
        /\ \A i \in 1 .. k - 1 - 1 + 1 : a[i] = c[1 + i - 1]
    BY <1>0, <2>1, SubSeqProperties
  <2>3. QED
    BY <1>0, <2>2
<1>2. b \in Seq(AnyPath) /\ Len(b) = Len(c) - k /\ \A i \in 1 .. Len(c) - k : b[i] = c[k + i]
  <2>1. \A i \in k + 1 .. Len(c) : c[i] \in AnyPath
    BY <1>0
  <2>2. /\ b \in Seq(AnyPath)
        /\ Len(b) = IF k + 1 <= Len(c) THEN Len(c) - (k + 1) + 1 ELSE 0
        /\ \A i \in 1 .. Len(c) - (k + 1) + 1 : b[i] = c[k + 1 + i - 1]
    BY <1>0, <2>1, SubSeqProperties
  <2>3. QED
    BY <1>0, <2>2
<1> HIDE DEF a, b
<1>3. /\ a \o b \in Seq(AnyPath) /\ Len(a \o b) = Len(a) + Len(b)
      /\ \A i \in 1 .. Len(a) + Len(b) : (a \o b)[i] = IF i <= Len(a) THEN a[i] ELSE b[i - Len(a)]
  BY <1>1, <1>2, ConcatProperties
<1>4. ASSUME NEW i \in 1 .. Len(c) - 1
      PROVE  (a \o b)[i] = IF i < k THEN c[i] ELSE c[i + 1]
  <2>1. CASE i < k
    BY <1>0, <1>1, <1>2, <1>3, <2>1
  <2>2. CASE ~(i < k)
    <3>0. i \in Int /\ i >= k
      BY <1>0, <2>2
    <3>1. i - (k - 1) \in 1 .. Len(c) - k /\ k + (i - (k - 1)) = i + 1
      BY <1>0, <3>0
    <3>2. (a \o b)[i] = b[i - (k - 1)]
      BY <1>0, <1>1, <1>2, <1>3, <3>0
    <3>3. QED
      BY <1>0, <1>2, <2>2, <3>1, <3>2
  <2>3. QED
    BY <2>1, <2>2
<1>5. Without(c, k) = a \o b
  BY DEF Without, a, b
<1>6. Len(a \o b) = Len(c) - 1
  BY <1>0, <1>1, <1>2, <1>3
<1>7. QED
  BY <1>3, <1>4, <1>5, <1>6

LEMMA UsedKeeps ==
    ASSUME NEW c \in Seq(AnyPath), NEW p \in AnyPath
    PROVE  /\ Len(Used(c, p)) \in Nat
           /\ Len(Used(c, p)) <= Len(c) + 1
           /\ (\E i \in 1 .. Len(c) : c[i] = p) => Len(Used(c, p)) = Len(c)
           /\ \A i \in 1 .. Len(c) : \E j \in 1 .. Len(Used(c, p)) : Used(c, p)[j] = c[i]
<1>1. CASE \E i \in 1 .. Len(c) : c[i] = p
  <2> DEFINE k == CHOOSE i \in 1 .. Len(c) : c[i] = p
             w == Without(c, k)
  <2>1. k \in 1 .. Len(c) /\ c[k] = p
    BY <1>1
  <2>2. Used(c, p) = Append(w, p)
    BY <1>1 DEF Used
  <2> HIDE DEF k
  <2>3. /\ w \in Seq(AnyPath) /\ Len(w) = Len(c) - 1
        /\ \A i \in 1 .. Len(c) - 1 : w[i] = IF i < k THEN c[i] ELSE c[i + 1]
    BY <2>1, WithoutOne
  <2> HIDE DEF w
  <2>4. /\ Len(Append(w, p)) = Len(c) /\ Append(w, p)[Len(c)] = p
        /\ \A i \in 1 .. Len(c) - 1 : Append(w, p)[i] = w[i]
    BY <2>3, Appended
  <2>5. ASSUME NEW i \in 1 .. Len(c)
        PROVE  \E j \in 1 .. Len(c) : Append(w, p)[j] = c[i]
    <3>1. CASE i = k
      BY <2>1, <2>4, <3>1
    <3>2. CASE i < k
      <4>1. i \in 1 .. Len(c) - 1
        BY <2>1, <3>2
      <4>2. QED
        BY <2>3, <2>4, <3>2, <4>1
    <3>3. CASE ~(i < k) /\ i # k
      <4>1. i - 1 \in 1 .. Len(c) - 1 /\ ~(i - 1 < k) /\ (i - 1) + 1 = i
        BY <2>1, <3>3
      <4>2. w[i - 1] = c[i]
        BY <2>3, <4>1
      <4>3. QED
        BY <2>4, <4>1, <4>2
    <3>4. QED
      BY <3>1, <3>2, <3>3
  <2>6. Len(c) \in Nat /\ Len(Used(c, p)) = Len(c)
    BY <2>2, <2>4
  <2>7. \A i \in 1 .. Len(c) : \E j \in 1 .. Len(Used(c, p)) : Used(c, p)[j] = c[i]
    BY <2>2, <2>5, <2>6
  <2>8. QED
    BY <2>6, <2>7
<1>2. CASE ~ \E i \in 1 .. Len(c) : c[i] = p
  <2>1. Used(c, p) = Append(c, p)
    BY <1>2 DEF Used
  <2>2. QED
    BY <1>2, <2>1, Appended
<1>3. QED
  BY <1>1, <1>2

LEMMA CacheStep == TypeOK /\ CacheBounded /\ [Next]_vars => CacheBounded'
<1> SUFFICES ASSUME TypeOK, CacheBounded, [Next]_vars PROVE CacheBounded'
  OBVIOUS
<1>0. cache \in Seq(AnyPath) /\ Len(cache) \in Nat /\ MaxCache \in Nat /\ MaxCache >= 1
  BY PipelineAssumption DEF TypeOK
<1>1. ASSUME UNCHANGED cache PROVE CacheBounded'
  BY <1>1 DEF CacheBounded, Cached
<1>2. ASSUME NEW created \in BOOLEAN, TakeResult(created) PROVE CacheBounded'
  <2>1. CASE ~ Cached(Head(results).path)
    BY <1>1, <1>2, <2>1 DEF TakeResult
  <2>2. CASE Cached(Head(results).path)
    <3>1. Head(results) \in Result
      BY <1>2, HeadTail DEF TakeResult, TypeOK
    <3>2. Head(results).path \in AnyPath /\ cache' = Used(cache, Head(results).path)
      BY <1>2, <2>2, <3>1 DEF TakeResult, Result
    <3>3. /\ Len(cache') = Len(cache)
          /\ \A i \in 1 .. Len(cache) : \E j \in 1 .. Len(cache') : cache'[j] = cache[i]
      BY <1>0, <2>2, <3>2, UsedKeeps DEF Cached
    <3>4. QED
      BY <3>3 DEF CacheBounded, Cached
  <2>3. QED
    BY <2>1, <2>2
<1>3. CASE UploadTask
  <2>1. CASE uploads = <<>>
    BY <1>1, <1>3, <2>1 DEF UploadTask
  <2>2. CASE uploads # <<>>
    <3> DEFINE p == Head(uploads).path
               c == Pruned(cache)
    <3>0. Head(uploads) \in Result
      BY <2>2, HeadTail DEF TypeOK
    <3>1. p \in AnyPath /\ cache' = Used(c, p) /\ c \in Seq(AnyPath)
      BY <1>0, <1>3, <2>2, <3>0, PrunedType DEF UploadTask, Result
    <3>2. \/ c = cache /\ (Len(cache) < MaxCache \/ Head(cache) = NoPath)
          \/ c = Tail(cache) /\ Len(cache) >= MaxCache /\ Head(cache) # NoPath
      BY <1>0 DEF Pruned
    <3> HIDE DEF p, c
    <3>3. /\ Len(cache') \in Nat /\ Len(cache') <= Len(c) + 1
          /\ \A i \in 1 .. Len(c) : \E j \in 1 .. Len(cache') : cache'[j] = c[i]
      BY <3>1, UsedKeeps
    <3>4. CASE c = cache /\ Len(cache) < MaxCache
      BY <1>0, <3>3, <3>4 DEF CacheBounded
    <3>5. CASE c = cache /\ ~(Len(cache) < MaxCache) /\ Head(cache) = NoPath
      <4>1. cache # <<>>
        BY <1>0, <3>5
      <4>2. 1 \in 1 .. Len(cache) /\ cache[1] = NoPath
        BY <1>0, <3>5, <4>1, HeadTail
      <4>3. QED
        BY <3>3, <3>5, <4>2 DEF CacheBounded, Cached
    <3>6. CASE c = Tail(cache) /\ Len(cache) >= MaxCache /\ Head(cache) # NoPath
      <4>1. cache # <<>>
        BY <1>0, <3>6
      <4>2. /\ Len(c) = Len(cache) - 1 /\ cache[1] # NoPath
            /\ \A i \in 1 .. Len(cache) - 1 : c[i] = cache[i + 1]
        BY <1>0, <3>6, <4>1, HeadTail
      <4>3. CASE Len(cache) <= MaxCache
        BY <1>0, <3>3, <4>2, <4>3 DEF CacheBounded
      <4>4. CASE Cached(NoPath)
        <5>1. PICK i \in 1 .. Len(cache) : cache[i] = NoPath
          BY <4>4 DEF Cached
        <5>2. i - 1 \in 1 .. Len(cache) - 1 /\ (i - 1) + 1 = i
          BY <1>0, <4>2, <5>1
        <5>3. c[i - 1] = NoPath
          BY <4>2, <5>1, <5>2
        <5>4. QED
          BY <3>3, <4>2, <5>2, <5>3 DEF CacheBounded, Cached
      <4>5. QED
        BY <4>3, <4>4 DEF CacheBounded
    <3>7. QED
      BY <3>2, <3>4, <3>5, <3>6
  <2>3. QED
    BY <2>1, <2>2
<1>4. CASE Joined
  <2>1. cache' = <<>> /\ Len(cache') = 0
    BY <1>4 DEF Joined
  <2>2. QED
    BY <1>0, <2>1 DEF CacheBounded
<1>5. CASE \/ (\E p \in Paths : LoadHeightfield(p)) \/ ClearHeightfield
           \/ LoadDiffuse \/ BeginUpdate \/ NoMoreResults \/ Reload
           \/ (\E created \in BOOLEAN : DispatchDecode(created))
           \/ WorkerTake \/ (\E raw \in BOOLEAN : WorkerDecode(raw))
           \/ WorkerExit \/ Stop \/ UNCHANGED vars
  BY <1>1, <1>5 DEF LoadHeightfield, ClearHeightfield, LoadDiffuse, BeginUpdate, NoMoreResults,
     Reload, DispatchDecode, WorkerTake, WorkerDecode, WorkerExit, Stop, vars
<1>6. QED
  BY <1>2, <1>3, <1>4, <1>5 DEF Next, Gui, Update, Worker

(* For any cache size: the cache holds no more maps than that, unless the  *)
(* map of the empty path is among them.                                    *)
THEOREM CacheAlwaysBounded == Spec => []CacheBounded
<1>1. Init => TypeOK /\ CacheBounded
  <2> SUFFICES ASSUME Init PROVE CacheBounded
    BY InitType
  <2>1. Len(cache) = 0
    BY DEF Init
  <2>2. QED
    BY <2>1, PipelineAssumption DEF CacheBounded
<1>2. TypeOK /\ CacheBounded /\ [Next]_vars => (TypeOK /\ CacheBounded)'
  BY StepType, CacheStep
<1>3. QED
  BY <1>1, <1>2, PTL DEF Spec
-----------------------------------------------------------------------------
(***************************************************************************)
(* The picture on the map                                                  *)
(***************************************************************************)

(* Every step of the composition is a step of the pipeline.                *)
LEMMA PictureSteps == [PictureNext]_<<vars, pictureVars>> => [Next]_vars
  <1> SUFFICES ASSUME [PictureNext]_<<vars, pictureVars>> PROVE [Next]_vars
    OBVIOUS
  <1>1. CASE UNCHANGED <<vars, pictureVars>>
    BY <1>1
  <1>2. ASSUME AsksForReload PROVE [Next]_vars
    BY <1>2 DEF AsksForReload, Next, Gui
  <1>3. ASSUME NEW p \in Pictures, LoadDiffuseFromFile(p) PROVE [Next]_vars
    BY <1>2, <1>3 DEF LoadDiffuseFromFile
  <1>4. CASE ClearDiffuse
    BY <1>2, <1>4 DEF ClearDiffuse
  <1>5. CASE ClearMap
    BY <1>5 DEF ClearMap, Next, Gui
  <1>6. ASSUME NEW created \in BOOLEAN, Restore(created) \/ DecodeMap(created)
        PROVE  [Next]_vars
    BY <1>6 DEF Restore, DecodeMap, Next, Update
  <1>7. CASE UploadMap \/ LoadTextures \/ Destroyed
    BY <1>7 DEF UploadMap, LoadTextures, Destroyed, Next, Update
  <1>8. CASE (\E p \in Paths : LoadHeightfield(p)) \/ BeginUpdate \/ NoMoreResults
             \/ Worker \/ Stop
    BY <1>8 DEF Next, Gui, Update
  <1> QED
    BY <1>1, <1>3, <1>4, <1>5, <1>6, <1>7, <1>8 DEF PictureNext

(* DiffuseTexture takes nothing away from the pipeline and adds nothing to *)
(* it: all that is proved of the one is true in the other.                 *)
THEOREM PipelineInside == PictureSpec => Spec
  <1>1. PictureInit => Init
    BY DEF PictureInit
  <1> QED
    BY <1>1, PictureSteps, PTL DEF PictureSpec, Spec

(* While the axes do not fit, another picture has been asked for than is   *)
(* shown, and this update will load it.                                    *)
AxesFit ==
    /\ diffuse \in Pictures => Probed(diffuse)
    /\ diffuse \in Pictures /\ diffuse # diffusePath => diffuseReload
    /\ dmap.from # "cache" =>
         Fits \/ (pc \in {"decode", "reload"} /\ diffuse # diffusePath)

PictureInv == PictureTypeOK /\ AxesFit

LEMMA PictureStarts == PictureInit => PictureInv
  BY PictureAssumption
     DEF PictureInit, Init, PictureInv, PictureTypeOK, AxesFit, Fits

(* A step that leaves the picture, and the map, as they are.               *)
LEMMA PictureStays ==
    ASSUME PictureInv, UNCHANGED <<pictureVars, dmap, diffuseReload>>,
           pc' \in {"decode", "reload"} \/ pc \notin {"decode", "reload"}
    PROVE  PictureInv'
  BY DEF PictureInv, PictureTypeOK, AxesFit, Fits, pictureVars, Probed

(* A map that has just been uploaded or decoded.                           *)
LEMMA NewMapFits ==
    ASSUME PictureInv, UNCHANGED <<diffusePath, diffuse, diffuseReload>>,
           swapped' = ModeFor(dmap'), pc' \in {"decode", "reload"}
    PROVE  PictureInv'
  <1>1. ModeFor(dmap') \in BOOLEAN
    BY DEF ModeFor, Swaps, PictureInv, PictureTypeOK
  <1>2. PictureTypeOK'
    BY <1>1 DEF PictureInv, PictureTypeOK
  <1>3. ASSUME diffuse \in Pictures, diffuse = diffusePath PROVE Fits'
    BY <1>3 DEF PictureInv, AxesFit, Fits, ModeFor
  <1> QED
    BY <1>2, <1>3 DEF PictureInv, AxesFit, Fits, Probed

LEMMA PictureStep ==
    PictureInv /\ [PictureNext]_<<vars, pictureVars>> => PictureInv'
  <1> SUFFICES ASSUME PictureInv, [PictureNext]_<<vars, pictureVars>>
               PROVE  PictureInv'
    OBVIOUS
  <1>1. CASE UNCHANGED <<vars, pictureVars>>
    BY <1>1, PictureStays DEF vars
  <1>2. ASSUME AsksForReload
        PROVE  diffuseReload' = TRUE /\ UNCHANGED <<dmap, pc>> /\ pc = "idle"
    BY <1>2 DEF AsksForReload, LoadDiffuse, vars
  <1>3. ASSUME NEW p \in Pictures, LoadDiffuseFromFile(p) PROVE PictureInv'
    BY <1>2, <1>3
       DEF LoadDiffuseFromFile, PictureInv, PictureTypeOK, AxesFit, Fits, Probed
  <1>4. CASE ClearDiffuse
    BY <1>2, <1>4, PictureAssumption
       DEF ClearDiffuse, PictureInv, PictureTypeOK, AxesFit, Fits, Probed
  <1>5. CASE ClearMap
    <2>1. dmap' = NoMap /\ swapped' = FALSE /\ UNCHANGED <<diffusePath, diffuse, diffuseReload>>
      BY <1>5 DEF ClearMap, ClearHeightfield
    <2>2. ~Swaps(Size[diffuse], MapSize(NoMap))
      BY DEF Swaps, MapSize, NoMap
    <2>3. Fits'
      BY <2>1, <2>2 DEF Fits
    <2> QED
      BY <2>1, <2>3 DEF PictureInv, PictureTypeOK, AxesFit, Probed
  <1>6. ASSUME NEW created \in BOOLEAN, Restore(created) PROVE PictureInv'
    <2>1. UNCHANGED <<pictureVars, diffuseReload, pc>> /\ pc = "results"
          /\ (dmap' = dmap \/ dmap'.from = "cache")
      BY <1>6 DEF Restore, TakeResult, Map
    <2> QED
      BY <2>1 DEF PictureInv, PictureTypeOK, AxesFit, Fits, pictureVars, Probed
  <1>7. ASSUME NEW created \in BOOLEAN, DecodeMap(created) PROVE PictureInv'
    <2>1. UNCHANGED <<diffusePath, diffuse, diffuseReload>> /\ pc' = "reload"
      BY <1>7 DEF DecodeMap, DispatchDecode
    <2>2. CASE decodes # <<>> /\ created
      BY <1>7, <2>1, <2>2, NewMapFits DEF DecodeMap
    <2>3. CASE ~(decodes # <<>> /\ created)
      BY <1>7, <2>1, <2>3, PictureStays DEF DecodeMap, DispatchDecode, pictureVars
    <2> QED
      BY <2>2, <2>3
  <1>8. CASE UploadMap
    <2>1. UNCHANGED <<diffusePath, diffuse, diffuseReload>> /\ pc' = "decode"
      BY <1>8 DEF UploadMap, UploadTask
    <2>2. CASE uploads = <<>>
      BY <1>8, <2>1, <2>2, PictureStays DEF UploadMap, UploadTask, pictureVars
    <2>3. CASE uploads # <<>>
      BY <1>8, <2>1, <2>3, NewMapFits DEF UploadMap
    <2> QED
      BY <2>2, <2>3
  <1>9. CASE LoadTextures
    <2>1. dmap' = dmap /\ pc = "reload" /\ pc' = "idle" /\ diffuseReload' = FALSE
      BY <1>9 DEF LoadTextures, Reload
    <2>2. CASE NeedsLoad
      <3>1. /\ diffuse' = Grey \/ (diffuse' = diffusePath /\ Probed(diffusePath))
            /\ swapped' = (Probed(diffusePath) /\ Swaps(Size[diffusePath], MapSize(dmap)))
            /\ diffusePath' = diffusePath
        BY <1>9, <2>2 DEF LoadTextures, LoadDiffuseTexture
      <3>2. swapped' \in BOOLEAN
        BY <3>1 DEF Swaps, Probed
      <3>3. Fits'
        BY <2>1, <3>1, PictureAssumption DEF Fits
      <3>4. PictureTypeOK'
        BY <3>1, <3>2 DEF PictureInv, PictureTypeOK
      <3>5. diffuse' \in Pictures => diffuse' = diffusePath /\ Probed(diffusePath)
        BY <3>1, PictureAssumption
      <3> QED
        BY <3>1, <3>3, <3>4, <3>5 DEF PictureInv, AxesFit, Probed
    <2>3. CASE ~NeedsLoad
      <3>1. UNCHANGED pictureVars /\ ~diffuseReload
        BY <1>9, <2>3 DEF LoadTextures, NeedsLoad
      <3>2. diffuse \in Pictures => diffuse = diffusePath
        BY <3>1 DEF PictureInv, AxesFit
      <3>3. dmap.from # "cache" => Fits
        BY <3>2 DEF PictureInv, AxesFit, Fits
      <3> QED
        BY <2>1, <3>1, <3>2, <3>3
           DEF PictureInv, PictureTypeOK, AxesFit, Fits, pictureVars, Probed
    <2> QED
      BY <2>2, <2>3
  <1>10. CASE Destroyed
    BY <1>10, PictureAssumption
       DEF Destroyed, Joined, PictureInv, PictureTypeOK, AxesFit, Fits, Probed
  <1>11. CASE /\ (\E p \in Paths : LoadHeightfield(p)) \/ BeginUpdate
                 \/ NoMoreResults \/ Worker \/ Stop
              /\ UNCHANGED pictureVars
    <2>1. UNCHANGED <<dmap, diffuseReload>>
          /\ (pc' = pc \/ pc \notin {"decode", "reload"})
      BY <1>11 DEF LoadHeightfield, BeginUpdate, NoMoreResults, Worker, WorkerTake,
                   WorkerDecode, WorkerExit, Stop
    <2>2. pc' \in {"decode", "reload"} \/ pc \notin {"decode", "reload"}
      BY <2>1
    <2> QED
      BY <1>11, <2>1, <2>2, PictureStays
  <1> QED
    BY <1>1, <1>3, <1>4, <1>5, <1>6, <1>7, <1>8, <1>9, <1>10, <1>11 DEF PictureNext

(* A picture lies on a decoded map the way the two are oriented: for any   *)
(* files of any size, whichever cannot be read, and however loads of maps  *)
(* and pictures overtake each other.                                       *)
THEOREM PictureOnMap == PictureSpec => []DecodedMapsFit
  <1>1. PictureInv => DecodedMapsFit
    BY DEF PictureInv, AxesFit, DecodedMapsFit
  <1> QED
    BY <1>1, PictureStarts, PictureStep, PTL DEF PictureSpec
=============================================================================

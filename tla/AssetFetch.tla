----------------------------- MODULE AssetFetch -----------------------------
(***************************************************************************)
(* AssetFetchService: one URL's files in the asset cache, the requests for *)
(* it, and the process that may die and start again between two steps.     *)
(*                                                                         *)
(* The finished handler of a reply runs on the GUI thread, in one piece:   *)
(* phase walks through it only because the process may end in the middle   *)
(* and leave the disk as it is.  A file is what its header says it is      *)
(* (magic), how long it is, and whether all of the body it was written     *)
(* from is in it.  Files of different URLs have different names (sha1 of   *)
(* the URL).                                                               *)
(***************************************************************************)
EXTENDS Integers, Sequences

CONSTANTS
    Bodies,        \* what servers send: records [magic, size]
    Types,         \* extensions a Content-Type header can stand for, "" for none
    UrlExts,       \* extensions the URL can end in, "" for none
    Nothing,       \* no file, no reply, no signal, no path
    MaxRequests,   \* bound: calls of request
    MaxRestarts    \* bound: times the process dies and is started again

(* The extensions cachedPath looks for, in its order.                      *)
Exts == <<"", "r16", "png", "jpg", "jpeg", "tif", "bmp", "webp">>

Extensions == {Exts[i] : i \in DOMAIN Exts}

Requests == 1 .. MaxRequests
Replies  == [id : Requests, ext : Extensions, body : Bodies]
Sizes    == {b.size : b \in Bodies} \cup {0, 1, 12}
CacheFiles == [magic : {b.magic : b \in Bodies}, size : Sizes, whole : BOOLEAN]

ASSUME FetchAssumption ==
    /\ Types \cup UrlExts \subseteq Extensions
    /\ \A b \in Bodies : b.size \in Nat
    /\ MaxRequests \in Nat /\ MaxRestarts \in Nat
    /\ Nothing \notin Replies \cup CacheFiles

VARIABLES
    urlExt,      \* guessExtFromUrl
    disk,        \* the files of <assets>/data, by name
    inflight,    \* requests the network has yet to answer
    hits,        \* queued emissions of ready for files found in the cache
    phase, reply,   \* the finished handler and the reply it handles
    signal,      \* the last signal emitted
    \* history
    asked, answers,  \* number of requests, of signals for each
    forgotten,       \* requests of a process that has died
    since,           \* number of requests made before each file was put in place
    removals,        \* number of times a handler made room for a file
    unflushed,       \* a file was closed although flush had failed
    restarts

ghosts == <<asked, answers, forgotten, since, removals, unflushed, restarts>>
assets == <<urlExt, disk, inflight, hits, phase, reply, signal, ghosts>>

Final(e) == <<e, "">>

TmpInPlace(e) == Final(e)    \* mutant: the body is written to its final name

Tmp(e) == <<e, ".tmp">>

Names == {Final(e) : e \in Extensions} \cup {Tmp(e) : e \in Extensions}

AssetsTypeOK ==
    /\ urlExt \in UrlExts
    /\ disk \in [Names -> CacheFiles \cup {Nothing}]
    /\ inflight \subseteq Requests
    /\ hits \in Seq([id : Requests, ext : Extensions, at : Nat])
    /\ phase \in {"idle", "write", "clear", "rename", "check"}
    /\ reply \in Replies \cup {Nothing}
    /\ signal \in [id : Requests, ext : Extensions \cup {Nothing}, at : Nat] \cup {Nothing}
    /\ asked \in 0 .. MaxRequests /\ answers \in [Requests -> Nat]
    /\ forgotten \subseteq Requests /\ since \in [Extensions -> 0 .. MaxRequests]
    /\ removals \in Nat /\ unflushed \in BOOLEAN /\ restarts \in 0 .. MaxRestarts
    /\ (phase = "idle") = (reply = Nothing)

AssetsInit ==
    /\ urlExt \in UrlExts
    /\ disk = [n \in Names |-> Nothing]
    /\ inflight = {} /\ hits = <<>> /\ phase = "idle" /\ reply = Nothing /\ signal = Nothing
    /\ asked = 0 /\ answers = [r \in Requests |-> 0] /\ forgotten = {}
    /\ since = [e \in Extensions |-> 0]
    /\ removals = 0 /\ unflushed = FALSE /\ restarts = 0
-----------------------------------------------------------------------------
(* hasValidSignature.  A name without extension is not looked into, and    *)
(* any body of an even size is a heightfield.                              *)
MagicSize(e) == CASE e = "png" -> 8 [] e = "webp" -> 12 [] e = "tif" -> 4 [] OTHER -> 2

Valid(e, f) ==
    \/ e = ""
    \/ e = "r16" /\ f.size >= 2 /\ f.size % 2 = 0
    \/ /\ e \notin {"", "r16"} /\ f.size >= MagicSize(e)
       /\ f.magic = (IF e = "jpeg" THEN "jpg" ELSE e)

Good(e) == disk[Final(e)] # Nothing /\ Valid(e, disk[Final(e)])

(* cachedPath: the first valid file; the ones before it that are not valid *)
(* are removed.                                                            *)
Hit(i) == Good(Exts[i]) /\ \A j \in 1 .. i - 1 : ~Good(Exts[j])

Missed == \A i \in DOMAIN Exts : ~Good(Exts[i])

Passed == {Exts[i] : i \in {k \in DOMAIN Exts : \A j \in 1 .. k : ~Good(Exts[j])}}

Swept(d) == [n \in Names |-> IF n \in {Final(e) : e \in Passed} THEN Nothing ELSE d[n]]

CachedPath ==
    /\ phase = "idle" /\ Swept(disk) # disk
    /\ disk' = Swept(disk)
    /\ UNCHANGED <<urlExt, inflight, hits, phase, reply, signal, ghosts>>

Request ==
    /\ phase = "idle" /\ asked < MaxRequests
    /\ asked' = asked + 1
    /\ disk' = Swept(disk)
    /\ \/ /\ \E i \in DOMAIN Exts :
               /\ Hit(i)
               /\ hits' = Append(hits, [id |-> asked', ext |-> Exts[i], at |-> removals])
          /\ UNCHANGED inflight
       \/ /\ Missed
          /\ inflight' = inflight \cup {asked'}
          /\ UNCHANGED hits
    /\ UNCHANGED <<urlExt, phase, reply, signal, answers, forgotten, since, removals,
                   unflushed, restarts>>
-----------------------------------------------------------------------------
Answer(id, e, at) ==
    /\ signal' = [id |-> id, ext |-> e, at |-> at]
    /\ answers' = [answers EXCEPT ![id] = @ + 1]

(* The queued lambda of request: ready(key, hit).                          *)
EmitHit ==
    /\ phase = "idle" /\ hits # <<>>
    /\ hits' = Tail(hits)
    /\ Answer(Head(hits).id, Head(hits).ext, Head(hits).at)
    /\ UNCHANGED <<urlExt, disk, inflight, phase, reply, asked, forgotten, since,
                   removals, unflushed, restarts>>

(* The network answers in any order; an error or a status other than 2xx   *)
(* is passed on.                                                           *)
ReplyFails(id) ==
    /\ phase = "idle" /\ id \in inflight
    /\ inflight' = inflight \ {id}
    /\ Answer(id, Nothing, removals)
    /\ UNCHANGED <<urlExt, disk, hits, phase, reply, asked, forgotten, since,
                   removals, unflushed, restarts>>

ExtOf(type) == IF type # "" THEN type ELSE urlExt

(* The body is read; QIODevice::WriteOnly truncates what has the name.     *)
ReplyFinished(id, type, body) ==
    /\ phase = "idle" /\ id \in inflight
    /\ inflight' = inflight \ {id}
    /\ reply' = [id |-> id, ext |-> ExtOf(type), body |-> body]
    /\ phase' = "write"
    /\ disk' = [disk EXCEPT ![Tmp(ExtOf(type))] =
                   [magic |-> body.magic, size |-> 0, whole |-> FALSE]]
    /\ UNCHANGED <<urlExt, hits, signal, ghosts>>

Leave == phase' = "idle" /\ reply' = Nothing

(* The file cannot be opened, or not all of the body can be written.       *)
WriteFails ==
    /\ phase = "write"
    /\ disk' = [disk EXCEPT ![Tmp(reply.ext)] = Nothing]
    /\ Answer(reply.id, Nothing, removals) /\ Leave
    /\ UNCHANGED <<urlExt, inflight, hits, asked, forgotten, since, removals,
                   unflushed, restarts>>

(* write and flush.  write fills a buffer; that flush may fail is not      *)
(* looked at, and a part of the body is then missing from the file.        *)
Write(size) ==
    /\ phase = "write"
    /\ \/ size = reply.body.size
       \/ size \in {0, 1, 12} /\ size < reply.body.size
    /\ disk' = [disk EXCEPT ![Tmp(reply.ext)] =
                   [magic |-> reply.body.magic, size |-> size,
                    whole |-> size = reply.body.size]]
    /\ unflushed' = (unflushed \/ size # reply.body.size)
    /\ phase' = "clear"
    /\ UNCHANGED <<urlExt, inflight, hits, reply, signal, asked, answers, forgotten,
                   since, removals, restarts>>

(* QFile::remove(finalPath), which may fail where there is a file.         *)
RemoveOld(removed) ==
    /\ phase = "clear"
    /\ removed \/ disk[Final(reply.ext)] # Nothing
    /\ IF removed THEN disk' = [disk EXCEPT ![Final(reply.ext)] = Nothing]
                  ELSE UNCHANGED disk
    /\ removals' = removals + 1
    /\ phase' = "rename"
    /\ UNCHANGED <<urlExt, inflight, hits, reply, signal, asked, answers, forgotten,
                   since, unflushed, restarts>>

(* QFile::rename does not overwrite.                                       *)
RenameFails ==
    /\ phase = "rename"
    /\ disk' = [disk EXCEPT ![Tmp(reply.ext)] = Nothing]
    /\ Answer(reply.id, Nothing, removals) /\ Leave
    /\ UNCHANGED <<urlExt, inflight, hits, asked, forgotten, since, removals,
                   unflushed, restarts>>

Rename ==
    /\ phase = "rename"
    /\ disk[Final(reply.ext)] = Nothing /\ disk[Tmp(reply.ext)] # Nothing
    /\ disk' = [disk EXCEPT ![Final(reply.ext)] = disk[Tmp(reply.ext)],
                            ![Tmp(reply.ext)] = Nothing]
    /\ since' = [since EXCEPT ![reply.ext] = asked]
    /\ phase' = "check"
    /\ UNCHANGED <<urlExt, inflight, hits, reply, signal, asked, answers, forgotten,
                   removals, unflushed, restarts>>

CheckNothing ==    \* mutant: what the server sent is believed
    /\ phase = "check"
    /\ Answer(reply.id, reply.ext, removals) /\ Leave
    /\ UNCHANGED <<urlExt, disk, inflight, hits, asked, forgotten, since, removals,
                   unflushed, restarts>>

CheckFallsThrough ==    \* mutant: no return after failed
    /\ phase = "check"
    /\ signal' = [id |-> reply.id, ext |-> reply.ext, at |-> removals]
    /\ answers' = [answers EXCEPT ![reply.id] = @ + IF Good(reply.ext) THEN 1 ELSE 2]
    /\ Leave
    /\ UNCHANGED <<urlExt, disk, inflight, hits, asked, forgotten, since, removals,
                   unflushed, restarts>>

(* The signature is checked in the place the file is served from.          *)
CheckSignature ==
    /\ phase = "check"
    /\ IF Good(reply.ext)
       THEN Answer(reply.id, reply.ext, removals) /\ UNCHANGED disk
       ELSE /\ Answer(reply.id, Nothing, removals)
            /\ disk' = [disk EXCEPT ![Final(reply.ext)] = Nothing]
    /\ Leave
    /\ UNCHANGED <<urlExt, inflight, hits, asked, forgotten, since, removals,
                   unflushed, restarts>>
-----------------------------------------------------------------------------
(* The process ends, wherever it is, and is started again: the directory   *)
(* is all it keeps.                                                        *)
Restart ==
    /\ restarts < MaxRestarts
    /\ restarts' = restarts + 1
    /\ forgotten' = {r \in 1 .. asked : answers[r] = 0}
    /\ inflight' = {} /\ hits' = <<>> /\ Leave /\ signal' = Nothing
    /\ UNCHANGED <<urlExt, disk, asked, answers, since, removals, unflushed>>

Finished == \/ WriteFails
            \/ \E n \in Sizes : Write(n)
            \/ \E removed \in BOOLEAN : RemoveOld(removed)
            \/ RenameFails \/ Rename \/ CheckSignature

AssetsNext ==
    \/ CachedPath \/ Request \/ EmitHit
    \/ \E id \in inflight :
          \/ ReplyFails(id)
          \/ \E type \in Types, body \in Bodies : ReplyFinished(id, type, body)
    \/ Finished
    \/ Restart

AssetsSpec == AssetsInit /\ [][AssetsNext]_assets
-----------------------------------------------------------------------------
(* A request is answered once, whether its file is in the cache, another   *)
(* request for it is in flight, the server sends rubbish or the disk is    *)
(* full: until then exactly one of network, event queue and handler has    *)
(* it.  Only the end of the process leaves it without an answer.           *)
OneAnswer ==
    /\ AssetsTypeOK
    /\ \A r \in 1 .. asked :
          LET queued == {i \in DOMAIN hits : hits[i].id = r}
              handled == reply # Nothing /\ reply.id = r
          IN  \/ r \notin forgotten /\ answers[r] = 1
                 /\ r \notin inflight /\ ~handled /\ queued = {}
              \/ r \in forgotten /\ answers[r] = 0
                 /\ r \notin inflight /\ ~handled /\ queued = {}
              \/ /\ r \notin forgotten /\ answers[r] = 0
                 /\ \/ r \in inflight /\ ~handled /\ queued = {}
                    \/ r \notin inflight /\ handled /\ queued = {}
                    \/ r \notin inflight /\ ~handled /\ \E i \in DOMAIN hits : queued = {i}

(* No interruption leaves a part of a body under a name the cache serves:  *)
(* a file that lacks bytes was closed by a handler whose flush failed.     *)
WholeUnlessUnflushed ==
    \A e \in Extensions :
        disk[Final(e)] # Nothing /\ ~ disk[Final(e)].whole => unflushed

GoodFiles == {e \in Extensions : Good(e)}

(* A path is announced while its file is there and has the signature of    *)
(* its extension, after a restart too.  Only a path taken from the cache   *)
(* may have lost its file on the way through the event queue, and only if  *)
(* a handler made room for another body in between.                        *)
AnnouncedIsGood ==
    [][signal' \notin {signal, Nothing} /\ signal'.ext # Nothing /\ signal'.at = removals'
         => signal'.ext \in GoodFiles']_assets

(* A valid file leaves the cache, for a better or a worse one, only on     *)
(* account of a reply that was in flight when the file was put in place:   *)
(* once it is there no request reaches the network, and neither the sweep  *)
(* of cachedPath nor a restart takes it away.                              *)
LeavesByOlderReply ==
    [][\A e \in GoodFiles \ GoodFiles' : reply # Nothing /\ reply.id <= since[e]]_assets

(* What clients were told holds as long as it can.                         *)
AnnouncedFilesStay == AnnouncedIsGood /\ LeavesByOlderReply

(* Both: what is served is whole, and stays while it should.               *)
FilesKept == []WholeUnlessUnflushed /\ AnnouncedFilesStay
=============================================================================

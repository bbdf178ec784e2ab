------------------------------ MODULE QmlProbe ------------------------------
(***************************************************************************)
(* The QML probe of the TestBridge.  It hands out the addresses of objects *)
(* as handles, and keeps for each a QPointer, which Qt clears when the     *)
(* object goes.  The application creates and destroys objects at will, and *)
(* an address is used again.  Every call of the probe is one step on the   *)
(* GUI thread.                                                             *)
(*                                                                         *)
(* Objects are QQuickItems on a line, each of which covers an interval of  *)
(* the scene, or plain QObjects, which have no part in it.  The window's   *)
(* content item is the one with no parent.                                 *)
(***************************************************************************)
EXTENDS Integers, Sequences
LOCAL INSTANCE SequencesExt

CONSTANTS
    Addresses, Names,  \* names of objects; "" is none
    Shapes,            \* of items: [lo, hi, clip, visible]
    Plain,             \* in place of a shape: not an item
    Points,            \* of the scene
    Free,              \* no object at an address, no entry for a handle
    MaxCreated         \* bound: objects ever created

ASSUME ProbeAssumption ==
    /\ Free \notin Nat \cup Addresses /\ Plain \notin Shapes
    /\ MaxCreated \in Nat \ {0}

VARIABLES
    heap,      \* the object at each address
    created,   \* how many objects there have been; an object's stamp
    registry,  \* m_registry: the stamp its QPointer was made for
    \* history: stamps of the objects that replies have named, and calls reached
    announced, reached

probe == <<heap, created, registry, announced, reached>>

Live == {a \in Addresses : heap[a] # Free}

Root == CHOOSE a \in Live : heap[a].parent = Free

ProbeTypeOK ==
    /\ heap \in [Addresses -> {Free} \cup
            [stamp : 1 .. MaxCreated, name : Names, parent : Addresses \cup {Free},
             children : Seq(Addresses), shape : Shapes \cup {Plain}]]
    /\ created \in 0 .. MaxCreated
    /\ registry \in [Addresses -> {Free} \cup 1 .. MaxCreated]
    /\ announced \subseteq 1 .. created /\ reached \subseteq 1 .. created

ProbeInit ==
    /\ \E a \in Addresses, name \in Names, shape \in Shapes :
          heap = [b \in Addresses |->
                    IF b = a THEN [stamp |-> 1, name |-> name, parent |-> Free,
                                   children |-> <<>>, shape |-> shape] ELSE Free]
    /\ created = 1
    /\ registry = [a \in Addresses |-> Free]
    /\ announced = {} /\ reached = {}
-----------------------------------------------------------------------------
(* The application.  A new object is the last child of its parent, and has *)
(* its window.                                                             *)
Create(a, parent, name, shape) ==
    /\ created < MaxCreated
    /\ a \notin Live /\ parent \in Live
    /\ heap[parent].shape = Plain => shape = Plain
    /\ created' = created + 1
    /\ heap' = [heap EXCEPT
          ![a] = [stamp |-> created + 1, name |-> name, parent |-> parent,
                  children |-> <<>>, shape |-> shape],
          ![parent].children = Append(@, a)]
    /\ UNCHANGED <<registry, announced, reached>>

(* a and its ancestors.                                                    *)
Chain[a \in Addresses] ==
    {a} \cup (IF heap[a].parent = Free THEN {} ELSE Chain[heap[a].parent])

(* An object takes its children with it.                                   *)
Destroy(a) ==
    LET gone == {b \in Live : a \in Chain[b]}
    IN  /\ a \in Live \ {Root}
        /\ heap' = [b \in Addresses |->
                      IF b \notin Live \ gone THEN Free
                      ELSE IF b = heap[a].parent
                      THEN [heap[b] EXCEPT !.children = SelectSeq(@, LAMBDA c : c # a)]
                      ELSE heap[b]]
        /\ UNCHANGED <<created, registry, announced, reached>>
-----------------------------------------------------------------------------
(* registerObject, for all of objects; of none it makes no entry.          *)
Registered(objects) ==
    [a \in Addresses |-> IF a \in objects \cap Live THEN heap[a].stamp ELSE registry[a]]

Announce(objects) ==
    /\ registry' = Registered(objects)
    /\ announced' = announced \cup {heap[a].stamp : a \in objects \cap Live}
    /\ UNCHANGED <<heap, created, reached>>

(* list names every object that has a name; find the first of a name, in   *)
(* the order of collectObjects, which is left open here.                   *)
Named == {a \in Live : heap[a].name # ""}

List == Announce(Named)

Find(name) == \E a \in {b \in Named : heap[b].name = name} : Announce({a})

ResolveRaw(handle) ==    \* mutant: the registry keeps plain pointers
    IF handle \in Live /\ registry[handle] # Free THEN handle ELSE Free

(* resolveHandle; Free: the handle is stale.                               *)
ResolveHandle(handle) ==
    IF handle \in Live /\ heap[handle].stamp = registry[handle] THEN handle ELSE Free

(* What a call makes of other objects is for Create and Destroy.           *)
Reaches(handle) ==
    /\ ResolveHandle(handle) # Free
    /\ reached' = reached \cup {heap[handle].stamp}
    /\ UNCHANGED <<heap, created, registry, announced>>

(* Only an item has a window, to which events can be sent.                 *)
ReachesItem(handle) == Reaches(handle) /\ heap[handle].shape # Plain

Get(handle)      == Reaches(handle)
Set(handle)      == Reaches(handle)
Invoke(handle)   == Reaches(handle)
Click(handle)    == ReachesItem(handle)
Type(handle)     == ReachesItem(handle)
Mouse(handle)    == ReachesItem(handle)
Key(handle)      == ReachesItem(handle)
Geometry(handle) == Reaches(handle)
Meta(handle)     == Reaches(handle)

Call(handle) ==
    \/ Get(handle) \/ Set(handle) \/ Invoke(handle)
    \/ Click(handle) \/ Type(handle) \/ Mouse(handle) \/ Key(handle)
    \/ Geometry(handle) \/ Meta(handle)

InRect(a, point) == point \in heap[a].shape.lo .. heap[a].shape.hi

Stop(point, a) ==
    heap[a].shape = Plain \/ ~heap[a].shape.visible \/ ~InRect(a, point)

(* hitTest.  The last child that is hit wins.                              *)
HitTest(point) ==
    LET hit[a \in Addresses] ==
          IF Stop(point, a) THEN Free
          ELSE FoldLeft(LAMBDA best, child :
                           IF hit[child] # Free THEN hit[child] ELSE best,
                        a, heap[a].children)
    IN  hit[Root]

(* hit announces what it hits and all that this lies in.                   *)
Hit(point) == HitTest(point) # Free /\ Announce(Chain[HitTest(point)])

ProbeNext ==
    \/ \E a, parent \in Addresses, name \in Names, shape \in Shapes \cup {Plain} :
          Create(a, parent, name, shape)
    \/ \E a \in Addresses : Destroy(a)
    \/ List
    \/ \E name \in Names : Find(name)
    \/ \E point \in Points : Hit(point)
    \/ \E handle \in Addresses : Call(handle)
-----------------------------------------------------------------------------
(* A handle reaches an object exactly if a reply has named this object:    *)
(* never one that merely came to lie where another had been, and always    *)
(* one that was named and lives.                                           *)
HandlesNamed ==
    /\ reached \subseteq announced
    /\ \A a \in Live : ResolveHandle(a) # Free <=> heap[a].stamp \in announced

(* The comment on hitTest: it finds the deepest visible item whose scene   *)
(* rectangle contains the point, where a child outside a parent is         *)
(* invisible if the parent clips.  So nothing that is seen there lies      *)
(* below the item it finds, or it finds nothing where nothing is seen.     *)
Seen(a, point) ==
    /\ heap[a].shape # Plain /\ InRect(a, point)
    /\ \A b \in Chain[a] : heap[b].shape.visible /\ (heap[b].shape.clip => InRect(b, point))

DeepestHit ==
    \A point \in Points :
        LET seen == {a \in Live : Seen(a, point)}
            hit  == HitTest(point)
        IN  IF hit = Free THEN seen = {}
            ELSE hit \in seen /\ \A a \in seen : hit \in Chain[a] => a = hit
=============================================================================

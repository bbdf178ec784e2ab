----------------------------- MODULE FrameRing -----------------------------
(***************************************************************************)
(* What a viewport may rely on from its present path: a bounded FIFO of    *)
(* pictures on their way from the GPU to the FBO.  A picture waits for the *)
(* next frame to be read back, then for the frames the read takes; the FBO *)
(* shows pictures in the order they were taken and never one whose read is *)
(* not complete.  Times are relative ("left"), so the module is finite     *)
(* however long the viewport lives.  ReadbackPresenter implements it.      *)
(***************************************************************************)
EXTENDS Integers, Sequences

CONSTANTS
    Depth,      \* pictures that can be on their way at a time
    Latency,    \* frames from the read to its data
    Pictures    \* names of pictures, ordered by the time they were taken

VARIABLES
    flight,     \* the pictures on their way, oldest first
    shown       \* the picture in the FBO, or one of Blank

ringVars == <<flight, shown>>

Blank  == {-1, -2}       \* the clear colour; memory nobody wrote yet
Unread == Latency + 1    \* taken, not yet read back

InFlight(p, n) == [picture |-> p, left |-> n]

TypeOK ==
    /\ flight \in Seq([picture : Pictures, left : 0 .. Unread])
    /\ Len(flight) <= Depth
    /\ shown \in Pictures \cup Blank
-----------------------------------------------------------------------------
Newer(p) ==
    /\ \A i \in 1 .. Len(flight) : p > flight[i].picture
    /\ shown \in Pictures => p > shown

Take(p) ==
    /\ Len(flight) < Depth
    /\ Newer(p)
    /\ flight' = Append(flight, InFlight(p, Unread))
    /\ UNCHANGED shown

(* The oldest picture not yet read is read, or dropped if that fails.      *)
StartRead ==
    /\ \E i \in 1 .. Len(flight) :
         /\ flight[i].left = Unread
         /\ \A j \in 1 .. i - 1 : flight[j].left < Unread
         /\ \/ flight' = [flight EXCEPT ![i].left = Latency]
            \/ flight' = SubSeq(flight, 1, i - 1) \o SubSeq(flight, i + 1, Len(flight))
    /\ UNCHANGED shown

Later(item) ==
    [item EXCEPT !.left = IF @ \in 1 .. Latency THEN @ - 1 ELSE @]

(* A frame passes.                                                         *)
Tick ==
    /\ flight' = [i \in 1 .. Len(flight) |-> Later(flight[i])]
    /\ UNCHANGED shown

(* A complete picture is passed over because a newer one is complete too.  *)
Skip ==
    /\ Len(flight) > 1
    /\ flight[1].left = 0 /\ flight[2].left = 0
    /\ flight' = Tail(flight)
    /\ UNCHANGED shown

Show ==
    /\ flight # <<>>
    /\ flight[1].left = 0
    /\ shown' = flight[1].picture
    /\ flight' = Tail(flight)

(* A new FBO, of a new size, or the end of the viewport.                   *)
NewTarget ==
    /\ shown' = -2
    /\ UNCHANGED flight

Discard ==
    /\ flight' = <<>>
    /\ shown' \in Blank \cup {shown}

Init ==
    /\ flight = <<>>
    /\ shown \in Blank

Next ==
    \/ \E p \in Pictures : Take(p)
    \/ StartRead
    \/ Tick
    \/ Skip
    \/ Show
    \/ NewTarget
    \/ Discard

Spec == Init /\ [][Next]_ringVars
=============================================================================

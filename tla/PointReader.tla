----------------------------- MODULE PointReader -----------------------------
(***************************************************************************)
(* What the JSON data parser promises: the points of the document are kept *)
(* in their order, and the average is taken over exactly the points kept.  *)
(* A document that is cut short may add one point that it does not contain.*)
(***************************************************************************)
EXTENDS Naturals, Sequences

CONSTANT Point

VARIABLES points,       \* the points whose row is complete in the document
          cut,          \* the document ends inside a row
          kept, summed,
          mode          \* "reading", "summing", "done" or "fault"

vars == <<points, cut, kept, summed, mode>>

Init ==
    /\ points \in Seq(Point) /\ cut \in BOOLEAN
    /\ kept = <<>> /\ summed = <<>> /\ mode = "reading"

Keep ==
    /\ mode = "reading" /\ Len(kept) < Len(points)
    /\ kept' = Append(kept, points[Len(kept) + 1])
    /\ UNCHANGED <<points, cut, summed, mode>>
KeepCut ==
    /\ mode = "reading" /\ cut /\ Len(kept) = Len(points)
    /\ Len(kept') = Len(kept) + 1 /\ kept'[Len(kept')] \in Point
    /\ kept' = Append(kept, kept'[Len(kept')])
    /\ UNCHANGED <<points, cut, summed, mode>>
StartSum ==
    /\ mode = "reading" /\ Len(kept) >= Len(points)
    /\ mode' = "summing"
    /\ UNCHANGED <<points, cut, kept, summed>>
Sum ==
    /\ mode = "summing" /\ Len(summed) < Len(kept)
    /\ summed' = Append(summed, kept[Len(summed) + 1])
    /\ UNCHANGED <<points, cut, kept, mode>>
Finish ==
    /\ mode = "summing" /\ Len(summed) = Len(kept)
    /\ mode' = "done"
    /\ UNCHANGED <<points, cut, kept, summed>>
Fault ==
    /\ mode \in {"reading", "summing"}
    /\ mode' = "fault"
    /\ UNCHANGED <<points, cut, kept, summed>>

Next == Keep \/ KeepCut \/ StartSum \/ Sum \/ Finish \/ Fault
Spec == Init /\ [][Next]_vars
=============================================================================

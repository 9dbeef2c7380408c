----------------------------- MODULE PolygonSweep -----------------------------
(***************************************************************************)
(* src/cpp/polygon/main.cpp: SweepLine::processEvents says whether a       *)
(* polygon is self-intersecting.  It takes the segments in the order of    *)
(* the y of their first points and tests each against the active ones; a   *)
(* segment is active from its LEFT event, at its first point, to its RIGHT *)
(* event, at its last.  Coordinates are integers, for which the code's     *)
(* arithmetic in doubles is exact.  Events of equal y and type come in any *)
(* order, for std::sort is not stable.                                     *)
(***************************************************************************)
EXTENDS Integers, Sequences

CONSTANTS
  Coordinates,   \* of the vertices, in both directions
  Corners        \* the number of vertices

Points == [x : Coordinates, y : Coordinates]

VARIABLES
  pc,
  vertices,
  processed,     \* the events the sweep has passed
  active         \* activeSegments

vars == <<pc, vertices, processed, active>>

\* Segment i goes from vertex i to the next, the last one to the first vertex.
Segments == 1 .. Corners
Begin(i) == vertices[i]
End(i) == vertices[IF i = Corners THEN 1 ELSE i + 1]

Events == {"LEFT", "RIGHT"} \X Segments
Height(e) == IF e[1] = "LEFT" THEN Begin(e[2]).y ELSE End(e[2]).y

\* operator< of Event
Before(e, f) ==
  \/ Height(e) < Height(f)
  \/ Height(e) = Height(f) /\ e[1] = "LEFT" /\ f[1] = "RIGHT"

\* The events that may be next in the sorted vector.
NextEvents == {e \in Events \ processed : \A f \in Events \ processed : ~Before(f, e)}

orientation(a, b, c) == (b.x - a.x) * (c.y - a.y) - (c.x - a.x) * (b.y - a.y)

Opposite(d, e) == (d > 0 /\ e < 0) \/ (d < 0 /\ e > 0)

\* Mutant: the ends of one segment are tested, those of the other are not.
doIntersect_OneSide(i, j) ==
  Opposite(orientation(Begin(j), End(j), Begin(i)), orientation(Begin(j), End(j), End(i)))

doIntersect(i, j) ==
  /\ Opposite(orientation(Begin(j), End(j), Begin(i)), orientation(Begin(j), End(j), End(i)))
  /\ Opposite(orientation(Begin(i), End(i), Begin(j)), orientation(Begin(i), End(i), End(j)))

-----------------------------------------------------------------------------
Init ==
  /\ pc = "sweep"
  /\ vertices \in [1 .. Corners -> Points]
  /\ processed = {}
  /\ active = {}

\* The event of a first point: the segment is tested, then active.
Left(i) ==
  /\ pc = "sweep" /\ <<"LEFT", i>> \in NextEvents
  /\ IF \E j \in active : doIntersect(i, j)
       THEN pc' = "intersecting" /\ UNCHANGED <<processed, active>>
       ELSE /\ processed' = processed \cup {<<"LEFT", i>>}
            /\ active' = active \cup {i}
            /\ UNCHANGED pc
  /\ UNCHANGED vertices

\* The event of a last point; for a segment that runs downwards it comes before
\* the segment's LEFT event and erases nothing.
Right(i) ==
  /\ pc = "sweep" /\ <<"RIGHT", i>> \in NextEvents
  /\ processed' = processed \cup {<<"RIGHT", i>>}
  /\ active' = active \ {i}
  /\ UNCHANGED <<pc, vertices>>

Finish ==
  /\ pc = "sweep" /\ processed = Events
  /\ pc' = "simple"
  /\ UNCHANGED <<vertices, processed, active>>

Next == (\E i \in Segments : Left(i) \/ Right(i)) \/ Finish

Spec == Init /\ [][Next]_vars

-----------------------------------------------------------------------------
(* Properties *)

TypeOK ==
  /\ pc \in {"sweep", "intersecting", "simple"}
  /\ vertices \in [1 .. Corners -> Points]
  /\ processed \subseteq Events
  /\ active \subseteq Segments

\* The sweep does not compare i with j when i ends, not below its first point,
\* below the first point of j.
LeftBehind(i, j) == Begin(i).y <= End(i).y /\ End(i).y < Begin(j).y

\* The definition of a crossing: Begin(i) + t * (End(i) - Begin(i)) is a point of
\* both segments, and an end of none, for some t.  By Cramer's rule t is n / det
\* and the corresponding place on j is m / det.
Cross(i, j) ==
  LET ux == End(i).x - Begin(i).x    uy == End(i).y - Begin(i).y
      vx == End(j).x - Begin(j).x    vy == End(j).y - Begin(j).y
      wx == Begin(j).x - Begin(i).x  wy == Begin(j).y - Begin(i).y
      det == ux * vy - uy * vx
      n == wx * vy - wy * vx
      m == wx * uy - wy * ux
      Inside(k) == (0 < k /\ k < det) \/ (det < k /\ k < 0)
  IN  Inside(n) /\ Inside(m)

\* What the message of line 107 says: "Polygon is not self-intersecting."
SimpleHasNoCrossing == pc = "simple" => \A i, j \in Segments : ~Cross(i, j)

\* The verdict (lines 81-107) is that two segments cross, but crossings with a
\* segment that runs downwards from above the other's end are missed.
VerdictIsExact ==
  LET compared == {p \in Segments \X Segments : ~LeftBehind(p[1], p[2]) /\ ~LeftBehind(p[2], p[1])}
  IN  /\ pc = "intersecting" => \E p \in compared : Cross(p[1], p[2])
      /\ pc = "simple" => \A p \in compared : ~Cross(p[1], p[2])
=============================================================================

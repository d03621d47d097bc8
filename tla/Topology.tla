------------------------------ MODULE Topology ------------------------------
(***************************************************************************)
(* The geometry of a detection: SnapToReferences and DetectTopology of     *)
(* geometry/geometry.go as DetectConflicts calls them, and the draft that  *)
(* ApplyConflictSuggestion makes of the snapped boundary, which may be     *)
(* detected again with the same tolerance.                                 *)
(*                                                                         *)
(* The stored parcels are strips: rectangles between the same two          *)
(* horizontal lines, Height apart.  A drawn boundary has two upright       *)
(* sides; each ends off one line and as far off the other, so that its     *)
(* upper corner snaps as the mirror image of its lower one.  A snap keeps  *)
(* such boundaries such: a corner goes to a vertex, to the point of a line *)
(* below it or to the point of a side beside it.  Every place is an        *)
(* integer, and so is every measure but the area, of which Overlaps takes  *)
(* the double; how floats round a projection is left out.                  *)
(***************************************************************************)
EXTENDS Integers

CONSTANTS
  Neighbours,  \* ids of the active parcels around, a set of numbers
  Extent,      \* bound: boundaries lie in 0..Extent
  Marks,       \* bound: where stored boundaries may begin and end
  Insets,      \* bound: how far off the lines a drawn side may end
  Height,      \* height of every strip
  Tolerance    \* snap_tolerance_m of the request

ASSUME NeighboursAssumption == Neighbours \subseteq Nat \ {0}
ASSUME MarksAssumption == Marks \subseteq 0..Extent

\* The request's snap_tolerance_m is validated gt=0, lte=1000.
ASSUME MeasuresAssumption == /\ Extent \in Nat /\ Tolerance \in 1..1000
                             /\ Height \in Nat

\* The far line is out of a corner's reach, and no side is so short that an
\* overlap one unit wide would stay below areaThreshold.  A corner equally far
\* from a line and from a side of one parcel has their vertex in reach, so the
\* order of a ring's edges, not the same for both corners, decides nothing.
ASSUME InsetsAssumption ==
  /\ Insets \subseteq Nat /\ 0 \in Insets
  /\ \A i \in Insets : /\ Height > i + Tolerance
                       /\ (Height - 2 * i) * 10000 > Tolerance * Tolerance
                       /\ 2 * i * i <= Tolerance * Tolerance \/ i > Tolerance

VARIABLES
  base,       \* the parcel's boundary
  around,     \* the neighbours' boundaries
  proposed,   \* proposed_geojson of the draft
  suggested,  \* snapped_geojson of the last detection
  findings,   \* its findings
  stage,      \* where the draft is: "draft", "detected", "refused"
  round       \* history: how often a suggestion was applied; 2 is twice or more

parcels == <<base, around>>
geometry == <<base, around, proposed, suggested, findings, stage, round>>

------------------------------------------------------------------------------
Strip == [left : 0..Extent, right : 0..Extent]
Proper(s) == s.left < s.right
References == {s \in [left : Marks, right : Marks] :
                 s.right - s.left > 2 * Tolerance}

\* The lower corner of a side: off above the lower line.  The upper corner is
\* off below the upper line.
Corner == [at : 0..Extent, off : Insets]
Boundary == [west : Corner, east : Corner]
Span(c) == [left |-> c.west.at, right |-> c.east.at]

\* What ParsePolygon takes for a boundary: with the sides in one place it has no
\* area, with the sides exchanged its ring runs clockwise.
Valid(c) == Proper(Span(c))

Kinds == {"overlap", "gap", "dangling_edge"}

\* Evidence is the geometry of a finding: the span of an overlap, the whole
\* boundary of the candidate for a gap, and what two boundaries share: upright
\* sides, single points, and a stretch of both lines.
Shared == [sides : SUBSET (0..Extent), points : SUBSET (0..Extent),
           along : Strip \cup {<< >>}]
Finding == [kind : Kinds, with : Neighbours, evidence : Strip \cup Boundary \cup Shared]

TopologyTypeOK ==
  /\ base \in References
  /\ around \in [Neighbours -> References]
  /\ proposed \in Boundary /\ Valid(proposed)
  /\ suggested \in Boundary /\ Valid(suggested)
  /\ findings \subseteq Finding
  /\ stage \in {"draft", "detected", "refused"}
  /\ round \in 0..2

------------------------------------------------------------------------------
Apart(x, y) == IF x < y THEN y - x ELSE x - y
Larger(x, y) == IF x < y THEN y ELSE x
Smaller(x, y) == IF x < y THEN x ELSE y

\* pointDistance, squared.
Squared(q, t) == Apart(q.at, t.at) * Apart(q.at, t.at) + Apart(q.off, t.off) * Apart(q.off, t.off)

\* What is offered to a corner.  turn: where SnapToReferences comes to it, the
\* parcel's own first, then the neighbours' by id.
Reference(o) == IF o = 0 THEN base ELSE around[o]
Target(turn, at, off) == [turn |-> turn, at |-> at, off |-> off]
Vertices ==
  {Target(2 * o, Reference(o).left, 0) : o \in {0} \cup Neighbours}
    \cup {Target(2 * o + 1, Reference(o).right, 0) : o \in {0} \cup Neighbours}

\* projectOntoSegment for a line and the two sides of each reference.
OnLine(x, n) == Larger(n.left, Smaller(x, n.right))
Feet(q) ==
  {Target(3 * o, OnLine(q.at, Reference(o)), 0) : o \in {0} \cup Neighbours}
    \cup {Target(3 * o + 1, Reference(o).right, q.off) : o \in {0} \cup Neighbours}
    \cup {Target(3 * o + 2, Reference(o).left, q.off) : o \in {0} \cup Neighbours}

Near(q, targets) == {t \in targets : Squared(q, t) <= Tolerance * Tolerance}

Preferred(q, t, u) == \/ Squared(q, t) < Squared(q, u)
                      \/ Squared(q, t) = Squared(q, u) /\ t.turn <= u.turn

\* Of equally near targets the first one.
Nearest(q, near) == CHOOSE t \in near : \A u \in near : Preferred(q, t, u)

Place(t) == [at |-> t.at, off |-> t.off]

\* Mutant: the first vertex within the tolerance is taken, not the nearest.
SnappedToFirst(q) ==
  LET near == Near(q, Vertices) IN
    IF near # {} THEN Place(CHOOSE t \in near : \A u \in near : t.turn <= u.turn)
    ELSE IF Near(q, Feet(q)) # {} THEN Place(Nearest(q, Near(q, Feet(q))))
    ELSE q

\* nearestSnapTarget: a vertex within the tolerance, else the projection on an
\* edge within it, else the corner stays where it is.
Snapped(q) ==
  IF Near(q, Vertices) # {} THEN Place(Nearest(q, Near(q, Vertices)))
  ELSE IF Near(q, Feet(q)) # {} THEN Place(Nearest(q, Near(q, Feet(q))))
  ELSE q

SnapToReferences(c) == [west |-> Snapped(c.west), east |-> Snapped(c.east)]

------------------------------------------------------------------------------
\* Measures of the overlay library on these shapes.
Common(s, t) == [left |-> Larger(s.left, t.left), right |-> Smaller(s.right, t.right)]
OverlapLength(s, t) ==
  IF Proper(Common(s, t)) THEN Common(s, t).right - Common(s, t).left ELSE 0
Distance(s, t) == Larger(0, Larger(s.left - t.right, t.left - s.right))

\* The length of a side, and where both lines are followed.
Upright(q) == Height - 2 * q.off
OnBothLines(c) == c.west.off = 0 /\ c.east.off = 0

SharedBoundary(c, n) ==
  [ sides |-> {c.west.at, c.east.at} \cap {n.left, n.right},
    points |-> {x \in {n.left, n.right} : c.west.at < x /\ x < c.east.at}
                 \cup {q.at : q \in {p \in {c.west, c.east} :
                                       p.off = 0 /\ n.left <= p.at /\ p.at <= n.right}},
    along |-> IF OnBothLines(c) /\ Proper(Common(Span(c), n))
              THEN Common(Span(c), n) ELSE << >> ]
SideLength(c, n, q) == IF q.at \in SharedBoundary(c, n).sides THEN Upright(q) ELSE 0
SharedLength(c, n) ==
  SideLength(c, n, c.west) + SideLength(c, n, c.east)
    + (IF OnBothLines(c) THEN 2 * OverlapLength(Span(c), n) ELSE 0)

\* The area in common, times twice the width of the candidate: its height goes
\* evenly from one side to the other.
OverlapArea(c, n) ==
  LET a == Common(Span(c), n).left
      b == Common(Span(c), n).right
  IN OverlapLength(Span(c), n) * ( Upright(c.west) * (2 * c.east.at - a - b)
                                   + Upright(c.east) * (a + b - 2 * c.west.at) )

------------------------------------------------------------------------------
\* Area 10000 times over areaThreshold's tolerance^2 * 0.0001.
Overlaps(c, n) == OverlapArea(c, n) * 10000
                    > Tolerance * Tolerance * (2 * (c.east.at - c.west.at))

\* Mutant: the gap and the dangling edge leave the tolerance itself between them.
DanglesStrictly(c, n) ==
  Distance(Span(c), n) < Tolerance /\ SharedLength(c, n) <= Tolerance

Opens(c, n) == Distance(base, n) <= Tolerance /\ Distance(Span(c), n) > Tolerance
Dangles(c, n) == Distance(Span(c), n) <= Tolerance /\ SharedLength(c, n) <= Tolerance

\* The findings DetectTopology appends for one neighbour.
Against(c, id) ==
  LET n == around[id] IN
    {f \in { [kind |-> "overlap", with |-> id, evidence |-> Common(Span(c), n)],
             [kind |-> "gap", with |-> id, evidence |-> c],
             [kind |-> "dangling_edge", with |-> id, evidence |-> SharedBoundary(c, n)] } :
       CASE f.kind = "overlap" -> Overlaps(c, n)
         [] f.kind = "gap" -> Opens(c, n)
         [] f.kind = "dangling_edge" -> Dangles(c, n)}

Same(f, g) == f.kind = g.kind /\ f.evidence = g.evidence

\* deduplicateFindings: of findings of one kind with one geometry, the first,
\* the neighbours taken by id.
Deduplicated(s) == {f \in s : \A g \in s : Same(f, g) => f.with <= g.with}

DetectTopology(c) == Deduplicated(UNION {Against(c, id) : id \in Neighbours})

------------------------------------------------------------------------------
TopologyInit ==
  /\ base \in References
  /\ around \in [Neighbours -> References]
  /\ proposed \in {c \in Boundary : Valid(c)}
  /\ suggested = proposed
  /\ findings = {}
  /\ stage = "draft"
  /\ round = 0

\* Mutant: the snapped shape is not validated.
DetectUnchecked ==
  /\ stage = "draft"
  /\ suggested' = SnapToReferences(proposed)
  /\ findings' = DetectTopology(suggested')
  /\ stage' = "detected"
  /\ UNCHANGED <<parcels, proposed, round>>

\* DetectConflicts from the parsed boundaries to the findings it stores.
Detect ==
  /\ stage = "draft"
  /\ Valid(SnapToReferences(proposed))
  /\ suggested' = SnapToReferences(proposed)
  /\ findings' = DetectTopology(suggested')
  /\ stage' = "detected"
  /\ UNCHANGED <<parcels, proposed, round>>

\* The sides snap to one place, "snapping would create invalid topology", or
\* past each other, "parse snapped geometry".
RefuseSnap ==
  /\ stage = "draft"
  /\ ~ Valid(SnapToReferences(proposed))
  /\ stage' = "refused"
  /\ UNCHANGED <<parcels, proposed, suggested, findings, round>>

\* A reviewer applies the suggestion of one of the conflicts: a new draft.
Apply ==
  /\ stage = "detected"
  /\ findings # {}
  /\ proposed' = suggested
  /\ stage' = "draft"
  /\ round' = Smaller(round + 1, 2)
  /\ UNCHANGED <<parcels, suggested, findings>>

TopologyNext == Detect \/ RefuseSnap \/ Apply

TopologySpec == TopologyInit /\ [][TopologyNext]_geometry

------------------------------------------------------------------------------
\* A detection that files nothing means what a reviewer takes it to mean: the
\* snapped boundary overlaps nobody, and meets exactly every neighbour that it
\* or the old boundary came near.  No sliver falls between the three tests and
\* their tolerances.
CleanMeansClean ==
  (stage = "detected" /\ findings = {}) =>
    \A id \in Neighbours :
      LET n == around[id] IN
        /\ OverlapLength(Span(suggested), n) = 0
        /\ \/ Distance(Span(suggested), n) = 0
           \/ Distance(Span(suggested), n) > Tolerance /\ Distance(base, n) > Tolerance

\* A suggestion comes to rest (nearestSnapTarget).  The draft made from one may
\* be moved once more, for a corner projected on an edge may have come within
\* the tolerance of a vertex; then it is moved onto that vertex, or refused.  The
\* draft made from a suggestion on such a draft is where it stays: detected
\* again it is neither moved nor refused, nor answered with other findings.
OnVertex(q) == \E v \in Vertices : q = Place(v)
MovedOnlyToVertex == /\ suggested'.west = proposed.west \/ OnVertex(suggested'.west)
                     /\ suggested'.east = proposed.east \/ OnVertex(suggested'.east)
SuggestionSettles ==
  [][stage = "draft" =>
       /\ round >= 1 => stage' = "refused" \/ MovedOnlyToVertex
       /\ round = 2 => stage' = "detected" /\ suggested' = proposed /\ findings' = findings]_geometry

Disjoint ==
  \A id \in Neighbours :
    /\ OverlapLength(base, around[id]) = 0
    /\ \A other \in Neighbours \ {id} : OverlapLength(around[id], around[other]) = 0

\* What gb-540.md says a detection outputs, the participating parcels: where the
\* stored parcels do not overlap, every neighbour a finding is about is named
\* by a finding of that kind.
ParticipantsNamed ==
  (stage = "detected" /\ Disjoint) =>
    \A id \in Neighbours : \A f \in Against(suggested, id) :
      \E g \in findings : g.kind = f.kind /\ g.with = id
==============================================================================

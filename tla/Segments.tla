------------------------------- MODULE Segments -------------------------------
(***************************************************************************)
(* Journey segments of common/utils/segment-overlap.js: half-open ranges    *)
(* [originSequence, destinationSequence) of station sequence numbers, the   *)
(* '[)' ranges of PostgreSQL's INT4RANGE column occupied_segment.           *)
(***************************************************************************)
EXTENDS Naturals

\* isValidSegment, and the domain of every other function (normalize throws
\* a TypeError outside it).
IsValidSegment(origin, destination) ==
  /\ origin \in Nat
  /\ destination \in Nat
  /\ origin < destination

Segment ==
  {s \in [originSequence : Nat, destinationSequence : Nat] :
     IsValidSegment(s.originSequence, s.destinationSequence)}

SegmentsOverlap(a, b) ==
  /\ a.originSequence < b.destinationSequence
  /\ a.destinationSequence > b.originSequence

SegmentsAreAdjacent(a, b) ==
  \/ a.destinationSequence = b.originSequence
  \/ b.destinationSequence = a.originSequence

SegmentContains(container, contained) ==
  /\ container.originSequence <= contained.originSequence
  /\ container.destinationSequence >= contained.destinationSequence

-------------------------------------------------------------------------------
(***************************************************************************)
(* Reference definitions: a leg is the ride from one station to the next,   *)
(* named by the sequence number it starts from; a segment is the set of its *)
(* legs.                                                                    *)
(***************************************************************************)
Legs(s) == s.originSequence .. (s.destinationSequence - 1)

ShareLeg(a, b) == \E l \in Legs(a) : l \in Legs(b)

===============================================================================

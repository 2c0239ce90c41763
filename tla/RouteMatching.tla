--------------------------- MODULE RouteMatching ---------------------------
(***************************************************************************)
(* The distances of backend/src/library/services/utility.service.ts on a   *)
(* straight road, where a point is a number, the kilometres that           *)
(* getKmDistanceBetweenTwoPoints measures from the road's beginning.       *)
(***************************************************************************)
EXTENDS Integers, Sequences

Distance(a, b) == IF a > b THEN a - b ELSE b - a

ArePointsWithinThreshold(p, q, threshold) == Distance(p, q) <= threshold

(* getDistanceFromPointToLineSegment compares two metrics: the along-track  *)
(* distance takes a degree of longitude for one of latitude, the length of  *)
(* the segment takes the longitude, which comes first in a point, for the   *)
(* latitude of the haversine formula.  How much longer the first measures   *)
(* the same stretch, skew per cent, depends on the direction of the road:   *)
(* 100 along a parallel, more along a meridian.  A point that comes out     *)
(* further from the start than the end is gets the distance to the end,     *)
(* also when it lies between them.  For any other point the function        *)
(* returns nothing (the along-track distance is an arc cosine and never     *)
(* negative), and undefined <= threshold is false.                          *)
IsNearSegment(p, start, end, threshold, skew) ==
    /\ skew * Distance(start, p) > 100 * Distance(start, end)
    /\ Distance(p, end) <= threshold

IsPointOnRouteWithinThreshold(p, route, threshold, skew) ==
    \E i \in 1..(Len(route) - 1):
        IsNearSegment(p, route[i], route[i + 1], threshold, skew)
=============================================================================

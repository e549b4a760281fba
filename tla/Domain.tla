------------------------------- MODULE Domain -------------------------------
(***************************************************************************)
(* The data model the server keeps in memory and in state.json             *)
(* (src/internal/domain): the statuses, the segment arithmetic of a route  *)
(* and the shape of users, rides, legs and reservations.                   *)
(*                                                                         *)
(* A city stands for its class under CitiesEqual (spellings that differ in *)
(* case or in surrounding blanks are one city).  Go numbers the segments   *)
(* of a route from 0, this model from 1: segment s joins cities[s] to      *)
(* cities[s+1].  A sequence of segment indexes is kept as a set, because   *)
(* SegmentIndexesBetween returns every index of an interval once.          *)
(***************************************************************************)
EXTENDS Integers, Sequences, FiniteSets

RideStatuses == {"ACTIVE", "CANCELLED"}

ReservationStatuses == {"CONFIRMED", "CANCELLED"}

Roles == {"DRIVER", "PASSENGER"}

\* Position of the first city of the route that is the given one, 0 if none.
CityIndex(cities, name) ==
  IF \E i \in DOMAIN cities : cities[i] = name
  THEN CHOOSE i \in DOMAIN cities :
         /\ cities[i] = name
         /\ \A j \in 1 .. (i - 1) : cities[j] # name
  ELSE 0

\* The segments from origin to destination; empty when they are not on the
\* route in this order (the code's ok = false).
SegmentIndexesBetween(cities, origin, destination) ==
  LET oi == CityIndex(cities, origin)
      di == CityIndex(cities, destination)
  IN  IF oi > 0 /\ di > 0 THEN oi .. (di - 1) ELSE {}

\* The first and the last of a set of indexes.
First(S) == CHOOSE s \in S : \A t \in S : s <= t

Final(S) == CHOOSE s \in S : \A t \in S : t <= s

\* A Go map: a function whose domain is the set of keys it holds.
EmptyMap == [k \in {} |-> k]

Put(map, key, value) ==
  [k \in DOMAIN map \cup {key} |-> IF k = key THEN value ELSE map[k]]

IsMap(map, Keys, Values) ==
  DOMAIN map \subseteq Keys /\ map \in [DOMAIN map -> Values]
=============================================================================

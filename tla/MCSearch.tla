------------------------------ MODULE MCSearch ------------------------------
(***************************************************************************)
(* Instances of SearchSpec for TLC.                                        *)
(***************************************************************************)
EXTENDS SearchSpec, TLC

CONSTANTS a, b, c, d, r1, r2, r3, t1, t2

MCRank == a :> 4 @@ b :> 3 @@ c :> 2 @@ d :> 1 @@ r1 :> 2 @@ r2 :> 3 @@ r3 :> 1

Car(cities, date, status, avail, prices) ==
  [cities |-> cities, date |-> date, status |-> status, avail |-> avail, prices |-> prices]

\* Free seats and prices, segment by segment, of three routes from a to c: one
\* of two segments, one of three, and one that runs against the others.
Seats(n) == {[s \in 1 .. n |-> 1]} \cup {[s \in 1 .. n |-> IF s = k THEN 0 ELSE 1] : k \in 1 .. n}

First3 == {Car(<<a, b, c>>, t1, "ACTIVE", v, p) : v \in Seats(2), p \in {<<1, 1>>, <<0, 3>>}}

Second3 ==
  {Car(<<a, d, b, c>>, t1, "ACTIVE", v, p) : v \in Seats(3), p \in {<<1, 1, 0>>, <<0, 1, 0>>}}

Third3 ==
  {Car(<<d, b, a, c>>, t, st, v, p) :
     t \in {t1, t2}, st \in {"ACTIVE", "CANCELLED"}, v \in Seats(3), p \in {<<0, 0, 1>>, <<2, 1, 2>>}}

MCSnapshots == {r1 :> x @@ r2 :> y @@ r3 :> z : x \in First3, y \in Second3, z \in Third3}

MCQueries ==
  {[from |-> q[1], to |-> q[2], date |-> t1, transfers |-> q[3], results |-> q[4]] :
     q \in {<<a, c, 2, 1>>, <<a, c, 1, 2>>, <<d, c, 2, 2>>, <<b, c, 2, 1>>}}
=============================================================================

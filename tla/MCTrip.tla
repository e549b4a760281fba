------------------------------- MODULE MCTrip -------------------------------
(***************************************************************************)
(* An instance of Trip for TLC.                                            *)
(***************************************************************************)
EXTENDS Trip, TLC

CONSTANTS d1, p1, p2, a, b, c, r1, r2, i1, q1, t1, t2

MCSeedUsers == d1 :> "DRIVER" @@ p1 :> "PASSENGER" @@ p2 :> "PASSENGER"

MCRank == a :> 1 @@ b :> 2 @@ c :> 3 @@ r1 :> 2 @@ r2 :> 1

Form(cities, date, capacity, texts) ==
  [cities |-> cities, date |-> date, capacity |-> capacity, texts |-> texts]

Typed(whole, frac) == [whole |-> whole, sep |-> frac # << >>, frac |-> frac]

\* A ride all the way, one for its second half on the same day and one on
\* another day.  Prices are "1", "2,5", "1,05" and, in place of the last, one
\* that cannot be read, one with a separator too many, the largest that is an
\* int, the last real with too many centavos, one real more, and one that is
\* a price again modulo the width (of 10 bits: the largest int is 5,11).
MCForms ==
  {Form(<<a, b, c>>, t1, 1, <<Typed(1, << >>), Typed(2, <<5>>)>>),
   Form(<<b, c>>, t2, 1, <<Typed(1, <<0, 5>>)>>)}
    \cup {Form(<<b, c>>, t1, 2, <<text>>) :
            text \in {Typed(1, <<0, 5>>), Garbage, [whole |-> 1, sep |-> TRUE, frac |-> << >>],
                      Typed(1, <<0, 5, 5>>), Typed(5, <<9, 9>>), Typed(6, << >>),
                      Typed(11, << >>), Typed(1024, << >>)}}

MCQueries ==
  {[from |-> a, to |-> c, date |-> t1, transfers |-> 1, results |-> 2]}

MCSymmetry == Permutations({p1, p2})
=============================================================================

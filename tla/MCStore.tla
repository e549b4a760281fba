------------------------------ MODULE MCStore -------------------------------
(***************************************************************************)
(* Instances of Store for TLC.                                             *)
(***************************************************************************)
EXTENDS StoreImplements, TLC

CONSTANTS d1, d2, p1, p2, a, b, c, r1, r2, i1, i2, q1, t1, t2

In(r, from, to) == [ride |-> r, origin |-> from, destination |-> to]

Out(cities, date, capacity, prices) ==
  [cities |-> cities, date |-> date, capacity |-> capacity, prices |-> prices]

\* Seats: one driver and two passengers, all from the seeds.
SeatsSeedUsers == d1 :> "DRIVER" @@ p1 :> "PASSENGER" @@ p2 :> "PASSENGER"

SeatsRegisterRequests == {[name |-> p1, role |-> "PASSENGER"]}

SeatsSymmetry == Permutations({i1, i2}) \cup Permutations({p1, p2})

\* Accounts: a second driver and a passenger register, and so do callers with
\* a taken name, an unknown role and no name.
AccountsSeedUsers == d1 :> "DRIVER"

AccountsRegisterRequests ==
  {[name |-> d2, role |-> "DRIVER"], [name |-> p1, role |-> "PASSENGER"],
   [name |-> p1, role |-> None], [name |-> None, role |-> "DRIVER"]}

\* Two routes on different days, one the continuation of the other, and one
\* malformed route for each check.
AccountsPublishRequests ==
  {Out(<<a, b>>, t1, 1, <<0>>), Out(<<b, c>>, t2, 1, <<1>>), Out(<<b, c>>, t1, 1, <<1>>),
   Out(<<a>>, t1, 1, << >>), Out(<<a, None>>, t1, 1, <<1>>),
   Out(<<a, b, a>>, t1, 1, <<1, 1>>), Out(<<a, b>>, t1, 0, <<1>>),
   Out(<<a, b>>, t1, 1, << >>), Out(<<a, b>>, t1, 1, <<-1>>),
   Out(<<a, b>>, None, 1, <<1>>)}

AccountsLegRequests == {<< >>, <<In(r1, a, b)>>, <<In(r1, a, b), In(r2, b, c)>>}

\* A route of two segments with one seat, and the way back with two.
SeatsPublishRequests ==
  {Out(<<a, b, c>>, t1, 1, <<0, 5>>), Out(<<c, b, a>>, t1, 2, <<1, 1>>)}

\* Whole rides, parts of them, a transfer, the same ride in two legs, a round
\* trip that comes back to a segment it has used, legs that do not connect.
SeatsLegRequests ==
  {<<In(r1, a, c)>>, <<In(r1, a, b)>>, <<In(r2, c, b)>>,
   <<In(r1, a, b), In(r2, b, a)>>, <<In(r1, a, b), In(r1, b, c)>>,
   <<In(r1, a, b), In(r2, b, a), In(r1, a, b)>>, <<In(r1, b, c), In(r2, b, a)>>}
=============================================================================

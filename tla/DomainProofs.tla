---------------------------- MODULE DomainProofs -----------------------------
(***************************************************************************)
(* Facts about the operators of Domain, for all routes and maps, and the   *)
(* least number principle the inductions of the other proofs go by.        *)
(***************************************************************************)
EXTENDS Domain, FiniteSetTheorems, SequenceTheorems, WellFoundedInduction, TLAPS

\* A nonempty set of naturals has a least element.
LEMMA LeastNatural ==
  ASSUME NEW T \in SUBSET Nat, T # {}
  PROVE  \E x \in T : \A y \in T : ~ (y < x)
<1>1. PICK x \in T : \A y \in T : ~ (<<y, x>> \in OpToRel(<, Nat))
  BY NatLessThanWellFounded, WFMin
<1> QED
  BY <1>1 DEF OpToRel

\* A nonempty set of naturals has a first member.
LEMMA FirstIn ==
  ASSUME NEW T \in SUBSET Nat, T # {}
  PROVE  First(T) \in T /\ \A t \in T : First(T) <= t
<1>1. PICK x \in T : \A y \in T : ~ (y < x)
  BY LeastNatural
<1>2. \A y \in T : x <= y
  BY <1>1
<1> QED
  BY <1>2 DEF First

\* One with an upper bound has a last member.
LEMMA FinalIn ==
  ASSUME NEW T \in SUBSET Nat, T # {}, NEW n \in Nat, \A t \in T : t <= n
  PROVE  Final(T) \in T /\ \A t \in T : t <= Final(T)
<1> DEFINE U == {u \in Nat : \A t \in T : t <= u}
<1>1. PICK u \in U : \A v \in U : ~ (v < u)
  BY LeastNatural
<1>2. u \in T
  <2> SUFFICES ASSUME u \notin T PROVE FALSE
    OBVIOUS
  <2>1. \A t \in T : t \in Nat /\ t < u
    BY <1>1
  <2>2. u \in Nat /\ u # 0
    <3>1. PICK t \in T : TRUE
      OBVIOUS
    <3>2. t \in Nat /\ t < u /\ u \in Nat
      BY <1>1, <2>1
    <3> QED
      BY <3>2
  <2>3. u - 1 \in Nat /\ u - 1 < u
    BY <2>2
  <2>4. \A t \in T : t <= u - 1
    BY <2>1, <2>2
  <2>5. u - 1 \in U
    BY <2>3, <2>4
  <2> QED
    BY <1>1, <2>3, <2>5
<1> QED
  BY <1>1, <1>2 DEF Final

\* Where a number is given to every member of a set, one has the least.
LEMMA LeastBy ==
  ASSUME NEW S, NEW c \in [S -> Nat], NEW V \in SUBSET S, V # {}
  PROVE  \E i \in V : \A m \in V : c[i] <= c[m]
<1> DEFINE T == {c[i] : i \in V}
<1>1. T \in SUBSET Nat /\ T # {}
  OBVIOUS
<1> HIDE DEF T
<1>2. First(T) \in T /\ \A t \in T : First(T) <= t
  BY <1>1, FirstIn
<1> QED
  BY <1>2 DEF T

\* And one the greatest, if the numbers have a bound.
LEMMA MostBy ==
  ASSUME NEW S, NEW c \in [S -> Nat], NEW V \in SUBSET S, V # {},
         NEW n \in Nat, \A m \in V : c[m] <= n
  PROVE  \E i \in V : \A m \in V : c[m] <= c[i]
<1> DEFINE T == {c[i] : i \in V}
<1>1. T \in SUBSET Nat /\ T # {} /\ \A t \in T : t <= n
  OBVIOUS
<1> HIDE DEF T
<1>2. Final(T) \in T /\ \A t \in T : t <= Final(T)
  BY <1>1, FinalIn
<1> QED
  BY <1>2 DEF T

\* A function over the indexes of a sequence, with values in a set, is a
\* sequence over that set.
LEMMA SeqOver ==
  ASSUME NEW X, NEW Y, NEW seq \in Seq(X), NEW f \in [DOMAIN seq -> Y]
  PROVE  f \in Seq(Y) /\ DOMAIN f = DOMAIN seq
<1>1. Len(seq) \in Nat /\ DOMAIN seq = 1 .. Len(seq)
  BY LenProperties
<1>2. f \in [1 .. Len(seq) -> Y]
  BY <1>1
<1> QED
  BY <1>1, <1>2, SMT

\* Putting a typed value under a legal key keeps a map typed.
LEMMA PutType ==
  ASSUME NEW Keys, NEW Values, NEW map, IsMap(map, Keys, Values),
         NEW key \in Keys, NEW value \in Values
  PROVE  IsMap(Put(map, key, value), Keys, Values)
BY DEF IsMap, Put

\* The empty map is a map of any type.
LEMMA EmptyMapType ==
  ASSUME NEW Keys, NEW Values
  PROVE  IsMap(EmptyMap, Keys, Values) /\ DOMAIN EmptyMap = {}
BY DEF IsMap, EmptyMap

\* CityIndex is 0, or the position of the city.
LEMMA CityIndexFacts ==
  ASSUME NEW cities, Len(cities) \in Nat, DOMAIN cities = 1 .. Len(cities), NEW name
  PROVE  /\ CityIndex(cities, name) \in 0 .. Len(cities)
         /\ CityIndex(cities, name) > 0 => cities[CityIndex(cities, name)] = name
<1> DEFINE T == {i \in DOMAIN cities : cities[i] = name}
<1>1. CASE T = {}
  BY <1>1 DEF CityIndex
<1>2. CASE T # {}
  <2>1. T \in SUBSET Nat
    OBVIOUS
  <2>2. PICK i \in T : \A j \in T : ~ (j < i)
    BY <1>2, <2>1, LeastNatural
  <2>3. \A j \in 1 .. (i - 1) : cities[j] # name
    BY <2>2
  <2> QED
    BY <2>2, <2>3 DEF CityIndex
<1> QED
  BY <1>1, <1>2

\* CityIndex is a position of the route, or 0.
LEMMA CityIndexType ==
  ASSUME NEW X, NEW cities \in Seq(X), NEW name
  PROVE  CityIndex(cities, name) \in 0 .. Len(cities)
BY CityIndexFacts, LenProperties

\* A city of the route is at its index.
LEMMA CityAtIndex ==
  ASSUME NEW X, NEW cities \in Seq(X), NEW name, CityIndex(cities, name) > 0
  PROVE  cities[CityIndex(cities, name)] = name
BY CityIndexFacts, LenProperties

==============================================================================

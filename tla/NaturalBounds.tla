----------------------------- MODULE NaturalBounds -----------------------------
(***************************************************************************)
(* Sets of naturals, for the proofs that choose from one: least and         *)
(* greatest elements, the pieces an interval is cut into, and the multiples *)
(* of a number.                                                             *)
(***************************************************************************)
EXTENDS Integers, WellFoundedInduction, TLAPS

LessThan == {p \in Nat \X Nat : p[1] < p[2]}

\* A nonempty set of naturals has a least element: < is well-founded on them.
LEMMA LeastElement ==
  ASSUME NEW S, S \subseteq Nat, S # {}
  PROVE  \E m \in S : \A k \in S : m <= k
<1>1. IsWellFoundedOn(LessThan, Nat)
  BY NatLessThanWellFounded DEF OpToRel, LessThan
<1>2. PICK m \in S : \A k \in S : ~(<<k, m>> \in LessThan)
  BY <1>1, WFMin
<1>3. \A k \in S : m <= k
  <2> TAKE k \in S
  <2>1. k \in Nat /\ m \in Nat /\ <<k, m>> \notin LessThan
    BY <1>2
  <2>2. <<k, m>> \in Nat \X Nat /\ <<k, m>>[1] = k /\ <<k, m>>[2] = m
    BY <2>1
  <2>3. ~(k < m)
    BY <2>1, <2>2 DEF LessThan
  <2> QED
    BY <2>1, <2>3
<1> QED
  BY <1>3

\* A nonempty set of naturals with an upper bound has a greatest element.
LEMMA GreatestElement ==
  ASSUME NEW n \in Nat, NEW S, S \subseteq 0 .. n, S # {}
  PROVE  \E m \in S : \A k \in S : k <= m
<1> DEFINE D == {n - k : k \in S}
<1>1. D \subseteq Nat /\ D # {}
  <2>1. \A k \in S : k \in 0 .. n /\ n - k \in Nat
    OBVIOUS
  <2> QED
    BY <2>1
<1>2. PICK d \in D : \A e \in D : d <= e
  BY <1>1, LeastElement
<1>3. PICK m \in S : d = n - m
  OBVIOUS
<1>4. \A k \in S : k <= m
  <2> TAKE k \in S
  <2>1. n - k \in D
    OBVIOUS
  <2>2. n - m <= n - k
    BY <1>2, <1>3, <2>1
  <2>3. k \in 0 .. n /\ m \in 0 .. n
    OBVIOUS
  <2> QED
    BY <2>2, <2>3
<1> QED
  BY <1>4

\* lo .. hi is a piece of from .. to, cut after each element of cuts, and holds b.
Piece(from, to, cuts, b, lo, hi) ==
  /\ lo \in from .. to /\ hi \in from .. to
  /\ lo <= b /\ b <= hi
  /\ lo = from \/ lo - 1 \in cuts
  /\ hi = to \/ hi \in cuts
  /\ \A c \in cuts : ~(lo <= c /\ c < hi)

\* However an interval is cut, each of its elements lies in a piece: from behind the last
\* cut before it to the next cut.
LEMMA PieceOfCut ==
  ASSUME NEW from \in Nat, NEW to \in Nat, NEW cuts, cuts \subseteq from .. to,
         NEW b \in from .. to
  PROVE  \E lo, hi : Piece(from, to, cuts, b, lo, hi)
<1>0. b \in Nat /\ \A c \in cuts : c \in Nat /\ from <= c /\ c <= to
  OBVIOUS
<1>1. \E lo \in from .. to :
        /\ lo <= b
        /\ lo = from \/ lo - 1 \in cuts
        /\ \A c \in cuts : ~(lo <= c /\ c < b)
  <2> DEFINE S == {c \in cuts : c < b}
  <2>1. CASE S = {}
    BY <2>1
  <2>2. CASE S # {}
    <3>1. \A c \in S : c \in 0 .. b
      BY <1>0
    <3>2. \E m \in S : \A k \in S : k <= m
      <4> HIDE DEF S
      <4> QED
        BY <1>0, <2>2, <3>1, GreatestElement
    <3>3. PICK m \in S : \A k \in S : k <= m
      BY <3>2
    <3>4. m \in cuts /\ m < b /\ m \in Nat
      BY <1>0
    <3>5. \A c \in cuts : c < b => c <= m
      BY <3>3
    <3>6. /\ m + 1 \in from .. to /\ m + 1 <= b /\ (m + 1) - 1 \in cuts
          /\ \A c \in cuts : ~(m + 1 <= c /\ c < b)
      BY <1>0, <3>4, <3>5
    <3> QED
      BY <3>6
  <2> QED
    BY <2>1, <2>2
<1>2. \E hi \in from .. to :
        /\ b <= hi
        /\ hi = to \/ hi \in cuts
        /\ \A c \in cuts : ~(b <= c /\ c < hi)
  <2> DEFINE S == {c \in cuts : b <= c}
  <2>1. CASE S = {}
    BY <2>1
  <2>2. CASE S # {}
    <3>1. PICK m \in S : \A k \in S : m <= k
      <4>1. S \subseteq Nat
        BY <1>0
      <4> HIDE DEF S
      <4> QED
        BY <2>2, <4>1, LeastElement
    <3>2. m \in cuts /\ b <= m /\ m \in from .. to
      BY <1>0
    <3>3. \A c \in cuts : ~(b <= c /\ c < m)
      BY <1>0, <3>1
    <3> QED
      BY <3>2, <3>3
  <2> QED
    BY <2>1, <2>2
<1>3. PICK lo \in from .. to :
        /\ lo <= b
        /\ lo = from \/ lo - 1 \in cuts
        /\ \A c \in cuts : ~(lo <= c /\ c < b)
  BY <1>1
<1>4. PICK hi \in from .. to :
        /\ b <= hi
        /\ hi = to \/ hi \in cuts
        /\ \A c \in cuts : ~(b <= c /\ c < hi)
  BY <1>2
<1>5. \A c \in cuts : ~(lo <= c /\ c < hi)
  BY <1>0, <1>3, <1>4
<1>6. Piece(from, to, cuts, b, lo, hi)
  BY <1>3, <1>4, <1>5 DEF Piece
<1> QED
  BY <1>6

\* The quotient and the remainder of a division.
LEMMA Division ==
  ASSUME NEW a \in Nat, NEW m \in Nat \ {0}
  PROVE  a = m * (a \div m) + (a % m)
BY Z3

LEMMA QuotientAndRemainder ==
  ASSUME NEW a \in Nat, NEW m \in Nat \ {0}
  PROVE  a \div m \in Nat /\ a % m \in 0 .. m - 1
BY Z3

LEMMA ProductsApart ==
  ASSUME NEW m \in Nat \ {0}, NEW q \in Nat, NEW r \in Nat, q < r
  PROVE  (m * q) + m <= m * r
BY Z3

\* Two multiples of m are m apart.
LEMMA MultiplesApart ==
  ASSUME NEW m \in Nat \ {0}, NEW a \in Nat, NEW b \in Nat, a % m = 0, b % m = 0, a < b
  PROVE  a + m <= b
<1> DEFINE q == a \div m
           r == b \div m
<1>1. q \in Nat /\ a = (m * q) + (a % m)
  BY Division, QuotientAndRemainder
<1>2. r \in Nat /\ b = (m * r) + (b % m)
  BY Division, QuotientAndRemainder
<1> HIDE DEF q, r
<1>3. q < r
  <2>1. SUFFICES ASSUME r < q PROVE FALSE
    BY <1>1, <1>2
  <2>2. (m * r) + m <= m * q
    BY <1>1, <1>2, <2>1, ProductsApart
  <2>3. m * r \in Int /\ m * q \in Int
    BY <1>1, <1>2, Z3
  <2> QED
    BY <1>1, <1>2, <2>2, <2>3
<1>4. (m * q) + m <= m * r
  BY <1>1, <1>2, <1>3, ProductsApart
<1> QED
  BY <1>1, <1>2, <1>4

\* The last multiple of m up to n is less than m away.
LEMMA MultipleBelow ==
  ASSUME NEW m \in Nat \ {0}, NEW n \in Nat
  PROVE  \E d \in 0 .. n : d % m = 0 /\ n < d + m
<1> DEFINE d == m * (n \div m)
<1>1. n \div m \in Nat /\ n = d + (n % m) /\ n % m \in 0 .. m - 1
  BY Division, QuotientAndRemainder
<1>2. d \in Nat /\ d % m = 0
  BY <1>1, Z3
<1> QED
  BY <1>1, <1>2

================================================================================

--------------------------- MODULE MembershipProofs ---------------------------
(***************************************************************************)
(* What the seating of a table rests on: counting the members of a finite  *)
(* set of numbers from below.  The n-th free seat goes to the n-th         *)
(* candidate, and these lemmas say that this is a matching.                *)
(***************************************************************************)
EXTENDS Membership, FiniteSetTheorems, WellFoundedInduction, TLAPS

Lower(S, x) == {y \in S : y < x}
UpTo(S, x)  == {y \in S : y <= x}

\* A non-empty set of natural numbers has a least member.
LEMMA LeastNumber ==
  ASSUME NEW T \in SUBSET Nat, T # {}
  PROVE  \E m \in T : \A n \in T : m <= n
<1>1. PICK m \in T : \A n \in T : ~(<<n, m>> \in OpToRel(<, Nat))
  BY NatLessThanWellFounded, WFMin, Zenon
<1>2. \A n \in Nat : n < m => <<n, m>> \in OpToRel(<, Nat)
  BY Zenon DEF OpToRel
<1>3. \A n \in T : ~(n < m)
  BY <1>1, <1>2, Zenon
<1> QED
  BY <1>3

\* A non-empty set of natural numbers that has an upper bound has a greatest member.
LEMMA GreatestNumber ==
  ASSUME NEW k \in Nat, NEW T \in SUBSET (0 .. k), T # {}
  PROVE  \E m \in T : \A n \in T : n <= m
<1> DEFINE U == {k - x : x \in T}
<1>1. U \in SUBSET Nat /\ U # {}
  <2>1. \A x \in T : x \in Int /\ x <= k
    OBVIOUS
  <2>2. \A x \in T : k - x \in Nat
    BY <2>1
  <2> QED
    BY <2>2
<1>2. PICK u \in U : \A v \in U : u <= v
  <2> HIDE DEF U
  <2> QED
    BY <1>1, LeastNumber
<1>3. PICK m \in T : u = k - m
  OBVIOUS
<1>4. ASSUME NEW n \in T PROVE n <= m
  <2>1. k - n \in U
    OBVIOUS
  <2>2. m \in Int /\ n \in Int
    OBVIOUS
  <2>3. k - m <= k - n
    BY <1>2, <1>3, <2>1
  <2> QED
    BY <2>2, <2>3
<1> QED
  BY <1>4

\* The members up to x are those below x and x itself.
LEMMA PlaceCounts ==
  ASSUME NEW S \in SUBSET Nat, IsFiniteSet(S), NEW x \in S
  PROVE  /\ Cardinality(Lower(S, x)) \in Nat
         /\ Place(S, x) = Cardinality(Lower(S, x)) + 1
         /\ Place(S, x) \in 1 .. Cardinality(S)
<1>1. UpTo(S, x) = Lower(S, x) \cup {x} /\ x \notin Lower(S, x)
  <2>1. \A y \in S : (y <= x <=> y < x \/ y = x) /\ ~(x < x)
    OBVIOUS
  <2> QED
    BY <2>1 DEF UpTo, Lower
<1>2. IsFiniteSet(Lower(S, x)) /\ Lower(S, x) \subseteq S /\ UpTo(S, x) \subseteq S
  BY FS_Subset DEF Lower, UpTo
<1>3. Cardinality(UpTo(S, x)) = Cardinality(Lower(S, x)) + 1
  BY <1>1, <1>2, FS_AddElement
<1>4. Cardinality(Lower(S, x)) \in Nat /\ Cardinality(S) \in Nat
  BY <1>2, FS_CardinalityType
<1>5. Cardinality(UpTo(S, x)) <= Cardinality(S)
  BY <1>2, FS_Subset
<1>6. Place(S, x) = Cardinality(UpTo(S, x))
  BY DEF Place, UpTo
<1> QED
  BY <1>3, <1>4, <1>5, <1>6

\* Different members have different places, in their order.
LEMMA PlacesAreOrdered ==
  ASSUME NEW S \in SUBSET Nat, IsFiniteSet(S), NEW x \in S, NEW y \in S, x < y
  PROVE  Place(S, x) < Place(S, y)
<1>1. UpTo(S, x) \in SUBSET Lower(S, y) /\ Lower(S, y) \in SUBSET S
  <2>1. \A z \in S : z <= x => z < y
    OBVIOUS
  <2> QED
    BY <2>1 DEF UpTo, Lower
<1>2. IsFiniteSet(Lower(S, y))
  BY <1>1, FS_Subset
<1>3. Cardinality(UpTo(S, x)) <= Cardinality(Lower(S, y))
  BY <1>1, <1>2, FS_Subset
<1>4. Place(S, x) = Cardinality(UpTo(S, x))
  BY DEF Place, UpTo
<1> QED
  BY <1>3, <1>4, PlaceCounts

\* There is a member at every place.
LEMMA PlacesAreTaken ==
  ASSUME NEW S \in SUBSET Nat, IsFiniteSet(S), NEW n \in 1 .. Cardinality(S)
  PROVE  \E x \in S : Place(S, x) = n
<1> DEFINE Missing == {k \in 1 .. Cardinality(S) : \A x \in S : Place(S, x) # k}
<1> SUFFICES ASSUME Missing # {} PROVE FALSE
  OBVIOUS
<1>1. Cardinality(S) \in Nat
  BY FS_CardinalityType
<1>2. Missing \subseteq Nat
  BY <1>1
<1>3. PICK k \in Missing : \A j \in Missing : k <= j
  <2> HIDE DEF Missing
  <2> QED
    BY <1>2, LeastNumber
<1>4. k \in 1 .. Cardinality(S) /\ \A x \in S : Place(S, x) # k
  OBVIOUS
<1>5. CASE k = 1
  <2>1. S # {}
    BY <1>1, <1>4, FS_EmptySet
  <2>2. PICK x \in S : \A y \in S : x <= y
    BY <2>1, LeastNumber
  <2>3. Lower(S, x) = {}
    <3>1. \A y \in S : ~(y < x)
      BY <2>2
    <3> QED
      BY <3>1 DEF Lower
  <2>4. Place(S, x) = 1
    BY <2>3, PlaceCounts, FS_EmptySet
  <2> QED
    BY <1>4, <1>5, <2>4
<1>6. CASE k # 1
  <2>1. k - 1 \in 1 .. Cardinality(S) /\ k - 1 \notin Missing
    BY <1>1, <1>3, <1>4, <1>6
  <2>2. PICK x \in S : Place(S, x) = k - 1
    BY <2>1
  <2> DEFINE Above == {y \in S : x < y}
  <2>3. Above # {}
    <3>1. SUFFICES ASSUME Above = {} PROVE FALSE
      OBVIOUS
    <3>2. UpTo(S, x) = S
      <4>1. \A y \in S : ~(x < y)
        BY <3>1
      <4>2. \A y \in S : y <= x
        BY <4>1
      <4> QED
        BY <4>2 DEF UpTo
    <3>3. Place(S, x) = Cardinality(S)
      BY <3>2 DEF Place, UpTo
    <3> QED
      BY <1>1, <1>4, <2>2, <3>3
  <2>4. PICK z \in Above : \A y \in Above : z <= y
    <3>1. Above \subseteq Nat
      OBVIOUS
    <3> HIDE DEF Above
    <3> QED
      BY <2>3, <3>1, LeastNumber
  <2>5. Lower(S, z) = UpTo(S, x)
    <3>1. \A y \in S : y < z <=> y <= x
      BY <2>4
    <3> QED
      BY <3>1 DEF Lower, UpTo
  <2>6. Place(S, z) = k
    <3>1. Place(S, x) = Cardinality(UpTo(S, x))
      BY DEF Place, UpTo
    <3> QED
      BY <1>1, <1>4, <2>2, <2>5, <3>1, PlaceCounts
  <2> QED
    BY <1>4, <2>6
<1> QED
  BY <1>5, <1>6

\* Nth and Place are inverse to each other.
LEMMA NthHasPlace ==
  ASSUME NEW S \in SUBSET Nat, IsFiniteSet(S), NEW n \in 1 .. Cardinality(S)
  PROVE  Nth(S, n) \in S /\ Place(S, Nth(S, n)) = n
<1>1. Cardinality(S) \in Nat
  BY FS_CardinalityType
<1>2. PICK x \in S : Place(S, x) = n
  BY PlacesAreTaken
<1>3. Cardinality({y \in S : y < x}) = n - 1
  BY <1>1, <1>2, PlaceCounts DEF Lower
<1>4. Nth(S, n) \in S /\ Cardinality({y \in S : y < Nth(S, n)}) = n - 1
  BY <1>3 DEF Nth
<1>5. Place(S, Nth(S, n)) = (n - 1) + 1
  BY <1>4, PlaceCounts DEF Lower
<1> QED
  BY <1>4, <1>5

\* Who is at the place of x is x.
LEMMA PlaceHasNth ==
  ASSUME NEW S \in SUBSET Nat, IsFiniteSet(S), NEW x \in S
  PROVE  Nth(S, Place(S, x)) = x
<1>1. Place(S, x) \in 1 .. Cardinality(S) /\ Cardinality(S) \in Nat
  BY PlaceCounts, FS_CardinalityType
<1> DEFINE y == Nth(S, Place(S, x))
<1>2. y \in S /\ Place(S, y) = Place(S, x)
  BY <1>1, NthHasPlace
<1> HIDE DEF y
<1>3. ~(x < y) /\ ~(y < x)
  BY <1>1, <1>2, PlacesAreOrdered
<1>4. x \in Nat /\ y \in Nat
  BY <1>2
<1>5. x = y
  BY <1>3, <1>4
<1> QED
  BY <1>5 DEF y

\* The first n members of S: there are at most n of them, counted as in S.
LEMMA FirstMembers ==
  ASSUME NEW S \in SUBSET Nat, IsFiniteSet(S), NEW n \in Nat
  PROVE  LET A == {x \in S : Place(S, x) <= n}
         IN  /\ IsFiniteSet(A) /\ A \in SUBSET S
             /\ Cardinality(A) <= n
             /\ \A x \in A : Place(A, x) = Place(S, x)
             /\ \A k \in 1 .. Cardinality(A) : Nth(A, k) = Nth(S, k)
             /\ Cardinality(S) <= n => A = S
<1> DEFINE A == {x \in S : Place(S, x) <= n}
<1>1. IsFiniteSet(A) /\ A \in SUBSET S /\ A \in SUBSET Nat
  BY FS_Subset
<1>2. \A x \in A : x \in S /\ Place(S, x) <= n
  OBVIOUS
<1>3. \A x \in S : x \in Nat /\ Place(S, x) \in Nat /\ Place(S, x) <= Cardinality(S)
  BY PlaceCounts, FS_CardinalityType
<1>4. ASSUME NEW x \in A PROVE Place(A, x) = Place(S, x)
  <2>1. ASSUME NEW y \in S, y <= x PROVE y \in A
    <3>1. Place(S, y) <= Place(S, x)
      <4>1. CASE y = x
        BY <1>2, <1>3, <4>1
      <4>2. CASE y < x
        BY <1>2, <1>3, <4>2, PlacesAreOrdered
      <4> QED
        BY <1>2, <1>3, <2>1, <4>1, <4>2
    <3> QED
      BY <1>2, <1>3, <3>1
  <2>2. {y \in A : y <= x} = {y \in S : y <= x}
    BY <1>2, <2>1
  <2> QED
    BY <2>2 DEF Place
<1>5. Cardinality(A) \in Nat /\ Cardinality(S) \in Nat
  BY <1>1, FS_CardinalityType
<1>6. Cardinality(A) <= n
  <2>1. CASE Cardinality(A) = 0
    BY <2>1
  <2>2. CASE Cardinality(A) # 0
    <3>1. Cardinality(A) \in 1 .. Cardinality(A)
      BY <1>5, <2>2
    <3> HIDE DEF A
    <3>2. PICK x \in A : Place(A, x) = Cardinality(A)
      BY <1>1, <3>1, PlacesAreTaken
    <3> QED
      BY <1>2, <1>4, <3>2
  <2> QED
    BY <2>1, <2>2
<1>7. ASSUME NEW k \in 1 .. Cardinality(A) PROVE Nth(A, k) = Nth(S, k)
  <2> HIDE DEF A
  <2>1. Nth(A, k) \in A /\ Place(A, Nth(A, k)) = k
    BY <1>1, NthHasPlace
  <2>2. Nth(A, k) \in S /\ Place(S, Nth(A, k)) = k
    BY <1>2, <1>4, <2>1
  <2> QED
    BY <2>2, PlaceHasNth
<1>8. Cardinality(S) <= n => A = S
  <2> SUFFICES ASSUME Cardinality(S) <= n PROVE A = S
    OBVIOUS
  <2>1. \A x \in S : Place(S, x) <= n
    BY <1>3, <1>5
  <2> QED
    BY <2>1
<1> QED
  BY <1>1, <1>4, <1>6, <1>7, <1>8

\* When there are no more candidates than free seats, each gets a seat of
\* its own, and the seat knows its candidate.
LEMMA Matching ==
  ASSUME NEW A \in SUBSET Nat, IsFiniteSet(A), NEW F \in SUBSET Nat, IsFiniteSet(F),
         Cardinality(A) <= Cardinality(F), NEW q \in A
  PROVE  LET i == Nth(F, Place(A, q))
         IN  i \in F /\ Place(F, i) = Place(A, q) /\ Nth(A, Place(F, i)) = q
<1>1. Place(A, q) \in 1 .. Cardinality(F)
  <2>1. Place(A, q) \in 1 .. Cardinality(A)
    BY PlaceCounts
  <2>2. Cardinality(A) \in Nat /\ Cardinality(F) \in Nat
    BY FS_CardinalityType
  <2> QED
    BY <2>1, <2>2
<1>2. Nth(F, Place(A, q)) \in F /\ Place(F, Nth(F, Place(A, q))) = Place(A, q)
  BY <1>1, NthHasPlace
<1> QED
  BY <1>2, PlaceHasNth

\* A function that tells its arguments apart has as many values as arguments.
LEMMA ValuesCount ==
  ASSUME NEW S, IsFiniteSet(S), NEW f, DOMAIN f = S, \A x, y \in S : f[x] = f[y] => x = y
  PROVE  /\ IsFiniteSet({f[x] : x \in S})
         /\ Cardinality({f[x] : x \in S}) = Cardinality(S)
<1> DEFINE T == {f[x] : x \in S}
           g == [x \in S |-> f[x]]
<1>1. g \in [S -> T]
  OBVIOUS
<1>2. g \in Injection(S, T)
  BY <1>1 DEF Injection, IsInjective
<1>3. g \in Surjection(S, T)
  BY <1>1 DEF Surjection
<1>4. ExistsBijection(S, T)
  BY <1>2, <1>3 DEF ExistsBijection, Bijection
<1> QED
  BY <1>4, FS_Bijection
=============================================================================

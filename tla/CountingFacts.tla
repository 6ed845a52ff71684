--------------------------- MODULE CountingFacts ---------------------------
(***************************************************************************)
(* Facts about largest members and about the number of places a value has  *)
(* in a sequence, which the proofs about the components rest on.           *)
(***************************************************************************)
EXTENDS Integers, Sequences, FiniteSetsExt, FiniteSetTheorems, TLAPS

\* A finite set of integers has a largest member: of the sets of members above
\* some member, a smallest one is empty.
LEMMA MaxOfFinite ==
  ASSUME NEW S \in SUBSET Int, IsFiniteSet(S), S # {}
  PROVE  Max(S) \in S /\ \A x \in S : x <= Max(S)
<1> DEFINE Above(x) == {y \in S : y > x}
           T == {Above(x) : x \in S}
<1>1. T \subseteq FiniteSubsetsOf(S)
  BY FS_Subset DEF FiniteSubsetsOf
<1>2. T # {}
  OBVIOUS
<1>3. PICK A \in T : \A B \in T : ~(<<B, A>> \in StrictSubsetOrdering(S))
  <2> HIDE DEF T
  <2> QED BY <1>1, <1>2, FS_StrictSubsetOrderingWellFounded, WFMin
<1>4. PICK x \in S : A = Above(x)
  BY <1>3
<1>5. \A y \in S : y <= x
  <2> SUFFICES ASSUME NEW y \in S, y > x PROVE FALSE
    OBVIOUS
  <2>0. x \in Int /\ y \in Int /\ \A z \in S : z \in Int
    OBVIOUS
  <2>1. Above(y) \subseteq Above(x) /\ y \in Above(x) /\ y \notin Above(y)
    <3>1. \A z \in S : z > y => z > x
      BY <2>0
    <3>2. ~(y > y)
      BY <2>0
    <3> QED
      BY <3>1, <3>2
  <2>2. Above(y) \in T /\ Above(y) \in SUBSET S /\ Above(x) \in SUBSET S
    OBVIOUS
  <2>3. <<Above(y), Above(x)>> \in StrictSubsetOrdering(S)
    <3> HIDE DEF Above
    <3> QED BY <2>1, <2>2 DEF StrictSubsetOrdering
  <2> QED
    BY <2>2, <2>3, <1>3, <1>4
<1>6. \A y \in S : x >= y
  BY <1>5
<1>7. PICK m \in S : m = Max(S) /\ \A y \in S : m >= y
  BY <1>6 DEF Max
<1> QED
  BY <1>7

\* In particular a nonempty set of numbers below a bound has one.
LEMMA MaxOfBounded ==
  ASSUME NEW S \in SUBSET Nat, NEW n \in Nat, S # {}, \A x \in S : x <= n
  PROVE  Max(S) \in S /\ \A x \in S : x <= Max(S)
BY FS_BoundedSetOfNaturals, MaxOfFinite

\* Max is the only upper bound among the members.
LEMMA MaxIsUnique ==
  ASSUME NEW S \in SUBSET Nat, NEW m \in S, \A x \in S : x <= m
  PROVE  Max(S) = m
<1>1. Max(S) \in S /\ \A x \in S : x <= Max(S)
  BY MaxOfBounded
<1>2. Max(S) \in Nat /\ m \in Nat /\ m <= Max(S) /\ Max(S) <= m
  BY <1>1
<1> QED
  BY <1>2

\* A non-empty set of naturals with a bound has a smallest member: it is the
\* largest seen from the bound.
LEMMA LeastOfBounded ==
  ASSUME NEW n \in Nat, NEW S \in SUBSET (0 .. n), S # {}
  PROVE  \E m \in S : \A x \in S : m <= x
<1> DEFINE T == {n - x : x \in S}
<1>0. \A x \in S : n - x \in Nat /\ n - x <= n
  OBVIOUS
<1>1. T \in SUBSET Nat /\ T # {} /\ \A y \in T : y <= n
  BY <1>0
<1>2. Max(T) \in T /\ \A y \in T : y <= Max(T)
  <2> HIDE DEF T
  <2> QED BY <1>1, MaxOfBounded
<1>3. PICK m \in S : Max(T) = n - m
  BY <1>2
<1>4. ASSUME NEW x \in S
      PROVE  m <= x
  <2>1. n - x \in T
    OBVIOUS
  <2>2. n - x <= n - m
    BY <1>2, <1>3, <2>1
  <2>3. x \in 0 .. n /\ m \in 0 .. n
    OBVIOUS
  <2> HIDE DEF T
  <2> QED
    BY <2>2, <2>3
<1> QED
  BY <1>4
-----------------------------------------------------------------------------
\* The places at which a sequence has the value v.
Places(s, v) == {i \in DOMAIN s : s[i] = v}

LEMMA PlacesFinite ==
  ASSUME NEW S, NEW s \in Seq(S), NEW v
  PROVE  IsFiniteSet(Places(s, v)) /\ Cardinality(Places(s, v)) \in Nat
<1>1. Len(s) \in Nat /\ Places(s, v) \in SUBSET (1 .. Len(s))
  BY DEF Places
<1>2. IsFiniteSet(1 .. Len(s))
  BY <1>1, FS_Interval
<1>3. IsFiniteSet(Places(s, v))
  BY <1>1, <1>2, FS_Subset
<1> QED
  BY <1>3, FS_CardinalityType

\* An append adds one to the count of its value.
LEMMA PlacesAppend ==
  ASSUME NEW S, NEW s \in Seq(S), NEW k \in S, NEW v
  PROVE  Cardinality(Places(Append(s, k), v)) =
           Cardinality(Places(s, v)) + (IF k = v THEN 1 ELSE 0)
<1>0. /\ DOMAIN Append(s, k) = DOMAIN s \cup {Len(s) + 1}
      /\ \A i \in DOMAIN s : Append(s, k)[i] = s[i]
      /\ Append(s, k)[Len(s) + 1] = k
      /\ Len(s) + 1 \notin DOMAIN s
  <2>1. Append(s, k) \in Seq(S) /\ Len(Append(s, k)) = Len(s) + 1 /\ Len(s) \in Nat
    OBVIOUS
  <2>2. DOMAIN s = 1 .. Len(s) /\ DOMAIN Append(s, k) = 1 .. Len(s) + 1
    BY <2>1
  <2>3. 1 .. Len(s) + 1 = (1 .. Len(s)) \cup {Len(s) + 1}
    BY <2>1
  <2> QED
    BY <2>1, <2>2, <2>3
<1>1. Places(Append(s, k), v) =
        IF k = v THEN Places(s, v) \cup {Len(s) + 1} ELSE Places(s, v)
  BY <1>0 DEF Places
<1>2. Len(s) + 1 \notin Places(s, v)
  BY DEF Places
<1>3. IsFiniteSet(Places(s, v)) /\ Cardinality(Places(s, v)) \in Nat
  BY PlacesFinite
<1>4. Cardinality(Places(s, v) \cup {Len(s) + 1}) = Cardinality(Places(s, v)) + 1
  BY <1>2, <1>3, FS_AddElement
<1> QED
  BY <1>1, <1>3, <1>4

\* Taking the head away takes one from the count of its value: the others only
\* move one place up.
LEMMA PlacesTail ==
  ASSUME NEW S, NEW s \in Seq(S), s # << >>, NEW v
  PROVE  Cardinality(Places(Tail(s), v)) =
           Cardinality(Places(s, v)) - (IF Head(s) = v THEN 1 ELSE 0)
<1> DEFINE P == Places(s, v)
           Q == Places(Tail(s), v)
           f == [i \in Q |-> i + 1]
<1>1. /\ Tail(s) \in Seq(S) /\ Len(Tail(s)) = Len(s) - 1
      /\ \A i \in 1 .. Len(s) - 1 : Tail(s)[i] = s[i + 1]
  OBVIOUS
<1>2. Len(s) \in Nat \ {0} /\ Head(s) = s[1]
  OBVIOUS
<1>3. \A i \in Q : i \in 1 .. Len(s) - 1 /\ s[i + 1] = v
  BY <1>1, <1>2 DEF Places
<1>4. \A j \in P \ {1} : j - 1 \in Q /\ j \in Nat
  BY <1>1, <1>2 DEF Places
<1>5. \A i \in Q : i + 1 \in P \ {1}
  BY <1>2, <1>3 DEF Places
<1>6. f \in Bijection(Q, P \ {1})
  <2>1. f \in [Q -> P \ {1}]
    BY <1>5
  <2>2. \A a, b \in Q : f[a] = f[b] => a = b
    BY <1>3
  <2>3. \A j \in P \ {1} : \E i \in Q : f[i] = j
    BY <1>4
  <2> HIDE DEF f, P, Q
  <2> QED
    BY <2>1, <2>2, <2>3 DEF Bijection, Injection, Surjection, IsInjective
<1>7. IsFiniteSet(Q) /\ IsFiniteSet(P) /\ Cardinality(P) \in Nat
  BY <1>1, PlacesFinite
<1>8. Cardinality(P \ {1}) = Cardinality(Q)
  <2> HIDE DEF f, P, Q
  <2> QED BY <1>6, <1>7, FS_Bijection DEF ExistsBijection
<1>9. Cardinality(P \ {1}) = IF 1 \in P THEN Cardinality(P) - 1 ELSE Cardinality(P)
  <2> HIDE DEF P
  <2> QED BY <1>7, FS_RemoveElement
<1>10. 1 \in P <=> Head(s) = v
  BY <1>2 DEF Places
<1> QED
  BY <1>7, <1>8, <1>9, <1>10

\* The head of a sequence is counted.
LEMMA PlacesHead ==
  ASSUME NEW S, NEW s \in Seq(S), s # << >>
  PROVE  Cardinality(Places(s, Head(s))) >= 1
<1>1. 1 \in Places(s, Head(s))
  BY DEF Places
<1> QED
  BY <1>1, PlacesFinite, FS_EmptySet
-----------------------------------------------------------------------------
\* A set that gains or loses one member.
Ind(p) == IF p THEN 1 ELSE 0

LEMMA MoveOne ==
  ASSUME NEW S, NEW T, NEW x, IsFiniteSet(S), \A y : y # x => (y \in S <=> y \in T)
  PROVE  /\ IsFiniteSet(T) /\ Cardinality(S) \in Nat /\ Cardinality(T) \in Nat
         /\ Cardinality(T) = Cardinality(S) - Ind(x \in S) + Ind(x \in T)
<1>1. IsFiniteSet(S \ {x}) /\ Cardinality(S) \in Nat
      /\ Cardinality(S \ {x}) = IF x \in S THEN Cardinality(S) - 1 ELSE Cardinality(S)
  BY FS_RemoveElement, FS_CardinalityType
<1>2. T = IF x \in T THEN (S \ {x}) \cup {x} ELSE S \ {x}
  OBVIOUS
<1>3. /\ IsFiniteSet((S \ {x}) \cup {x})
      /\ Cardinality((S \ {x}) \cup {x}) = Cardinality(S \ {x}) + 1
  <2> DEFINE R == S \ {x}
  <2>1. IsFiniteSet(R) /\ x \notin R
    BY <1>1
  <2> HIDE DEF R
  <2>2. IsFiniteSet(R \cup {x}) /\ Cardinality(R \cup {x}) = Cardinality(R) + 1
    BY <2>1, FS_AddElement
  <2> QED
    BY <2>2 DEF R
<1>4. IsFiniteSet(T) /\ Cardinality(T) = Cardinality(S) - Ind(x \in S) + Ind(x \in T)
  BY <1>1, <1>2, <1>3 DEF Ind
<1> QED
  BY <1>1, <1>4, FS_CardinalityType
=============================================================================

-------------------------- MODULE Versions_proofs --------------------------
(* atLeast, for versions of any length.                                    *)
EXTENDS Versions, TLAPS

(* A component of a released version is a number, present or not.          *)
LEMMA ComponentIsNumber ==
  ASSUME NEW v \in Released, NEW i \in Nat PROVE Component(v, i) \in Nat
BY DEF Released, Component

LEMMA PlacesAreNumbers ==
  ASSUME NEW v \in Released PROVE DOMAIN v \subseteq Nat
BY DEF Released

(* Where both lack a component they agree.                                 *)
LEMMA OutsideAgree ==
  ASSUME NEW v, NEW w, NEW i, i \notin DOMAIN v \cup DOMAIN w
  PROVE  Component(v, i) = Component(w, i)
BY DEF Component

(* A host of exactly the required version is accepted.                     *)
THEOREM AtLeastReflexive == ASSUME NEW v \in Released PROVE AtLeast(v, v)
<1>1. \A i \in DOMAIN v : ~Differ(Component(v, i), Component(v, i))
  BY ComponentIsNumber, PlacesAreNumbers, NaNAssumption DEF Differ
<1> QED BY <1>1 DEF AtLeast

(* Over the numbers, with missing components read as 0: no difference, or  *)
(* a first one in the version's favour.                                    *)
LEMMA AtLeastOverNat ==
  ASSUME NEW v \in Released, NEW w \in Released
  PROVE  AtLeast(v, w) <=>
           \/ \A i \in Nat : Component(v, i) = Component(w, i)
           \/ \E i \in Nat :
                /\ \A j \in Nat : j < i => Component(v, j) = Component(w, j)
                /\ Component(v, i) > Component(w, i)
<1> DEFINE P == DOMAIN v \cup DOMAIN w
           a(i) == Component(v, i)
           b(i) == Component(w, i)
<1>1. P \subseteq Nat /\ \A i \in Nat : a(i) \in Nat /\ b(i) \in Nat
  BY ComponentIsNumber, PlacesAreNumbers
<1>2. \A i \in Nat \ P : a(i) = b(i)
  BY OutsideAgree
<1>3. AtLeast(v, w) <=>
        \/ \A i \in P : a(i) = b(i)
        \/ \E i \in P : a(i) # b(i) /\ (\A j \in P : j < i => a(j) = b(j)) /\ a(i) > b(i)
  BY <1>1, NaNAssumption DEF AtLeast, Differ, Greater
<1> HIDE DEF P, a, b
<1>4. (\A i \in P : a(i) = b(i)) <=> (\A i \in Nat : a(i) = b(i))
  BY <1>1, <1>2
<1>5. (\E i \in P : a(i) # b(i) /\ (\A j \in P : j < i => a(j) = b(j)) /\ a(i) > b(i))
        <=> (\E i \in Nat : (\A j \in Nat : j < i => a(j) = b(j)) /\ a(i) > b(i))
  <2>1. \A i \in Nat : a(i) > b(i) => i \in P /\ a(i) # b(i)
    BY <1>1, <1>2
  <2> QED BY <1>1, <1>2, <2>1
<1> QED BY <1>3, <1>4, <1>5 DEF a, b

(* Two versions accepted of each other are the same, component by          *)
(* component: 1.2 and 1.2.0, and nothing else.                             *)
THEOREM AtLeastAntisymmetric ==
  ASSUME NEW v \in Released, NEW w \in Released, AtLeast(v, w), AtLeast(w, v)
  PROVE  \A k \in Nat : Component(v, k) = Component(w, k)
<1> DEFINE a(i) == Component(v, i)
           b(i) == Component(w, i)
<1>1. \A i \in Nat : a(i) \in Nat /\ b(i) \in Nat
  BY ComponentIsNumber
<1>2. \/ \A i \in Nat : a(i) = b(i)
      \/ \E i \in Nat : (\A j \in Nat : j < i => a(j) = b(j)) /\ a(i) > b(i)
  BY AtLeastOverNat
<1>3. \/ \A i \in Nat : a(i) = b(i)
      \/ \E i \in Nat : (\A j \in Nat : j < i => a(j) = b(j)) /\ b(i) > a(i)
  BY AtLeastOverNat
<1> HIDE DEF a, b
<1>4. \A i \in Nat : a(i) = b(i)
  <2> SUFFICES ASSUME ~\A i \in Nat : a(i) = b(i) PROVE FALSE
    OBVIOUS
  <2>1. PICK m \in Nat : (\A j \in Nat : j < m => a(j) = b(j)) /\ a(m) > b(m)
    BY <1>2
  <2>2. PICK n \in Nat : (\A j \in Nat : j < n => a(j) = b(j)) /\ b(n) > a(n)
    BY <1>3
  <2>3. ~(m < n) /\ ~(n < m)
    BY <2>1, <2>2, <1>1
  <2> QED BY <2>1, <2>2, <2>3, <1>1
<1> QED BY <1>4 DEF a, b

(* A host new enough for a newer requirement is new enough for an older    *)
(* one: raising REQUIRED_HOST_VERSION only ever turns hosts away.          *)
THEOREM AtLeastTransitive ==
  ASSUME NEW u \in Released, NEW v \in Released, NEW w \in Released,
         AtLeast(u, v), AtLeast(v, w)
  PROVE  AtLeast(u, w)
<1> DEFINE a(i) == Component(u, i)
           b(i) == Component(v, i)
           c(i) == Component(w, i)
<1>1. \A i \in Nat : a(i) \in Nat /\ b(i) \in Nat /\ c(i) \in Nat
  BY ComponentIsNumber
<1>2. \/ \A i \in Nat : a(i) = b(i)
      \/ \E i \in Nat : (\A j \in Nat : j < i => a(j) = b(j)) /\ a(i) > b(i)
  BY AtLeastOverNat
<1>3. \/ \A i \in Nat : b(i) = c(i)
      \/ \E i \in Nat : (\A j \in Nat : j < i => b(j) = c(j)) /\ b(i) > c(i)
  BY AtLeastOverNat
<1> HIDE DEF a, b, c
<1>4. \/ \A i \in Nat : a(i) = c(i)
      \/ \E i \in Nat : (\A j \in Nat : j < i => a(j) = c(j)) /\ a(i) > c(i)
  <2>1. CASE (\A i \in Nat : a(i) = b(i)) \/ (\A i \in Nat : b(i) = c(i))
    BY <2>1, <1>1, <1>2, <1>3
  <2>2. CASE ~((\A i \in Nat : a(i) = b(i)) \/ (\A i \in Nat : b(i) = c(i)))
    <3>1. PICK m \in Nat : (\A j \in Nat : j < m => a(j) = b(j)) /\ a(m) > b(m)
      BY <2>2, <1>2
    <3>2. PICK n \in Nat : (\A j \in Nat : j < n => b(j) = c(j)) /\ b(n) > c(n)
      BY <2>2, <1>3
    <3>3. CASE m < n
      BY <3>1, <3>2, <3>3, <1>1
    <3>4. CASE n < m
      BY <3>1, <3>2, <3>4, <1>1
    <3>5. CASE m = n
      BY <3>1, <3>2, <3>5, <1>1
    <3> QED BY <3>3, <3>4, <3>5
  <2> QED BY <2>1, <2>2
<1> QED BY <1>4, AtLeastOverNat DEF a, c

(* A part that is no number never lets a host through, of whatever length  *)
(* the versions are and whatever follows: only a component before it can.  *)
THEOREM UnreadableNeverPasses ==
  ASSUME NEW v \in Seq(Numbers), NEW w \in Seq(Numbers),
         NEW i \in DOMAIN v, UnreadableAt(i, v, w)
  PROVE  ~AtLeast(v, w)
<1> DEFINE P == DOMAIN v \cup DOMAIN w
           a(k) == Component(v, k)
           b(k) == Component(w, k)
<1>1. i \in P /\ P \subseteq Nat \ {0} /\ a(i) = NaN
  BY DEF UnreadableAt, Component
<1>2. Differ(a(i), b(i))
  BY <1>1 DEF Differ
<1>3. ASSUME NEW k \in P, Differ(a(k), b(k)), \A j \in P : j < k => ~Differ(a(j), b(j)),
             Greater(a(k), b(k))
      PROVE  FALSE
  <2>1. CASE k < i
    <3>1. k \in 1..i - 1
      BY <1>1, <2>1
    <3>2. a(k) = b(k)
      BY <3>1 DEF UnreadableAt
    <3>3. a(k) = NaN
      BY <1>3, <3>2 DEF Differ
    <3> QED BY <1>3, <3>3 DEF Greater
  <2>2. CASE k = i
    BY <1>1, <1>3, <2>2 DEF Greater
  <2>3. CASE k > i
    BY <1>1, <1>2, <1>3, <2>3
  <2> QED BY <1>1, <2>1, <2>2, <2>3
<1> QED BY <1>1, <1>2, <1>3 DEF AtLeast
=============================================================================

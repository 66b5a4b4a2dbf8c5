------------------------- MODULE Algorithms_proofs -------------------------
(* The pure parts of the program, for inputs of any length.                *)
EXTENDS MCAlgorithms, Versions_proofs, SequenceTheorems,
        WellFoundedInduction, TLAPS

(***************************************************************************)
(* Numbers: the least one of a set, and induction with the set of the      *)
(* numbers a fact holds for in the place of the fact.                      *)
(***************************************************************************)
LEMMA LeastNumber ==
  ASSUME NEW S, S \subseteq Nat, S # {}
  PROVE  \E m \in S : \A k \in S : m <= k
<1>1. IsWellFoundedOn(OpToRel(<, Nat), Nat)
  BY Zenon, NatLessThanWellFounded
<1>2. PICK x \in S : \A y \in S : <<y, x>> \notin OpToRel(<, Nat)
  BY Zenon, <1>1, WFMin
<1>3. \A y \in Nat : y < x <=> <<y, x>> \in OpToRel(<, Nat)
  BY Zenon DEF OpToRel
<1>4. \A y \in S : ~(y < x)
  BY Zenon, <1>2, <1>3
<1> QED BY <1>4

LEMMA Induction ==
  ASSUME NEW P, P \subseteq Nat, 0 \in P, \A n \in P : n + 1 \in P
  PROVE  P = Nat
<1> SUFFICES ASSUME Nat \ P # {} PROVE FALSE
  OBVIOUS
<1>1. PICK m \in Nat \ P : \A k \in Nat \ P : m <= k
  BY LeastNumber
<1>2. m # 0 /\ m - 1 \in P
  BY <1>1
<1> QED BY <1>2

(* The same over sequences, one element after another.                     *)
LEMMA SequenceInduction ==
  ASSUME NEW S, NEW P, P \subseteq Seq(S), <<>> \in P,
         \A s \in P, e \in S : Append(s, e) \in P
  PROVE  P = Seq(S)
<1> DEFINE N == {n \in Nat : \A s \in Seq(S) : Len(s) = n => s \in P}
<1>1. N \subseteq Nat
  OBVIOUS
<1>2. 0 \in N
  OBVIOUS
<1>3. ASSUME NEW n \in N PROVE n + 1 \in N
  <2>1. n \in Nat /\ \A s \in Seq(S) : Len(s) = n => s \in P
    BY <1>3
  <2>2. ASSUME NEW s \in Seq(S), Len(s) = n + 1 PROVE s \in P
    <3>1. s # <<>>
      BY <2>1, <2>2
    <3>2. PICK f \in Seq(S), e \in S : s = Append(f, e)
      BY <3>1, SequenceEmptyOrAppend
    <3>3. Len(f) = n
      BY <2>1, <2>2, <3>2, AppendProperties, LenProperties
    <3> QED BY <2>1, <3>2, <3>3
  <2> QED BY <2>1, <2>2
<1> HIDE DEF N
<1>4. N = Nat
  BY <1>1, <1>2, <1>3, Induction
<1>5. ASSUME NEW s \in Seq(S) PROVE s \in P
  <2>1. Len(s) \in N
    BY <1>4, LenProperties
  <2> QED BY <2>1 DEF N
<1> QED BY <1>5

(***************************************************************************)
(* FlattenSeq: what its recursion comes to.  The function exists, and is   *)
(* the only one of its equation.                                           *)
(***************************************************************************)
Flattening(h, ss) ==
  h = [i \in 1..Len(ss) |-> IF i = 1 THEN ss[i] ELSE h[i - 1] \o ss[i]]

LEMMA FlatteningExtended ==
  ASSUME NEW S, NEW ss \in Seq(S), NEW s \in S, NEW h, Flattening(h, ss)
  PROVE  \E g : /\ Flattening(g, Append(ss, s))
                /\ g[Len(ss) + 1] = IF ss = <<>> THEN s ELSE h[Len(ss)] \o s
<1> DEFINE n == Len(ss)
           last == IF ss = <<>> THEN s ELSE h[n] \o s
           g == [i \in 1..n + 1 |-> IF i = n + 1 THEN last ELSE h[i]]
           longer == Append(ss, s)
<1>1. /\ n \in Nat /\ Len(longer) = n + 1 /\ longer[n + 1] = s
      /\ \A i \in 1..n : longer[i] = ss[i]
      /\ ss = <<>> <=> n = 0
  OBVIOUS
<1>2. \A i \in 1..n : h[i] = IF i = 1 THEN ss[i] ELSE h[i - 1] \o ss[i]
  BY <1>1, Zenon DEF Flattening
<1> HIDE DEF longer, n
<1>3. ASSUME NEW i \in 1..n + 1
      PROVE  g[i] = IF i = 1 THEN longer[i] ELSE g[i - 1] \o longer[i]
  <2>1. CASE i = n + 1
    <3>1. CASE n = 0
      BY <1>1, <2>1, <3>1
    <3>2. CASE n # 0
      BY <1>1, <2>1, <3>2
    <3> QED BY <3>1, <3>2
  <2>2. CASE i # n + 1
    <3>1. i \in 1..n /\ (i # 1 => i - 1 \in 1..n /\ i - 1 # n + 1 /\ i - 1 \in 1..n + 1)
      BY <1>1, <2>2
    <3> QED BY <1>1, <1>2, <2>2, <3>1
  <2> QED BY <2>1, <2>2
<1>4. Flattening(g, longer)
  <2>1. g = [i \in 1..n + 1 |-> IF i = 1 THEN longer[i] ELSE g[i - 1] \o longer[i]]
    BY <1>3
  <2> QED BY <1>1, <2>1 DEF Flattening
<1>5. g[n + 1] = last
  BY <1>1
<1> QED BY <1>4, <1>5 DEF n, longer

LEMMA FlatteningExists ==
  ASSUME NEW S, NEW ss \in Seq(S)
  PROVE  \E h : Flattening(h, ss)
<1> DEFINE P == {t \in Seq(S) : \E h : Flattening(h, t)}
<1>1. <<>> \in P
  <2>1. Flattening([i \in 1..0 |-> <<>>], <<>>)
    BY DEF Flattening
  <2> QED BY <2>1
<1>2. ASSUME NEW t \in P, NEW s \in S PROVE Append(t, s) \in P
  <2>1. \E h : Flattening(h, Append(t, s))
    BY FlatteningExtended
  <2>2. Append(t, s) \in Seq(S)
    OBVIOUS
  <2> QED BY <2>1, <2>2
<1>3. P \subseteq Seq(S)
  OBVIOUS
<1> HIDE DEF P
<1>4. P = Seq(S)
  BY <1>1, <1>2, <1>3, SequenceInduction
<1> QED BY <1>4 DEF P

LEMMA FlatteningUnique ==
  ASSUME NEW S, NEW ss \in Seq(S), NEW g, Flattening(g, ss), NEW h, Flattening(h, ss)
  PROVE  g = h
<1> DEFINE n == Len(ss)
           P == {k \in Nat : k \in 1..n => g[k] = h[k]}
<1>1. n \in Nat
  OBVIOUS
<1>2. ASSUME NEW k \in 1..n
      PROVE  /\ g[k] = IF k = 1 THEN ss[k] ELSE g[k - 1] \o ss[k]
             /\ h[k] = IF k = 1 THEN ss[k] ELSE h[k - 1] \o ss[k]
  BY Zenon DEF Flattening
<1>3. 0 \in P /\ P \subseteq Nat
  OBVIOUS
<1>4. ASSUME NEW k \in P PROVE k + 1 \in P
  <2> SUFFICES ASSUME k + 1 \in 1..n PROVE g[k + 1] = h[k + 1]
    OBVIOUS
  <2>1. (k + 1) - 1 = k /\ (k + 1 # 1 => k \in 1..n)
    BY <1>1
  <2> QED BY <1>2, <2>1
<1> HIDE DEF P
<1>5. P = Nat
  BY <1>3, <1>4, Induction
<1>6. \A k \in 1..n : g[k] = h[k]
  BY <1>1, <1>5 DEF P
<1>7. DOMAIN g = 1..n /\ DOMAIN h = 1..n /\ g = [k \in 1..n |-> g[k]] /\ h = [k \in 1..n |-> h[k]]
  BY DEF Flattening
<1> QED BY <1>6, <1>7

LEMMA FlattenIs ==
  ASSUME NEW S, NEW ss \in Seq(S), ss # <<>>, NEW h, Flattening(h, ss)
  PROVE  FlattenSeq(ss) = h[Len(ss)]
<1>1. FlattenSeq(ss) = (CHOOSE g : Flattening(g, ss))[Len(ss)]
  BY EmptySeq DEF FlattenSeq, Flattening
<1>2. Flattening(CHOOSE g : Flattening(g, ss), ss)
  BY FlatteningExists, Zenon
<1>3. h = CHOOSE g : Flattening(g, ss)
  BY <1>2, FlatteningUnique
<1> QED BY <1>1, <1>3

(* One sequence more.                                                      *)
LEMMA FlattenAppend ==
  ASSUME NEW S, NEW ss \in Seq(Seq(S)), NEW s \in Seq(S)
  PROVE  FlattenSeq(<<>>) = <<>> /\ FlattenSeq(Append(ss, s)) = FlattenSeq(ss) \o s
<1>1. FlattenSeq(<<>>) = <<>>
  <2>1. Len(<<>>) = 0
    OBVIOUS
  <2> QED BY <2>1, Zenon DEF FlattenSeq
<1>2. PICK h : Flattening(h, ss)
  BY FlatteningExists
<1>3. PICK g : /\ Flattening(g, Append(ss, s))
               /\ g[Len(ss) + 1] = IF ss = <<>> THEN s ELSE h[Len(ss)] \o s
  BY <1>2, FlatteningExtended
<1>4. Append(ss, s) \in Seq(Seq(S)) /\ Append(ss, s) # <<>> /\ Len(Append(ss, s)) = Len(ss) + 1
  BY AppendProperties
<1>5. FlattenSeq(Append(ss, s)) = g[Len(ss) + 1]
  BY <1>3, <1>4, FlattenIs
<1>6. CASE ss = <<>>
  BY <1>1, <1>3, <1>5, <1>6, ConcatEmptySeq
<1>7. CASE ss # <<>>
  BY <1>1, <1>2, <1>3, <1>5, <1>7, FlattenIs
<1> QED BY <1>1, <1>6, <1>7

(***************************************************************************)
(* Versions.                                                               *)
(***************************************************************************)
(* Of two released versions one is at least the other: the extension never *)
(* finds itself with a host that is neither new enough nor too old.        *)
THEOREM AtLeastTotal ==
  ASSUME NEW v \in Released, NEW w \in Released
  PROVE  AtLeast(v, w) \/ AtLeast(w, v)
<1> DEFINE a(i) == Component(v, i)
           b(i) == Component(w, i)
           Apart == {i \in Nat : a(i) # b(i)}
<1>1. \A i \in Nat : a(i) \in Nat /\ b(i) \in Nat
  BY ComponentIsNumber
<1>2. AtLeast(v, w) <=> \/ \A i \in Nat : a(i) = b(i)
                        \/ \E i \in Nat : (\A j \in Nat : j < i => a(j) = b(j)) /\ a(i) > b(i)
  BY AtLeastOverNat
<1>3. AtLeast(w, v) <=> \/ \A i \in Nat : b(i) = a(i)
                        \/ \E i \in Nat : (\A j \in Nat : j < i => b(j) = a(j)) /\ b(i) > a(i)
  BY AtLeastOverNat
<1> HIDE DEF a, b
<1>4. CASE Apart = {}
  BY <1>2, <1>4
<1>5. CASE Apart # {}
  <2>1. PICK m \in Apart : \A k \in Apart : m <= k
    BY <1>5, LeastNumber
  <2>2. \A j \in Nat : j < m => a(j) = b(j)
    BY <2>1
  <2>3. a(m) > b(m) \/ b(m) > a(m)
    BY <1>1, <2>1
  <2> QED BY <1>2, <1>3, <2>1, <2>2, <2>3
<1> QED BY <1>4, <1>5

(* What a digit less or more means, whatever digits follow.                *)
LEMMA Digit ==
  ASSUME NEW B \in Nat, NEW x \in Nat, NEW y \in Nat, NEW p \in 0..B - 1, NEW q \in 0..B - 1
  PROVE  /\ x > y => B * x + p > B * y + q
         /\ B * x + p \in Nat
<1>1. B * x \in Nat /\ B * y \in Nat
  OBVIOUS
<1>2. ASSUME x > y PROVE B * x + p > B * y + q
  <2> DEFINE d == x - (y + 1)
  <2>1. d \in Nat /\ x = (y + 1) + d
    BY <1>2
  <2> HIDE DEF d
  <2>2. B * d \in Nat
    BY <2>1
  <2>3. B * x = B * y + B + B * d
    BY <2>1
  <2> QED BY <1>1, <2>2, <2>3
<1> QED BY <1>1, <1>2

(* Three digits: the order of the numbers they write.                      *)
Written(B, a, b, c) == B * B * a + B * b + c

LEMMA ThreeDigits ==
  ASSUME NEW B \in Nat,
         NEW a \in 0..B - 1, NEW b \in 0..B - 1, NEW c \in 0..B - 1,
         NEW x \in 0..B - 1, NEW y \in 0..B - 1, NEW z \in 0..B - 1
  PROVE  Written(B, a, b, c) >= Written(B, x, y, z)
           <=> \/ a > x
               \/ a = x /\ b > y
               \/ a = x /\ b = y /\ c >= z
<1> DEFINE m == B * a + b
           n == B * x + y
<1>1. m \in Nat /\ n \in Nat /\ (a > x => m > n) /\ (x > a => n > m)
  BY Digit
<1>2. (m > n => B * m + c > B * n + z) /\ (n > m => B * n + z > B * m + c)
  BY <1>1, Digit
<1>3. B * B * a + B * b = B * m /\ B * B * x + B * y = B * n
  OBVIOUS
<1>4. m = n => B * m = B * n
  OBVIOUS
<1>5. B * m \in Nat /\ B * n \in Nat
  BY <1>1
<1>6. a = x => B * a = B * x
  OBVIOUS
<1>7. B * a \in Nat /\ B * x \in Nat
  OBVIOUS
<1>8. a = x => (m > n <=> b > y) /\ (m = n <=> b = y)
  BY <1>6, <1>7
<1>9. m > n <=> a > x \/ (a = x /\ b > y)
  BY <1>1, <1>8
<1>10. m = n <=> a = x /\ b = y
  BY <1>1, <1>8
<1> HIDE DEF m, n
<1>11. B * m + c >= B * n + z <=> m > n \/ (m = n /\ c >= z)
  BY <1>1, <1>2, <1>4, <1>5
<1> QED BY <1>3, <1>9, <1>10, <1>11 DEF Written

(* Up to three components below Base.                                      *)
LEMMA AtLeastIsNumeric ==
  ASSUME NEW v \in Released, Len(v) <= 3, \A i \in DOMAIN v : v[i] < Base,
         NEW w \in Released, Len(w) <= 3, \A i \in DOMAIN w : w[i] < Base,
         Base > 0
  PROVE  AtLeast(v, w) <=> Value(v) >= Value(w)
<1> DEFINE a(i) == Component(v, i)
           b(i) == Component(w, i)
<1>1. \A i \in Nat : a(i) \in 0..Base - 1 /\ b(i) \in 0..Base - 1
  <2>1. \A i \in DOMAIN v : v[i] \in Nat
    BY DEF Released
  <2>2. \A i \in DOMAIN w : w[i] \in Nat
    BY DEF Released
  <2>3. 0 \in 0..Base - 1
    BY BaseAssumption
  <2>4. ASSUME NEW i \in Nat PROVE a(i) \in 0..Base - 1
    BY <2>1, <2>3, BaseAssumption DEF Component
  <2>5. ASSUME NEW i \in Nat PROVE b(i) \in 0..Base - 1
    BY <2>2, <2>3, BaseAssumption DEF Component
  <2> QED BY <2>4, <2>5
<1>2. \A i \in Nat : i \notin 1..3 => a(i) = 0 /\ b(i) = 0
  BY DEF Released, Component
<1>3. AtLeast(v, w) <=> \/ \A i \in Nat : a(i) = b(i)
                        \/ \E i \in Nat : (\A j \in Nat : j < i => a(j) = b(j)) /\ a(i) > b(i)
  BY AtLeastOverNat
<1>4. Value(v) >= Value(w) <=> \/ a(1) > b(1)
                               \/ a(1) = b(1) /\ a(2) > b(2)
                               \/ a(1) = b(1) /\ a(2) = b(2) /\ a(3) >= b(3)
  <2>1. /\ Value(v) = Written(Base, a(1), a(2), a(3))
        /\ Value(w) = Written(Base, b(1), b(2), b(3))
    BY DEF Value, Written
  <2>2. /\ a(1) \in 0..Base - 1 /\ a(2) \in 0..Base - 1 /\ a(3) \in 0..Base - 1
        /\ b(1) \in 0..Base - 1 /\ b(2) \in 0..Base - 1 /\ b(3) \in 0..Base - 1
    BY <1>1
  <2> HIDE DEF a, b
  <2>3. \A d, e, f, x, y, z \in 0..Base - 1 :
          Written(Base, d, e, f) >= Written(Base, x, y, z)
            <=> \/ d > x
                \/ d = x /\ e > y
                \/ d = x /\ e = y /\ f >= z
    BY ONLY BaseAssumption, ThreeDigits
  <2> QED BY ONLY <2>1, <2>2, <2>3, SMTT(60)
<1> HIDE DEF a, b
<1>5. (\A i \in Nat : a(i) = b(i)) <=> a(1) = b(1) /\ a(2) = b(2) /\ a(3) = b(3)
  BY <1>2
<1>6. (\E i \in Nat : (\A j \in Nat : j < i => a(j) = b(j)) /\ a(i) > b(i))
        <=> \/ a(1) > b(1)
            \/ a(1) = b(1) /\ a(2) > b(2)
            \/ a(1) = b(1) /\ a(2) = b(2) /\ a(3) > b(3)
  <2>1. ASSUME NEW i \in Nat, \A j \in Nat : j < i => a(j) = b(j), a(i) > b(i)
        PROVE  \/ a(1) > b(1)
               \/ a(1) = b(1) /\ a(2) > b(2)
               \/ a(1) = b(1) /\ a(2) = b(2) /\ a(3) > b(3)
    <3>1. i \in 1..3
      BY <2>1, <1>2
    <3>2. (1 < i => a(1) = b(1)) /\ (2 < i => a(2) = b(2))
      BY <2>1
    <3>3. CASE i = 1
      BY <2>1, <3>3
    <3>4. CASE i = 2
      BY <2>1, <3>2, <3>4
    <3>5. CASE i = 3
      BY <2>1, <3>2, <3>5
    <3> QED BY <3>1, <3>3, <3>4, <3>5
  <2>2. \A j \in Nat : j < 1 => a(j) = b(j)
    BY <1>2
  <2>3. a(1) = b(1) => \A j \in Nat : j < 2 => a(j) = b(j)
    BY <1>2
  <2>4. a(1) = b(1) /\ a(2) = b(2) => \A j \in Nat : j < 3 => a(j) = b(j)
    BY <1>2
  <2>5. ASSUME NEW m \in Nat, \A j \in Nat : j < m => a(j) = b(j), a(m) > b(m)
        PROVE  \E i \in Nat : (\A j \in Nat : j < i => a(j) = b(j)) /\ a(i) > b(i)
    BY <2>5
  <2>6. a(1) > b(1) => \E i \in Nat : (\A j \in Nat : j < i => a(j) = b(j)) /\ a(i) > b(i)
    BY <2>2, <2>5
  <2>7. a(1) = b(1) /\ a(2) > b(2)
          => \E i \in Nat : (\A j \in Nat : j < i => a(j) = b(j)) /\ a(i) > b(i)
    BY <2>3, <2>5
  <2>8. a(1) = b(1) /\ a(2) = b(2) /\ a(3) > b(3)
          => \E i \in Nat : (\A j \in Nat : j < i => a(j) = b(j)) /\ a(i) > b(i)
    BY <2>4, <2>5
  <2> QED BY <2>1, <2>6, <2>7, <2>8
<1>7. a(3) >= b(3) <=> a(3) > b(3) \/ a(3) = b(3)
  <2>1. a(3) \in 0..Base - 1 /\ b(3) \in 0..Base - 1
    BY ONLY <1>1
  <2> QED BY ONLY <2>1, BaseAssumption
<1> QED BY ONLY <1>3, <1>4, <1>5, <1>6, <1>7

(***************************************************************************)
(* The inputs TLC is given.                                                *)
(***************************************************************************)
Inputs ==
  \/ input = [what |-> "none"]
  \/ \E v, w \in MCVersions : input = [what |-> "versions", have |-> v, need |-> w]
  \/ \E s \in MCSerials, k \in MCKeyIds : input = [what |-> "id", serial |-> s, key |-> k]
  \/ \E t \in MCTyped, b \in {"Sign", "Cancel"} :
       input = [what |-> "answer", typed |-> t, button |-> b]
  \/ \E t \in MCTexts : input = [what |-> "text", text |-> t]

(* Every input is one of the bounded ones.                                 *)
THEOREM TypeCorrect == Spec => []Inputs
<1>1. Init => Inputs
  BY DEF Init, Inputs
<1>2. Inputs /\ [Next]_input => Inputs'
  <2> SUFFICES ASSUME Inputs, [Next]_input PROVE Inputs'
    OBVIOUS
  <2>1. CASE Compare
    BY <2>1 DEF Compare, Inputs
  <2>2. CASE List
    BY <2>2 DEF List, Inputs
  <2>3. CASE Ask
    BY <2>3 DEF Ask, Inputs
  <2>4. CASE Show
    BY <2>4 DEF Show, Inputs
  <2>5. CASE UNCHANGED input
    BY <2>5 DEF Inputs
  <2> QED BY <2>1, <2>2, <2>3, <2>4, <2>5 DEF Next
<1> QED BY <1>1, <1>2, PTL DEF Spec

LEMMA BoundedSequence ==
  ASSUME NEW n \in Nat, NEW S, NEW s \in UpTo(n, S)
  PROVE  s \in Seq(S) /\ Len(s) <= n
<1>1. PICK k \in 0..n : s \in [1..k -> S]
  BY DEF UpTo
<1> QED BY <1>1

LEMMA UpToGrows ==
  ASSUME NEW m \in Nat, NEW n \in Nat, m <= n, NEW S
  PROVE  UpTo(m, S) \subseteq UpTo(n, S)
<1>1. 0..m \subseteq 0..n
  OBVIOUS
<1> SUFFICES ASSUME NEW u \in UpTo(m, S) PROVE u \in UpTo(n, S)
  OBVIOUS
<1>2. PICK k \in 0..m : u \in [1..k -> S]
  BY DEF UpTo
<1>3. k \in 0..n
  BY <1>1, <1>2
<1> QED BY <1>2, <1>3 DEF UpTo

LEMMA VersionInputs ==
  ASSUME Inputs, Is("versions")
  PROVE  input.have \in MCVersions /\ input.need \in MCVersions
BY DEF Inputs, Is

LEMMA BoundedVersion ==
  ASSUME NEW v \in MCVersions
  PROVE  /\ v \in Seq(Numbers) /\ Len(v) <= 3 /\ Len(v) > 0
         /\ \A i \in DOMAIN v : v[i] \in 0..Base - 1 \cup {NaN}
<1>1. v \in Seq(0..Base - 1 \cup {NaN}) /\ Len(v) <= 3 /\ v # <<>>
  BY BoundedSequence DEF MCVersions
<1> QED BY <1>1, BaseAssumption DEF Numbers

(* atLeast is numeric order, most significant component first: for         *)
(* versions of up to three components and every base.                      *)
THEOREM ComparesNumbers == Spec => []ComparesAsNumbers
<1>1. ASSUME Inputs PROVE ComparesAsNumbers
  <2> SUFFICES ASSUME Is("versions"), Numeric(input.have), Numeric(input.need)
               PROVE  AtLeast(input.have, input.need) <=> Value(input.have) >= Value(input.need)
    BY DEF ComparesAsNumbers
  <2> DEFINE v == input.have
             w == input.need
  <2>1. v \in MCVersions /\ w \in MCVersions /\ Numeric(v) /\ Numeric(w)
    BY <1>1, VersionInputs
  <2> HIDE DEF v, w
  <2>2. /\ v \in Released /\ Len(v) <= 3 /\ \A i \in DOMAIN v : v[i] < Base
        /\ w \in Released /\ Len(w) <= 3 /\ \A i \in DOMAIN w : w[i] < Base
    <3>1. ASSUME NEW u \in MCVersions, Numeric(u)
          PROVE  u \in Released /\ Len(u) <= 3 /\ \A i \in DOMAIN u : u[i] < Base
      <4>1. /\ u \in Seq(Numbers) /\ Len(u) <= 3
            /\ \A i \in DOMAIN u : u[i] \in 0..Base - 1 \cup {NaN}
        BY BoundedVersion
      <4>2. \A i \in DOMAIN u : u[i] \in Nat /\ u[i] < Base
        BY <3>1, <4>1, BaseAssumption DEF Numeric
      <4>3. u \in Seq(Nat)
        BY <4>1, <4>2
      <4> QED BY <4>1, <4>2, <4>3 DEF Released
    <3> QED BY <2>1, <3>1
  <2>3. Base > 0
    BY <2>1, BoundedVersion, BaseAssumption DEF Numeric
  <2>4. AtLeast(v, w) <=> Value(v) >= Value(w)
    BY <2>2, <2>3, AtLeastIsNumeric
  <2> QED BY <2>4 DEF v, w
<1> QED BY <1>1, TypeCorrect, PTL

(* atLeast never lets a host through by a part that is no number.          *)
THEOREM UnreadableKeptOut == Spec => []UnreadablePartNeverPasses
<1>1. ASSUME Inputs PROVE UnreadablePartNeverPasses
  <2> SUFFICES ASSUME Is("versions") PROVE UnreadablePartNeverPasses
    BY DEF UnreadablePartNeverPasses
  <2>1. input.have \in Seq(Numbers) /\ input.need \in Seq(Numbers)
    BY <1>1, VersionInputs, BoundedVersion
  <2> QED BY <2>1, UnreadableNeverPasses DEF UnreadablePartNeverPasses
<1> QED BY <1>1, TypeCorrect, PTL

(***************************************************************************)
(* The answer of a window.                                                 *)
(***************************************************************************)
LEMMA MinIsLeast ==
  ASSUME NEW S, S \subseteq Nat, S # {}
  PROVE  Min(S) \in S /\ \A k \in S : Min(S) <= k
<1>1. \E m \in S : \A k \in S : m <= k
  BY LeastNumber
<1> QED BY <1>1 DEF Min

LEMMA MaxIsGreatest ==
  ASSUME NEW n \in Nat, NEW S, S \subseteq 1..n, S # {}
  PROVE  Max(S) \in S /\ \A k \in S : Max(S) >= k
<1> DEFINE D == {n - k : k \in S}
<1>1. D \subseteq Nat /\ D # {}
  <2>1. \A k \in S : n - k \in Nat
    OBVIOUS
  <2> QED BY <2>1
<1>2. PICK d \in D : \A k \in D : d <= k
  BY <1>1, LeastNumber
<1>3. PICK m \in S : d = n - m
  BY <1>2
<1>4. \A k \in S : m >= k
  BY <1>2, <1>3
<1> QED BY <1>4 DEF Max

LEMMA PartOf ==
  ASSUME NEW C, NEW s \in Seq(C),
         NEW m \in 1..Len(s) + 1, NEW k \in 0..Len(s), m <= k + 1
  PROVE  /\ SubSeq(s, m, k) \in Seq(C) /\ Len(SubSeq(s, m, k)) = k - m + 1
         /\ \A i \in 1..k - m + 1 : SubSeq(s, m, k)[i] = s[m + i - 1]
<1>1. m \in Int /\ k \in Int /\ \A i \in m..k : s[i] \in C
  OBVIOUS
<1> QED BY <1>1, SubSeqProperties

(* A text without its blanks: what is left out in front and behind.        *)
LEMMA TrimmedIsWhole ==
  ASSUME NEW C, NEW text \in Seq(C)
  PROVE  \E lo \in 1..Len(text) + 1, hi \in 0..Len(text) :
           /\ lo <= hi + 1
           /\ Trimmed(text) = SubSeq(text, lo, hi)
           /\ \A i \in 1..Len(text) : i < lo \/ i > hi => text[i] \in White
           /\ lo <= hi => text[lo] \notin White /\ text[hi] \notin White
<1> DEFINE kept == {i \in DOMAIN text : text[i] \notin White}
<1>1. kept \subseteq 1..Len(text)
  OBVIOUS
<1>2. CASE kept = {}
  <2>1. Trimmed(text) = <<>>
    BY <1>2 DEF Trimmed
  <2>2. SubSeq(text, 1, 0) = <<>>
    BY SubSeqEmpty
  <2>3. \A i \in 1..Len(text) : text[i] \in White
    BY <1>2
  <2> QED BY <2>1, <2>2, <2>3
<1>3. CASE kept # {}
  <2> DEFINE lo == Min(kept)
             hi == Max(kept)
  <2>1. Trimmed(text) = SubSeq(text, lo, hi)
    BY <1>3 DEF Trimmed
  <2> HIDE DEF kept
  <2>2. kept \subseteq Nat /\ Len(text) \in Nat
    BY <1>1
  <2>3. lo \in kept /\ \A k \in kept : lo <= k
    BY <1>3, <2>2, MinIsLeast
  <2>4. hi \in kept /\ \A k \in kept : hi >= k
    BY <1>1, <1>3, <2>2, MaxIsGreatest
  <2> HIDE DEF lo, hi
  <2>5. lo \in 1..Len(text) /\ hi \in 1..Len(text) /\ lo <= hi
    BY <1>1, <2>3, <2>4
  <2>6. \A i \in 1..Len(text) : i < lo \/ i > hi => i \notin kept
    BY <2>3, <2>4, <2>5
  <2>7. \A i \in 1..Len(text) : i \notin kept => text[i] \in White
    BY DEF kept
  <2>8. text[lo] \notin White /\ text[hi] \notin White
    BY <2>3, <2>4 DEF kept
  <2> QED BY <2>1, <2>5, <2>6, <2>7, <2>8
<1> QED BY <1>2, <1>3

(* What stands behind the last label of the answer, which is what was      *)
(* typed, the label itself included, and the end of the line.              *)
LEMMA AnswerIsRead ==
  ASSUME NEW C, {Newline, Comma, SignReturned, TextReturned} \subseteq C,
         NEW typed \in Seq(C), Nothing \notin Seq(C)
  PROVE  /\ Pin(Answer("Sign", typed)) = Trimmed(typed \o <<Newline>>)
         /\ Pin(Answer("Cancel", typed)) = Nothing
<1> DEFINE labels == <<SignReturned, Comma, TextReturned>>
           field  == typed \o <<Newline>>
           answer == labels \o field
<1>1. labels \in Seq(C) /\ <<Newline>> \in Seq(C) /\ Len(labels) = 3
  OBVIOUS
<1>2. field \in Seq(C) /\ Len(field) = Len(typed) + 1
  BY <1>1, ConcatProperties
<1>3. Answer("Sign", typed) = answer
  BY <1>1, ConcatAssociative DEF Answer
<1>4. /\ answer \in Seq(C) /\ Len(answer) = 3 + Len(field)
      /\ \A i \in 1..3 + Len(field) : answer[i] = IF i <= 3 THEN labels[i] ELSE field[i - 3]
  BY <1>1, <1>2, ConcatProperties
<1>5. answer[1] = SignReturned /\ answer[2] = Comma /\ answer[3] = TextReturned
  BY <1>2, <1>4
<1> HIDE DEF labels, field
<1>6. answer # Nothing /\ {SignReturned, TextReturned} \subseteq Range(answer)
  <2>1. 1 \in DOMAIN answer /\ 3 \in DOMAIN answer
    BY <1>2, <1>4
  <2> QED BY <1>4, <1>5, <2>1 DEF Range
<1>7. Min({i \in DOMAIN answer : answer[i] = TextReturned}) = 3
  <2> DEFINE places == {i \in DOMAIN answer : answer[i] = TextReturned}
  <2>1. places \subseteq Nat /\ 3 \in places /\ 1 \notin places /\ 2 \notin places
        /\ 0 \notin places
    BY <1>2, <1>4, <1>5, CharacterAssumption
  <2> HIDE DEF places, answer
  <2>2. Min(places) \in places /\ Min(places) <= 3
    BY <2>1, MinIsLeast
  <2>3. \A m \in Nat : m \notin {0, 1, 2} /\ m <= 3 => m = 3
    OBVIOUS
  <2>4. Min(places) = 3
    BY <2>1, <2>2, <2>3
  <2> QED BY <2>4 DEF places
<1>8. SubSeq(answer, 4, Len(answer)) = field
  <2>1. 4 \in Len(labels) + 1..Len(labels) + Len(field)
        /\ Len(answer) \in Len(labels) + 1..Len(labels) + Len(field)
    BY <1>1, <1>2, <1>4
  <2>2. SubSeq(answer, 4, Len(answer))
          = SubSeq(field, 4 - Len(labels), Len(answer) - Len(labels))
    <3>1. \A i, j \in Len(labels) + 1..Len(labels) + Len(field) :
            SubSeq(labels \o field, i, j) = SubSeq(field, i - Len(labels), j - Len(labels))
      BY ONLY <1>1, <1>2, SubSeqOfConcat2
    <3> QED BY ONLY <2>1, <3>1
  <2>3. 4 - Len(labels) = 1 /\ Len(answer) - Len(labels) = Len(field)
    BY <1>1, <1>2, <1>4
  <2> QED BY <1>2, <2>2, <2>3, SubSeqFull
<1> HIDE DEF answer
<1>9. After(TextReturned, answer) = field
  <2>1. After(TextReturned, answer) = SubSeq(answer, 3 + 1, Len(answer))
    BY ONLY <1>7, Zenon DEF After
  <2> QED BY ONLY <1>8, <2>1
<1>10. Pin(Answer("Sign", typed)) = Trimmed(field)
  BY <1>3, <1>6, <1>9 DEF Pin
<1>11. Pin(Answer("Cancel", typed)) = Nothing
  BY DEF Pin, Answer
<1> QED BY <1>10, <1>11 DEF field

(* Of what was typed DialogConsent.pin leaves out blanks, in front and     *)
(* behind, and nothing else: for typed texts of any length.                *)
THEOREM PinIsWhole ==
  ASSUME NEW C, {Blank, Newline, Comma, SignReturned, TextReturned} \subseteq C,
         NEW typed \in Seq(C \ {Newline}), Nothing \notin Seq(C),
         NEW n, n = Len(typed), NEW pin, pin = Pin(Answer("Sign", typed))
  PROVE  /\ \E before, after \in UpTo(n, {Blank}) : typed = before \o pin \o after
         /\ pin # <<>> => pin[1] # Blank /\ pin[Len(pin)] # Blank
<1> DEFINE field == typed \o <<Newline>>
<1>1. n \in Nat /\ typed \in Seq(C)
  OBVIOUS
<1>2. /\ field \in Seq(C) /\ Len(field) = n + 1
      /\ \A i \in 1..n : field[i] = typed[i]
      /\ field[n + 1] = Newline
  BY <1>1
<1>3. pin = Trimmed(field)
  BY <1>1, AnswerIsRead
<1> HIDE DEF field
<1>4. PICK lo \in 1..Len(field) + 1, hi \in 0..Len(field) :
        /\ lo <= hi + 1
        /\ pin = SubSeq(field, lo, hi)
        /\ \A i \in 1..Len(field) : i < lo \/ i > hi => field[i] \in White
        /\ lo <= hi => field[lo] \notin White /\ field[hi] \notin White
  BY <1>2, <1>3, TrimmedIsWhole
<1>5. \A i \in 1..n : typed[i] # Newline
  OBVIOUS
<1>6. \A i \in 1..n : i < lo \/ i > hi => typed[i] = Blank
  <2> SUFFICES ASSUME NEW i \in 1..n, i < lo \/ i > hi PROVE typed[i] = Blank
    OBVIOUS
  <2>1. i \in 1..n + 1
    BY <1>1
  <2> QED BY <1>2, <1>4, <1>5, <2>1 DEF White
<1>7. CASE lo <= hi
  <2>1. hi \in 1..n /\ lo \in 1..n
    BY <1>1, <1>2, <1>4, <1>7 DEF White
  <2>2. pin = SubSeq(typed, lo, hi)
    BY <1>1, <1>4, <2>1, SubSeqOfConcat1 DEF field
  <2> DEFINE before == SubSeq(typed, 1, lo - 1)
             after  == SubSeq(typed, hi + 1, n)
  <2>3. before \in [1..lo - 1 -> {Blank}]
    <3>1. \A i \in 1..lo - 1 : typed[i] = Blank
      BY <1>6, <2>1
    <3>2. /\ before \in Seq(C) /\ Len(before) = lo - 1
          /\ \A i \in 1..lo - 1 : before[i] = typed[i]
      <4>1. 1 \in 1..n + 1 /\ lo - 1 \in 0..n /\ 1 <= (lo - 1) + 1
        BY <1>1, <2>1
      <4>2. /\ before \in Seq(C) /\ Len(before) = (lo - 1) - 1 + 1
            /\ \A i \in 1..(lo - 1) - 1 + 1 : before[i] = typed[1 + i - 1]
        BY <1>1, <4>1, PartOf
      <4>3. (lo - 1) - 1 + 1 = lo - 1 /\ \A i \in 1..lo - 1 : 1 + i - 1 = i
        BY <2>1
      <4> QED BY <4>2, <4>3
    <3> HIDE DEF before
    <3> QED BY <3>1, <3>2
  <2>4. after \in [1..n - hi -> {Blank}]
    <3>1. \A i \in 1..n - hi : typed[hi + i] = Blank
      BY <1>1, <1>6, <2>1
    <3>2. /\ after \in Seq(C) /\ Len(after) = n - hi
          /\ \A i \in 1..n - hi : after[i] = typed[hi + i]
      <4>1. hi + 1 \in 1..n + 1 /\ n \in 0..n /\ hi + 1 <= n + 1
        BY <1>1, <2>1
      <4>2. /\ after \in Seq(C) /\ Len(after) = n - (hi + 1) + 1
            /\ \A i \in 1..n - (hi + 1) + 1 : after[i] = typed[(hi + 1) + i - 1]
        BY <1>1, <4>1, PartOf
      <4>3. n - (hi + 1) + 1 = n - hi /\ \A i \in 1..n - hi : (hi + 1) + i - 1 = hi + i
        BY <1>1, <2>1
      <4> QED BY <4>2, <4>3
    <3> HIDE DEF after
    <3>3. after \in [1..n - hi -> C] /\ \A i \in 1..n - hi : after[i] = Blank
      BY ONLY <3>1, <3>2, LenProperties
    <3> QED BY ONLY <3>3
  <2>5. typed = before \o pin \o after
    <3>1. before \o pin = SubSeq(typed, 1, hi)
      <4>1. lo - 1 \in 1 - 1..n /\ hi \in lo - 1..n /\ 1 \in 1..n + 1 /\ (lo - 1) + 1 = lo
        BY <1>1, <1>7, <2>1
      <4>2. before \o SubSeq(typed, (lo - 1) + 1, hi) = SubSeq(typed, 1, hi)
        BY <1>1, <4>1, ConcatAdjacentSubSeq
      <4> QED BY <2>2, <4>1, <4>2
    <3>2. SubSeq(typed, 1, hi) \o after = SubSeq(typed, 1, n)
      BY <1>1, <2>1, ConcatAdjacentSubSeq
    <3> QED BY <1>1, <3>1, <3>2, SubSeqFull
  <2> HIDE DEF before, after
  <2>6. before \in UpTo(n, {Blank}) /\ after \in UpTo(n, {Blank})
    <3>1. lo - 1 \in 0..n /\ n - hi \in 0..n
      BY <1>1, <2>1
    <3> QED BY <2>3, <2>4, <3>1 DEF UpTo
  <2>7. pin[1] = typed[lo] /\ pin[Len(pin)] = typed[hi]
    <3>1. /\ Len(pin) = hi - lo + 1
          /\ \A i \in 1..hi - lo + 1 : pin[i] = typed[lo + i - 1]
      BY <1>1, <1>7, <2>1, <2>2, PartOf
    <3>2. 1 \in 1..hi - lo + 1 /\ hi - lo + 1 \in 1..hi - lo + 1
      BY <1>7, <2>1
    <3>3. lo + 1 - 1 = lo /\ lo + (hi - lo + 1) - 1 = hi
      BY <2>1
    <3> QED BY <3>1, <3>2, <3>3
  <2>8. typed[lo] # Blank /\ typed[hi] # Blank
    BY <1>2, <1>4, <1>7, <2>1 DEF White
  <2> QED BY <2>5, <2>6, <2>7, <2>8
<1>8. CASE ~(lo <= hi)
  <2>1. pin = <<>>
    BY <1>4, <1>8, SubSeqEmpty
  <2>2. \A i \in 1..n : typed[i] = Blank
    BY <1>4, <1>6, <1>8
  <2>3. typed \in UpTo(n, {Blank})
    <3>1. typed \in [1..n -> {Blank}]
      BY <1>1, <2>2
    <3> QED BY <1>1, <3>1 DEF UpTo
  <2>4. <<>> \in UpTo(n, {Blank})
    <3>1. <<>> \in [1..0 -> {Blank}]
      OBVIOUS
    <3> QED BY <1>1, <3>1 DEF UpTo
  <2>5. typed = typed \o <<>> \o <<>>
    BY <1>1, ConcatEmptySeq
  <2> QED BY <2>1, <2>3, <2>4, <2>5
<1> QED BY <1>7, <1>8

(* DialogConsent.pin gives what was typed without the blanks around it,    *)
(* and nothing after Cancel.                                               *)
THEOREM PinWhole == Spec => []PinIsTyped
<1>1. ASSUME Inputs PROVE PinIsTyped
  <2> SUFFICES ASSUME Is("answer") PROVE PinIsTyped
    BY DEF PinIsTyped
  <2>1. PICK t \in MCTyped, b \in {"Sign", "Cancel"} :
          input = [what |-> "answer", typed |-> t, button |-> b]
    BY <1>1 DEF Inputs, Is
  <2>2. input.typed = t /\ input.button = b
    BY <2>1
  <2>3. t \in Seq(Characters \ {Newline}) /\ t \in Seq(Characters) /\ Len(t) \in Nat /\ Len(t) <= 4
    <3>1. t \in Seq({Blank, Comma, digit, TextReturned}) /\ Len(t) <= 4
      BY BoundedSequence DEF MCTyped
    <3>2. {Blank, Comma, digit, TextReturned} \subseteq Characters \ {Newline}
      BY TypedAssumption DEF Characters
    <3>3. t \in Seq(Characters \ {Newline})
      BY <3>1, <3>2, SeqMonotonic
    <3>4. t \in Seq(Characters)
      BY <3>3, SeqMonotonic
    <3>5. Len(t) \in Nat
      BY <3>1, LenProperties
    <3> QED BY <3>1, <3>3, <3>4, <3>5
  <2>4. /\ {Blank, Newline, Comma, SignReturned, TextReturned} \subseteq Characters
        /\ Nothing \notin Seq(Characters)
    BY TypedAssumption DEF Characters
  <2>5. CASE b = "Cancel"
    <3>1. Pin(Answer(b, t)) = Nothing
      BY <2>3, <2>4, <2>5, AnswerIsRead
    <3> QED BY <2>2, <2>5, <3>1 DEF PinIsTyped
  <2>6. CASE b = "Sign"
    <3> DEFINE pin == Pin(Answer(b, t))
    <3>1. /\ \E before, after \in UpTo(Len(t), {Blank}) : t = before \o pin \o after
          /\ pin # <<>> => pin[1] # Blank /\ pin[Len(pin)] # Blank
      BY <2>3, <2>4, <2>6, PinIsWhole
    <3>2. UpTo(Len(t), {Blank}) \subseteq UpTo(4, {Blank})
      BY <2>3, UpToGrows
    <3> HIDE DEF pin
    <3>3. \E before, after \in UpTo(4, {Blank}) : t = before \o pin \o after
      BY <3>1, <3>2
    <3>4. b # "Cancel"
      BY <2>6
    <3> QED BY <2>2, <3>1, <3>3, <3>4 DEF PinIsTyped, pin
  <2> QED BY <2>5, <2>6
<1> QED BY <1>1, TypeCorrect, PTL

(***************************************************************************)
(* The id of a certificate.                                                *)
(***************************************************************************)
Octets == 0..255

LEMMA OctetOfDigits ==
  ASSUME NEW x \in Octets
  PROVE  /\ x \div 16 \in HexDigits /\ x % 16 \in HexDigits
         /\ 16 * (x \div 16) + (x % 16) = x
<1>1. x \in 0..255
  BY DEF Octets
<1>2. x \div 16 \in 0..15
  BY ONLY <1>1
<1>3. x % 16 \in 0..15
  BY ONLY <1>1
<1>4. 16 * (x \div 16) + (x % 16) = x
  BY ONLY <1>1
<1> QED BY <1>2, <1>3, <1>4 DEF HexDigits

LEMMA HexAppend ==
  ASSUME NEW b \in Seq(Octets), NEW x \in Octets
  PROVE  Hex(<<>>) = <<>> /\ Hex(Append(b, x)) = Hex(b) \o <<x \div 16, x % 16>>
<1> DEFINE digits(c) == [i \in DOMAIN c |-> <<c[i] \div 16, c[i] % 16>>]
           pair == <<x \div 16, x % 16>>
<1>1. digits(b) \in Seq(Seq(HexDigits)) /\ pair \in Seq(HexDigits)
  <2>1. pair \in Seq(HexDigits)
    BY OctetOfDigits
  <2>2. \A i \in DOMAIN b : <<b[i] \div 16, b[i] % 16>> \in Seq(HexDigits)
    BY OctetOfDigits
  <2>3. DOMAIN b = 1..Len(b) /\ Len(b) \in Nat
    BY LenProperties
  <2>4. digits(b) \in [1..Len(b) -> Seq(HexDigits)]
    BY <2>2, <2>3
  <2> QED BY <2>1, <2>3, <2>4, SeqDef
<1>2. digits(Append(b, x)) = Append(digits(b), pair)
  <2>1. /\ Append(b, x) \in Seq(Octets) /\ Len(Append(b, x)) = Len(b) + 1
        /\ \A i \in 1..Len(b) : Append(b, x)[i] = b[i]
        /\ Append(b, x)[Len(b) + 1] = x
    BY AppendProperties
  <2>2. DOMAIN b = 1..Len(b) /\ Len(b) \in Nat /\ DOMAIN Append(b, x) = 1..Len(b) + 1
    BY <2>1, LenProperties
  <2>3. /\ Append(digits(b), pair) \in Seq(Seq(HexDigits))
        /\ Len(digits(b)) = Len(b)
        /\ Len(Append(digits(b), pair)) = Len(b) + 1
        /\ \A i \in 1..Len(b) : Append(digits(b), pair)[i] = digits(b)[i]
        /\ Append(digits(b), pair)[Len(b) + 1] = pair
    BY <1>1, <2>2, AppendProperties, LenProperties
  <2>4. \A i \in 1..Len(b) + 1 : digits(Append(b, x))[i] = Append(digits(b), pair)[i]
    BY <2>1, <2>2, <2>3
  <2>5. DOMAIN Append(digits(b), pair) = 1..Len(b) + 1
    BY <2>3, LenProperties
  <2> QED BY <2>2, <2>4, <2>5
<1>3. digits(<<>>) = <<>>
  OBVIOUS
<1>4. Hex(<<>>) = FlattenSeq(digits(<<>>)) /\ Hex(b) = FlattenSeq(digits(b))
      /\ Hex(Append(b, x)) = FlattenSeq(digits(Append(b, x)))
  BY DEF Hex
<1> HIDE DEF digits, pair
<1>5. FlattenSeq(Append(digits(b), pair)) = FlattenSeq(digits(b)) \o pair
      /\ FlattenSeq(<<>>) = <<>>
  BY <1>1, FlattenAppend
<1> QED BY <1>2, <1>3, <1>4, <1>5 DEF pair

LEMMA HexDigitsOf ==
  ASSUME NEW key \in Seq(Octets)
  PROVE  /\ Hex(key) \in Seq(HexDigits) /\ Len(Hex(key)) = 2 * Len(key)
         /\ \A n \in 1..Len(key) :
              Hex(key)[2 * n - 1] = key[n] \div 16 /\ Hex(key)[2 * n] = key[n] % 16
<1> DEFINE Q(b) == /\ Hex(b) \in Seq(HexDigits) /\ Len(Hex(b)) = 2 * Len(b)
                   /\ \A n \in 1..Len(b) :
                        Hex(b)[2 * n - 1] = b[n] \div 16 /\ Hex(b)[2 * n] = b[n] % 16
           P == {b \in Seq(Octets) : Q(b)}
<1>1. <<>> \in P
  <2>1. Hex(<<>>) = <<>>
    BY DEF Hex, FlattenSeq
  <2>2. <<>> \in Seq(Octets) /\ <<>> \in Seq(HexDigits) /\ Len(<<>>) = 0
    OBVIOUS
  <2>3. Q(<<>>)
    <3> HIDE DEF P
    <3>1. Len(Hex(<<>>)) = 2 * Len(<<>>)
      BY <2>1, <2>2
    <3>2. 1..Len(<<>>) = {}
      BY <2>2
    <3> QED BY <2>1, <2>2, <3>1, <3>2
  <2> HIDE DEF Q
  <2> QED BY <2>2, <2>3
<1>2. ASSUME NEW b \in P, NEW x \in Octets PROVE Append(b, x) \in P
  <2> DEFINE more == Append(b, x)
             text == Hex(b)
             pair == <<x \div 16, x % 16>>
             n == Len(b)
  <2>1. /\ more \in Seq(Octets) /\ Len(more) = n + 1 /\ n \in Nat
        /\ \A i \in 1..n : more[i] = b[i]
        /\ more[n + 1] = x
    BY AppendProperties, LenProperties
  <2>2. Hex(more) = text \o pair
    BY HexAppend
  <2>3. /\ text \in Seq(HexDigits) /\ Len(text) = 2 * n
        /\ \A i \in 1..n : text[2 * i - 1] = b[i] \div 16 /\ text[2 * i] = b[i] % 16
    OBVIOUS
  <2>4. pair \in Seq(HexDigits) /\ Len(pair) = 2 /\ pair[1] = x \div 16 /\ pair[2] = x % 16
    BY OctetOfDigits
  <2> HIDE DEF more, text, pair, n
  <2>5. /\ text \o pair \in Seq(HexDigits) /\ Len(text \o pair) = 2 * n + 2
        /\ \A i \in 1..2 * n : (text \o pair)[i] = text[i]
        /\ (text \o pair)[2 * n + 1] = pair[1] /\ (text \o pair)[2 * n + 2] = pair[2]
    <3>1. /\ text \o pair \in Seq(HexDigits) /\ Len(text \o pair) = Len(text) + Len(pair)
          /\ \A i \in 1..Len(text) + Len(pair) :
               (text \o pair)[i] = IF i <= Len(text) THEN text[i] ELSE pair[i - Len(text)]
      BY <2>3, <2>4, ConcatProperties
    <3>2. 2 * n \in Nat /\ Len(text) + Len(pair) = 2 * n + 2
      BY <2>1, <2>3, <2>4
    <3> HIDE DEF P
    <3> QED BY ONLY <2>3, <2>4, <3>1, <3>2
  <2>6. ASSUME NEW i \in 1..n + 1
        PROVE  Hex(more)[2 * i - 1] = more[i] \div 16 /\ Hex(more)[2 * i] = more[i] % 16
    <3>1. CASE i = n + 1
      <4>1. 2 * i - 1 = 2 * n + 1 /\ 2 * i = 2 * n + 2
        BY <2>1, <3>1
      <4> QED BY <2>1, <2>2, <2>4, <2>5, <3>1, <4>1
    <3>2. CASE i # n + 1
      <4>1. i \in 1..n /\ 2 * i - 1 \in 1..2 * n /\ 2 * i \in 1..2 * n
        BY <2>1, <3>2
      <4> QED BY <2>1, <2>2, <2>3, <2>5, <4>1
    <3> QED BY <3>1, <3>2
  <2>7. Hex(more) \in Seq(HexDigits) /\ Len(Hex(more)) = 2 * Len(more)
    BY <2>1, <2>2, <2>5
  <2>8. Q(more)
    BY <2>1, <2>6, <2>7
  <2> QED BY <2>1, <2>8 DEF more
<1>3. P \subseteq Seq(Octets)
  OBVIOUS
<1> HIDE DEF P
<1>4. P = Seq(Octets)
  BY <1>1, <1>2, <1>3, SequenceInduction
<1> QED BY <1>4 DEF P

(* unhex, pair after pair: the function exists for what hex has written,   *)
(* and is the only one of its equation.                                    *)
Unhexing(h, text) ==
  h = [n \in 0..Len(text) \div 2 |->
        IF n = 0 THEN <<>>
        ELSE IF {text[2 * n - 1], text[2 * n]} \subseteq HexDigits
               THEN Append(h[n - 1], 16 * text[2 * n - 1] + text[2 * n])
               ELSE h[n - 1]]

LEMMA UnhexingOfHex ==
  ASSUME NEW key \in Seq(Octets), NEW h
  PROVE  Unhexing(h, Hex(key)) <=> h = [n \in 0..Len(key) |-> SubSeq(key, 1, n)]
<1> DEFINE text == Hex(key)
           N == Len(key)
           value(n) == SubSeq(key, 1, n)
<1>1. /\ N \in Nat /\ Len(text) \div 2 = N
      /\ \A n \in 1..N : {text[2 * n - 1], text[2 * n]} \subseteq HexDigits
                         /\ 16 * text[2 * n - 1] + text[2 * n] = key[n]
  <2>1. N \in Nat /\ Len(text) = 2 * N
    BY HexDigitsOf
  <2>2. (2 * N) \div 2 = N
    BY <2>1
  <2>3. ASSUME NEW n \in 1..N
        PROVE  {text[2 * n - 1], text[2 * n]} \subseteq HexDigits
               /\ 16 * text[2 * n - 1] + text[2 * n] = key[n]
    <3>1. text[2 * n - 1] = key[n] \div 16 /\ text[2 * n] = key[n] % 16
      BY HexDigitsOf
    <3>2. key[n] \in Octets
      OBVIOUS
    <3> QED BY <3>1, <3>2, OctetOfDigits
  <2> QED BY <2>1, <2>2, <2>3
<1>2. value(0) = <<>>
  BY SubSeqEmpty
<1>3. ASSUME NEW n \in 1..N PROVE Append(value(n - 1), key[n]) = value(n)
  <2>1. value(n) = value(n - 1) \o <<key[n]>>
    BY <1>1, SubSeqRecursiveSecond
  <2>2. value(n - 1) \in Seq(Octets) /\ key[n] \in Octets
    <3>1. n - 1 \in 0..N /\ 1 \in 1..N + 1 /\ 1 <= (n - 1) + 1
      BY <1>1
    <3> QED BY <3>1, PartOf
  <2> QED BY <2>1, <2>2, AppendIsConcat
<1> HIDE DEF N, text, value
<1>4. Unhexing(h, text) <=>
        h = [n \in 0..N |-> IF n = 0 THEN <<>>
                            ELSE IF {text[2 * n - 1], text[2 * n]} \subseteq HexDigits
                                   THEN Append(h[n - 1], 16 * text[2 * n - 1] + text[2 * n])
                                   ELSE h[n - 1]]
  BY <1>1, Zenon DEF Unhexing
<1>5. Unhexing(h, text) <=>
        h = [n \in 0..N |-> IF n = 0 THEN <<>> ELSE Append(h[n - 1], key[n])]
  <2>1. \A n \in 0..N : n # 0 => n \in 1..N
    BY <1>1
  <2> QED BY <1>1, <1>4, <2>1
<1>6. ASSUME h = [n \in 0..N |-> value(n)] PROVE Unhexing(h, text)
  <2>1. ASSUME NEW n \in 0..N
        PROVE  h[n] = IF n = 0 THEN <<>> ELSE Append(h[n - 1], key[n])
    <3>1. CASE n = 0
      BY <1>2, <1>6, <3>1
    <3>2. CASE n # 0
      <4>1. n \in 1..N /\ n - 1 \in 0..N
        BY <1>1, <3>2
      <4> QED BY <1>3, <1>6, <3>2, <4>1
    <3> QED BY <3>1, <3>2
  <2> QED BY <1>5, <1>6, <2>1
<1>7. ASSUME Unhexing(h, text) PROVE h = [n \in 0..N |-> value(n)]
  <2> DEFINE P == {n \in Nat : n \in 0..N => h[n] = value(n)}
  <2>1. \A n \in 0..N : h[n] = IF n = 0 THEN <<>> ELSE Append(h[n - 1], key[n])
    BY <1>5, <1>7
  <2>2. 0 \in P /\ P \subseteq Nat
    BY <1>2, <2>1
  <2>3. ASSUME NEW n \in P PROVE n + 1 \in P
    <3> SUFFICES ASSUME n + 1 \in 0..N PROVE h[n + 1] = value(n + 1)
      OBVIOUS
    <3>1. n \in 0..N /\ n + 1 \in 1..N /\ n + 1 # 0 /\ (n + 1) - 1 = n
      BY <1>1
    <3>2. h[n] = value(n)
      BY <3>1
    <3> HIDE DEF P
    <3> QED BY <1>3, <2>1, <3>1, <3>2
  <2> HIDE DEF P
  <2>4. P = Nat
    BY <2>2, <2>3, Induction
  <2>5. \A n \in 0..N : h[n] = value(n)
    BY <1>1, <2>4 DEF P
  <2> QED BY <1>5, <1>7, <2>5
<1> QED BY <1>6, <1>7 DEF N, text, value

(* What hex has written unhex reads back.                                  *)
LEMMA UnhexOfHex ==
  ASSUME NEW key \in Seq(Octets) PROVE Unhex(Hex(key)) = key
<1> DEFINE w == [n \in 0..Len(key) |-> SubSeq(key, 1, n)]
<1>1. Unhexing(w, Hex(key))
  BY UnhexingOfHex
<1>2. Unhexing(CHOOSE h : Unhexing(h, Hex(key)), Hex(key))
  BY <1>1, Zenon
<1>3. (CHOOSE h : Unhexing(h, Hex(key))) = w
  BY <1>2, UnhexingOfHex
<1>4. Unhex(Hex(key)) = (CHOOSE h : Unhexing(h, Hex(key)))[Len(Hex(key)) \div 2]
  BY DEF Unhex, Unhexing
<1>5. Len(Hex(key)) \div 2 = Len(key) /\ Len(key) \in Nat
  <2>1. Len(Hex(key)) = 2 * Len(key) /\ Len(key) \in Nat
    BY HexDigitsOf
  <2> QED BY <2>1
<1>6. w[Len(key)] = key
  BY <1>5, SubSeqFull
<1> QED BY <1>3, <1>4, <1>5, <1>6

(* Where the colon stands between two parts that are both there, the id is *)
(* taken apart there; with a part missing there is only one, or none.      *)
LEMMA SplitAtColon ==
  ASSUME NEW C, NEW serial \in Seq(C \ {Colon}), NEW rest \in Seq(C \ {Colon})
  PROVE  Split(Format(serial, rest))
           = IF serial = <<>>
               THEN IF rest = <<>> THEN <<>> ELSE <<rest>>
               ELSE IF rest = <<>> THEN <<serial>> ELSE <<serial, rest>>
<1> DEFINE D == C \cup {Colon}
           id == Format(serial, rest)
           m  == Len(serial)
           n  == Len(rest)
           inside == {i \in DOMAIN id : id[i] # Colon}
           first  == Min(inside)
           cuts   == {i \in DOMAIN id : id[i] = Colon /\ inside # {} /\ i > first}
           head   == SubSeq(id, first, Min(cuts) - 1)
           behind == SubSeq(id, Min(cuts) + 1, Len(id))
<1>1. /\ m \in Nat /\ n \in Nat /\ serial \in Seq(D) /\ rest \in Seq(D)
      /\ \A i \in 1..m : serial[i] # Colon
      /\ \A i \in 1..n : rest[i] # Colon
      /\ serial = <<>> <=> m = 0
      /\ rest = <<>> <=> n = 0
  <2>1. serial \in Seq(D) /\ rest \in Seq(D)
    BY SeqMonotonic
  <2> QED BY <2>1, EmptySeq
<1>2. /\ id = serial \o (<<Colon>> \o rest) /\ id = (serial \o <<Colon>>) \o rest
      /\ <<Colon>> \o rest \in Seq(D) /\ Len(<<Colon>> \o rest) = n + 1
      /\ serial \o <<Colon>> \in Seq(D) /\ Len(serial \o <<Colon>>) = m + 1
  <2>1. <<Colon>> \in Seq(D) /\ Len(<<Colon>>) = 1
    OBVIOUS
  <2> QED BY <1>1, <2>1, ConcatAssociative, ConcatProperties DEF Format
<1>3. /\ id \in Seq(D) /\ Len(id) = m + n + 1 /\ DOMAIN id = 1..m + n + 1
      /\ \A i \in 1..m : id[i] = serial[i]
      /\ id[m + 1] = Colon
      /\ \A i \in 1..n : id[m + 1 + i] = rest[i]
  <2>1. /\ id \in Seq(D) /\ Len(id) = (m + 1) + n
        /\ \A i \in 1..(m + 1) + n :
             id[i] = IF i <= m + 1 THEN (serial \o <<Colon>>)[i] ELSE rest[i - (m + 1)]
    BY <1>1, <1>2, ConcatProperties
  <2>2. /\ \A i \in 1..m : (serial \o <<Colon>>)[i] = serial[i]
        /\ (serial \o <<Colon>>)[m + 1] = Colon
    BY <1>1
  <2> HIDE DEF id, m, n
  <2>3. \A i \in 1..m + 1 : i \in 1..(m + 1) + n /\ i <= m + 1
    BY <1>1
  <2>4. m + 1 \in 1..m + 1 /\ (m + 1) + n = m + n + 1 /\ \A i \in 1..m : i \in 1..m + 1
    BY <1>1
  <2>5. DOMAIN id = 1..m + n + 1
    BY ONLY <2>1, <2>4, LenProperties
  <2>6. \A i \in 1..m : id[i] = serial[i]
    BY ONLY <2>1, <2>2, <2>3, <2>4
  <2>7. id[m + 1] = Colon
    BY ONLY <2>1, <2>2, <2>3, <2>4
  <2>8. \A i \in 1..n : id[m + 1 + i] = rest[i]
    <3> SUFFICES ASSUME NEW i \in 1..n PROVE id[m + 1 + i] = rest[i]
      OBVIOUS
    <3> DEFINE k == m + 1 + i
    <3>1. k \in 1..(m + 1) + n /\ ~(k <= m + 1) /\ k - (m + 1) = i
      <4>1. m \in Nat /\ n \in Nat
        BY ONLY <1>1
      <4> QED BY ONLY <4>1
    <3> HIDE DEF k
    <3>2. id[k] = rest[i]
      BY ONLY <2>1, <3>1
    <3> QED BY <3>2 DEF k
  <2>9. Len(id) = m + n + 1 /\ id \in Seq(D)
    BY ONLY <2>1, <2>4
  <2> QED BY ONLY <2>5, <2>6, <2>7, <2>8, <2>9
<1>4. Split(id) = CASE inside = {} -> <<>>
                    [] inside # {} /\ cuts = {} -> <<SubSeq(id, first, Len(id))>>
                    [] cuts # {} -> IF behind = <<>> THEN <<head>> ELSE <<head, behind>>
  BY Zenon DEF Split
<1> HIDE DEF id, m, n, D
<1>5. /\ inside \subseteq 1..m + n + 1 /\ m + 1 \notin inside
      /\ \A i \in 1..m + n + 1 : i # m + 1 => i \in inside
  <2>1. ASSUME NEW i \in 1..m + n + 1, i # m + 1 PROVE id[i] # Colon
    <3>1. CASE i <= m
      <4>1. i \in 1..m
        BY <1>1, <3>1
      <4> QED BY <1>1, <1>3, <4>1
    <3>2. CASE i > m
      <4> DEFINE k == i - (m + 1)
      <4>1. k \in 1..n /\ m + 1 + k = i
        BY <1>1, <2>1, <3>2
      <4> HIDE DEF k
      <4>2. id[m + 1 + k] = rest[k] /\ rest[k] # Colon
        BY ONLY <1>1, <1>3, <4>1
      <4> QED BY ONLY <4>1, <4>2
    <3> QED BY <1>1, <3>1, <3>2
  <2> QED BY <1>3, <2>1
<1>6. CASE m = 0 /\ n = 0
  <2>1. inside = {}
    BY <1>5, <1>6
  <2> QED BY <1>1, <1>4, <1>6, <2>1 DEF id
<1>7. CASE m = 0 /\ n # 0
  <2>1. 2 \in inside /\ inside \subseteq Nat /\ \A i \in inside : i >= 2
    BY <1>1, <1>5, <1>7
  <2> HIDE DEF inside
  <2>2. first \in inside /\ first <= 2
    BY <2>1, MinIsLeast
  <2> HIDE DEF first
  <2>3. first = 2
    BY <2>1, <2>2
  <2>4. cuts = {}
    BY <1>1, <1>3, <1>5, <1>7, <2>3 DEF inside
  <2> HIDE DEF cuts, head, behind
  <2>5. SubSeq(id, 2, Len(id)) = rest
    <3>1. 2 = m + 2 /\ Len(id) = n + 1 /\ serial = <<>>
      BY <1>1, <1>3, <1>7
    <3>2. id = <<Colon>> \o rest
      BY <1>1, <1>2, <3>1, ConcatEmptySeq
    <3>3. <<Colon>> \in Seq(D) /\ Len(<<Colon>>) = 1
      BY DEF D
    <3>4. SubSeq(id, 2, n + 1) = SubSeq(rest, 2 - 1, (n + 1) - 1)
      <4>1. 2 \in 1 + 1..1 + n /\ n + 1 \in 1 + 1..1 + n
        BY <1>1, <1>7
      <4> QED BY <1>1, <3>2, <3>3, <4>1, SubSeqOfConcat2 DEF n
    <3>5. 2 - 1 = 1 /\ (n + 1) - 1 = n
      BY <1>1
    <3> QED BY <1>1, <3>1, <3>4, <3>5, SubSeqFull DEF n
  <2>6. Split(id) = <<rest>>
    BY <1>4, <2>1, <2>3, <2>4, <2>5
  <2> QED BY <1>1, <1>7, <2>6 DEF id
<1>8. CASE m # 0
  <2>1. 1 \in inside /\ inside \subseteq Nat /\ \A i \in inside : i >= 1
    BY <1>1, <1>5, <1>8
  <2> HIDE DEF inside
  <2>2. first \in inside /\ first <= 1
    BY <2>1, MinIsLeast
  <2> HIDE DEF first
  <2>3. first = 1
    BY <2>1, <2>2
  <2>4. cuts = {m + 1}
    <3>1. \A i \in DOMAIN id : id[i] = Colon <=> i \notin inside
      BY DEF inside
    <3>2. m + 1 \in DOMAIN id /\ m + 1 > 1
      BY <1>1, <1>3, <1>8
    <3>3. \A i \in DOMAIN id : id[i] = Colon <=> i = m + 1
      BY <1>3, <1>5, <3>1
    <3>4. cuts = {i \in DOMAIN id : i = m + 1}
      BY <2>1, <2>3, <3>2, <3>3
    <3> QED BY <3>2, <3>4
  <2>5. Min(cuts) = m + 1
    <3>1. \A k \in {m + 1} : k = m + 1
      OBVIOUS
    <3>2. {m + 1} \subseteq Nat /\ {m + 1} # {}
      BY <1>1
    <3>3. Min({m + 1}) \in {m + 1}
      BY <3>2, MinIsLeast
    <3> QED BY <2>4, <3>1, <3>3
  <2> HIDE DEF cuts
  <2>6. head = serial
    <3>1. head = SubSeq(id, 1, m)
      <4>1. (m + 1) - 1 = m
        BY <1>1
      <4> QED BY <2>3, <2>5, <4>1
    <3>2. SubSeq(id, 1, m) = SubSeq(serial, 1, m)
      BY <1>1, <1>2, <1>8, SubSeqOfConcat1 DEF m
    <3> QED BY <1>1, <3>1, <3>2, SubSeqFull DEF m
  <2>7. behind = rest
    <3>1. behind = SubSeq(id, m + 2, m + n + 1)
      <4>1. (m + 1) + 1 = m + 2
        BY <1>1
      <4> QED BY <1>3, <2>5, <4>1
    <3>2. CASE n = 0
      <4>1. m + 2 \in Int /\ m + n + 1 \in Int /\ m + n + 1 < m + 2
        BY <1>1, <3>2
      <4> QED BY <1>1, <3>1, <3>2, <4>1, SubSeqEmpty
    <3>3. CASE n # 0
      <4>1. /\ m + 2 \in (m + 1) + 1..(m + 1) + n /\ m + n + 1 \in (m + 1) + 1..(m + 1) + n
            /\ (m + 2) - (m + 1) = 1 /\ (m + n + 1) - (m + 1) = n
        BY <1>1, <3>3
      <4>2. SubSeq(id, m + 2, m + n + 1)
              = SubSeq(rest, (m + 2) - (m + 1), (m + n + 1) - (m + 1))
        BY <1>1, <1>2, <4>1, SubSeqOfConcat2 DEF n
      <4> QED BY <1>1, <3>1, <4>1, <4>2, SubSeqFull DEF n
    <3> QED BY <3>2, <3>3
  <2> HIDE DEF head, behind
  <2>8. Split(id) = IF rest = <<>> THEN <<serial>> ELSE <<serial, rest>>
    BY <1>4, <2>1, <2>4, <2>6, <2>7
  <2> QED BY <1>1, <1>8, <2>8 DEF id
<1> QED BY <1>6, <1>7, <1>8

(* An id made of a serial without a colon selects that token and that key  *)
(* (locate), of whatever length they are; without the one or the other,    *)
(* nothing.                                                                *)
THEOREM IdIsRead ==
  ASSUME NEW C, HexDigits \subseteq C, NEW serial \in Seq(C \ {Colon}),
         NEW key \in Seq(Octets), NEW id, id = Format(serial, Hex(key))
  PROVE  IF serial = <<>> \/ key = <<>>
           THEN ~Located(id)
           ELSE Located(id) /\ Token(id) = serial /\ KeyId(id) = key
<1> DEFINE rest == Hex(key)
<1>1. rest \in Seq(C \ {Colon})
  <2>1. HexDigits \subseteq C \ {Colon}
    BY ColonAssumption
  <2> QED BY <2>1, HexDigitsOf, SeqMonotonic
<1>2. rest = <<>> <=> key = <<>>
  <2>1. Len(rest) = 2 * Len(key) /\ Len(key) \in Nat
    BY HexDigitsOf
  <2>2. (rest = <<>> <=> Len(rest) = 0) /\ (key = <<>> <=> Len(key) = 0)
    BY <1>1, EmptySeq
  <2> QED BY <2>1, <2>2
<1>3. Unhex(rest) = key
  BY UnhexOfHex
<1> HIDE DEF rest
<1>4. Split(id) = IF serial = <<>>
                    THEN IF rest = <<>> THEN <<>> ELSE <<rest>>
                    ELSE IF rest = <<>> THEN <<serial>> ELSE <<serial, rest>>
  BY <1>1, SplitAtColon DEF rest
<1>5. CASE serial = <<>> \/ key = <<>>
  <2>1. Split(id) \in {<<>>, <<rest>>, <<serial>>}
    BY <1>2, <1>4, <1>5
  <2>2. Len(<<>>) = 0 /\ Len(<<rest>>) = 1 /\ Len(<<serial>>) = 1
    OBVIOUS
  <2>3. Len(Split(id)) # 2
    <3>1. CASE Split(id) = <<>>
      BY <2>2, <3>1
    <3>2. CASE Split(id) = <<rest>>
      BY <2>2, <3>2
    <3>3. CASE Split(id) = <<serial>>
      BY <2>2, <3>3
    <3> QED BY <2>1, <3>1, <3>2, <3>3
  <2> QED BY <1>5, <2>3 DEF Located
<1>6. CASE ~(serial = <<>> \/ key = <<>>)
  <2>1. Split(id) = <<serial, rest>>
    BY <1>2, <1>4, <1>6
  <2>2. Len(Split(id)) = 2 /\ Split(id)[1] = serial /\ Split(id)[2] = rest
    BY <2>1
  <2> QED BY <1>3, <1>6, <2>2 DEF Located, Token, KeyId
<1> QED BY <1>5, <1>6

(* Two tokens, or two keys, never share an id: listCertificates gives a    *)
(* page ids that tell them apart.                                          *)
THEOREM IdsDiffer ==
  ASSUME NEW C, HexDigits \subseteq C,
         NEW serial \in Seq(C \ {Colon}), NEW key \in Seq(Octets), serial # <<>>, key # <<>>,
         NEW other \in Seq(C \ {Colon}), NEW otherKey \in Seq(Octets),
         Format(serial, Hex(key)) = Format(other, Hex(otherKey))
  PROVE  serial = other /\ key = otherKey
<1> DEFINE id == Format(serial, Hex(key))
<1>1. Located(id) /\ Token(id) = serial /\ KeyId(id) = key
  BY IdIsRead
<1>2. IF other = <<>> \/ otherKey = <<>>
        THEN ~Located(id)
        ELSE Located(id) /\ Token(id) = other /\ KeyId(id) = otherKey
  BY IdIsRead
<1> QED BY <1>1, <1>2

(* What stands in front of the cut has no colon: no token with one in its  *)
(* serial is ever asked for.                                               *)
LEMMA FirstPartHasNoColon ==
  ASSUME NEW D, NEW id \in Seq(D), Located(id)
  PROVE  Colon \notin Range(Token(id))
<1> DEFINE inside == {i \in DOMAIN id : id[i] # Colon}
           first  == Min(inside)
           cuts   == {i \in DOMAIN id : id[i] = Colon /\ inside # {} /\ i > first}
           head   == SubSeq(id, first, Min(cuts) - 1)
           behind == SubSeq(id, Min(cuts) + 1, Len(id))
<1>1. Split(id) = CASE inside = {} -> <<>>
                    [] inside # {} /\ cuts = {} -> <<SubSeq(id, first, Len(id))>>
                    [] cuts # {} -> IF behind = <<>> THEN <<head>> ELSE <<head, behind>>
  BY Zenon DEF Split
<1>2. DOMAIN id = 1..Len(id) /\ Len(id) \in Nat
  BY LenProperties
<1>3. inside \subseteq Nat /\ cuts \subseteq Nat /\ (cuts # {} => inside # {})
  <2> DEFINE from == first
  <2>1. inside \subseteq Nat
    BY <1>2
  <2> HIDE DEF from
  <2>2. cuts = {i \in DOMAIN id : id[i] = Colon /\ inside # {} /\ i > from}
    BY DEF from
  <2> HIDE DEF cuts, inside
  <2>3. cuts \subseteq Nat /\ (cuts # {} => inside # {})
    BY <1>2, <2>2
  <2> QED BY <2>1, <2>3
<1> HIDE DEF head, behind
<1>4. cuts # {} /\ Split(id)[1] = head
  <2>1. Len(Split(id)) = 2
    BY DEF Located
  <2>2. Len(<<>>) = 0 /\ Len(<<SubSeq(id, first, Len(id))>>) = 1 /\ Len(<<head>>) = 1
    OBVIOUS
  <2> HIDE DEF cuts, inside, first
  <2>3. cuts # {}
    <3>1. CASE inside = {}
      BY <1>1, <1>3, <2>1, <2>2, <3>1
    <3>2. CASE inside # {} /\ cuts = {}
      BY <1>1, <2>1, <2>2, <3>2
    <3> QED BY <3>1, <3>2
  <2>4. Split(id) = <<head, behind>>
    BY <1>1, <1>3, <2>1, <2>2, <2>3
  <2> QED BY <2>3, <2>4
<1>5. /\ first \in inside /\ Min(cuts) \in cuts
      /\ \A i \in cuts : Min(cuts) <= i
  BY <1>3, <1>4, MinIsLeast
<1>6. first \in 1..Len(id) /\ Min(cuts) \in 1..Len(id) /\ first < Min(cuts)
  BY <1>2, <1>5
<1> DEFINE a == first
           b == Min(cuts)
<1>7. /\ id[a] # Colon /\ a \in Nat /\ b \in Nat
      /\ \A i \in DOMAIN id : id[i] = Colon /\ i > a => b <= i
  <2>1. id[a] # Colon
    BY <1>5
  <2>2. \A i \in DOMAIN id : id[i] = Colon /\ i > a => i \in cuts
    BY <1>3, <1>4
  <2> HIDE DEF inside, first, cuts
  <2> QED BY <1>5, <1>6, <2>1, <2>2
<1>8. /\ DOMAIN head = 1..(b - a)
      /\ \A i \in 1..(b - a) : head[i] = id[a + i - 1]
  <2> HIDE DEF inside, first, cuts, a, b
  <2>1. head = SubSeq(id, a, b - 1)
    BY DEF head, a, b
  <2>2. a \in 1..Len(id) /\ b - 1 \in 1..Len(id) /\ (b - 1) - a + 1 = b - a
    BY <1>2, <1>6 DEF a, b
  <2> QED BY <1>2, <2>1, <2>2, SubSeqProperties
<1> HIDE DEF inside, first, cuts
<1> HIDE DEF a, b
<1>9. ASSUME NEW i \in DOMAIN head PROVE head[i] # Colon
  <2>1. a + i - 1 \in DOMAIN id /\ a + i - 1 < b /\ a + i - 1 >= a
    BY <1>2, <1>6, <1>7, <1>8 DEF a, b
  <2>2. a + i - 1 > a \/ a + i - 1 = a
    BY <1>7, <1>8, <2>1
  <2> QED BY <1>7, <1>8, <2>1, <2>2
<1> QED BY <1>4, <1>9 DEF Token, Range

(* locate finds, by an id of listCertificates, the token and the key that  *)
(* id was made of, exactly when the serial has no colon and neither part   *)
(* is missing.                                                             *)
THEOREM IdSelects == Spec => []IdSelectsItsKey
<1>1. ASSUME Inputs PROVE IdSelectsItsKey
  <2> SUFFICES ASSUME Is("id") PROVE IdSelectsItsKey
    BY DEF IdSelectsItsKey
  <2>1. PICK s \in MCSerials, k \in MCKeyIds : input = [what |-> "id", serial |-> s, key |-> k]
    BY <1>1 DEF Inputs, Is
  <2>2. input.serial = s /\ input.key = k
    BY <2>1
  <2> DEFINE C == {Colon, letter, 1} \cup HexDigits
             id == Format(s, Hex(k))
  <2>3. s \in Seq(C) /\ k \in Seq(Bytes)
    <3>1. s \in Seq({Colon, letter, 1}) /\ k \in Seq(Bytes)
      BY BoundedSequence DEF MCSerials, MCKeyIds
    <3> QED BY <3>1, SeqMonotonic
  <2>4. k \in Seq(Octets)
    <3>1. Bytes \subseteq Octets
      BY BytesAssumption DEF Octets
    <3> QED BY <2>3, <3>1, SeqMonotonic
  <2>5. HexDigits \subseteq C /\ Colon \in C
    OBVIOUS
  <2> HIDE DEF C
  <2>6. CASE Colon \notin Range(s)
    <3>1. \A i \in 1..Len(s) : s[i] # Colon
      <4>1. DOMAIN s = 1..Len(s)
        BY <2>3, LenProperties
      <4> QED BY <2>6, <4>1 DEF Range
    <3>2. Len(s) \in Nat /\ s \in [1..Len(s) -> C \ {Colon}]
      BY <2>3, <3>1
    <3>3. s \in Seq(C \ {Colon})
      BY <3>2, SeqDef
    <3>4. IF s = <<>> \/ k = <<>>
            THEN ~Located(id)
            ELSE Located(id) /\ Token(id) = s /\ KeyId(id) = k
      BY <2>4, <2>5, <3>3, IdIsRead
    <3> QED BY <2>2, <2>6, <3>4 DEF IdSelectsItsKey
  <2>7. CASE Colon \in Range(s)
    <3>1. id \in Seq(C)
      <4>1. Hex(k) \in Seq(C) /\ <<Colon>> \in Seq(C)
        BY <2>4, <2>5, HexDigitsOf, SeqMonotonic
      <4> QED BY <2>3, <4>1 DEF Format
    <3>2. Located(id) => Colon \notin Range(Token(id))
      BY <3>1, FirstPartHasNoColon
    <3> HIDE DEF id
    <3>3. ~(Located(id) /\ Token(id) = s)
      BY <2>7, <3>2
    <3> QED BY <2>2, <2>7, <3>3 DEF IdSelectsItsKey, id
  <2> QED BY <2>6, <2>7
<1> QED BY <1>1, TypeCorrect, PTL

(***************************************************************************)
(* The text of a window.                                                   *)
(***************************************************************************)
(* Reading: the function exists, and is the only one of its equation.      *)
Start == [text |-> <<>>, at |-> "inside"]

ReadingOut(h, text) ==
  h = [n \in 0..Len(text) |-> IF n = 0 THEN Start ELSE ReadCharacter(h[n - 1], text[n])]

LEMMA ReadingExtended ==
  ASSUME NEW C, NEW text \in Seq(C), NEW c \in C, NEW h, ReadingOut(h, text)
  PROVE  \E g : /\ ReadingOut(g, Append(text, c))
                /\ g[Len(text) + 1] = ReadCharacter(h[Len(text)], c)
<1> DEFINE n == Len(text)
           longer == Append(text, c)
           g == [i \in 0..n + 1 |-> IF i = n + 1 THEN ReadCharacter(h[n], c) ELSE h[i]]
<1>1. /\ n \in Nat /\ Len(longer) = n + 1 /\ longer[n + 1] = c
      /\ \A i \in 1..n : longer[i] = text[i]
  BY AppendProperties, LenProperties
<1>2. \A i \in 0..n : h[i] = IF i = 0 THEN Start ELSE ReadCharacter(h[i - 1], text[i])
  BY Zenon DEF ReadingOut
<1> HIDE DEF longer, n
<1>3. ASSUME NEW i \in 0..n + 1
      PROVE  g[i] = IF i = 0 THEN Start ELSE ReadCharacter(g[i - 1], longer[i])
  <2>1. CASE i = n + 1
    <3>1. i # 0 /\ i - 1 = n /\ n \in 0..n + 1 /\ n # n + 1
      BY <1>1, <2>1
    <3>2. g[i - 1] = h[n] /\ g[i] = ReadCharacter(h[n], c)
      BY <2>1, <3>1
    <3> QED BY <1>1, <2>1, <3>1, <3>2
  <2>2. CASE i # n + 1
    <3>1. /\ i \in 0..n
          /\ i # 0 => i \in 1..n /\ i - 1 # n + 1 /\ i - 1 \in 0..n + 1
      BY <1>1, <2>2
    <3> QED BY <1>1, <1>2, <2>2, <3>1
  <2> QED BY <2>1, <2>2
<1>4. ReadingOut(g, longer)
  <2>1. g = [i \in 0..n + 1 |-> IF i = 0 THEN Start ELSE ReadCharacter(g[i - 1], longer[i])]
    BY <1>3
  <2> QED BY <1>1, <2>1 DEF ReadingOut
<1>5. g[n + 1] = ReadCharacter(h[n], c)
  BY <1>1
<1> QED BY <1>4, <1>5 DEF n, longer

LEMMA ReadingExists ==
  ASSUME NEW C, NEW text \in Seq(C) PROVE \E h : ReadingOut(h, text)
<1> DEFINE P == {t \in Seq(C) : \E h : ReadingOut(h, t)}
<1>1. <<>> \in P
  <2> DEFINE h == [n \in 0..0 |-> Start]
  <2>1. h = [n \in 0..0 |-> IF n = 0 THEN Start ELSE ReadCharacter(h[n - 1], <<>>[n])]
    OBVIOUS
  <2>2. ReadingOut(h, <<>>)
    BY <2>1, EmptySeq DEF ReadingOut
  <2> HIDE DEF h
  <2> QED BY <2>2, EmptySeq
<1>2. ASSUME NEW t \in P, NEW c \in C PROVE Append(t, c) \in P
  <2>1. \E h : ReadingOut(h, Append(t, c))
    BY ReadingExtended
  <2> QED BY <2>1
<1>3. P \subseteq Seq(C)
  OBVIOUS
<1> HIDE DEF P
<1>4. P = Seq(C)
  BY <1>1, <1>2, <1>3, SequenceInduction
<1> QED BY <1>4 DEF P

LEMMA ReadingUnique ==
  ASSUME NEW C, NEW text \in Seq(C), NEW g, ReadingOut(g, text), NEW h, ReadingOut(h, text)
  PROVE  g = h
<1> DEFINE n == Len(text)
           P == {k \in Nat : k \in 0..n => g[k] = h[k]}
<1>1. n \in Nat
  OBVIOUS
<1>2. ASSUME NEW k \in 0..n
      PROVE  /\ g[k] = IF k = 0 THEN Start ELSE ReadCharacter(g[k - 1], text[k])
             /\ h[k] = IF k = 0 THEN Start ELSE ReadCharacter(h[k - 1], text[k])
  BY Zenon DEF ReadingOut
<1>3. 0 \in P /\ P \subseteq Nat
  BY <1>2
<1>4. ASSUME NEW k \in P PROVE k + 1 \in P
  <2> SUFFICES ASSUME k + 1 \in 0..n PROVE g[k + 1] = h[k + 1]
    OBVIOUS
  <2>1. (k + 1) - 1 = k /\ k + 1 # 0 /\ k \in 0..n
    BY <1>1
  <2> QED BY <1>2, <2>1
<1> HIDE DEF P
<1>5. P = Nat
  BY <1>3, <1>4, Induction
<1>6. \A k \in 0..n : g[k] = h[k]
  BY <1>1, <1>5 DEF P
<1>7. g = [k \in 0..n |-> g[k]] /\ h = [k \in 0..n |-> h[k]]
  BY DEF ReadingOut
<1> QED BY <1>6, <1>7

LEMMA ReadOutIs ==
  ASSUME NEW C, NEW text \in Seq(C), NEW h, ReadingOut(h, text)
  PROVE  ReadOut(text) = h[Len(text)]
<1>1. ReadOut(text) = (CHOOSE g : ReadingOut(g, text))[Len(text)]
  BY DEF ReadOut, ReadingOut, Start
<1>2. ReadingOut(CHOOSE g : ReadingOut(g, text), text)
  BY ReadingExists, Zenon
<1>3. h = CHOOSE g : ReadingOut(g, text)
  BY <1>2, ReadingUnique
<1> QED BY <1>1, <1>3

(* One character more.                                                     *)
LEMMA ReadOutAppend ==
  ASSUME NEW C, NEW text \in Seq(C), NEW c \in C
  PROVE  /\ ReadOut(<<>>) = Start
         /\ ReadOut(Append(text, c)) = ReadCharacter(ReadOut(text), c)
<1>1. ReadOut(<<>>) = Start
  <2>1. <<>> \in Seq(C) /\ Len(<<>>) = 0
    BY EmptySeq
  <2>2. PICK h : ReadingOut(h, <<>>)
    BY <2>1, ReadingExists
  <2>3. h[0] = Start
    BY <2>1, <2>2 DEF ReadingOut
  <2> QED BY <2>1, <2>2, <2>3, ReadOutIs
<1>2. PICK h : ReadingOut(h, text)
  BY ReadingExists
<1>3. PICK g : /\ ReadingOut(g, Append(text, c))
               /\ g[Len(text) + 1] = ReadCharacter(h[Len(text)], c)
  BY <1>2, ReadingExtended
<1>4. Append(text, c) \in Seq(C) /\ Len(Append(text, c)) = Len(text) + 1
  BY AppendProperties
<1>5. ReadOut(Append(text, c)) = g[Len(text) + 1]
  BY <1>3, <1>4, ReadOutIs
<1>6. ReadOut(text) = h[Len(text)]
  BY <1>2, ReadOutIs
<1> QED BY <1>1, <1>3, <1>5, <1>6

(* What a character does to a literal that is still open.                  *)
LEMMA ReadInside ==
  ASSUME NEW t, NEW c
  PROVE  ReadCharacter([text |-> t, at |-> "inside"], c)
           = IF c = Backslash THEN [text |-> t, at |-> "escaped"]
             ELSE IF c = DoubleQuote THEN [text |-> t, at |-> "closed"]
             ELSE [text |-> Append(t, c), at |-> "inside"]
<1> DEFINE s == [text |-> t, at |-> "inside"]
<1>1. s.at = "inside" /\ s.text = t /\ DOMAIN s = {"text", "at"}
  OBVIOUS
<1>2. s.at # "escaped" /\ s.at \notin {"closed", "error"}
  OBVIOUS
<1> HIDE DEF s
<1>3. CASE c = Backslash
  <2>1. ReadCharacter(s, c) = [s EXCEPT !.at = "escaped"]
    BY <1>1, <1>2, <1>3, CharacterAssumption DEF ReadCharacter
  <2> QED BY <1>3, <2>1 DEF s
<1>4. CASE c # Backslash /\ c = DoubleQuote
  <2>1. ReadCharacter(s, c) = [s EXCEPT !.at = "closed"]
    BY <1>1, <1>2, <1>4, CharacterAssumption DEF ReadCharacter
  <2> QED BY <1>4, <2>1 DEF s
<1>5. CASE c # Backslash /\ c # DoubleQuote
  <2>1. ReadCharacter(s, c) = [s EXCEPT !.text = Append(@, c)]
    BY <1>1, <1>2, <1>5, CharacterAssumption DEF ReadCharacter
  <2> QED BY <1>5, <2>1 DEF s
<1> QED BY <1>3, <1>4, <1>5 DEF s

LEMMA ReadEscaped ==
  ASSUME NEW t, NEW c, c \in {Backslash, DoubleQuote}
  PROVE  ReadCharacter([text |-> t, at |-> "escaped"], c)
           = [text |-> Append(t, c), at |-> "inside"]
BY DEF ReadCharacter

LEMMA EscapedAppend ==
  ASSUME NEW C, Backslash \in C, NEW c \in C, NEW text \in Seq(C), NEW x \in C
  PROVE  /\ Escaped(c, <<>>) = <<>>
         /\ Escaped(c, text) \in Seq(C) => Escaped(c, Append(text, x)) \in Seq(C)
         /\ Escaped(c, Append(text, x))
              = Escaped(c, text) \o IF x = c THEN <<Backslash, c>> ELSE <<x>>
<1> DEFINE one(y) == IF y = c THEN <<Backslash, c>> ELSE <<y>>
           each(t) == [i \in DOMAIN t |-> one(t[i])]
<1>1. \A y \in C : one(y) \in Seq(C)
  OBVIOUS
<1>2. /\ Append(text, x) \in Seq(C) /\ Len(Append(text, x)) = Len(text) + 1
      /\ \A i \in 1..Len(text) : Append(text, x)[i] = text[i]
      /\ Append(text, x)[Len(text) + 1] = x
      /\ DOMAIN text = 1..Len(text) /\ Len(text) \in Nat
      /\ DOMAIN Append(text, x) = 1..Len(text) + 1
  BY AppendProperties, LenProperties
<1>3. /\ Escaped(c, text) = FlattenSeq(each(text))
      /\ Escaped(c, Append(text, x)) = FlattenSeq(each(Append(text, x)))
  BY DEF Escaped
<1>4. Escaped(c, <<>>) = <<>>
  <2>1. each(<<>>) = <<>>
    OBVIOUS
  <2>2. Escaped(c, <<>>) = FlattenSeq(<<>>)
    BY <2>1, Zenon DEF Escaped
  <2>3. <<>> \in Seq(Seq(C)) /\ <<>> \in Seq(C)
    BY EmptySeq
  <2> QED BY <2>2, <2>3, FlattenAppend
<1> HIDE DEF one
<1>5. each(text) \in Seq(Seq(C)) /\ Len(each(text)) = Len(text)
  <2>1. each(text) \in [1..Len(text) -> Seq(C)]
    BY <1>1, <1>2
  <2>2. each(text) \in Seq(Seq(C))
    BY <1>2, <2>1, SeqDef
  <2> HIDE DEF each
  <2> QED BY <1>2, <2>1, <2>2, LenProperties
<1>6. each(Append(text, x)) = Append(each(text), one(x))
  <2>1. one(x) \in Seq(C)
    BY <1>1
  <2>2. /\ Append(each(text), one(x)) \in Seq(Seq(C))
        /\ Len(Append(each(text), one(x))) = Len(text) + 1
        /\ \A i \in 1..Len(text) : Append(each(text), one(x))[i] = each(text)[i]
        /\ Append(each(text), one(x))[Len(text) + 1] = one(x)
    BY <1>5, <2>1, AppendProperties
  <2>3. DOMAIN Append(each(text), one(x)) = 1..Len(text) + 1
    BY <2>2, LenProperties
  <2>4. Append(each(text), one(x)) = [i \in 1..Len(text) + 1 |-> Append(each(text), one(x))[i]]
    BY <2>2, <2>3, LenProperties
  <2>5. \A i \in 1..Len(text) + 1 : each(Append(text, x))[i] = Append(each(text), one(x))[i]
    BY <1>2, <2>2
  <2> QED BY <1>2, <2>4, <2>5
<1> HIDE DEF each
<1>7. Escaped(c, Append(text, x)) = Escaped(c, text) \o one(x)
  BY <1>1, <1>3, <1>5, <1>6, FlattenAppend
<1>8. Escaped(c, text) \in Seq(C) => Escaped(c, Append(text, x)) \in Seq(C)
  BY <1>1, <1>7, ConcatProperties
<1> QED BY <1>4, <1>7, <1>8 DEF one

(* Character by character, for texts of escaped texts.                     *)
LEMMA EscapedCharacters ==
  ASSUME NEW C, Backslash \in C, NEW c \in C, NEW text \in Seq(C), NEW x \in C,
         Escaped(c, text) \in Seq(C)
  PROVE  /\ x = c => Escaped(c, Append(text, x)) = Append(Append(Escaped(c, text), Backslash), c)
         /\ x # c => Escaped(c, Append(text, x)) = Append(Escaped(c, text), x)
         /\ Escaped(c, Append(text, x)) \in Seq(C)
<1> DEFINE e == Escaped(c, text)
<1>1. Escaped(c, Append(text, x)) = e \o IF x = c THEN <<Backslash, c>> ELSE <<x>>
  BY EscapedAppend
<1>2. Escaped(c, Append(text, x)) \in Seq(C)
  BY EscapedAppend
<1> HIDE DEF e
<1>3. e \in Seq(C)
  BY DEF e
<1>4. e \o <<x>> = Append(e, x)
  BY <1>3, AppendIsConcat
<1>5. e \o <<Backslash, c>> = Append(Append(e, Backslash), c)
  <2>1. <<Backslash>> \in Seq(C) /\ <<c>> \in Seq(C)
    OBVIOUS
  <2>2. <<Backslash>> \o <<c>> = <<Backslash, c>>
    <3> DEFINE two == <<Backslash>> \o <<c>>
    <3>1. two \in Seq(C) /\ Len(two) = 2 /\ two[1] = Backslash /\ two[2] = c
      BY <2>1, ConcatProperties
    <3>2. /\ <<Backslash, c>> \in Seq(C) /\ Len(<<Backslash, c>>) = 2
          /\ <<Backslash, c>>[1] = Backslash /\ <<Backslash, c>>[2] = c
      OBVIOUS
    <3> HIDE DEF two
    <3>3. \A i \in 1..2 : two[i] = <<Backslash, c>>[i]
      BY <3>1, <3>2
    <3>4. two = <<Backslash, c>>
      BY <3>1, <3>2, <3>3, SeqEqual
    <3> QED BY <3>4 DEF two
  <2>3. e \o (<<Backslash>> \o <<c>>) = (e \o <<Backslash>>) \o <<c>>
    BY <1>3, <2>1, ConcatAssociative
  <2>4. Append(e, Backslash) \in Seq(C) /\ e \o <<Backslash>> = Append(e, Backslash)
    BY <1>3, AppendIsConcat, AppendProperties
  <2>5. Append(e, Backslash) \o <<c>> = Append(Append(e, Backslash), c)
    BY <2>4, AppendIsConcat
  <2> QED BY <2>2, <2>3, <2>4, <2>5
<1> QED BY <1>1, <1>2, <1>4, <1>5 DEF e

LEMMA EscapesItself ==
  ASSUME NEW C, Backslash \in C, NEW c \in C, NEW text \in Seq(C), Escaped(c, text) \in Seq(C)
  PROVE  /\ Escaped(c, Append(text, c)) = Append(Append(Escaped(c, text), Backslash), c)
         /\ Escaped(c, Append(text, c)) \in Seq(C)
BY EscapedCharacters

LEMMA EscapesNoOther ==
  ASSUME NEW C, Backslash \in C, NEW c \in C, NEW text \in Seq(C), Escaped(c, text) \in Seq(C),
         NEW x \in C, x # c
  PROVE  /\ Escaped(c, Append(text, x)) = Append(Escaped(c, text), x)
         /\ Escaped(c, Append(text, x)) \in Seq(C)
BY EscapedCharacters

LEMMA ReadOutTwo ==
  ASSUME NEW C, NEW text \in Seq(C), NEW c \in C, NEW d \in C
  PROVE  ReadOut(Append(Append(text, c), d)) = ReadCharacter(ReadCharacter(ReadOut(text), c), d)
<1>1. Append(text, c) \in Seq(C)
  BY AppendProperties
<1>2. ReadOut(Append(Append(text, c), d)) = ReadCharacter(ReadOut(Append(text, c)), d)
  BY <1>1, ReadOutAppend
<1>3. ReadOut(Append(text, c)) = ReadCharacter(ReadOut(text), c)
  BY ReadOutAppend
<1> QED BY <1>2, <1>3

(* A text with its backslashes doubled and its quotes escaped reads as the *)
(* text, and the literal is still open.                                    *)
LEMMA EscapedReadsAsWritten ==
  ASSUME NEW C, Backslash \in C, DoubleQuote \in C, NEW text \in Seq(C)
  PROVE  /\ Escaped(DoubleQuote, Escaped(Backslash, text)) \in Seq(C)
         /\ ReadOut(Escaped(DoubleQuote, Escaped(Backslash, text)))
              = [text |-> text, at |-> "inside"]
<1> DEFINE in(t)  == Escaped(Backslash, t)
           out(t) == Escaped(DoubleQuote, in(t))
           Q(t)   == /\ in(t) \in Seq(C) /\ out(t) \in Seq(C)
                     /\ ReadOut(out(t)) = [text |-> t, at |-> "inside"]
           P      == {t \in Seq(C) : Q(t)}
<1>1. <<>> \in P
  <2>1. <<>> \in Seq(C)
    BY EmptySeq
  <2>2. in(<<>>) = <<>> /\ out(<<>>) = <<>>
    BY <2>1, EscapedAppend
  <2>3. ReadOut(<<>>) = [text |-> <<>>, at |-> "inside"]
    BY <2>1, ReadOutAppend DEF Start
  <2>4. Q(<<>>)
    BY <2>1, <2>2, <2>3
  <2> HIDE DEF Q
  <2> QED BY <2>1, <2>4
<1>2. ASSUME NEW t \in P, NEW x \in C PROVE Append(t, x) \in P
  <2>1. t \in Seq(C) /\ Q(t) /\ Append(t, x) \in Seq(C)
    BY AppendProperties
  <2>2. in(t) \in Seq(C) /\ out(t) \in Seq(C) /\ ReadOut(out(t)) = [text |-> t, at |-> "inside"]
    BY <2>1
  <2>3. CASE x = Backslash
    <3>1. in(Append(t, x)) = Append(Append(in(t), Backslash), Backslash)
          /\ in(Append(t, x)) \in Seq(C)
      BY <2>1, <2>2, <2>3, EscapesItself
    <3> DEFINE i1 == Append(in(t), Backslash)
    <3>2. i1 \in Seq(C)
      BY <2>2, AppendProperties
    <3>3. /\ Escaped(DoubleQuote, i1) = Append(out(t), Backslash)
          /\ Escaped(DoubleQuote, i1) \in Seq(C)
      BY <2>2, CharacterAssumption, EscapesNoOther
    <3>4. /\ Escaped(DoubleQuote, Append(i1, Backslash))
               = Append(Escaped(DoubleQuote, i1), Backslash)
          /\ Escaped(DoubleQuote, Append(i1, Backslash)) \in Seq(C)
      BY <3>2, <3>3, CharacterAssumption, EscapesNoOther
    <3>5. /\ out(Append(t, x)) = Append(Append(out(t), Backslash), Backslash)
          /\ out(Append(t, x)) \in Seq(C)
      BY <3>1, <3>3, <3>4
    <3> HIDE DEF i1, in, out
    <3>6. ReadOut(out(Append(t, x)))
            = ReadCharacter(ReadCharacter(ReadOut(out(t)), Backslash), Backslash)
      BY <2>2, <3>5, ReadOutTwo
    <3>7. ReadCharacter([text |-> t, at |-> "inside"], Backslash)
            = [text |-> t, at |-> "escaped"]
      BY ReadInside
    <3>8. ReadCharacter([text |-> t, at |-> "escaped"], Backslash)
            = [text |-> Append(t, Backslash), at |-> "inside"]
      BY ReadEscaped
    <3> QED BY <2>1, <2>2, <2>3, <3>1, <3>5, <3>6, <3>7, <3>8
  <2>4. CASE x = DoubleQuote
    <3>1. in(Append(t, x)) = Append(in(t), DoubleQuote) /\ in(Append(t, x)) \in Seq(C)
      BY <2>1, <2>2, <2>4, CharacterAssumption, EscapesNoOther
    <3>2. /\ out(Append(t, x)) = Append(Append(out(t), Backslash), DoubleQuote)
          /\ out(Append(t, x)) \in Seq(C)
      BY <2>2, <3>1, EscapesItself
    <3> HIDE DEF in, out
    <3>3. ReadOut(out(Append(t, x)))
            = ReadCharacter(ReadCharacter(ReadOut(out(t)), Backslash), DoubleQuote)
      BY <2>2, <3>2, ReadOutTwo
    <3>4. ReadCharacter([text |-> t, at |-> "inside"], Backslash)
            = [text |-> t, at |-> "escaped"]
      BY ReadInside
    <3>5. ReadCharacter([text |-> t, at |-> "escaped"], DoubleQuote)
            = [text |-> Append(t, DoubleQuote), at |-> "inside"]
      BY ReadEscaped
    <3> QED BY <2>1, <2>2, <2>4, <3>1, <3>2, <3>3, <3>4, <3>5
  <2>5. CASE x \notin {Backslash, DoubleQuote}
    <3>1. in(Append(t, x)) = Append(in(t), x) /\ in(Append(t, x)) \in Seq(C)
      BY <2>1, <2>2, <2>5, EscapesNoOther
    <3>2. out(Append(t, x)) = Append(out(t), x) /\ out(Append(t, x)) \in Seq(C)
      BY <2>2, <2>5, <3>1, EscapesNoOther
    <3> HIDE DEF in, out
    <3>3. ReadOut(out(Append(t, x))) = ReadCharacter(ReadOut(out(t)), x)
      BY <2>2, <3>2, ReadOutAppend
    <3>4. ReadCharacter([text |-> t, at |-> "inside"], x)
            = [text |-> Append(t, x), at |-> "inside"]
      BY <2>5, ReadInside
    <3> QED BY <2>1, <2>2, <3>1, <3>2, <3>3, <3>4
  <2> QED BY <2>3, <2>4, <2>5
<1>3. P \subseteq Seq(C)
  OBVIOUS
<1> HIDE DEF P
<1>4. P = Seq(C)
  BY <1>1, <1>2, <1>3, SequenceInduction
<1> QED BY <1>4 DEF P

(* A text that quote has made a literal of is shown as written, of         *)
(* whatever length and whatever backslashes and quotes it holds.           *)
THEOREM QuotedIsShown ==
  ASSUME NEW C, Backslash \in C, DoubleQuote \in C, NEW text \in Seq(C)
  PROVE  Shown(Quote(text)) = text
<1> DEFINE e == Escaped(DoubleQuote, Escaped(Backslash, text))
<1>1. e \in Seq(C) /\ ReadOut(e) = [text |-> text, at |-> "inside"]
  BY EscapedReadsAsWritten
<1>2. Quote(text) = <<DoubleQuote>> \o e \o <<DoubleQuote>>
  BY DEF Quote
<1> HIDE DEF e
<1>3. Tail(Quote(text)) = Append(e, DoubleQuote)
  <2> DEFINE q == <<DoubleQuote>>
             a == Append(e, DoubleQuote)
  <2>1. q \in Seq(C) /\ Len(q) = 1
    OBVIOUS
  <2>2. a \in Seq(C) /\ a = e \o q
    BY <1>1, AppendIsConcat, AppendProperties
  <2>3. Quote(text) = q \o a
    BY <1>1, <1>2, <2>1, <2>2, ConcatAssociative
  <2> HIDE DEF q, a
  <2>4. /\ q \o a \in Seq(C) /\ Len(q \o a) = 1 + Len(a) /\ Len(a) \in Nat
        /\ \A i \in 1..Len(a) : (q \o a)[i + 1] = a[i]
    <3>1. /\ q \o a \in Seq(C) /\ Len(q \o a) = 1 + Len(a) /\ Len(a) \in Nat
          /\ \A i \in 1..1 + Len(a) : (q \o a)[i] = IF i <= 1 THEN q[i] ELSE a[i - 1]
      <4>1. Len(a) \in Nat
        BY <2>2, LenProperties
      <4>2. /\ q \o a \in Seq(C) /\ Len(q \o a) = Len(q) + Len(a)
            /\ \A i \in 1..Len(q) + Len(a) :
                 (q \o a)[i] = IF i <= Len(q) THEN q[i] ELSE a[i - Len(q)]
        BY ONLY <2>1, <2>2, ConcatProperties
      <4> QED BY ONLY <2>1, <4>1, <4>2
    <3>2. \A i \in 1..Len(a) : i + 1 \in 1..1 + Len(a) /\ ~(i + 1 <= 1) /\ (i + 1) - 1 = i
      BY <3>1
    <3> QED BY <3>1, <3>2
  <2>5. q \o a # <<>>
    BY <2>4, EmptySeq
  <2>6. /\ Tail(q \o a) \in Seq(C) /\ Len(Tail(q \o a)) = Len(a)
        /\ \A i \in 1..Len(a) : Tail(q \o a)[i] = a[i]
    BY <2>4, <2>5, HeadTailProperties
  <2>7. Tail(q \o a) = a
    BY <2>2, <2>6, SeqEqual
  <2> QED BY <2>3, <2>7 DEF a
<1>4. ReadOut(Append(e, DoubleQuote)) = [text |-> text, at |-> "closed"]
  <2>1. ReadOut(Append(e, DoubleQuote)) = ReadCharacter(ReadOut(e), DoubleQuote)
    BY <1>1, ReadOutAppend
  <2>2. ReadCharacter([text |-> text, at |-> "inside"], DoubleQuote)
          = [text |-> text, at |-> "closed"]
    BY CharacterAssumption, ReadInside
  <2> QED BY <1>1, <2>1, <2>2
<1>5. ReadOut(Tail(Quote(text))).at = "closed" /\ ReadOut(Tail(Quote(text))).text = text
  <2> DEFINE r == ReadOut(Tail(Quote(text)))
  <2>1. r = [text |-> text, at |-> "closed"]
    BY <1>3, <1>4, Zenon
  <2> HIDE DEF r
  <2>2. r.at = "closed" /\ r.text = text
    BY <2>1
  <2> QED BY <2>2 DEF r
<1> QED BY <1>5 DEF Shown

(* A window shows the text that DialogConsent.quote was given.             *)
THEOREM TextShown == Spec => []ShownAsWritten
<1>1. ASSUME Inputs PROVE ShownAsWritten
  <2> SUFFICES ASSUME Is("text") PROVE Shown(Quote(input.text)) = input.text
    BY DEF ShownAsWritten
  <2>1. PICK t \in MCTexts : input = [what |-> "text", text |-> t]
    BY <1>1 DEF Inputs, Is
  <2>2. input.text = t
    BY <2>1
  <2>3. t \in Seq({Backslash, DoubleQuote, letter})
    BY BoundedSequence DEF MCTexts
  <2>4. Shown(Quote(t)) = t
    BY <2>3, QuotedIsShown
  <2> QED BY <2>2, <2>4
<1> QED BY <1>1, TypeCorrect, PTL
=============================================================================

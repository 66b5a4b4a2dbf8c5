------------------------------ MODULE Versions ------------------------------
(***************************************************************************)
(* atLeast of background.ts: is the host's version at least the required   *)
(* one?  A version is the sequence of what Number makes of the parts       *)
(* between the dots: a natural number, or NaN for a part such as "0-rc1".  *)
(* NaN differs from everything, itself included, and is greater than       *)
(* nothing; a missing component counts as 0.                               *)
(***************************************************************************)
EXTENDS Naturals, Sequences

CONSTANT NaN

ASSUME NaNAssumption == NaN \notin Nat

Numbers  == Nat \cup {NaN}
Released == Seq(Nat)        \* versions made of numbers only

Component(v, i) == IF i \in DOMAIN v THEN v[i] ELSE 0

(* Mutant: NaN is taken to equal NaN.                                      *)
DifferByValue(l, r) == l # r

Differ(l, r)  == l # r \/ l = NaN
Greater(l, r) == l # NaN /\ r # NaN /\ l > r

(* Mutant: every component is compared, not the first that differs.        *)
AtLeastEverywhere(version, required) ==
  \A i \in DOMAIN version \cup DOMAIN required :
    \/ Component(version, i) = Component(required, i)
    \/ Greater(Component(version, i), Component(required, i))

(* The loop stops at the first place that differs, and has gone through    *)
(* every place of both when none does.                                     *)
AtLeast(version, required) ==
  LET places == DOMAIN version \cup DOMAIN required
      differ(i) == Differ(Component(version, i), Component(required, i))
  IN  \/ \A i \in places : ~differ(i)
      \/ \E i \in places :
           /\ differ(i) /\ \A j \in places : j < i => ~differ(j)
           /\ Greater(Component(version, i), Component(required, i))

(* The part at i of the version is no number, and all before it agree.     *)
UnreadableAt(i, version, required) ==
  /\ version[i] = NaN
  /\ \A j \in 1..i - 1 : Component(version, j) = Component(required, j)
=============================================================================

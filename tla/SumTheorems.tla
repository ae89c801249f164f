----------------------------- MODULE SumTheorems -----------------------------
(***************************************************************************)
(* Facts about SumFunctionOnSet(f, S), the sum of f[x] for x in S, for any *)
(* function f and finite set S.  The operator is a recursive function on   *)
(* the subsets of S, so its defining equation has to be established first. *)
(* Induction is over the set H of the subsets for which a fact holds.      *)
(***************************************************************************)
EXTENDS Functions, FiniteSetTheorems, TLAPS

(* A set of subsets of S that has each set whose strict subsets it has, has *)
(* every subset of S.                                                       *)
LEMMA SubsetInduction ==
  ASSUME NEW S, IsFiniteSet(S), NEW H,
         \A s \in SUBSET S : (\A u \in SUBSET s : u # s => u \in H) => s \in H
  PROVE  \A s \in SUBSET S : s \in H
<1> DEFINE B == (SUBSET S) \ H
<1> SUFFICES ASSUME B # {}
             PROVE  FALSE
  OBVIOUS
<1>1. IsWellFoundedOn(StrictSubsetOrdering(S), SUBSET S)
  <2>1. IsWellFoundedOn(StrictSubsetOrdering(S), FiniteSubsetsOf(S))
    BY FS_StrictSubsetOrderingWellFounded, Zenon
  <2>2. FiniteSubsetsOf(S) = SUBSET S
    BY FS_FiniteSubsetsOfFinite, Zenon
  <2>3. QED
    BY <2>1, <2>2, Zenon
<1>2. PICK s \in B : \A u \in B : <<u, s>> \notin StrictSubsetOrdering(S)
  <2> HIDE DEF B
  <2>1. B \subseteq SUBSET S
    BY DEF B
  <2>2. QED
    BY <1>1, <2>1, WFMin
<1>3. \A u \in SUBSET s : u # s => u \in H
  BY <1>2 DEF StrictSubsetOrdering
<1>4. QED
  BY <1>2, <1>3

-----------------------------------------------------------------------------
(* The defining equation.                                                  *)

AnyOf(s) == CHOOSE x \in s : TRUE

(* g gives the sums of f over the subsets of S.                            *)
IsTally(g, f, S) ==
  g = [s \in SUBSET S |-> IF s = {} THEN 0 ELSE f[AnyOf(s)] + g[s \ {AnyOf(s)}]]
Tally(f, S) == CHOOSE g : IsTally(g, f, S)

LEMMA SumIsTally ==
  ASSUME NEW f, NEW S
  PROVE  SumFunctionOnSet(f, S) = Tally(f, S)[S]
BY DEF SumFunctionOnSet, FoldFunctionOnSet, MapThenFoldSet, Tally, IsTally, AnyOf

LEMMA AnyOfIn == \A s : s # {} => AnyOf(s) \in s
BY DEF AnyOf

(* What a tally holds at a set.                                            *)
LEMMA TallyAt ==
  ASSUME NEW f, NEW S, NEW g, IsTally(g, f, S), NEW s \in SUBSET S
  PROVE  g[s] = IF s = {} THEN 0 ELSE f[AnyOf(s)] + g[s \ {AnyOf(s)}]
<1> DEFINE at(h, u) == IF u = {} THEN 0 ELSE f[AnyOf(u)] + h[u \ {AnyOf(u)}]
<1>1. g = [u \in SUBSET S |-> at(g, u)]
  BY DEF IsTally
<1> HIDE DEF at
<1>2. g[s] = at(g, s)
  BY <1>1
<1>3. QED
  BY <1>2 DEF at

(* Two tallies agree where both are defined.                               *)
LEMMA TallyUnique ==
  ASSUME NEW f, NEW S, IsFiniteSet(S), NEW T, IsFiniteSet(T),
         NEW g, IsTally(g, f, S), NEW h, IsTally(h, f, T)
  PROVE  \A s \in SUBSET (S \cap T) : g[s] = h[s]
<1> DEFINE H == {s \in SUBSET (S \cap T) : g[s] = h[s]}
<1>1. ASSUME NEW s \in SUBSET (S \cap T), \A u \in SUBSET s : u # s => u \in H
      PROVE  s \in H
  <2>1. CASE s = {}
    BY <2>1, TallyAt
  <2>2. CASE s # {}
    <3> DEFINE u == s \ {AnyOf(s)}
    <3>1. u \in SUBSET s /\ u # s
      BY <2>2, AnyOfIn
    <3>2. g[u] = h[u]
      BY <1>1, <3>1
    <3>3. g[s] = f[AnyOf(s)] + g[u] /\ h[s] = f[AnyOf(s)] + h[u]
      BY <2>2, TallyAt
    <3>4. QED
      BY <3>2, <3>3
  <2>3. QED
    BY <2>1, <2>2
<1>2. IsFiniteSet(S \cap T)
  BY FS_Intersection
<1> HIDE DEF H
<1>3. \A s \in SUBSET (S \cap T) : s \in H
  BY <1>1, <1>2, SubsetInduction
<1>4. QED
  BY <1>3 DEF H

(* Every finite set has a tally.                                           *)
LEMMA TallyExists ==
  ASSUME NEW f, NEW S, IsFiniteSet(S)
  PROVE  IsTally(Tally(f, S), f, S)
<1> DEFINE H == {s \in SUBSET S : \E g : IsTally(g, f, s)}
<1>1. ASSUME NEW s \in SUBSET S, \A u \in SUBSET s : u # s => u \in H
      PROVE  s \in H
  <2> DEFINE less(u) == u \ {AnyOf(u)}
             sum(u) == IF u = {} THEN 0 ELSE f[AnyOf(u)] + Tally(f, less(u))[less(u)]
             g == [u \in SUBSET s |-> sum(u)]
  <2>1. \A u \in SUBSET s : u # s => IsTally(Tally(f, u), f, u) /\ IsFiniteSet(u)
    <3> SUFFICES ASSUME NEW u \in SUBSET s, u # s
                 PROVE  IsTally(Tally(f, u), f, u) /\ IsFiniteSet(u)
      OBVIOUS
    <3>1. \E h : IsTally(h, f, u)
      BY <1>1
    <3>2. QED
      BY <3>1, FS_Subset DEF Tally
  <2>2. ASSUME NEW u \in SUBSET s, u # {}
        PROVE  g[less(u)] = Tally(f, less(u))[less(u)]
    <3> DEFINE v == less(u)
    <3>1. v \in SUBSET s /\ v # s
      BY <2>2, AnyOfIn
    <3>2. IsTally(Tally(f, v), f, v) /\ IsFiniteSet(v)
      BY <2>1, <3>1
    <3>3. g[v] = sum(v)
      BY <3>1
    <3>4. CASE v = {}
      BY <3>2, <3>3, <3>4, TallyAt
    <3>5. CASE v # {}
      <4>1. less(v) \in SUBSET v /\ less(v) # s /\ less(v) \in SUBSET s
        BY <3>1, <3>5, AnyOfIn
      <4>2. IsTally(Tally(f, less(v)), f, less(v)) /\ IsFiniteSet(less(v))
        BY <2>1, <4>1
      <4>3. less(v) \in SUBSET (v \cap less(v))
        BY <4>1
      <4> HIDE DEF v, less, g
      <4>4. Tally(f, v)[less(v)] = Tally(f, less(v))[less(v)]
        BY <3>2, <4>2, <4>3, TallyUnique
      <4>5. Tally(f, v)[v] = f[AnyOf(v)] + Tally(f, v)[less(v)]
        BY <3>2, <3>5, TallyAt DEF less
      <4>6. QED
        BY <3>3, <3>5, <4>4, <4>5 DEF v
    <3>6. QED
      BY <3>4, <3>5
  <2>3. \A u \in SUBSET s : sum(u) = IF u = {} THEN 0 ELSE f[AnyOf(u)] + g[u \ {AnyOf(u)}]
    BY <2>2
  <2>4. IsTally(g, f, s)
    <3> HIDE DEF sum
    <3>1. g = [u \in SUBSET s |-> IF u = {} THEN 0 ELSE f[AnyOf(u)] + g[u \ {AnyOf(u)}]]
      BY <2>3
    <3> HIDE DEF g
    <3>2. QED
      BY <3>1 DEF IsTally
  <2>5. QED
    BY <2>4
<1> HIDE DEF H
<1>2. S \in H
  <2>1. \A s \in SUBSET S : s \in H
    BY <1>1, SubsetInduction
  <2>2. QED
    BY <2>1
<1>3. QED
  BY <1>2 DEF H, Tally

-----------------------------------------------------------------------------
(* Sums.                                                                   *)

LEMMA SumEmpty == \A f : SumFunctionOnSet(f, {}) = 0
BY SumIsTally, TallyExists, TallyAt, FS_EmptySet

(* The sum over a set is that of one element and the sum of the others.    *)
LEMMA SumUnfold ==
  ASSUME NEW f, NEW S, IsFiniteSet(S), S # {}
  PROVE  SumFunctionOnSet(f, S) = f[AnyOf(S)] + SumFunctionOnSet(f, S \ {AnyOf(S)})
<1> DEFINE T == S \ {AnyOf(S)}
<1>1. IsFiniteSet(T) /\ T \in SUBSET (S \cap T)
  BY FS_RemoveElement
<1>2. IsTally(Tally(f, S), f, S) /\ IsTally(Tally(f, T), f, T)
  BY <1>1, TallyExists
<1> HIDE DEF T
<1>3. Tally(f, S)[T] = Tally(f, T)[T]
  BY <1>1, <1>2, TallyUnique
<1>4. Tally(f, S)[S] = f[AnyOf(S)] + Tally(f, S)[S \ {AnyOf(S)}]
  BY <1>2, TallyAt
<1>5. SumFunctionOnSet(f, S) = Tally(f, S)[S] /\ SumFunctionOnSet(f, T) = Tally(f, T)[T]
  BY SumIsTally
<1>6. QED
  BY <1>3, <1>4, <1>5 DEF T

(* A sum of integers is an integer, of naturals a natural.                 *)
LEMMA SumInt ==
  ASSUME NEW f, NEW S, IsFiniteSet(S), \A x \in S : f[x] \in Int
  PROVE  SumFunctionOnSet(f, S) \in Int
<1> DEFINE H == {s \in SUBSET S : SumFunctionOnSet(f, s) \in Int}
<1>1. ASSUME NEW s \in SUBSET S, \A u \in SUBSET s : u # s => u \in H
      PROVE  s \in H
  <2>1. CASE s = {}
    BY <2>1, SumEmpty
  <2>2. CASE s # {}
    <3>1. IsFiniteSet(s) /\ AnyOf(s) \in s
      BY <2>2, FS_Subset, AnyOfIn
    <3>2. SumFunctionOnSet(f, s \ {AnyOf(s)}) \in Int
      BY <1>1, <3>1
    <3>3. SumFunctionOnSet(f, s) = f[AnyOf(s)] + SumFunctionOnSet(f, s \ {AnyOf(s)})
      BY <2>2, <3>1, SumUnfold
    <3>4. QED
      BY <3>1, <3>2, <3>3
  <2>3. QED
    BY <2>1, <2>2
<1> HIDE DEF H
<1>2. \A s \in SUBSET S : s \in H
  BY <1>1, SubsetInduction
<1>3. QED
  BY <1>2 DEF H

LEMMA SumNat ==
  ASSUME NEW f, NEW S, IsFiniteSet(S), \A x \in S : f[x] \in Nat
  PROVE  SumFunctionOnSet(f, S) \in Nat
<1> DEFINE H == {s \in SUBSET S : SumFunctionOnSet(f, s) \in Nat}
<1>1. ASSUME NEW s \in SUBSET S, \A u \in SUBSET s : u # s => u \in H
      PROVE  s \in H
  <2>1. CASE s = {}
    BY <2>1, SumEmpty
  <2>2. CASE s # {}
    <3>1. IsFiniteSet(s) /\ AnyOf(s) \in s
      BY <2>2, FS_Subset, AnyOfIn
    <3>2. SumFunctionOnSet(f, s \ {AnyOf(s)}) \in Nat
      BY <1>1, <3>1
    <3>3. SumFunctionOnSet(f, s) = f[AnyOf(s)] + SumFunctionOnSet(f, s \ {AnyOf(s)})
      BY <2>2, <3>1, SumUnfold
    <3>4. QED
      BY <3>1, <3>2, <3>3
  <2>3. QED
    BY <2>1, <2>2
<1> HIDE DEF H
<1>2. \A s \in SUBSET S : s \in H
  BY <1>1, SubsetInduction
<1>3. QED
  BY <1>2 DEF H

(* Any element may be the one taken out.                                   *)
LEMMA SumRemove ==
  ASSUME NEW f, NEW S, IsFiniteSet(S), \A x \in S : f[x] \in Int, NEW x \in S
  PROVE  SumFunctionOnSet(f, S) = f[x] + SumFunctionOnSet(f, S \ {x})
<1> DEFINE sum(s) == SumFunctionOnSet(f, s)
           H == {s \in SUBSET S : \A y \in s : sum(s) = f[y] + sum(s \ {y})}
<1>1. ASSUME NEW s \in SUBSET S, \A u \in SUBSET s : u # s => u \in H
      PROVE  s \in H
  <2> SUFFICES ASSUME NEW y \in s
               PROVE  sum(s) = f[y] + sum(s \ {y})
    OBVIOUS
  <2> DEFINE z == AnyOf(s)
  <2>1. IsFiniteSet(s) /\ z \in s
    BY FS_Subset, AnyOfIn
  <2>2. sum(s) = f[z] + sum(s \ {z})
    BY <2>1, SumUnfold
  <2>3. CASE y = z
    BY <2>2, <2>3
  <2>4. CASE y # z
    <3> DEFINE rest == (s \ {z}) \ {y}
    <3>1. IsFiniteSet(rest) /\ rest = (s \ {y}) \ {z} /\ rest \subseteq S
      BY <2>1, FS_RemoveElement
    <3>2. sum(s \ {z}) = f[y] + sum(rest)
      <4>1. s \ {z} \in H /\ y \in s \ {z}
        BY <1>1, <2>1, <2>4
      <4>2. QED
        BY <4>1
    <3>3. sum(s \ {y}) = f[z] + sum(rest)
      <4>1. s \ {y} \in H /\ z \in s \ {y}
        BY <1>1, <2>1, <2>4
      <4> HIDE DEF rest, sum
      <4>2. sum(s \ {y}) = f[z] + sum((s \ {y}) \ {z})
        BY <4>1
      <4>3. sum((s \ {y}) \ {z}) = sum(rest)
        BY <3>1, Zenon
      <4>4. QED
        BY <4>2, <4>3
    <3>4. f[y] \in Int /\ f[z] \in Int /\ sum(rest) \in Int
      BY <2>1, <3>1, SumInt
    <3> HIDE DEF z, sum, rest
    <3>5. QED
      BY <2>2, <3>1, <3>2, <3>3, <3>4
  <2>5. QED
    BY <2>3, <2>4
<1> HIDE DEF H
<1>2. S \in H
  <2>1. \A s \in SUBSET S : s \in H
    BY <1>1, SubsetInduction
  <2>2. QED
    BY <2>1
<1>3. QED
  BY <1>2 DEF H

(* A sum depends on the values at the elements it ranges over, only.       *)
LEMMA SumSame ==
  ASSUME NEW f, NEW g, NEW S, IsFiniteSet(S), \A x \in S : f[x] = g[x]
  PROVE  SumFunctionOnSet(f, S) = SumFunctionOnSet(g, S)
<1> DEFINE H == {s \in SUBSET S : SumFunctionOnSet(f, s) = SumFunctionOnSet(g, s)}
<1>1. ASSUME NEW s \in SUBSET S, \A u \in SUBSET s : u # s => u \in H
      PROVE  s \in H
  <2>1. CASE s = {}
    BY <2>1, SumEmpty
  <2>2. CASE s # {}
    <3>1. IsFiniteSet(s) /\ AnyOf(s) \in s
      BY <2>2, FS_Subset, AnyOfIn
    <3>2. SumFunctionOnSet(f, s \ {AnyOf(s)}) = SumFunctionOnSet(g, s \ {AnyOf(s)})
      BY <1>1, <3>1
    <3>3. /\ SumFunctionOnSet(f, s) = f[AnyOf(s)] + SumFunctionOnSet(f, s \ {AnyOf(s)})
          /\ SumFunctionOnSet(g, s) = g[AnyOf(s)] + SumFunctionOnSet(g, s \ {AnyOf(s)})
      BY <2>2, <3>1, SumUnfold
    <3>4. QED
      BY <3>1, <3>2, <3>3
  <2>3. QED
    BY <2>1, <2>2
<1> HIDE DEF H
<1>2. \A s \in SUBSET S : s \in H
  BY <1>1, SubsetInduction
<1>3. QED
  BY <1>2 DEF H

(* A change at one element changes the sum by as much.                     *)
LEMMA SumChange ==
  ASSUME NEW f, NEW g, NEW S, IsFiniteSet(S), NEW x \in S,
         \A y \in S : f[y] \in Int, g[x] \in Int, \A y \in S \ {x} : g[y] = f[y]
  PROVE  SumFunctionOnSet(g, S) = SumFunctionOnSet(f, S) + (g[x] - f[x])
<1>1. IsFiniteSet(S \ {x}) /\ \A y \in S : g[y] \in Int
  BY FS_RemoveElement
<1>2. SumFunctionOnSet(f, S) = f[x] + SumFunctionOnSet(f, S \ {x})
  BY SumRemove
<1>3. SumFunctionOnSet(g, S) = g[x] + SumFunctionOnSet(g, S \ {x})
  BY <1>1, SumRemove
<1>4. SumFunctionOnSet(g, S \ {x}) = SumFunctionOnSet(f, S \ {x})
  BY <1>1, SumSame
<1>5. SumFunctionOnSet(f, S \ {x}) \in Int
  BY <1>1, SumInt
<1>6. QED
  BY <1>1, <1>2, <1>3, <1>4, <1>5

(* A sum with one element more.                                            *)
LEMMA SumAdd ==
  ASSUME NEW f, NEW S, IsFiniteSet(S), NEW x, x \notin S,
         \A y \in S \cup {x} : f[y] \in Int
  PROVE  SumFunctionOnSet(f, S \cup {x}) = f[x] + SumFunctionOnSet(f, S)
<1>1. IsFiniteSet(S \cup {x}) /\ (S \cup {x}) \ {x} = S
  BY FS_AddElement
<1>2. QED
  BY <1>1, SumRemove

(* The sum of zeros.                                                       *)
LEMMA SumZero ==
  ASSUME NEW f, NEW S, IsFiniteSet(S), \A x \in S : f[x] = 0
  PROVE  SumFunctionOnSet(f, S) = 0
<1> DEFINE H == {s \in SUBSET S : SumFunctionOnSet(f, s) = 0}
<1>1. ASSUME NEW s \in SUBSET S, \A u \in SUBSET s : u # s => u \in H
      PROVE  s \in H
  <2>1. CASE s = {}
    BY <2>1, SumEmpty
  <2>2. CASE s # {}
    <3>1. IsFiniteSet(s) /\ AnyOf(s) \in s
      BY <2>2, FS_Subset, AnyOfIn
    <3>2. SumFunctionOnSet(f, s \ {AnyOf(s)}) = 0
      BY <1>1, <3>1
    <3>3. SumFunctionOnSet(f, s) = f[AnyOf(s)] + SumFunctionOnSet(f, s \ {AnyOf(s)})
      BY <2>2, <3>1, SumUnfold
    <3>4. QED
      BY <3>1, <3>2, <3>3
  <2>3. QED
    BY <2>1, <2>2
<1> HIDE DEF H
<1>2. \A s \in SUBSET S : s \in H
  BY <1>1, SubsetInduction
<1>3. QED
  BY <1>2 DEF H

(* Naturals summed over fewer elements give no more.                       *)
LEMMA SumSubset ==
  ASSUME NEW f, NEW S, IsFiniteSet(S), \A x \in S : f[x] \in Nat, NEW T \in SUBSET S
  PROVE  SumFunctionOnSet(f, T) <= SumFunctionOnSet(f, S)
<1> DEFINE H == {s \in SUBSET S : SumFunctionOnSet(f, T \cap s) <= SumFunctionOnSet(f, s)}
<1>1. ASSUME NEW s \in SUBSET S, \A u \in SUBSET s : u # s => u \in H
      PROVE  s \in H
  <2>1. CASE s = {}
    BY <2>1, SumEmpty
  <2>2. CASE s # {}
    <3> DEFINE x == AnyOf(s)
               u == s \ {x}
    <3>1. IsFiniteSet(s) /\ x \in s /\ f[x] \in Nat
      BY <2>2, FS_Subset, AnyOfIn
    <3>2. IsFiniteSet(u) /\ IsFiniteSet(T \cap u) /\ IsFiniteSet(T \cap s)
      BY <3>1, FS_RemoveElement, FS_Intersection
    <3>3. SumFunctionOnSet(f, T \cap u) <= SumFunctionOnSet(f, u)
      BY <1>1, <3>1
    <3>4. SumFunctionOnSet(f, s) = f[x] + SumFunctionOnSet(f, u)
      BY <2>2, <3>1, SumUnfold
    <3>5. SumFunctionOnSet(f, u) \in Nat /\ SumFunctionOnSet(f, T \cap u) \in Nat
      BY <3>2, SumNat
    <3>6. CASE x \in T
      <4>1. (T \cap s) \ {x} = T \cap u /\ x \in T \cap s
        BY <3>1, <3>6
      <4> HIDE DEF x, u
      <4>2. SumFunctionOnSet(f, T \cap s) = f[x] + SumFunctionOnSet(f, T \cap u)
        BY <3>2, <4>1, SumRemove
      <4>3. QED
        BY <3>1, <3>3, <3>4, <3>5, <4>2
    <3>7. CASE x \notin T
      <4>1. T \cap s = T \cap u
        BY <3>7
      <4> HIDE DEF x, u
      <4>2. QED
        BY <3>1, <3>3, <3>4, <3>5, <4>1
    <3>8. QED
      BY <3>6, <3>7
  <2>3. QED
    BY <2>1, <2>2
<1> HIDE DEF H
<1>2. S \in H
  <2>1. \A s \in SUBSET S : s \in H
    BY <1>1, SubsetInduction
  <2>2. QED
    BY <2>1
<1>3. T \cap S = T
  OBVIOUS
<1>4. QED
  BY <1>2, <1>3 DEF H
=============================================================================

--------------------------- MODULE Figures_proofs ---------------------------
(***************************************************************************)
(* Theorems about what the program works out and what it then says of it:  *)
(* the engines, the bank reconciliation and the income tax workspace, for  *)
(* every amount, statement, set of sources and number of requests.         *)
(***************************************************************************)
EXTENDS Calculations, BankReconciliation, ItrWorkspace, FiniteSetTheorems,
        WellFoundedInduction, TLAPS

-----------------------------------------------------------------------------
(***************************************************************************)
(* Sums over finite sets.                                                  *)
(***************************************************************************)

(* What holds of a set as soon as it holds of its strict subsets holds of  *)
(* every subset of a finite set: induction over a family of sets.          *)
LEMMA SubsetInduction ==
  ASSUME NEW S, IsFiniteSet(S), NEW G,
         \A s \in SUBSET S : (\A t \in SUBSET s : t # s => t \in G) => s \in G
  PROVE  \A s \in SUBSET S : s \in G
<1>. DEFINE B == {s \in SUBSET S : s \notin G}
<1>1. SUFFICES ASSUME B # {} PROVE FALSE
  OBVIOUS
<1>2. IsWellFoundedOn(StrictSubsetOrdering(S), SUBSET S)
  BY FS_StrictSubsetOrderingWellFounded, FS_FiniteSubsetsOfFinite
<1>3. PICK s \in B : \A t \in B : ~(<<t, s>> \in StrictSubsetOrdering(S))
  <2>1. B \subseteq SUBSET S
    OBVIOUS
  <2>. HIDE DEF B
  <2>. QED BY <1>1, <1>2, <2>1, WFMin
<1>4. ASSUME NEW t \in SUBSET s, t # s PROVE t \in G
  <2>1. t \in SUBSET S /\ s \in SUBSET S
    OBVIOUS
  <2>2. <<t, s>> \in StrictSubsetOrdering(S)
    BY <2>1, <1>4 DEF StrictSubsetOrdering
  <2>. QED BY <1>3, <2>1, <2>2
<1>. QED BY <1>4

(* Sums.                                                                   *)
Pick(s) == CHOOSE x \in s : TRUE

(* A non-empty set has the element that is picked.                         *)
LEMMA PickIsMember == ASSUME NEW s, s # {} PROVE Pick(s) \in s
BY DEF Pick

Sums(w, S, g) == 
  g = [s \in SUBSET S |-> IF s = {} THEN 0 ELSE w[Pick(s)] + g[s \ {Pick(s)}]]

(* A sum is the value of such a function.                                  *)
LEMMA SumOpened ==
  ASSUME NEW w, NEW S
  PROVE  SumFunctionOnSet(w, S) = (CHOOSE g : Sums(w, S, g))[S]
BY DEF SumFunctionOnSet, FoldFunctionOnSet, MapThenFoldSet, Sums, Pick

(* Two such functions agree where both are defined.                        *)
LEMMA SumsAgree ==
  ASSUME NEW w, NEW S, IsFiniteSet(S), NEW T, NEW g, NEW h, Sums(w, S, g), Sums(w, T, h)
  PROVE  \A s \in SUBSET S : s \in SUBSET T => g[s] = h[s]
<1>. DEFINE G == {s \in SUBSET S : s \in SUBSET T => g[s] = h[s]}
<1>1. ASSUME NEW s \in SUBSET S, \A t \in SUBSET s : t # s => t \in G PROVE s \in G
  <2>1. SUFFICES ASSUME s \in SUBSET T PROVE g[s] = h[s]
    OBVIOUS
  <2>2. CASE s = {}
    BY <2>1, <2>2 DEF Sums
  <2>3. CASE s # {}
    <3>1. Pick(s) \in s
      BY <2>3, PickIsMember
    <3>. DEFINE t == s \ {Pick(s)}
    <3>2. t \in SUBSET s /\ t # s /\ t \in SUBSET T
      BY <3>1, <2>1
    <3>3. g[t] = h[t]
      BY <1>1, <3>2
    <3>4. g[s] = w[Pick(s)] + g[t] /\ h[s] = w[Pick(s)] + h[t]
      BY <2>1, <2>3 DEF Sums
    <3>. QED BY <3>3, <3>4
  <2>. QED BY <2>2, <2>3
<1>. HIDE DEF G
<1>2. \A s \in SUBSET S : s \in G
  BY <1>1, SubsetInduction
<1>. QED BY <1>2 DEF G

(* There is such a g over the subsets of every finite set.                 *)
LEMMA SumsExist ==
  ASSUME NEW w, NEW S, IsFiniteSet(S)
  PROVE  \A s \in SUBSET S : \E g : Sums(w, s, g)
<1>. DEFINE G == {s \in SUBSET S : \E g : Sums(w, s, g)}
<1>1. ASSUME NEW s \in SUBSET S, \A t \in SUBSET s : t # s => t \in G PROVE s \in G
  <2>. DEFINE H(t) == CHOOSE g : Sums(w, t, g)
              Rest(t) == t \ {Pick(t)}
              V(t) == IF t = {} THEN 0 ELSE w[Pick(t)] + H(Rest(t))[Rest(t)]
              g == [t \in SUBSET s |-> V(t)]
  <2>1. ASSUME NEW t \in SUBSET s, t # s PROVE Sums(w, t, H(t))
    BY <1>1, <2>1
  <2>2. ASSUME NEW t \in SUBSET s, t # {} PROVE Rest(t) \in SUBSET t /\ Rest(t) # t /\ Rest(t) \in SUBSET s /\ Rest(t) # s
    BY <2>2, PickIsMember
  <2>3. ASSUME NEW t \in SUBSET s, t # s PROVE V(t) = H(t)[t]
    <3>1. CASE t = {}
      <4>. HIDE DEF H
      <4>. QED BY <2>1, <2>3, <3>1 DEF Sums
    <3>2. CASE t # {}
      <4>1. H(t)[t] = w[Pick(t)] + H(t)[Rest(t)]
        <5>. HIDE DEF H
        <5>. QED BY <2>1, <2>3, <3>2 DEF Sums
      <4>2. Sums(w, t, H(t)) /\ Sums(w, Rest(t), H(Rest(t))) /\ IsFiniteSet(t)
        <5>. HIDE DEF H, Rest
        <5>. QED BY <2>1, <2>2, <2>3, <3>2, FS_Subset
      <4>3. H(t)[Rest(t)] = H(Rest(t))[Rest(t)]
        <5>. HIDE DEF H, Rest
        <5>1. Rest(t) \in SUBSET t /\ Rest(t) \in SUBSET Rest(t)
          BY <2>2, <3>2
        <5>. QED BY <5>1, <4>2, SumsAgree
      <4>. QED BY <4>1, <4>3, <3>2
    <3>. QED BY <3>1, <3>2
  <2>4. Sums(w, s, g)
    <3>1. ASSUME NEW t \in SUBSET s, t # {} PROVE g[t] = w[Pick(t)] + g[t \ {Pick(t)}]
      <4>. HIDE DEF H
      <4>1. Rest(t) \in SUBSET s /\ Rest(t) # s
        BY <2>2, <3>1
      <4>2. g[Rest(t)] = H(Rest(t))[Rest(t)]
        <5>. HIDE DEF V, Rest
        <5>1. V(Rest(t)) = H(Rest(t))[Rest(t)]
          BY <2>3, <4>1
        <5>. QED BY <5>1, <4>1
      <4>3. g[t] = w[Pick(t)] + H(Rest(t))[Rest(t)]
        BY <3>1
      <4>. QED BY <4>2, <4>3
    <3>2. {} \in SUBSET s => g[{}] = 0
      OBVIOUS
    <3>3. g = [t \in SUBSET s |-> g[t]]
      OBVIOUS
    <3>. HIDE DEF g
    <3>. QED BY <3>1, <3>2, <3>3 DEF Sums
  <2>. HIDE DEF g
  <2>. QED BY <2>4
<1>. HIDE DEF G
<1>2. \A s \in SUBSET S : s \in G
  BY <1>1, SubsetInduction
<1>. QED BY <1>2 DEF G

(* What a sum over a finite set is: that of none is zero, and one term may *)
(* be taken out.                                                           *)
LEMMA SumPicked ==
  ASSUME NEW w, NEW S, IsFiniteSet(S)
  PROVE  /\ SumFunctionOnSet(w, {}) = 0
         /\ S # {} => SumFunctionOnSet(w, S) =
              w[Pick(S)] + SumFunctionOnSet(w, S \ {Pick(S)})
<1>. DEFINE H(s) == CHOOSE g : Sums(w, s, g)
<1>1. \A s \in SUBSET S : Sums(w, s, H(s))
  BY SumsExist
<1>2. \A s : SumFunctionOnSet(w, s) = H(s)[s]
  BY SumOpened
<1>. HIDE DEF H
<1>3. SumFunctionOnSet(w, {}) = 0
  BY <1>1, <1>2 DEF Sums
<1>4. ASSUME S # {} PROVE SumFunctionOnSet(w, S) = w[Pick(S)] + SumFunctionOnSet(w, S \ {Pick(S)})
  <2>. DEFINE R == S \ {Pick(S)}
  <2>1. Sums(w, S, H(S)) /\ Sums(w, R, H(R)) /\ R \in SUBSET S /\ R \in SUBSET R
    BY <1>1
  <2>2. H(S)[R] = H(R)[R]
    <3>. HIDE DEF R
    <3>. QED BY <2>1, SumsAgree
  <2>3. H(S)[S] = w[Pick(S)] + H(S)[R]
    BY <2>1, <1>4 DEF Sums
  <2>. QED BY <2>2, <2>3, <1>2
<1>. QED BY <1>3, <1>4

(* The sum of finitely many numbers is a number.                           *)
LEMMA SumTyped ==
  ASSUME NEW D, NEW w \in [D -> Int], NEW S \in SUBSET D, IsFiniteSet(S)
  PROVE  SumFunctionOnSet(w, S) \in Int
<1>. DEFINE G == {s \in SUBSET S : SumFunctionOnSet(w, s) \in Int}
<1>1. ASSUME NEW s \in SUBSET S, \A t \in SUBSET s : t # s => t \in G PROVE s \in G
  <2>1. IsFiniteSet(s)
    BY FS_Subset
  <2>2. CASE s = {}
    BY <2>1, <2>2, SumPicked
  <2>3. CASE s # {}
    <3>1. Pick(s) \in s /\ w[Pick(s)] \in Int
      BY <2>3, PickIsMember
    <3>2. s \ {Pick(s)} \in G
      BY <1>1, <3>1
    <3>3. SumFunctionOnSet(w, s) = w[Pick(s)] + SumFunctionOnSet(w, s \ {Pick(s)})
      BY <2>1, <2>3, SumPicked
    <3>. QED BY <3>1, <3>2, <3>3
  <2>. QED BY <2>2, <2>3
<1>. HIDE DEF G
<1>2. \A s \in SUBSET S : s \in G
  BY <1>1, SubsetInduction
<1>. QED BY <1>2 DEF G

(* Any term may be taken out first.                                        *)
LEMMA SumTaken ==
  ASSUME NEW D, NEW w \in [D -> Int], NEW S \in SUBSET D, IsFiniteSet(S)
  PROVE  \A x \in S : SumFunctionOnSet(w, S) = w[x] + SumFunctionOnSet(w, S \ {x})
<1>. DEFINE Sum(s) == SumFunctionOnSet(w, s)
            G == {s \in SUBSET S : \A x \in s : Sum(s) = w[x] + Sum(s \ {x})}
<1>1. ASSUME NEW s \in SUBSET S, \A t \in SUBSET s : t # s => t \in G PROVE s \in G
  <2>0. \A t \in SUBSET s : IsFiniteSet(t) /\ Sum(t) \in Int
    BY FS_Subset, SumTyped
  <2>1. ASSUME NEW x \in s PROVE Sum(s) = w[x] + Sum(s \ {x})
    <3>. DEFINE y == Pick(s)
    <3>1. y \in s /\ Sum(s) = w[y] + Sum(s \ {y})
      BY <2>0, <2>1, PickIsMember, SumPicked
    <3>. HIDE DEF y, Sum
    <3>2. CASE x = y
      BY <3>1, <3>2
    <3>3. CASE x # y
      <4>1. s \ {x} \in G /\ s \ {y} \in G /\ y \in s \ {x} /\ x \in s \ {y}
        BY <1>1, <2>1, <3>1, <3>3
      <4>2. /\ Sum(s \ {x}) = w[y] + Sum((s \ {x}) \ {y})
            /\ Sum(s \ {y}) = w[x] + Sum((s \ {y}) \ {x})
        BY <4>1
      <4>3. (s \ {x}) \ {y} = (s \ {y}) \ {x}
        OBVIOUS
      <4>4. w[x] \in Int /\ w[y] \in Int /\ Sum((s \ {y}) \ {x}) \in Int
        BY <2>0, <2>1, <3>1
      <4>5. Sum((s \ {x}) \ {y}) = Sum((s \ {y}) \ {x})
        BY <4>3
      <4>. HIDE DEF G
      <4>. QED BY <3>1, <4>2, <4>4, <4>5
    <3>. QED BY <3>2, <3>3
  <2>. QED BY <2>1
<1>. HIDE DEF G
<1>2. \A s \in SUBSET S : s \in G
  BY <1>1, SubsetInduction
<1>. QED BY <1>2 DEF G

(* The sum over two sets that share nothing is that over one and that over *)
(* the other.                                                              *)
LEMMA SumOfParts ==
  ASSUME NEW D, NEW w \in [D -> Int], NEW S \in SUBSET D, NEW T \in SUBSET D,
         IsFiniteSet(S), IsFiniteSet(T), S \cap T = {}
  PROVE  SumFunctionOnSet(w, S \cup T) = SumFunctionOnSet(w, S) + SumFunctionOnSet(w, T)
<1>. DEFINE Sum(s) == SumFunctionOnSet(w, s)
            G == {s \in SUBSET S : Sum(s \cup T) = Sum(s) + Sum(T)}
<1>1. ASSUME NEW s \in SUBSET S, \A t \in SUBSET s : t # s => t \in G PROVE s \in G
  <2>1. IsFiniteSet(s) /\ IsFiniteSet(s \cup T) /\ Sum(T) \in Int
    <3>1. IsFiniteSet(s)
      BY FS_Subset
    <3>. QED BY <3>1, FS_Union, SumTyped
  <2>2. CASE s = {}
    <3>1. Sum(s) = 0 /\ s \cup T = T
      BY <2>1, <2>2, SumPicked
    <3>. QED BY <2>1, <3>1
  <2>3. CASE s # {}
    <3>1. PICK x \in s : TRUE
      BY <2>3
    <3>2. /\ Sum(s) = w[x] + Sum(s \ {x})
          /\ Sum(s \cup T) = w[x] + Sum((s \cup T) \ {x})
      BY <2>1, <3>1, SumTaken
    <3>3. (s \cup T) \ {x} = (s \ {x}) \cup T
      BY <3>1
    <3>4. Sum((s \ {x}) \cup T) = Sum(s \ {x}) + Sum(T)
      <4>. HIDE DEF Sum
      <4>1. s \ {x} \in G
        BY <1>1, <3>1
      <4>. QED BY <4>1
    <3>5. w[x] \in Int /\ Sum(s \ {x}) \in Int
      <4>1. s \ {x} \in SUBSET D /\ IsFiniteSet(s \ {x})
        BY <2>1, FS_Subset
      <4>. QED BY <4>1, <3>1, SumTyped
    <3>. HIDE DEF Sum
    <3>6. Sum(s \cup T) = w[x] + (Sum(s \ {x}) + Sum(T))
      BY <3>2, <3>3, <3>4
    <3>7. Sum(s \cup T) = Sum(s) + Sum(T)
      BY <2>1, <3>2, <3>5, <3>6
    <3>. QED BY <3>7
  <2>. QED BY <2>2, <2>3
<1>. HIDE DEF G
<1>2. \A s \in SUBSET S : s \in G
  BY <1>1, SubsetInduction
<1>. QED BY <1>2 DEF G

(* A sum may be taken over the names of its terms instead.                 *)
LEMMA SumRenamed ==
  ASSUME NEW D, NEW w \in [D -> Int], NEW E, NEW v \in [E -> Int],
         NEW S \in SUBSET E, IsFiniteSet(S), NEW f,
         \A x \in S : f[x] \in D /\ v[x] = w[f[x]],
         \A x, y \in S : f[x] = f[y] => x = y
  PROVE  SumFunctionOnSet(v, S) = SumFunctionOnSet(w, {f[x] : x \in S})
<1>. DEFINE Image(s) == {f[x] : x \in s}
            G == {s \in SUBSET S : SumFunctionOnSet(v, s) = SumFunctionOnSet(w, Image(s))}
<1>1. ASSUME NEW s \in SUBSET S, \A t \in SUBSET s : t # s => t \in G PROVE s \in G
  <2>1. IsFiniteSet(s) /\ IsFiniteSet(Image(s)) /\ Image(s) \in SUBSET D
    <3>1. IsFiniteSet(s)
      BY FS_Subset
    <3>2. IsFiniteSet(Image(s))
      <4>. DEFINE r == [x \in s |-> f[x]]
      <4>1. r \in Surjection(s, Image(s))
        BY DEF Surjection
      <4>. HIDE DEF r
      <4>. QED BY <3>1, <4>1, FS_Surjection
    <3>. QED BY <3>1, <3>2
  <2>2. CASE s = {}
    <3>1. SumFunctionOnSet(v, {}) = 0 /\ SumFunctionOnSet(w, {}) = 0
      BY <2>1, <2>2, SumPicked
    <3>2. Image(s) = {}
      BY <2>2
    <3>. QED BY <2>2, <3>1, <3>2
  <2>3. CASE s # {}
    <3>1. PICK x \in s : TRUE
      BY <2>3
    <3>2. /\ SumFunctionOnSet(v, s) = v[x] + SumFunctionOnSet(v, s \ {x})
      BY <2>1, <3>1, SumTaken
    <3>3. SumFunctionOnSet(w, Image(s)) = w[f[x]] + SumFunctionOnSet(w, Image(s) \ {f[x]})
      BY <2>1, <3>1, SumTaken
    <3>4. Image(s) \ {f[x]} = Image(s \ {x})
      BY <3>1
    <3>5. s \ {x} \in G
      BY <1>1, <3>1
    <3>. HIDE DEF Image
    <3>6. SumFunctionOnSet(v, s) = SumFunctionOnSet(w, Image(s))
      BY <3>1, <3>2, <3>3, <3>4, <3>5
    <3>. QED BY <3>6
  <2>. QED BY <2>2, <2>3
<1>. HIDE DEF G
<1>2. \A s \in SUBSET S : s \in G
  BY <1>1, SubsetInduction
<1>. QED BY <1>2 DEF G

(* The sum of one term is that term.                                       *)
LEMMA SumOfOne ==
  ASSUME NEW w, NEW x, w[x] \in Int
  PROVE  SumFunctionOnSet(w, {x}) = w[x]
<1>1. IsFiniteSet({x}) /\ {x} # {} /\ {x} \ {x} = {}
  BY FS_Singleton
<1>2. Pick({x}) = x
  BY PickIsMember
<1>3. /\ SumFunctionOnSet(w, {}) = 0
      /\ SumFunctionOnSet(w, {x}) = w[Pick({x})] + SumFunctionOnSet(w, {x} \ {Pick({x})})
  BY <1>1, SumPicked, Zenon
<1>4. {x} \ {Pick({x})} = {}
  BY <1>2, Zenon
<1>5. SumFunctionOnSet(w, {x}) = w[x] + 0
  BY <1>2, <1>3, <1>4, Zenon
<1>. QED BY <1>5

(* A sum over numbers grows term by term.                                  *)
LEMMA SumUpTo ==
  ASSUME NEW D, NEW w \in [D -> Int], NEW n \in Nat, 1 .. (n + 1) \subseteq D
  PROVE  /\ SumFunctionOnSet(w, 1 .. n) \in Int
         /\ SumFunctionOnSet(w, 1 .. (n + 1)) = SumFunctionOnSet(w, 1 .. n) + w[n + 1]
<1>. DEFINE S == 1 .. (n + 1)
<1>1. IsFiniteSet(S) /\ IsFiniteSet(1 .. n) /\ n + 1 \in S
  BY FS_Interval
<1>2. S \ {n + 1} = 1 .. n /\ S \in SUBSET D /\ 1 .. n \in SUBSET D
  OBVIOUS
<1>3. SumFunctionOnSet(w, 1 .. n) \in Int
  BY <1>1, <1>2, SumTyped
<1>4. SumFunctionOnSet(w, S) = w[n + 1] + SumFunctionOnSet(w, S \ {n + 1})
  <2>. HIDE DEF S
  <2>. QED BY <1>1, <1>2, SumTaken
<1>5. SumFunctionOnSet(w, S) = w[n + 1] + SumFunctionOnSet(w, 1 .. n)
  BY <1>2, <1>4
<1>6. w[n + 1] \in Int
  BY <1>1, <1>2
<1>. QED BY <1>3, <1>5, <1>6

(* The sum of four terms.                                                  *)
LEMMA SumOfFour ==
  ASSUME NEW w \in [1 .. 4 -> Int]
  PROVE  SumFunction(w) = w[1] + w[2] + w[3] + w[4]
<1>. DEFINE Sum(n) == SumFunctionOnSet(w, 1 .. n)
<1>1. Sum(0) = 0
  <2>1. 1 .. 0 = {} /\ IsFiniteSet({})
    BY FS_EmptySet
  <2>. QED BY <2>1, SumPicked
<1>2. \A n \in 0 .. 3 : Sum(n) \in Int /\ Sum(n + 1) = Sum(n) + w[n + 1]
  <2>1. ASSUME NEW n \in 0 .. 3 PROVE n \in Nat /\ 1 .. (n + 1) \subseteq 1 .. 4
    OBVIOUS
  <2>. QED BY <2>1, SumUpTo
<1>3. SumFunction(w) = Sum(4)
  BY DEF SumFunction
<1>. HIDE DEF Sum
<1>4. /\ Sum(1) = Sum(0) + w[1] /\ Sum(2) = Sum(1) + w[2] /\ Sum(3) = Sum(2) + w[3]
      /\ Sum(4) = Sum(3) + w[4]
  BY <1>2
<1>5. w[1] \in Int /\ w[2] \in Int /\ w[3] \in Int /\ w[4] \in Int
  OBVIOUS
<1>. QED BY <1>1, <1>3, <1>4, <1>5

(* And of six.                                                             *)
LEMMA SumOfSix ==
  ASSUME NEW w \in [1 .. 6 -> Int]
  PROVE  SumFunction(w) = w[1] + w[2] + w[3] + w[4] + w[5] + w[6]
<1>. DEFINE Sum(n) == SumFunctionOnSet(w, 1 .. n)
<1>1. Sum(0) = 0
  <2>1. 1 .. 0 = {} /\ IsFiniteSet({})
    BY FS_EmptySet
  <2>. QED BY <2>1, SumPicked
<1>2. \A n \in 0 .. 5 : Sum(n) \in Int /\ Sum(n + 1) = Sum(n) + w[n + 1]
  <2>1. ASSUME NEW n \in 0 .. 5 PROVE n \in Nat /\ 1 .. (n + 1) \subseteq 1 .. 6
    OBVIOUS
  <2>. QED BY <2>1, SumUpTo
<1>3. SumFunction(w) = Sum(6)
  BY DEF SumFunction
<1>. HIDE DEF Sum
<1>4. /\ Sum(1) = Sum(0) + w[1] /\ Sum(2) = Sum(1) + w[2] /\ Sum(3) = Sum(2) + w[3]
      /\ Sum(4) = Sum(3) + w[4] /\ Sum(5) = Sum(4) + w[5] /\ Sum(6) = Sum(5) + w[6]
  BY <1>2
<1>5. /\ w[1] \in Int /\ w[2] \in Int /\ w[3] \in Int /\ w[4] \in Int /\ w[5] \in Int
      /\ w[6] \in Int
  OBVIOUS
<1>. QED BY <1>1, <1>3, <1>4, <1>5

-----------------------------------------------------------------------------
(***************************************************************************)
(* Loops over lists.                                                       *)
(***************************************************************************)

(* What holds of 0, and of a number's successor with the number, holds of  *)
(* every number.                                                           *)
LEMMA CountUp ==
  ASSUME NEW G, 0 \in G, \A n \in Nat : n \in G => n + 1 \in G
  PROVE  \A n \in Nat : n \in G
<1>. SUFFICES ASSUME NEW n \in Nat PROVE n \in G
  OBVIOUS
<1>. DEFINE S == 1 .. n
            H == {s \in SUBSET S : \A k \in 0 .. n : s = 1 .. k => k \in G}
<1>1. IsFiniteSet(S)
  BY FS_Interval
<1>2. ASSUME NEW s \in SUBSET S, \A t \in SUBSET s : t # s => t \in H PROVE s \in H
  <2>. SUFFICES ASSUME NEW k \in 0 .. n, s = 1 .. k PROVE k \in G
    OBVIOUS
  <2>1. CASE k = 0
    BY <2>1
  <2>2. CASE k # 0
    <3>1. k - 1 \in 0 .. n /\ k - 1 \in Nat /\ (k - 1) + 1 = k
      BY <2>2
    <3>2. 1 .. k - 1 \in SUBSET s /\ 1 .. k - 1 # s
      <4>1. k \in 1 .. k /\ k \notin 1 .. k - 1
        BY <2>2
      <4>. QED BY <4>1
    <3>3. k - 1 \in G
      BY <1>2, <3>1, <3>2
    <3>. QED BY <3>1, <3>3
  <2>. QED BY <2>1, <2>2
<1>. HIDE DEF H
<1>3. \A s \in SUBSET S : s \in H
  BY <1>1, <1>2, SubsetInduction, Zenon
<1>4. 1 .. n \in H /\ n \in 0 .. n
  BY <1>3
<1>. QED BY <1>4 DEF H

(* A loop that keeps the chosen positions.                                 *)
Keeps(chosen, n, g) ==
  g = [i \in 0 .. n |-> IF i = 0 THEN <<>>
                        ELSE IF i \in chosen THEN Append(g[i - 1], i) ELSE g[i - 1]]

(* InOrder is what such a loop ends with.                                  *)
LEMMA InOrderOpened ==
  ASSUME NEW chosen, NEW n
  PROVE  InOrder(chosen, n) = (CHOOSE g : Keeps(chosen, n, g))[n]
BY DEF InOrder, Keeps

(* There is one for every length.                                          *)
LEMMA KeepsExists ==
  ASSUME NEW chosen
  PROVE  \A n \in Nat : \E g : Keeps(chosen, n, g)
<1>. DEFINE G == {n \in Nat : \E g : Keeps(chosen, n, g)}
<1>1. 0 \in G
  <2>1. Keeps(chosen, 0, [i \in 0 .. 0 |-> <<>>])
    BY DEF Keeps
  <2>. QED BY <2>1
<1>2. ASSUME NEW n \in Nat, n \in G PROVE n + 1 \in G
  <2>1. PICK g : Keeps(chosen, n, g)
    BY <1>2
  <2>. DEFINE h == [i \in 0 .. n + 1 |->
                      IF i <= n THEN g[i]
                      ELSE IF n + 1 \in chosen THEN Append(g[n], n + 1) ELSE g[n]]
  <2>2. ASSUME NEW i \in 0 .. n + 1
        PROVE  h[i] = IF i = 0 THEN <<>> ELSE IF i \in chosen THEN Append(h[i - 1], i) ELSE h[i - 1]
    <3>1. CASE i <= n
      <4>1. i \in 0 .. n /\ (i # 0 => i - 1 \in 0 .. n + 1 /\ i - 1 <= n)
        BY <3>1
      <4>. QED BY <2>1, <3>1, <4>1 DEF Keeps
    <3>2. CASE i = n + 1
      BY <3>2
    <3>. QED BY <3>1, <3>2
  <2>3. h = [i \in 0 .. n + 1 |-> h[i]]
    OBVIOUS
  <2>. HIDE DEF h
  <2>4. Keeps(chosen, n + 1, h)
    BY <2>2, <2>3 DEF Keeps
  <2>. QED BY <2>4
<1>. HIDE DEF G
<1>3. \A n \in Nat : n \in G
  BY <1>1, <1>2, CountUp
<1>. QED BY <1>3 DEF G

(* It keeps each of them once, in order.                                   *)
Ascending(list, chosen) ==
  /\ list \in Seq(chosen)
  /\ \A x \in chosen : \E k \in 1 .. Len(list) : list[k] = x
  /\ \A j, k \in 1 .. Len(list) : j < k => list[j] < list[k]

(* InOrder has every chosen position up to n, in order.                    *)
LEMMA KeptInOrder ==
  ASSUME NEW chosen, NEW n \in Nat
  PROVE  Ascending(InOrder(chosen, n), chosen \cap 1 .. n)
<1>1. PICK g : Keeps(chosen, n, g) /\ InOrder(chosen, n) = g[n]
  BY KeepsExists, InOrderOpened
<1>. DEFINE G == {i \in Nat : i <= n => Ascending(g[i], chosen \cap 1 .. i)}
<1>2. 0 \in G
  BY <1>1 DEF Keeps, Ascending
<1>3. ASSUME NEW i \in Nat, i \in G PROVE i + 1 \in G
  <2>. SUFFICES ASSUME i + 1 <= n PROVE Ascending(g[i + 1], chosen \cap 1 .. i + 1)
    OBVIOUS
  <2>. DEFINE old == chosen \cap 1 .. i
              new == chosen \cap 1 .. i + 1
  <2>1. Ascending(g[i], old)
    BY <1>3
  <2>2. g[i + 1] = IF i + 1 \in chosen THEN Append(g[i], i + 1) ELSE g[i]
    <3>1. i + 1 \in 0 .. n /\ i + 1 # 0 /\ (i + 1) - 1 = i
      OBVIOUS
    <3>2. \A j \in 0 .. n : j # 0 =>
            g[j] = IF j \in chosen THEN Append(g[j - 1], j) ELSE g[j - 1]
      BY <1>1 DEF Keeps
    <3>. QED BY <3>1, <3>2
  <2>3. CASE i + 1 \notin chosen
    <3>1. new = old
      <4>1. \A x : x \in 1 .. i + 1 <=> x \in 1 .. i \/ x = i + 1
        OBVIOUS
      <4>. QED BY <2>3, <4>1
    <3>. QED BY <2>1, <2>2, <2>3, <3>1
  <2>4. CASE i + 1 \in chosen
    <3>. DEFINE l == g[i]
                m == g[i + 1]
    <3>1. /\ l \in Seq(old) /\ old \subseteq new /\ i + 1 \in new
          /\ \A x \in new : x \in old \/ x = i + 1
          /\ \A x \in old : x \in Int /\ x < i + 1
      BY <2>1, <2>4 DEF Ascending
    <3>2. m = Append(l, i + 1) /\ l \in Seq(new)
      BY <2>2, <2>4, <3>1
    <3>. HIDE DEF l, m
    <3>3. /\ m \in Seq(new) /\ Len(m) = Len(l) + 1 /\ Len(l) \in Nat
          /\ \A k \in 1 .. Len(l) : m[k] = l[k] /\ l[k] \in old
          /\ m[Len(l) + 1] = i + 1
      BY <3>1, <3>2
    <3>4. ASSUME NEW x \in new PROVE \E k \in 1 .. Len(m) : m[k] = x
      <4>1. CASE x = i + 1
        BY <3>3, <4>1
      <4>2. CASE x \in old
        <5>1. PICK k \in 1 .. Len(l) : l[k] = x
          BY <2>1, <4>2 DEF Ascending, l
        <5>2. k \in 1 .. Len(m) /\ m[k] = x
          BY <3>3, <5>1
        <5>. QED BY <5>2
      <4>. QED BY <3>1, <4>1, <4>2
    <3>5. ASSUME NEW j \in 1 .. Len(m), NEW k \in 1 .. Len(m), j < k PROVE m[j] < m[k]
      <4>1. j \in 1 .. Len(l)
        BY <3>3, <3>5
      <4>2. CASE k \in 1 .. Len(l)
        <5>1. l[j] < l[k]
          BY <2>1, <3>5, <4>1, <4>2 DEF Ascending, l
        <5>. QED BY <3>3, <4>1, <4>2, <5>1
      <4>3. CASE k = Len(l) + 1
        BY <3>1, <3>3, <4>1, <4>3
      <4>. QED BY <3>3, <4>2, <4>3
    <3>. QED BY <3>3, <3>4, <3>5 DEF Ascending, m
  <2>. QED BY <2>3, <2>4
<1>. HIDE DEF G
<1>4. \A i \in Nat : i \in G
  BY <1>2, <1>3, CountUp
<1>5. n \in G /\ n <= n
  BY <1>4
<1>. QED BY <1>1, <1>5 DEF G

-----------------------------------------------------------------------------
(***************************************************************************)
(* Matching.                                                               *)
(***************************************************************************)

(* Of finitely many positions with a score one is the first best.          *)
LEMMA BestExists ==
  ASSUME NEW S, IsFiniteSet(S), S \subseteq Int, S # {}, NEW w, \A i \in S : w[i] \in Int
  PROVE  \E i \in S : \A j \in S : w[j] < w[i] \/ (w[j] = w[i] /\ i <= j)
<1>. DEFINE Best(s, i) == \A j \in s : w[j] < w[i] \/ (w[j] = w[i] /\ i <= j)
            G == {s \in SUBSET S : s # {} => \E i \in s : Best(s, i)}
<1>1. ASSUME NEW s \in SUBSET S, \A t \in SUBSET s : t # s => t \in G PROVE s \in G
  <2>. SUFFICES ASSUME s # {} PROVE \E i \in s : Best(s, i)
    OBVIOUS
  <2>1. PICK x \in s : TRUE
    OBVIOUS
  <2>. DEFINE t == s \ {x}
  <2>2. CASE t = {}
    <3>1. \A j \in s : j = x
      BY <2>2
    <3>2. w[x] \in Int /\ x \in Int
      BY <2>1
    <3>3. Best(s, x)
      BY <3>1, <3>2
    <3>. QED BY <2>1, <3>3
  <2>3. CASE t # {}
    <3>1. PICK i \in t : Best(t, i)
      <4>1. t \in SUBSET s /\ t # s
        BY <2>1
      <4>2. t \in G
        BY <1>1, <4>1
      <4>. HIDE DEF Best
      <4>. QED BY <2>3, <4>2
    <3>2. \A j \in s : j \in Int /\ w[j] \in Int
      OBVIOUS
    <3>3. CASE w[x] < w[i] \/ (w[x] = w[i] /\ i <= x)
      <4>1. Best(s, i)
        BY <3>1, <3>3
      <4>. QED BY <4>1
    <3>4. CASE ~ (w[x] < w[i] \/ (w[x] = w[i] /\ i <= x))
      <4>1. w[x] > w[i] \/ (w[x] = w[i] /\ x <= i)
        BY <2>1, <3>2, <3>4
      <4>2. Best(s, x)
        BY <2>1, <3>1, <3>2, <4>1
      <4>. QED BY <2>1, <4>2
    <3>. QED BY <3>3, <3>4
  <2>. QED BY <2>2, <2>3
<1>. HIDE DEF G
<1>2. \A s \in SUBSET S : s \in G
  BY <1>1, SubsetInduction
<1>3. S \in G
  BY <1>2
<1>. QED BY <1>3 DEF G

(* A loop over the sources of reconcile.                                   *)
Fresh == [taken |-> {}, matches |-> <<>>]
Reconciles(ours, theirs, names, n, g) ==
  g = [s \in 0 .. n |-> IF s = 0 THEN Fresh
                        ELSE MatchSource(g[s - 1], s, ours, theirs, names)]

(* The matches of reconcile: what the loop ends with, then the lines left. *)
LEMMA ReconciledByLoop ==
  ASSUME NEW ours, NEW theirs, NEW names
  PROVE  Reconcile(ours, theirs, names) =
           LET run == (CHOOSE g : Reconciles(ours, theirs, names, Len(ours), g))[Len(ours)]
               rest == InOrder(DOMAIN theirs \ run.taken, Len(theirs))
           IN  run.matches \o [i \in DOMAIN rest |->
                 Match(0, rest[i], "UNMATCHED", "PORTAL_ENTRY_NOT_IN_BOOKS")]
BY DEF Reconcile, Reconciles, Fresh

(* There is such a loop over every list of sources.                        *)
LEMMA ReconcilesExists ==
  ASSUME NEW ours, NEW theirs, NEW names
  PROVE  \A n \in Nat : \E g : Reconciles(ours, theirs, names, n, g)
<1>. DEFINE Does(s, run) == MatchSource(run, s, ours, theirs, names)
            Loop(n, g) == g = [s \in 0 .. n |-> IF s = 0 THEN Fresh ELSE Does(s, g[s - 1])]
            G == {n \in Nat : \E g : Loop(n, g)}
<1>1. 0 \in G
  <2>. HIDE DEF Does
  <2>1. [s \in 0 .. 0 |-> Fresh]
          = [s \in 0 .. 0 |-> IF s = 0 THEN Fresh ELSE Does(s, [s0 \in 0 .. 0 |-> Fresh][s - 1])]
    OBVIOUS
  <2>. QED BY <2>1
<1>2. ASSUME NEW n \in Nat, n \in G PROVE n + 1 \in G
  <2>. HIDE DEF Does
  <2>1. PICK g : Loop(n, g)
    BY <1>2
  <2>. DEFINE h == [s \in 0 .. n + 1 |-> IF s <= n THEN g[s] ELSE Does(s, g[n])]
  <2>2. ASSUME NEW s \in 0 .. n + 1
        PROVE  h[s] = IF s = 0 THEN Fresh ELSE Does(s, h[s - 1])
    <3>1. CASE s <= n
      <4>1. s \in 0 .. n /\ (s # 0 => s - 1 \in 0 .. n + 1 /\ s - 1 <= n)
        BY <3>1
      <4>. QED BY <2>1, <3>1, <4>1
    <3>2. CASE s = n + 1
      BY <3>2
    <3>. QED BY <3>1, <3>2
  <2>3. h = [s \in 0 .. n + 1 |-> h[s]]
    OBVIOUS
  <2>. HIDE DEF h
  <2>4. Loop(n + 1, h)
    BY <2>2, <2>3
  <2>. QED BY <2>4
<1>. HIDE DEF G
<1>3. \A n \in Nat : n \in G
  BY <1>1, <1>2, CountUp
<1>. QED BY <1>3 DEF G, Reconciles

(* Lines that can be compared.                                             *)
Comparable(ours, theirs, names) ==
  \A s \in DOMAIN ours, t \in DOMAIN theirs :
    /\ ours[s].amount \in Int /\ theirs[t].amount \in Int
    /\ names[<<ours[s].party, theirs[t].party>>] \in Int

MatchRecords ==
  [source : Nat, target : Nat, status : {"AUTO_MATCHED", "SUGGESTED", "UNMATCHED"},
   flag : {None, "AMOUNT_MISMATCH", "PORTAL_ENTRY_NOT_IN_BOOKS"}]

(* A source takes an open target that it may have, or there is none.       *)
SourceTakes(m, run, s, after, ours, theirs, names, n) ==
  /\ m.source = s
  /\ after.matches = Append(run.matches, m)
  /\ after \in [taken : SUBSET (1 .. n), matches : Seq(MatchRecords)]
  /\ \/ /\ m.target = 0 /\ after.taken = run.taken
        /\ \A t \in (1 .. n) \ run.taken : ~Admissible(ours[s], theirs[t], names)
     \/ m.target \in (1 .. n) \ run.taken /\ after.taken = run.taken \cup {m.target}

(* A score of a name and an amount is a whole number.                      *)
LEMMA ScoresAreWhole ==
  ASSUME NEW c \in Int, NEW d \in Int
  PROVE  c * 6000 + (10000 - d) * 40 \in Int
BY SMT

(* The next source takes an open target that it may have, or there is none. *)
LEMMA SourceMatched ==
  ASSUME NEW ours, NEW theirs, NEW n \in Nat, DOMAIN theirs = 1 .. n, NEW names,
         Comparable(ours, theirs, names),
         NEW run \in [taken : SUBSET (1 .. n), matches : Seq(MatchRecords)],
         NEW s \in DOMAIN ours, s \in Nat
  PROVE  \E m \in MatchRecords :
           SourceTakes(m, run, s, MatchSource(run, s, ours, theirs, names), ours, theirs, names, n)
<1>. DEFINE src == ours[s]
            open == {t \in DOMAIN theirs \ run.taken : Admissible(src, theirs[t], names)}
            score == [t \in open |-> Combined(src, theirs[t], names)]
            best == FirstBest(score)
            after == MatchSource(run, s, ours, theirs, names)
<1>1. CASE open = {}
  <2>. DEFINE m == Match(s, 0, "UNMATCHED", None)
  <2>1. after = [run EXCEPT !.matches = Append(@, m)]
    BY <1>1 DEF MatchSource
  <2>2. m \in MatchRecords /\ m.source = s /\ m.target = 0
    BY DEF Match, MatchRecords
  <2>3. \A t \in (1 .. n) \ run.taken : ~Admissible(src, theirs[t], names)
    BY <1>1
  <2>. HIDE DEF m, after
  <2>4. /\ after.taken = run.taken /\ after.matches = Append(run.matches, m)
        /\ after \in [taken : SUBSET (1 .. n), matches : Seq(MatchRecords)]
    <3>1. Append(run.matches, m) \in Seq(MatchRecords)
      BY <2>2
    <3>. QED BY <2>1, <3>1
  <2>. QED BY <2>2, <2>3, <2>4 DEF after, SourceTakes
<1>2. CASE open # {}
  <2>1. open \subseteq 1 .. n /\ open \subseteq Int /\ IsFiniteSet(open)
    <3>1. open \in SUBSET (1 .. n) /\ IsFiniteSet(1 .. n)
      BY FS_Interval
    <3>. QED BY <3>1, FS_Subset
  <2>2. ASSUME NEW t \in open PROVE score[t] \in Int
    <3>1. /\ src.amount \in Int /\ theirs[t].amount \in Int
          /\ names[<<src.party, theirs[t].party>>] \in Int
      BY DEF Comparable
    <3>2. score[t] = Combined(src, theirs[t], names)
      OBVIOUS
    <3>. HIDE DEF src, score
    <3>3. Combined(src, theirs[t], names) \in Int
      <4>1. PICK a \in Int, b \in Int, c \in Int :
              /\ a = src.amount /\ b = theirs[t].amount
              /\ c = names[<<src.party, theirs[t].party>>]
        BY <3>1
      <4>2. Apart(src.amount, theirs[t].amount) \in Int
        BY <4>1 DEF Apart
      <4>3. PICK d \in Int : d = Apart(src.amount, theirs[t].amount)
        BY <4>2
      <4>4. Combined(src, theirs[t], names) \in {1000000, c * 6000 + (10000 - d) * 40}
        BY <4>1, <4>3, SMT DEF Combined
      <4>5. c * 6000 + (10000 - d) * 40 \in Int
        BY ScoresAreWhole
      <4>. QED BY <4>4, <4>5, SMT
    <3>. QED BY <3>2, <3>3
  <2>3. DOMAIN score = open
    OBVIOUS
  <2>4. best \in open
    <3>. HIDE DEF open, score
    <3>1. \E i \in open : \A j \in open : score[j] < score[i] \/ (score[j] = score[i] /\ i <= j)
      BY <1>2, <2>1, <2>2, BestExists
    <3>. QED BY <2>3, <3>1 DEF FirstBest
  <2>. DEFINE m == Match(s, best, IF score[best] >= 800000 THEN "AUTO_MATCHED" ELSE "SUGGESTED",
                         IF Apart(src.amount, theirs[best].amount) > AMOUNT_TOLERANCE_PAISE
                           THEN "AMOUNT_MISMATCH" ELSE None)
  <2>6. after = [taken |-> Taken(run.taken, best), matches |-> Append(run.matches, m)]
    BY <1>2 DEF MatchSource
  <2>. HIDE DEF best, after, open, score
  <2>7. m \in MatchRecords /\ m.source = s /\ m.target = best
    BY <2>1, <2>4 DEF Match, MatchRecords
  <2>. HIDE DEF m
  <2>8. best \in (1 .. n) \ run.taken
    BY <2>4 DEF open
  <2>9. after.taken = run.taken \cup {best} /\ after.matches = Append(run.matches, m)
        /\ after \in [taken : SUBSET (1 .. n), matches : Seq(MatchRecords)]
    BY <2>6, <2>7, <2>8 DEF Taken
  <2>. QED BY <2>7, <2>8, <2>9 DEF after, SourceTakes
<1>. QED BY <1>1, <1>2

(* After s sources: each has its match, a target is taken by one of them,  *)
(* and who has none could have none of those still open.                   *)
Fair(run, s, ours, theirs, names, n) ==
  /\ run \in [taken : SUBSET (1 .. n), matches : Seq(MatchRecords)]
  /\ Len(run.matches) = s
  /\ \A i \in 1 .. s :
       /\ run.matches[i].source = i
       /\ run.matches[i].target = 0 \/ run.matches[i].target \in run.taken
       /\ run.matches[i].target = 0 =>
            \A t \in (1 .. n) \ run.taken : ~Admissible(ours[i], theirs[t], names)
       /\ \A j \in 1 .. s :
            run.matches[i].target = run.matches[j].target /\ run.matches[i].target # 0 => i = j
  /\ \A t \in run.taken : \E i \in 1 .. s : run.matches[i].target = t

(* One more source leaves the matches fair.                                *)
LEMMA StaysFair ==
  ASSUME NEW ours, NEW theirs, NEW n \in Nat, DOMAIN theirs = 1 .. n, NEW names,
         Comparable(ours, theirs, names), NEW s \in Nat, s + 1 \in DOMAIN ours,
         NEW run, Fair(run, s, ours, theirs, names, n)
  PROVE  Fair(MatchSource(run, s + 1, ours, theirs, names), s + 1, ours, theirs, names, n)
<1>. DEFINE after == MatchSource(run, s + 1, ours, theirs, names)
            Free(r) == (1 .. n) \ r.taken
            Alone(r) == \A t \in Free(r) : ~Admissible(ours[s + 1], theirs[t], names)
<1>1. run \in [taken : SUBSET (1 .. n), matches : Seq(MatchRecords)] /\ Len(run.matches) = s
  BY DEF Fair
<1>2. PICK m \in MatchRecords :
        /\ m.source = s + 1
        /\ after.matches = Append(run.matches, m)
        /\ after \in [taken : SUBSET (1 .. n), matches : Seq(MatchRecords)]
        /\ \/ m.target = 0 /\ after.taken = run.taken /\ Alone(run)
           \/ m.target \in Free(run) /\ after.taken = run.taken \cup {m.target}
  <2>1. s + 1 \in Nat
    OBVIOUS
  <2>2. \E m \in MatchRecords :
          SourceTakes(m, run, s + 1, MatchSource(run, s + 1, ours, theirs, names), ours, theirs, names, n)
    BY <1>1, <2>1, SourceMatched
  <2>. QED BY <2>2, Zenon DEF SourceTakes
<1>. HIDE DEF after, Alone
<1>3. /\ Len(after.matches) = s + 1
      /\ \A i \in 1 .. s : after.matches[i] = run.matches[i]
      /\ after.matches[s + 1] = m
  BY <1>1, <1>2
<1>4. /\ run.taken \subseteq after.taken /\ 0 \notin after.taken
      /\ Alone(run) => Alone(after)
      /\ m.target # 0 => m.target \in after.taken /\ m.target \notin run.taken
      /\ m.target = 0 => Alone(after)
  BY <1>1, <1>2 DEF Alone
<1>5. \A i \in 1 .. s + 1 : i \in 1 .. s \/ i = s + 1
  OBVIOUS
<1>6. ASSUME NEW i \in 1 .. s + 1
      PROVE  /\ after.matches[i].source = i
             /\ after.matches[i].target = 0 \/ after.matches[i].target \in after.taken
             /\ after.matches[i].target = 0 =>
                  \A t \in (1 .. n) \ after.taken : ~Admissible(ours[i], theirs[t], names)
  <2>1. CASE i \in 1 .. s
    <3>1. /\ run.matches[i].source = i
          /\ run.matches[i].target = 0 \/ run.matches[i].target \in run.taken
          /\ run.matches[i].target = 0 =>
               \A t \in (1 .. n) \ run.taken : ~Admissible(ours[i], theirs[t], names)
      BY <2>1 DEF Fair
    <3>2. after.matches[i] = run.matches[i]
      BY <1>3, <2>1
    <3>. QED BY <1>4, <3>1, <3>2
  <2>2. CASE i = s + 1
    BY <1>2, <1>3, <1>4, <2>2 DEF Alone
  <2>. QED BY <1>5, <2>1, <2>2
<1>7. ASSUME NEW i \in 1 .. s + 1, NEW j \in 1 .. s + 1,
             after.matches[i].target = after.matches[j].target, after.matches[i].target # 0
      PROVE  i = j
  <2>1. ASSUME NEW k \in 1 .. s, after.matches[k].target # 0 PROVE after.matches[k].target # m.target
    <3>1. run.matches[k].target \in run.taken
      BY <1>3, <2>1 DEF Fair
    <3>. QED BY <1>3, <1>4, <2>1, <3>1
  <2>2. CASE i \in 1 .. s /\ j \in 1 .. s
    BY <1>3, <1>7, <2>2 DEF Fair
  <2>. QED BY <1>3, <1>5, <1>7, <2>1, <2>2
<1>8. ASSUME NEW t \in after.taken PROVE \E i \in 1 .. s + 1 : after.matches[i].target = t
  <2>1. CASE t \in run.taken
    <3>1. PICK i \in 1 .. s : run.matches[i].target = t
      BY <2>1 DEF Fair
    <3>. QED BY <1>3, <3>1
  <2>2. CASE t \notin run.taken
    <3>1. t = m.target /\ s + 1 \in 1 .. s + 1
      BY <1>2, <1>8, <2>2
    <3>. QED BY <1>3, <3>1
  <2>. QED BY <2>1, <2>2
<1>. QED BY <1>2, <1>3, <1>6, <1>7, <1>8 DEF Fair, after

(* So they are fair when the loop ends.                                    *)
LEMMA RunsFair ==
  ASSUME NEW ours, NEW m \in Nat, DOMAIN ours = 1 .. m,
         NEW theirs, NEW n \in Nat, DOMAIN theirs = 1 .. n, NEW names,
         Comparable(ours, theirs, names), NEW g, Reconciles(ours, theirs, names, m, g)
  PROVE  Fair(g[m], m, ours, theirs, names, n)
<1>. DEFINE G == {s \in Nat : s <= m => Fair(g[s], s, ours, theirs, names, n)}
<1>1. 0 \in G
  <2>1. g[0] = Fresh
    BY DEF Reconciles
  <2>2. /\ Fresh \in [taken : SUBSET (1 .. n), matches : Seq(MatchRecords)]
        /\ Fresh.matches = <<>> /\ Fresh.taken = {}
    BY DEF Fresh
  <2>3. Fair(Fresh, 0, ours, theirs, names, n)
    BY <2>2 DEF Fair
  <2>. QED BY <2>1, <2>3
<1>2. ASSUME NEW s \in Nat, s \in G PROVE s + 1 \in G
  <2>. SUFFICES ASSUME s + 1 <= m PROVE Fair(g[s + 1], s + 1, ours, theirs, names, n)
    OBVIOUS
  <2>1. Fair(g[s], s, ours, theirs, names, n)
    BY <1>2
  <2>2. s + 1 \in 0 .. m /\ s + 1 # 0 /\ (s + 1) - 1 = s /\ s + 1 \in DOMAIN ours
    OBVIOUS
  <2>3. \A i \in 0 .. m : i # 0 => g[i] = MatchSource(g[i - 1], i, ours, theirs, names)
    BY DEF Reconciles
  <2>4. g[s + 1] = MatchSource(g[s], s + 1, ours, theirs, names)
    BY <2>2, <2>3
  <2>. QED BY <2>1, <2>2, <2>4, StaysFair
<1>. HIDE DEF G
<1>3. \A s \in Nat : s \in G
  BY <1>1, <1>2, CountUp
<1>4. m \in G /\ m <= m
  BY <1>3
<1>. QED BY <1>4 DEF G

(* Two lists one after the other.                                          *)
Joins(a, b, c) ==
  /\ DOMAIN c = 1 .. Len(a) + Len(b)
  /\ \A r \in 1 .. Len(a) : c[r] = a[r]
  /\ \A k \in 1 .. Len(b) : c[Len(a) + k] = b[k] /\ Len(a) + k \in DOMAIN c
  /\ \A r \in DOMAIN c : r \in 1 .. Len(a) \/ \E k \in 1 .. Len(b) : r = Len(a) + k

(* Concatenation is that.                                                  *)
LEMMA Joined ==
  ASSUME NEW S, NEW a \in Seq(S), NEW b \in Seq(S)
  PROVE  Joins(a, b, a \o b)
<1>1. /\ a \o b \in Seq(S) /\ Len(a \o b) = Len(a) + Len(b)
      /\ Len(a) \in Nat /\ Len(b) \in Nat
  OBVIOUS
<1>2. ASSUME NEW r \in 1 .. Len(a) + Len(b), r \notin 1 .. Len(a)
      PROVE  \E k \in 1 .. Len(b) : r = Len(a) + k
  <2>1. r - Len(a) \in 1 .. Len(b) /\ r = Len(a) + (r - Len(a))
    BY <1>1, <1>2
  <2>. QED BY <2>1
<1>. QED BY <1>1, <1>2 DEF Joins

(* A loop over the purchases of match_gstr2b.                              *)
Untouched == [used |-> {}, results |-> <<>>]
MatchesUp(purchases, documents, claimed, n, g) ==
  g = [p \in 0 .. n |-> IF p = 0 THEN Untouched
                        ELSE MatchPurchase(g[p - 1], p, purchases, documents, claimed)]

(* The results of match_gstr2b: what the loop ends with, then the          *)
(* documents left.                                                         *)
LEMMA MatchedByLoop ==
  ASSUME NEW purchases, NEW documents, NEW claimed
  PROVE  MatchGstr2b(purchases, documents, claimed) =
           LET run == (CHOOSE g : MatchesUp(purchases, documents, claimed, Len(purchases), g))[Len(purchases)]
               rest == InOrder({d \in DOMAIN documents : documents[d].key \notin run.used}, Len(documents))
           IN  run.results \o [i \in DOMAIN rest |->
                 [purchase |-> 0, document |-> rest[i], warned |-> FALSE,
                  bucket |-> IF Occurrences(documents, documents[rest[i]].key) > 1
                               THEN "DUPLICATE" ELSE "MISSING_IN_BOOKS"]]
BY DEF MatchGstr2b, MatchesUp, Untouched

(* There is such a loop over every list of purchases.                      *)
LEMMA MatchesUpExists ==
  ASSUME NEW purchases, NEW documents, NEW claimed
  PROVE  \A n \in Nat : \E g : MatchesUp(purchases, documents, claimed, n, g)
<1>. DEFINE Does(p, run) == MatchPurchase(run, p, purchases, documents, claimed)
            Loop(n, g) == g = [p \in 0 .. n |-> IF p = 0 THEN Untouched ELSE Does(p, g[p - 1])]
            G == {n \in Nat : \E g : Loop(n, g)}
<1>1. 0 \in G
  <2>. HIDE DEF Does
  <2>1. [p \in 0 .. 0 |-> Untouched]
          = [p \in 0 .. 0 |-> IF p = 0 THEN Untouched ELSE Does(p, [q \in 0 .. 0 |-> Untouched][p - 1])]
    OBVIOUS
  <2>. QED BY <2>1
<1>2. ASSUME NEW n \in Nat, n \in G PROVE n + 1 \in G
  <2>. HIDE DEF Does
  <2>1. PICK g : Loop(n, g)
    BY <1>2
  <2>. DEFINE h == [p \in 0 .. n + 1 |-> IF p <= n THEN g[p] ELSE Does(p, g[n])]
  <2>2. ASSUME NEW p \in 0 .. n + 1
        PROVE  h[p] = IF p = 0 THEN Untouched ELSE Does(p, h[p - 1])
    <3>1. CASE p <= n
      <4>1. p \in 0 .. n /\ (p # 0 => p - 1 \in 0 .. n + 1 /\ p - 1 <= n)
        BY <3>1
      <4>. QED BY <2>1, <3>1, <4>1
    <3>2. CASE p = n + 1
      BY <3>2
    <3>. QED BY <3>1, <3>2
  <2>3. h = [p \in 0 .. n + 1 |-> h[p]]
    OBVIOUS
  <2>. HIDE DEF h
  <2>4. Loop(n + 1, h)
    BY <2>2, <2>3
  <2>. QED BY <2>4
<1>. HIDE DEF G
<1>3. \A n \in Nat : n \in G
  BY <1>1, <1>2, CountUp
<1>. QED BY <1>3 DEF G, MatchesUp

ResultRecords ==
  [purchase : Nat, document : Nat, warned : BOOLEAN,
   bucket : {"DUPLICATE", "AMENDMENT_CREDIT_NOTE", "MANUAL_REVIEW", "EXACT", "PROBABLE", "MISMATCH",
             "MISSING_IN_2B", "MISSING_IN_BOOKS"}]
KeysOf(documents) == {documents[d].key : d \in DOMAIN documents}
MatchRuns(documents) == [used : SUBSET KeysOf(documents), results : Seq(ResultRecords)]

(* A purchase takes a document with a key that none has, or none when its  *)
(* supplier has no such document.                                          *)
StillOpen(d, used, documents, gstin) == documents[d].key \notin used /\ documents[d].gstin = gstin
PurchaseTakes(m, run, p, after, purchases, documents) ==
  /\ m.purchase = p
  /\ after.results = Append(run.results, m)
  /\ after \in MatchRuns(documents)
  /\ \/ /\ m.document = 0 /\ after.used = run.used
        /\ \A d \in DOMAIN documents : ~StillOpen(d, run.used, documents, purchases[p].gstin)
     \/ /\ m.document \in DOMAIN documents /\ documents[m.document].key \notin run.used
        /\ after.used = run.used \cup {documents[m.document].key}

(* What MatchPurchase adds is such a result.                               *)
LEMMA PurchaseMatched ==
  ASSUME NEW purchases, NEW documents, NEW n \in Nat, DOMAIN documents = 1 .. n, NEW claimed,
         NEW p \in Nat, purchases[p].amount \in Int,
         \A d \in DOMAIN documents : documents[d].total \in Int,
         NEW run \in MatchRuns(documents)
  PROVE  \E m \in ResultRecords :
           PurchaseTakes(m, run, p, MatchPurchase(run, p, purchases, documents, claimed), purchases, documents)
<1>. DEFINE purchase == purchases[p]
            candidates == {d \in DOMAIN documents : /\ documents[d].key \notin run.used
                                                    /\ documents[d].gstin = purchase.gstin}
            same == {d \in candidates : documents[d].number = purchase.number}
            pool == IF same = {} THEN candidates ELSE same
            score == [i \in pool |-> -Apart(documents[i].total, purchase.amount)]
            best == FirstBest(score)
            key == documents[best].key
            after == MatchPurchase(run, p, purchases, documents, claimed)
<1>1. CASE pool = {}
  <2>. DEFINE m == [purchase |-> p, document |-> 0, bucket |-> "MISSING_IN_2B", warned |-> FALSE]
  <2>1. after = [run EXCEPT !.results = Append(@, m)]
    BY <1>1 DEF MatchPurchase
  <2>2. m \in ResultRecords /\ m.purchase = p /\ m.document = 0
    BY DEF ResultRecords
  <2>. HIDE DEF m, after
  <2>3. /\ after.used = run.used /\ after.results = Append(run.results, m)
        /\ after \in MatchRuns(documents)
    <3>1. Append(run.results, m) \in Seq(ResultRecords)
      BY <2>2 DEF MatchRuns
    <3>. QED BY <2>1, <3>1 DEF MatchRuns
  <2>4. \A d \in DOMAIN documents : ~StillOpen(d, run.used, documents, purchases[p].gstin)
    <3>1. candidates = {}
      BY <1>1
    <3>. QED BY <3>1 DEF StillOpen
  <2>. QED BY <2>2, <2>3, <2>4 DEF after, PurchaseTakes
<1>2. CASE pool # {}
  <2>1. pool \subseteq 1 .. n /\ pool \subseteq Int /\ IsFiniteSet(pool)
    <3>1. candidates \subseteq 1 .. n /\ same \subseteq 1 .. n
      OBVIOUS
    <3>. HIDE DEF candidates, same
    <3>2. pool \in SUBSET (1 .. n) /\ IsFiniteSet(1 .. n)
      BY <3>1, FS_Interval
    <3>. HIDE DEF pool
    <3>3. IsFiniteSet(pool)
      BY <3>2, FS_Subset
    <3>. QED BY <3>2, <3>3
  <2>2. ASSUME NEW d \in pool PROVE score[d] \in Int
    <3>1. documents[d].total \in Int /\ purchase.amount \in Int
      OBVIOUS
    <3>2. score[d] = -Apart(documents[d].total, purchase.amount)
      OBVIOUS
    <3>. HIDE DEF purchase, score
    <3>. QED BY <3>1, <3>2 DEF Apart
  <2>3. DOMAIN score = pool
    OBVIOUS
  <2>4. best \in pool
    <3>. HIDE DEF pool, score
    <3>1. \E i \in pool : \A j \in pool : score[j] < score[i] \/ (score[j] = score[i] /\ i <= j)
      BY <1>2, <2>1, <2>2, BestExists
    <3>. QED BY <2>3, <3>1 DEF FirstBest
  <2>. DEFINE bucket == Bucket(purchase, documents[best], same # {}, Occurrences(documents, key) > 1)
              m == [purchase |-> p, document |-> best, bucket |-> bucket, warned |-> key \in claimed]
  <2>5. after = [used |-> Taken(run.used, key), results |-> Append(run.results, m)]
    BY <1>2 DEF MatchPurchase
  <2>6. best \in DOMAIN documents /\ key \notin run.used
    BY <2>4
  <2>. HIDE DEF best, after, pool, score, same
  <2>7. m \in ResultRecords /\ m.purchase = p /\ m.document = best
    <3>1. bucket \in {"DUPLICATE", "AMENDMENT_CREDIT_NOTE", "MANUAL_REVIEW", "EXACT", "PROBABLE", "MISMATCH"}
      BY Zenon DEF Bucket
    <3>. HIDE DEF bucket
    <3>. QED BY <2>6, <3>1 DEF ResultRecords
  <2>. HIDE DEF m
  <2>8. /\ after.used = run.used \cup {key} /\ after.results = Append(run.results, m)
        /\ after \in MatchRuns(documents)
    <3>1. Append(run.results, m) \in Seq(ResultRecords)
      BY <2>7 DEF MatchRuns
    <3>2. run.used \cup {key} \in SUBSET KeysOf(documents)
      BY <2>6 DEF MatchRuns, KeysOf
    <3>. QED BY <2>5, <3>1, <3>2 DEF MatchRuns, Taken
  <2>. QED BY <2>6, <2>7, <2>8 DEF after, PurchaseTakes
<1>. QED BY <1>1, <1>2

(* After p purchases: each has its result, a key that is used is of one of *)
(* them, and the supplier of one without a document has none left.         *)
Sorted(run, p, purchases, documents) ==
  /\ run \in MatchRuns(documents)
  /\ Len(run.results) = p
  /\ \A i \in 1 .. p :
       LET d == run.results[i].document
       IN  /\ run.results[i].purchase = i
           /\ d = 0 \/ (d \in DOMAIN documents /\ documents[d].key \in run.used)
           /\ d = 0 => \A e \in DOMAIN documents : ~StillOpen(e, run.used, documents, purchases[i].gstin)
           /\ \A j \in 1 .. p :
                LET e == run.results[j].document
                IN  d # 0 /\ e # 0 /\ documents[d].key = documents[e].key => i = j
  /\ \A k \in run.used : \E i \in 1 .. p :
       run.results[i].document # 0 /\ documents[run.results[i].document].key = k

(* One more purchase leaves the results in order.                          *)
LEMMA StaysSorted ==
  ASSUME NEW purchases, NEW documents, NEW n \in Nat, DOMAIN documents = 1 .. n, NEW claimed,
         \A d \in DOMAIN documents : documents[d].total \in Int,
         NEW p \in Nat, purchases[p + 1].amount \in Int,
         NEW run, Sorted(run, p, purchases, documents)
  PROVE  Sorted(MatchPurchase(run, p + 1, purchases, documents, claimed), p + 1, purchases, documents)
<1>. DEFINE after == MatchPurchase(run, p + 1, purchases, documents, claimed)
            Key(d) == documents[d].key
<1>1. run \in MatchRuns(documents) /\ Len(run.results) = p /\ run.results \in Seq(ResultRecords)
  BY DEF Sorted, MatchRuns
<1>2. PICK m \in ResultRecords : PurchaseTakes(m, run, p + 1, after, purchases, documents)
  <2>1. p + 1 \in Nat
    OBVIOUS
  <2>. QED BY <1>1, <2>1, PurchaseMatched
<1>. HIDE DEF after, Key
<1>3. /\ after.results = Append(run.results, m) /\ after \in MatchRuns(documents)
      /\ m.purchase = p + 1
      /\ \/ /\ m.document = 0 /\ after.used = run.used
            /\ \A e \in DOMAIN documents : ~StillOpen(e, run.used, documents, purchases[p + 1].gstin)
         \/ /\ m.document \in DOMAIN documents /\ Key(m.document) \notin run.used
            /\ after.used = run.used \cup {Key(m.document)}
  BY <1>2, Zenon DEF PurchaseTakes, Key
<1>4. /\ Len(after.results) = p + 1
      /\ \A i \in 1 .. p : after.results[i] = run.results[i]
      /\ after.results[p + 1] = m
  BY <1>1, <1>3
<1>5. \A i \in 1 .. p + 1 : i \in 1 .. p \/ i = p + 1
  OBVIOUS
<1>6. \A i \in 1 .. p :
        /\ run.results[i].purchase = i
        /\ \/ run.results[i].document = 0
           \/ run.results[i].document \in DOMAIN documents /\ Key(run.results[i].document) \in run.used
        /\ run.results[i].document = 0 =>
             \A e \in DOMAIN documents : ~StillOpen(e, run.used, documents, purchases[i].gstin)
        /\ \A j \in 1 .. p :
             /\ run.results[i].document # 0 /\ run.results[j].document # 0
             /\ Key(run.results[i].document) = Key(run.results[j].document)
             => i = j
  BY Zenon DEF Sorted, Key
<1>7. ASSUME NEW i \in 1 .. p + 1
      PROVE  /\ after.results[i].purchase = i
             /\ \/ after.results[i].document = 0
                \/ /\ after.results[i].document \in DOMAIN documents
                   /\ Key(after.results[i].document) \in after.used
  <2>1. CASE i \in 1 .. p
    BY <1>3, <1>4, <1>6, <2>1
  <2>2. CASE i = p + 1
    BY <1>3, <1>4, <2>2
  <2>. QED BY <1>5, <2>1, <2>2
<1>8. ASSUME NEW i \in 1 .. p + 1, NEW j \in 1 .. p + 1,
             after.results[i].document # 0, after.results[j].document # 0,
             Key(after.results[i].document) = Key(after.results[j].document)
      PROVE  i = j
  <2>1. ASSUME NEW k \in 1 .. p, after.results[k].document # 0, m.document # 0
        PROVE  Key(after.results[k].document) # Key(m.document)
    BY <1>3, <1>4, <1>6, <2>1
  <2>2. CASE i \in 1 .. p /\ j \in 1 .. p
    BY <1>4, <1>6, <1>8, <2>2
  <2>. QED BY <1>4, <1>5, <1>8, <2>1, <2>2
<1>9. ASSUME NEW k \in after.used
      PROVE  \E i \in 1 .. p + 1 : after.results[i].document # 0 /\ Key(after.results[i].document) = k
  <2>1. CASE k \in run.used
    <3>1. PICK i \in 1 .. p : run.results[i].document # 0 /\ Key(run.results[i].document) = k
      BY <2>1 DEF Sorted, Key
    <3>. QED BY <1>4, <3>1
  <2>2. CASE k \notin run.used
    <3>1. k = Key(m.document) /\ m.document # 0 /\ p + 1 \in 1 .. p + 1
      BY <1>3, <1>9, <2>2
    <3>. QED BY <1>4, <3>1
  <2>. QED BY <2>1, <2>2
<1>10. ASSUME NEW i \in 1 .. p + 1, after.results[i].document = 0, NEW e \in DOMAIN documents
       PROVE  ~StillOpen(e, after.used, documents, purchases[i].gstin)
  <2>1. run.used \subseteq after.used
    BY <1>3
  <2>2. ~StillOpen(e, run.used, documents, purchases[i].gstin)
    <3>1. CASE i \in 1 .. p
      BY <1>4, <1>6, <1>10, <3>1
    <3>2. CASE i = p + 1
      BY <1>3, <1>4, <1>10, <3>2
    <3>. QED BY <1>5, <3>1, <3>2
  <2>. QED BY <2>1, <2>2 DEF StillOpen
<1>11. Sorted(after, p + 1, purchases, documents)
  <2>1. \A i \in 1 .. p + 1 :
          after.results[i].document = 0 =>
            \A e \in DOMAIN documents : ~StillOpen(e, after.used, documents, purchases[i].gstin)
    BY <1>10
  <2>2. \A i, j \in 1 .. p + 1 :
          /\ after.results[i].document # 0 /\ after.results[j].document # 0
          /\ Key(after.results[i].document) = Key(after.results[j].document)
          => i = j
    BY <1>8
  <2>. QED BY <1>3, <1>4, <1>7, <1>9, <2>1, <2>2, Zenon DEF Sorted, Key
<1>. QED BY <1>11 DEF after

(* So they are in order when the loop ends.                                *)
LEMMA RunsSorted ==
  ASSUME NEW purchases, NEW m \in Nat, \A p \in 1 .. m : purchases[p].amount \in Int,
         NEW documents, NEW n \in Nat, DOMAIN documents = 1 .. n, NEW claimed,
         \A d \in DOMAIN documents : documents[d].total \in Int,
         NEW g, MatchesUp(purchases, documents, claimed, m, g)
  PROVE  Sorted(g[m], m, purchases, documents)
<1>. DEFINE G == {p \in Nat : p <= m => Sorted(g[p], p, purchases, documents)}
<1>1. 0 \in G
  <2>1. g[0] = Untouched
    BY DEF MatchesUp
  <2>2. Untouched \in MatchRuns(documents) /\ Untouched.results = <<>> /\ Untouched.used = {}
    BY DEF Untouched, MatchRuns
  <2>3. Sorted(Untouched, 0, purchases, documents)
    BY <2>2 DEF Sorted
  <2>. QED BY <2>1, <2>3
<1>2. ASSUME NEW p \in Nat, p \in G PROVE p + 1 \in G
  <2>. SUFFICES ASSUME p + 1 <= m PROVE Sorted(g[p + 1], p + 1, purchases, documents)
    OBVIOUS
  <2>1. Sorted(g[p], p, purchases, documents)
    BY <1>2
  <2>2. p + 1 \in 0 .. m /\ p + 1 # 0 /\ (p + 1) - 1 = p /\ purchases[p + 1].amount \in Int
    OBVIOUS
  <2>3. \A i \in 0 .. m : i # 0 => g[i] = MatchPurchase(g[i - 1], i, purchases, documents, claimed)
    BY DEF MatchesUp
  <2>4. g[p + 1] = MatchPurchase(g[p], p + 1, purchases, documents, claimed)
    BY <2>2, <2>3
  <2>. QED BY <2>1, <2>2, <2>4, StaysSorted
<1>. HIDE DEF G
<1>3. \A p \in Nat : p \in G
  BY <1>1, <1>2, CountUp
<1>4. m \in G /\ m <= m
  BY <1>3
<1>. QED BY <1>4 DEF G

(* Lists of the model.                                                     *)
LEMMA ListsUpTo ==
  ASSUME NEW S, NEW n \in Nat, NEW l \in UpTo(S, n)
  PROVE  /\ l \in Seq(S) /\ DOMAIN l = 1 .. Len(l) /\ Len(l) \in Nat
         /\ \A i \in DOMAIN l : l[i] \in S
<1>1. PICK k \in 0 .. n : l \in [1 .. k -> S]
  BY DEF UpTo
<1>2. k \in Nat /\ l \in Seq(S) /\ Len(l) = k
  BY <1>1
<1>. QED BY <1>1, <1>2

(* Every line of both sides has one match, and two lines without one may   *)
(* not be matched (reconcile).                                             *)
LEMMA ReconcileAccounts ==
  ASSUME NEW ours, NEW m \in Nat, DOMAIN ours = 1 .. m, Len(ours) = m,
         NEW theirs, NEW n \in Nat, DOMAIN theirs = 1 .. n, Len(theirs) = n, NEW names,
         Comparable(ours, theirs, names),
         NEW matches, matches = Reconcile(ours, theirs, names)
  PROVE  /\ Once(matches, "source", 1 .. m) /\ Once(matches, "target", 1 .. n)
         /\ \A i, j \in DOMAIN matches :
              matches[i].target = 0 /\ matches[j].source = 0 =>
                ~Admissible(ours[matches[i].source], theirs[matches[j].target], names)
<1>1. PICK g : /\ Reconciles(ours, theirs, names, m, g)
               /\ g = CHOOSE h : Reconciles(ours, theirs, names, m, h)
  BY ReconcilesExists, Zenon
<1>2. PICK run : run = g[m]
  OBVIOUS
<1>3. Fair(run, m, ours, theirs, names, n)
  BY <1>1, <1>2, RunsFair
<1>. DEFINE free == (1 .. n) \ run.taken
            rest == InOrder(free, n)
            tail == [i \in DOMAIN rest |-> Match(0, rest[i], "UNMATCHED", "PORTAL_ENTRY_NOT_IN_BOOKS")]
<1>4. matches = run.matches \o tail
  BY <1>1, <1>2, ReconciledByLoop, Zenon
<1>5. Ascending(rest, free)
  <2>1. free \cap 1 .. n = free
    OBVIOUS
  <2>. HIDE DEF free
  <2>. QED BY <2>1, KeptInOrder
<1>. HIDE DEF rest, free
<1>6. /\ DOMAIN tail = 1 .. Len(rest) /\ Len(rest) \in Nat /\ \A k \in 1 .. Len(rest) : rest[k] \in free
      /\ \A t \in free : t \in 1 .. n /\ t # 0 /\ t \notin run.taken
  BY <1>5 DEF Ascending, free
<1>7. \A k \in 1 .. Len(rest) : tail[k].source = 0 /\ tail[k].target = rest[k]
  BY <1>6 DEF Match
<1>8. tail \in Seq(MatchRecords) /\ Len(tail) = Len(rest)
  <2>1. ASSUME NEW k \in 1 .. Len(rest) PROVE tail[k] \in MatchRecords
    BY <1>6 DEF MatchRecords, Match
  <2>2. tail \in [1 .. Len(rest) -> MatchRecords]
    <3>1. tail = [k \in 1 .. Len(rest) |-> tail[k]]
      BY <1>6
    <3>. HIDE DEF tail
    <3>. QED BY <2>1, <3>1
  <2>. HIDE DEF tail
  <2>. QED BY <1>6, <2>2
<1>. HIDE DEF tail
<1>9. /\ run.matches \in Seq(MatchRecords) /\ Len(run.matches) = m
      /\ run.taken \subseteq 1 .. n
  BY <1>3 DEF Fair
<1>10. /\ \A r \in 1 .. m : r \in DOMAIN matches /\ matches[r] = run.matches[r]
       /\ \A k \in 1 .. Len(rest) : m + k \in DOMAIN matches /\ matches[m + k] = tail[k]
       /\ \A r \in DOMAIN matches : r \in 1 .. m \/ \E k \in 1 .. Len(rest) : r = m + k
  <2>1. 1 .. m \subseteq 1 .. m + Len(rest)
    BY <1>6
  <2>2. PICK a : a = run.matches
    OBVIOUS
  <2>3. a \in Seq(MatchRecords) /\ Len(a) = m /\ matches = a \o tail
    BY <1>4, <1>9, <2>2
  <2>4. /\ DOMAIN matches = 1 .. m + Len(rest)
        /\ \A r \in 1 .. m : matches[r] = a[r]
        /\ \A k \in 1 .. Len(rest) : matches[m + k] = tail[k] /\ m + k \in DOMAIN matches
        /\ \A r \in DOMAIN matches : r \in 1 .. m \/ \E k \in 1 .. Len(rest) : r = m + k
    <3>1. Joins(a, tail, matches)
      BY <1>8, <2>3, Joined
    <3>. QED BY <1>8, <2>3, <3>1 DEF Joins
  <2>. QED BY <2>1, <2>2, <2>4
<1>11. /\ \A r \in 1 .. m : matches[r].source = r /\ (matches[r].target = 0 \/ matches[r].target \in run.taken)
       /\ \A k \in 1 .. Len(rest) : matches[m + k].source = 0 /\ matches[m + k].target = rest[k]
  <2>1. \A r \in 1 .. m : /\ run.matches[r].source = r
                          /\ run.matches[r].target = 0 \/ run.matches[r].target \in run.taken
    BY <1>3 DEF Fair
  <2>. QED BY <1>7, <1>10, <2>1
<1>12. Once(matches, "source", 1 .. m)
  <2>1. ASSUME NEW i \in 1 .. m PROVE Cardinality({r \in DOMAIN matches : matches[r]["source"] = i}) = 1
    <3>1. i \in DOMAIN matches /\ matches[i]["source"] = i
      BY <1>10, <1>11
    <3>2. ASSUME NEW q \in DOMAIN matches, matches[q]["source"] = i PROVE q = i
      BY <1>10, <1>11, <3>2
    <3>3. {r \in DOMAIN matches : matches[r]["source"] = i} = {i}
      BY <3>1, <3>2
    <3>. QED BY <3>3, FS_Singleton
  <2>. QED BY <2>1 DEF Once
<1>13. Once(matches, "target", 1 .. n)
  <2>1. ASSUME NEW t \in 1 .. n PROVE Cardinality({r \in DOMAIN matches : matches[r]["target"] = t}) = 1
    <3>1. CASE t \in run.taken
      <4>1. PICK i \in 1 .. m : run.matches[i].target = t
        BY <1>3, <3>1 DEF Fair
      <4>2. i \in DOMAIN matches /\ matches[i]["target"] = t
        BY <1>10, <4>1
      <4>3. ASSUME NEW q \in DOMAIN matches, matches[q]["target"] = t PROVE q = i
        <5>1. CASE q \in 1 .. m
          <6>1. run.matches[q].target = run.matches[i].target /\ run.matches[q].target # 0
            BY <1>10, <4>1, <4>3, <5>1
          <6>. QED BY <1>3, <5>1, <6>1 DEF Fair
        <5>2. ASSUME NEW k \in 1 .. Len(rest), q = m + k PROVE FALSE
          BY <1>6, <1>11, <3>1, <4>3, <5>2
        <5>. QED BY <1>10, <5>1, <5>2
      <4>4. {r \in DOMAIN matches : matches[r]["target"] = t} = {i}
        BY <4>2, <4>3
      <4>. QED BY <4>4, FS_Singleton
    <3>2. CASE t \notin run.taken
      <4>1. t \in free
        BY <3>2 DEF free
      <4>2. PICK k \in 1 .. Len(rest) : rest[k] = t
        BY <1>5, <4>1 DEF Ascending
      <4>3. m + k \in DOMAIN matches /\ matches[m + k]["target"] = t
        BY <1>10, <1>11, <4>2
      <4>4. ASSUME NEW q \in DOMAIN matches, matches[q]["target"] = t PROVE q = m + k
        <5>1. q \notin 1 .. m
          BY <1>11, <3>2, <4>4
        <5>2. PICK l \in 1 .. Len(rest) : q = m + l
          BY <1>10, <5>1
        <5>3. rest[l] = t
          BY <1>11, <4>4, <5>2
        <5>4. l = k
          <6>1. rest[l] \in Int /\ rest[k] \in Int /\ l \in Int /\ k \in Int
            BY <1>6
          <6>2. /\ l < k => rest[l] < rest[k]
                /\ k < l => rest[k] < rest[l]
            BY <1>5 DEF Ascending
          <6>. QED BY <4>2, <5>3, <6>1, <6>2
        <5>. QED BY <5>2, <5>4
      <4>5. {r \in DOMAIN matches : matches[r]["target"] = t} = {m + k}
        BY <4>3, <4>4
      <4>. QED BY <4>5, FS_Singleton
    <3>. QED BY <3>1, <3>2
  <2>. QED BY <2>1 DEF Once
<1>14. ASSUME NEW i \in DOMAIN matches, NEW j \in DOMAIN matches,
              matches[i].target = 0, matches[j].source = 0
       PROVE  ~Admissible(ours[matches[i].source], theirs[matches[j].target], names)
  <2>1. i \in 1 .. m
    <3>1. ASSUME NEW k \in 1 .. Len(rest), i = m + k PROVE FALSE
      <4>1. rest[k] = 0 /\ rest[k] \in free
        BY <1>6, <1>11, <1>14, <3>1
      <4>. QED BY <1>6, <4>1
    <3>. QED BY <1>10, <3>1
  <2>2. PICK k \in 1 .. Len(rest) : j = m + k
    BY <1>10, <1>11, <1>14
  <2>3. matches[j].target \in (1 .. n) \ run.taken
    BY <1>6, <1>11, <2>2
  <2>4. run.matches[i].target = 0 /\ matches[i].source = i
    BY <1>10, <1>11, <1>14, <2>1
  <2>. QED BY <1>3, <2>1, <2>3, <2>4 DEF Fair
<1>. QED BY <1>12, <1>13, <1>14

(* Every purchase has one result, no two of them share an identity, every  *)
(* document whose identity is not matched has one result, and a document   *)
(* that is left is not of a supplier whose purchase has none               *)
(* (match_gstr2b).                                                         *)
LEMMA UploadAccounts ==
  ASSUME NEW purchases, NEW m \in Nat, Len(purchases) = m, DOMAIN purchases = 1 .. m,
         \A p \in 1 .. m : purchases[p].amount \in Int,
         NEW documents, NEW n \in Nat, DOMAIN documents = 1 .. n, Len(documents) = n,
         \A d \in DOMAIN documents : documents[d].total \in Int, NEW claimed,
         NEW results, results = MatchGstr2b(purchases, documents, claimed)
  PROVE  UploadSettled(results, purchases, documents)
<1>. DEFINE Key(d) == documents[d].key
<1>1. PICK g : /\ MatchesUp(purchases, documents, claimed, m, g)
               /\ g = CHOOSE h : MatchesUp(purchases, documents, claimed, m, h)
  BY MatchesUpExists, Zenon
<1>2. PICK run : run = g[m]
  OBVIOUS
<1>3. Sorted(run, m, purchases, documents)
  BY <1>1, <1>2, RunsSorted
<1>. DEFINE free == {d \in DOMAIN documents : documents[d].key \notin run.used}
            rest == InOrder(free, n)
            tail == [i \in DOMAIN rest |->
                       [purchase |-> 0, document |-> rest[i], warned |-> FALSE,
                        bucket |-> IF Occurrences(documents, documents[rest[i]].key) > 1
                                     THEN "DUPLICATE" ELSE "MISSING_IN_BOOKS"]]
<1>4. results = run.results \o tail
  BY <1>1, <1>2, MatchedByLoop, Zenon
<1>5. Ascending(rest, free)
  <2>1. free \cap 1 .. n = free
    OBVIOUS
  <2>. HIDE DEF free
  <2>. QED BY <2>1, KeptInOrder
<1>. HIDE DEF rest, free
<1>6. /\ DOMAIN tail = 1 .. Len(rest) /\ Len(rest) \in Nat /\ \A k \in 1 .. Len(rest) : rest[k] \in free
      /\ \A d \in free : d \in 1 .. n /\ d # 0
  BY <1>5 DEF Ascending, free
<1>7. \A k \in 1 .. Len(rest) : tail[k].purchase = 0 /\ tail[k].document = rest[k]
  BY <1>6
<1>8. tail \in Seq(ResultRecords) /\ Len(tail) = Len(rest)
  <2>1. ASSUME NEW k \in 1 .. Len(rest) PROVE tail[k] \in ResultRecords
    BY <1>6 DEF ResultRecords
  <2>2. tail \in [1 .. Len(rest) -> ResultRecords]
    <3>1. tail = [k \in 1 .. Len(rest) |-> tail[k]]
      BY <1>6
    <3>. HIDE DEF tail
    <3>. QED BY <2>1, <3>1
  <2>. HIDE DEF tail
  <2>. QED BY <1>6, <2>2
<1>. HIDE DEF tail, Key
<1>9. run.results \in Seq(ResultRecords) /\ Len(run.results) = m
  BY <1>3 DEF Sorted, MatchRuns
<1>10. /\ \A r \in 1 .. m : r \in DOMAIN results /\ results[r] = run.results[r]
       /\ \A k \in 1 .. Len(rest) : m + k \in DOMAIN results /\ results[m + k] = tail[k]
       /\ \A r \in DOMAIN results : r \in 1 .. m \/ \E k \in 1 .. Len(rest) : r = m + k
  <2>1. 1 .. m \subseteq 1 .. m + Len(rest)
    BY <1>6
  <2>2. PICK a : a = run.results
    OBVIOUS
  <2>3. a \in Seq(ResultRecords) /\ Len(a) = m /\ results = a \o tail
    BY <1>4, <1>9, <2>2
  <2>4. Joins(a, tail, results)
    BY <1>8, <2>3, Joined
  <2>. QED BY <1>8, <2>1, <2>2, <2>3, <2>4 DEF Joins
<1>11. /\ \A r \in 1 .. m : results[r].purchase = r
       /\ \A k \in 1 .. Len(rest) : results[m + k].purchase = 0 /\ results[m + k].document = rest[k]
  <2>1. \A r \in 1 .. m : run.results[r].purchase = r
    BY <1>3 DEF Sorted
  <2>. QED BY <1>7, <1>10, <2>1
<1>12. Once(results, "purchase", 1 .. m)
  <2>1. ASSUME NEW i \in 1 .. m PROVE Cardinality({r \in DOMAIN results : results[r]["purchase"] = i}) = 1
    <3>1. i \in DOMAIN results /\ results[i]["purchase"] = i
      BY <1>10, <1>11
    <3>2. ASSUME NEW q \in DOMAIN results, results[q]["purchase"] = i PROVE q = i
      BY <1>10, <1>11, <3>2
    <3>3. {r \in DOMAIN results : results[r]["purchase"] = i} = {i}
      BY <3>1, <3>2
    <3>. QED BY <3>3, FS_Singleton
  <2>. QED BY <2>1 DEF Once
<1>13. ASSUME NEW r \in DOMAIN results, NEW q \in DOMAIN results,
              results[r].purchase # 0, results[r].document # 0,
              results[q].purchase # 0, results[q].document # 0,
              Key(results[r].document) = Key(results[q].document)
       PROVE  r = q
  <2>1. r \in 1 .. m /\ q \in 1 .. m
    BY <1>10, <1>11, <1>13
  <2>2. \A i, j \in 1 .. m :
          /\ run.results[i].document # 0 /\ run.results[j].document # 0
          /\ Key(run.results[i].document) = Key(run.results[j].document)
          => i = j
    BY <1>3, Zenon DEF Sorted, Key
  <2>. QED BY <1>10, <1>13, <2>1, <2>2
<1>. DEFINE paired == {r \in DOMAIN results : results[r].purchase # 0 /\ results[r].document # 0}
            With(d) == {r \in DOMAIN results : results[r].document = d}
<1>14. \A k \in 1 .. Len(rest) : rest[k] \in DOMAIN documents /\ Key(rest[k]) \notin run.used
  BY <1>6 DEF free, Key
<1>15. \A r \in paired : r \in 1 .. m /\ Key(results[r].document) \in run.used
  <2>. SUFFICES ASSUME NEW r \in paired PROVE r \in 1 .. m /\ Key(results[r].document) \in run.used
    OBVIOUS
  <2>1. r \in 1 .. m
    BY <1>10, <1>11
  <2>. QED BY <1>3, <1>10, <2>1 DEF Sorted, Key
<1>16. ASSUME NEW d \in DOMAIN documents, NEW q \in paired, Key(results[q].document) = Key(d)
       PROVE  With(d) \subseteq paired
  <2>. SUFFICES ASSUME NEW r \in With(d) PROVE r \in paired
    OBVIOUS
  <2>1. d # 0 /\ Key(d) \in run.used
    BY <1>15, <1>16
  <2>2. r \in 1 .. m
    BY <1>10, <1>11, <1>14, <2>1
  <2>. QED BY <1>11, <2>1, <2>2
<1>17. ASSUME NEW d \in DOMAIN documents, \A q \in paired : Key(results[q].document) # Key(d)
       PROVE  Cardinality(With(d)) = 1
  <2>1. Key(d) \notin run.used
    <3>1. ASSUME NEW i \in 1 .. m, run.results[i].document # 0, Key(run.results[i].document) = Key(d)
          PROVE  FALSE
      BY <1>10, <1>11, <1>17, <3>1
    <3>. QED BY <1>3, <3>1 DEF Sorted, Key
  <2>2. d \in free
    BY <2>1 DEF free, Key
  <2>3. PICK k \in 1 .. Len(rest) : rest[k] = d
    BY <1>5, <2>2 DEF Ascending
  <2>4. m + k \in With(d)
    BY <1>10, <1>11, <2>3
  <2>5. ASSUME NEW r \in With(d) PROVE r = m + k
    <3>1. r \notin 1 .. m
      <4>1. ASSUME r \in 1 .. m PROVE FALSE
        BY <1>11, <1>17, <2>5, <4>1
      <4>. QED BY <4>1
    <3>2. PICK l \in 1 .. Len(rest) : r = m + l
      BY <1>10, <2>5, <3>1
    <3>3. rest[l] = d
      BY <1>11, <2>5, <3>2
    <3>4. rest[l] \in Int /\ rest[k] \in Int /\ l \in Int /\ k \in Int
      BY <1>6
    <3>5. /\ l < k => rest[l] < rest[k]
          /\ k < l => rest[k] < rest[l]
      BY <1>5 DEF Ascending
    <3>. QED BY <2>3, <3>2, <3>3, <3>4, <3>5
  <2>6. With(d) = {m + k}
    BY <2>4, <2>5
  <2>. QED BY <2>6, FS_Singleton
<1>18. ASSUME NEW r \in DOMAIN results, NEW q \in DOMAIN results,
              results[r].document = 0, results[q].purchase = 0
       PROVE  purchases[results[r].purchase].gstin # documents[results[q].document].gstin
  <2>1. PICK k \in 1 .. Len(rest) : q = m + k
    BY <1>10, <1>11, <1>18
  <2>2. results[q].document \in DOMAIN documents /\ Key(results[q].document) \notin run.used
    BY <1>11, <1>14, <2>1
  <2>3. r \in 1 .. m
    <3>1. ASSUME NEW l \in 1 .. Len(rest), r = m + l PROVE FALSE
      <4>1. rest[l] = 0 /\ rest[l] \in free
        BY <1>6, <1>11, <1>18, <3>1
      <4>. QED BY <1>6, <4>1
    <3>. QED BY <1>10, <3>1
  <2>4. run.results[r].document = 0 /\ results[r].purchase = r
    BY <1>10, <1>11, <1>18, <2>3
  <2>5. ~StillOpen(results[q].document, run.used, documents, purchases[r].gstin)
    BY <1>3, <2>2, <2>3, <2>4 DEF Sorted
  <2>. QED BY <2>2, <2>4, <2>5 DEF StillOpen, Key
<1>19. \A r, q \in paired : Key(results[r].document) = Key(results[q].document) => r = q
  BY <1>13
<1>20. \A d \in DOMAIN documents :
         IF \E q \in paired : Key(results[q].document) = Key(d) THEN With(d) \subseteq paired
         ELSE Cardinality(With(d)) = 1
  <2>. HIDE DEF With, paired
  <2>. QED BY <1>16, <1>17
<1>. QED
  BY <1>12, <1>18, <1>19, <1>20, Zenon DEF Key, UploadSettled

(* What a loop keeps of a list is a list of the same things.               *)
LEMMA KeptIsList ==
  ASSUME NEW S, NEW s \in Seq(S), NEW chosen
  PROVE  Kept(s, chosen) \in Seq(S)
<1>1. Ascending(InOrder(chosen, Len(s)), chosen \cap 1 .. Len(s)) /\ Len(s) \in Nat
  BY KeptInOrder
<1>2. PICK l : l = InOrder(chosen, Len(s))
  OBVIOUS
<1>3. /\ l \in Seq(chosen \cap 1 .. Len(s)) /\ DOMAIN l = 1 .. Len(l) /\ Len(l) \in Nat
      /\ \A k \in 1 .. Len(l) : l[k] \in 1 .. Len(s)
  BY <1>1, <1>2 DEF Ascending
<1>4. \A k \in 1 .. Len(l) : s[l[k]] \in S
  BY <1>3
<1>5. [k \in DOMAIN l |-> s[l[k]]] \in [1 .. Len(l) -> S]
  BY <1>3, <1>4
<1>6. [k \in DOMAIN l |-> s[l[k]]] \in Seq(S)
  BY <1>3, <1>5
<1>. QED BY <1>2, <1>6 DEF Kept

(* A list is a function on its positions, and lists laid end to end are one. *)
LEMMA ListFacts ==
  ASSUME NEW S, NEW l \in Seq(S)
  PROVE  /\ Len(l) \in Nat /\ DOMAIN l = 1 .. Len(l)
         /\ \A i \in 1 .. Len(l) : l[i] \in S
  OBVIOUS

(* A function on the first positions is a list.                            *)
LEMMA ListOf ==
  ASSUME NEW n \in Nat, NEW S, NEW f \in [1 .. n -> S]
  PROVE  f \in Seq(S) /\ Len(f) = n /\ DOMAIN f = 1 .. n
  OBVIOUS

(* Four lists, one after the other.                                        *)
LEMMA FourLists ==
  ASSUME NEW S, NEW a \in Seq(S), NEW b \in Seq(S), NEW c \in Seq(S), NEW d \in Seq(S)
  PROVE  ((a \o b) \o c) \o d \in Seq(S)
  OBVIOUS

(* The documents of a list of raw ones.                                    *)
LEMMA DocumentsOf ==
  ASSUME NEW sorted \in Seq(Portal)
  PROVE  LET read == [i \in DOMAIN sorted |-> DocumentOf(sorted[i])]
         IN  /\ Len(read) \in Nat /\ DOMAIN read = 1 .. Len(read)
             /\ \A d \in DOMAIN read : read[d].total \in Int
<1>. DEFINE read == [i \in DOMAIN sorted |-> DocumentOf(sorted[i])]
            values == {DocumentOf(sorted[i]) : i \in DOMAIN sorted}
<1>1. /\ Len(sorted) \in Nat /\ DOMAIN sorted = 1 .. Len(sorted)
      /\ \A i \in 1 .. Len(sorted) : sorted[i] \in Portal
  BY ListFacts
<1>2. read \in [1 .. Len(sorted) -> values]
  BY <1>1, Zenon
<1>3. \A i \in DOMAIN sorted : read[i].total \in Int
  <2>1. TAKE i \in DOMAIN sorted
  <2>2. read[i] = DocumentOf(sorted[i]) /\ sorted[i] \in Portal
    BY <1>1, Zenon
  <2>3. DocumentOf(sorted[i]).total = sorted[i].total
    BY DEF DocumentOf
  <2>4. sorted[i].total \in Int
    BY <2>2, MatchingAssumption, Zenon
  <2>. QED BY <2>2, <2>3, <2>4, Zenon
<1>. HIDE DEF read, values
<1>4. Len(read) = Len(sorted) /\ DOMAIN read = 1 .. Len(sorted)
  BY <1>1, <1>2, ListOf, Zenon
<1>. QED BY <1>1, <1>3, <1>4, Zenon DEF read

(* The documents of an upload that can be read (parse_gstr2b_json).        *)
LEMMA DocumentsRead ==
  ASSUME NEW raws \in Seq(Portal), ParseGstr2b(raws).error = ""
  PROVE  LET documents == ParseGstr2b(raws).documents
         IN  /\ Len(documents) \in Nat /\ DOMAIN documents = 1 .. Len(documents)
             /\ \A d \in DOMAIN documents : documents[d].total \in Int
<1>. DEFINE Under(section) == Kept(raws, {i \in DOMAIN raws : raws[i].section = section})
            sorted == ((Under("b2b") \o Under("b2ba")) \o Under("cdnr")) \o Under("cdnra")
            read == [i \in DOMAIN sorted |-> DocumentOf(sorted[i])]
<1>1. sorted \in Seq(Portal)
  <2>1. \A section : Under(section) \in Seq(Portal)
    BY KeptIsList, Zenon
  <2>. HIDE DEF Under
  <2>. QED BY <2>1, FourLists, Zenon
<1>2. ParseGstr2b(raws).documents = read
  <2>. HIDE DEF sorted
  <2>1. CASE \E i \in DOMAIN raws : raws[i].gstin = Blank \/ raws[i].number = Blank
    BY <2>1 DEF ParseGstr2b
  <2>2. CASE raws = <<>>
    BY <2>2 DEF ParseGstr2b
  <2>3. CASE raws # <<>> /\ ~(\E i \in DOMAIN raws : raws[i].gstin = Blank \/ raws[i].number = Blank)
    BY <2>3 DEF ParseGstr2b, sorted
  <2>. HIDE DEF read
  <2>. QED BY <2>1, <2>2, <2>3, Zenon
<1>. HIDE DEF sorted
<1>. QED BY <1>1, <1>2, DocumentsOf, Zenon

-----------------------------------------------------------------------------
(***************************************************************************)
(* Parts and products.                                                     *)
(***************************************************************************)

(* Whole parts keep the order of what they are parts of.                   *)
LEMMA PartsKeepOrder ==
  ASSUME NEW a \in Int, NEW b \in Int, a <= b, NEW n \in Nat \ {0}
  PROVE  a \div n <= b \div n
<1>1. PICK p \in Int, q \in Int : p = a \div n /\ q = b \div n
  OBVIOUS
<1>2. n * p <= a /\ b < n * (q + 1)
  BY <1>1
<1>3. SUFFICES ASSUME q + 1 <= p PROVE FALSE
  BY <1>1
<1>4. n * (q + 1) <= n * p
  BY <1>3
<1>. QED BY <1>2, <1>4

(* So do products.                                                         *)
LEMMA ProductsKeepOrder ==
  ASSUME NEW a \in Nat, NEW b \in Nat, NEW m \in Nat, NEW n \in Nat, a <= b, m <= n
  PROVE  a * m <= b * n
<1>1. a * m <= b * m
  OBVIOUS
<1>2. b * m <= b * n
  OBVIOUS
<1>. QED BY <1>1, <1>2

-----------------------------------------------------------------------------
(***************************************************************************)
(* What one payment does to a ledger.                                      *)
(***************************************************************************)

(* A ledger of natural numbers that settles given liabilities from given   *)
(* credits: what is payable and what is used add up, under each head.      *)
Ledgers ==
  [payable : [Heads -> Nat], credit : [Heads -> Nat], used : [Heads -> [Heads -> Nat]]]

Balanced(l, output, itc) ==
  \A h \in Heads :
    /\ l.payable[h] + l.used["igst"][h] + l.used["cgst"][h] + l.used["sgst"][h] = output[h]
    /\ l.credit[h] + l.used[h]["igst"] + l.used[h]["cgst"] + l.used[h]["sgst"] = itc[h]

(* An opening ledger of natural numbers is balanced.                       *)
LEMMA OpeningBalanced ==
  ASSUME NEW output \in [Heads -> Nat], NEW itc \in [Heads -> Nat]
  PROVE  /\ Opening(output, itc) \in Ledgers
         /\ Balanced(Opening(output, itc), output, itc)
         /\ Opening(output, itc).used = [c \in Heads |-> [h \in Heads |-> 0]]
BY DEF Ledgers, Balanced, Opening, AtLeastZero, Heads

(* What one payment from credit c for head h changes, and that it empties  *)
(* one of the two.                                                         *)
After(l, n, c, h) ==
  /\ n \in Ledgers
  /\ n.credit[c] = 0 \/ n.payable[h] = 0
  /\ \A k \in Heads : n.payable[k] <= l.payable[k] /\ n.credit[k] <= l.credit[k]
  /\ \A k \in Heads : k # c => n.credit[k] = l.credit[k]
  /\ \A k \in Heads : k # h => n.payable[k] = l.payable[k]
  /\ n.credit[c] + n.used[c][h] = l.credit[c] + l.used[c][h]
  /\ n.payable[h] + n.used[c][h] = l.payable[h] + l.used[c][h]
  /\ \A b, k \in Heads : b # c \/ k # h => n.used[b][k] = l.used[b][k]
  /\ l.payable[h] = 0 => n = l

(* Spend is such a payment.                                                *)
LEMMA SpendStep ==
  ASSUME NEW l \in Ledgers, NEW c \in Heads, NEW h \in Heads, NEW n, n = Spend(l, c, h)
  PROVE  After(l, n, c, h)
<1> PICK amount : amount = Payable(l, c, h)
  OBVIOUS
<1>1. /\ l.payable \in [Heads -> Nat] /\ l.credit \in [Heads -> Nat]
      /\ l.used \in [Heads -> [Heads -> Nat]]
      /\ l = [payable |-> l.payable, credit |-> l.credit, used |-> l.used]
  BY DEF Ledgers
<1>a. n = Pay(l, c, h, amount)
  BY DEF Spend
<1>0. n = [payable |-> [l.payable EXCEPT ![h] = @ - amount],
           credit |-> [l.credit EXCEPT ![c] = @ - amount],
           used |-> [l.used EXCEPT ![c][h] = @ + amount]]
  BY <1>a DEF Pay
<1>2. /\ n.payable = [l.payable EXCEPT ![h] = @ - amount]
      /\ n.credit = [l.credit EXCEPT ![c] = @ - amount]
      /\ n.used = [l.used EXCEPT ![c][h] = @ + amount]
      /\ n = [payable |-> n.payable, credit |-> n.credit, used |-> n.used]
  BY <1>0
<1> DEFINE P == l.payable
           C == l.credit
           U == l.used
<1> HIDE DEF P, C, U
<1>3. /\ amount \in Nat /\ amount <= C[c] /\ amount <= P[h]
      /\ amount = C[c] \/ amount = P[h]
      /\ P[h] = 0 => amount = 0
  BY <1>1 DEF Payable, Least, P, C
<1>4. /\ n.payable \in [Heads -> Nat]
      /\ n.payable[h] = P[h] - amount
      /\ \A k \in Heads : k # h => n.payable[k] = P[k]
  BY <1>1, <1>2, <1>3 DEF P
<1>5. /\ n.credit \in [Heads -> Nat]
      /\ n.credit[c] = C[c] - amount
      /\ \A k \in Heads : k # c => n.credit[k] = C[k]
  BY <1>1, <1>2, <1>3 DEF C
<1>7. P \in [Heads -> Nat] /\ C \in [Heads -> Nat] /\ U \in [Heads -> [Heads -> Nat]]
  BY <1>1 DEF P, C, U
<1>6. /\ n.used \in [Heads -> [Heads -> Nat]]
      /\ n.used[c][h] = U[c][h] + amount
      /\ \A b, k \in Heads : b # c \/ k # h => n.used[b][k] = U[b][k]
  <2>1. n.used = [U EXCEPT ![c] = [U[c] EXCEPT ![h] = U[c][h] + amount]]
    BY <1>2 DEF U
  <2>2. U[c] \in [Heads -> Nat] /\ amount \in Nat
    BY <1>3, <1>7
  <2>3. [U[c] EXCEPT ![h] = U[c][h] + amount] \in [Heads -> Nat]
    BY <2>2
  <2>4. n.used \in [Heads -> [Heads -> Nat]]
    BY <2>1, <2>3, <1>7
  <2>5. n.used[c] = [U[c] EXCEPT ![h] = U[c][h] + amount]
    BY <2>1, <1>7
  <2>6. \A b \in Heads \ {c} : n.used[b] = U[b]
    BY <2>1, <1>7
  <2> QED BY <2>2, <2>4, <2>5, <2>6
<1>8. n \in Ledgers
  BY <1>2, <1>4, <1>5, <1>6 DEF Ledgers
<1>9. ASSUME P[h] = 0 PROVE n = l
  <2>1. amount = 0
    BY <1>3, <1>9
  <2>2. n.payable = P
    BY <2>1, <1>4, <1>7
  <2>3. n.credit = C
    BY <2>1, <1>5, <1>7
  <2>4. \A b, k \in Heads : n.used[b][k] = U[b][k]
    BY <2>1, <1>6, <1>7
  <2>5. n.used = U
    BY <2>4, <1>6, <1>7
  <2> QED BY <1>1, <1>2, <2>2, <2>3, <2>5 DEF P, C, U
<1>10. \A k \in Heads : n.payable[k] <= P[k] /\ n.credit[k] <= C[k]
  BY <1>3, <1>4, <1>5, <1>7
<1>11. /\ n.credit[c] = 0 \/ n.payable[h] = 0
       /\ n.credit[c] + n.used[c][h] = C[c] + U[c][h]
       /\ n.payable[h] + n.used[c][h] = P[h] + U[c][h]
  BY <1>3, <1>4, <1>5, <1>6, <1>7
<1> QED BY <1>4, <1>5, <1>6, <1>8, <1>9, <1>10, <1>11 DEF P, C, U, After

(* A payment keeps a ledger balanced.                                          *)
LEMMA SpendBalanced ==
  ASSUME NEW output \in [Heads -> Nat], NEW itc \in [Heads -> Nat],
         NEW l \in Ledgers, Balanced(l, output, itc), NEW c \in Heads, NEW h \in Heads,
         NEW n, n = Spend(l, c, h)
  PROVE  Balanced(n, output, itc)
<1>1. After(l, n, c, h)
  BY SpendStep
<1>2. ASSUME NEW k \in Heads
      PROVE  n.payable[k] + n.used["igst"][k] + n.used["cgst"][k] + n.used["sgst"][k] = output[k]
  <2>1. l.payable[k] + l.used["igst"][k] + l.used["cgst"][k] + l.used["sgst"][k] = output[k]
    BY DEF Balanced
  <2>2. CASE k # h
    BY <1>1, <2>1, <2>2 DEF Heads, After
  <2>3. CASE k = h
    <3>1. \A x \in Heads : l.payable[x] \in Nat /\ n.payable[x] \in Nat
      BY <1>1 DEF Ledgers, After
    <3>2. \A b, x \in Heads : l.used[b][x] \in Nat /\ n.used[b][x] \in Nat
      BY <1>1 DEF Ledgers, After
    <3>3. \A b \in Heads : b # c => n.used[b][h] = l.used[b][h]
      BY <1>1 DEF After
    <3> QED BY <1>1, <2>1, <2>3, <3>1, <3>2, <3>3 DEF Heads, After
  <2> QED BY <2>2, <2>3
<1>3. ASSUME NEW k \in Heads
      PROVE  n.credit[k] + n.used[k]["igst"] + n.used[k]["cgst"] + n.used[k]["sgst"] = itc[k]
  <2>1. l.credit[k] + l.used[k]["igst"] + l.used[k]["cgst"] + l.used[k]["sgst"] = itc[k]
    BY DEF Balanced
  <2>2. CASE k # c
    BY <1>1, <2>1, <2>2 DEF Heads, After
  <2>3. CASE k = c
    <3>1. \A x \in Heads : l.credit[x] \in Nat /\ n.credit[x] \in Nat
      BY <1>1 DEF Ledgers, After
    <3>2. \A b, x \in Heads : l.used[b][x] \in Nat /\ n.used[b][x] \in Nat
      BY <1>1 DEF Ledgers, After
    <3>3. \A x \in Heads : x # h => n.used[c][x] = l.used[c][x]
      BY <1>1 DEF After
    <3> QED BY <1>1, <2>1, <2>3, <3>1, <3>2, <3>3 DEF Heads, After
  <2> QED BY <2>2, <2>3
<1> QED BY <1>2, <1>3 DEF Balanced

-----------------------------------------------------------------------------

(* What a set-off promises of liabilities, credits and the final ledger.   *)
Lawful(l, output, itc) ==
  /\ l \in Ledgers
  /\ Balanced(l, output, itc)
  /\ l.used["cgst"]["sgst"] = 0 /\ l.used["sgst"]["cgst"] = 0
  /\ l.credit["igst"] > 0 =>
       \A c \in {"cgst", "sgst"}, h \in Heads : l.used[c][h] = 0
  /\ \A c, h \in Heads :
       \/ l.credit[c] = 0 \/ l.payable[h] = 0 \/ {c, h} = {"cgst", "sgst"}

(* Seven payments in the order of apply_itc_utilization.                   *)
LEMMA SevenPayments ==
  ASSUME NEW output \in [Heads -> Nat], NEW itc \in [Heads -> Nat],
         NEW l0, l0 = Opening(output, itc),
         NEW l1, l1 = Spend(l0, "igst", "igst"), NEW l2, l2 = Spend(l1, "igst", "cgst"),
         NEW l3, l3 = Spend(l2, "igst", "sgst"), NEW l4, l4 = Spend(l3, "cgst", "cgst"),
         NEW l5, l5 = Spend(l4, "cgst", "igst"), NEW l6, l6 = Spend(l5, "sgst", "sgst"),
         NEW l7, l7 = Spend(l6, "sgst", "igst")
  PROVE  Lawful(l7, output, itc)
<1>h. "igst" \in Heads /\ "cgst" \in Heads /\ "sgst" \in Heads
  BY DEF Heads
<1>0. /\ l0 \in Ledgers /\ Balanced(l0, output, itc)
      /\ l0.used = [c \in Heads |-> [h \in Heads |-> 0]]
  BY OpeningBalanced
<1>1. l1 \in Ledgers /\ After(l0, l1, "igst", "igst") /\ Balanced(l1, output, itc)
  <2>1. After(l0, l1, "igst", "igst")
    BY <1>h, <1>0, SpendStep
  <2> QED BY <2>1, <1>h, <1>0, SpendBalanced DEF After
<1>2. l2 \in Ledgers /\ After(l1, l2, "igst", "cgst") /\ Balanced(l2, output, itc)
  <2>1. After(l1, l2, "igst", "cgst")
    BY <1>h, <1>1, SpendStep
  <2> QED BY <2>1, <1>h, <1>1, SpendBalanced DEF After
<1>3. l3 \in Ledgers /\ After(l2, l3, "igst", "sgst") /\ Balanced(l3, output, itc)
  <2>1. After(l2, l3, "igst", "sgst")
    BY <1>h, <1>2, SpendStep
  <2> QED BY <2>1, <1>h, <1>2, SpendBalanced DEF After
<1>4. l4 \in Ledgers /\ After(l3, l4, "cgst", "cgst") /\ Balanced(l4, output, itc)
  <2>1. After(l3, l4, "cgst", "cgst")
    BY <1>h, <1>3, SpendStep
  <2> QED BY <2>1, <1>h, <1>3, SpendBalanced DEF After
<1>5. l5 \in Ledgers /\ After(l4, l5, "cgst", "igst") /\ Balanced(l5, output, itc)
  <2>1. After(l4, l5, "cgst", "igst")
    BY <1>h, <1>4, SpendStep
  <2> QED BY <2>1, <1>h, <1>4, SpendBalanced DEF After
<1>6. l6 \in Ledgers /\ After(l5, l6, "sgst", "sgst") /\ Balanced(l6, output, itc)
  <2>1. After(l5, l6, "sgst", "sgst")
    BY <1>h, <1>5, SpendStep
  <2> QED BY <2>1, <1>h, <1>5, SpendBalanced DEF After
<1>7. l7 \in Ledgers /\ After(l6, l7, "sgst", "igst") /\ Balanced(l7, output, itc)
  <2>1. After(l6, l7, "sgst", "igst")
    BY <1>h, <1>6, SpendStep
  <2> QED BY <2>1, <1>h, <1>6, SpendBalanced DEF After
<1>8. l7.used["cgst"]["sgst"] = 0 /\ l7.used["sgst"]["cgst"] = 0
  <2>1. l0.used["cgst"]["sgst"] = 0 /\ l0.used["sgst"]["cgst"] = 0
    BY <1>h, <1>0
  <2> DEFINE Uncrossed(l) == l.used["cgst"]["sgst"] = 0 /\ l.used["sgst"]["cgst"] = 0
  <2>2. \A l, n, b, k : After(l, n, b, k) /\ b # k /\ "igst" \in {b, k} /\ Uncrossed(l) => Uncrossed(n)
    BY <1>h DEF After
  <2>3. \A l, n, b : After(l, n, b, b) /\ Uncrossed(l) => Uncrossed(n)
    BY <1>h DEF After
  <2> HIDE DEF Uncrossed
  <2>4. Uncrossed(l0)
    BY <2>1 DEF Uncrossed
  <2>5. Uncrossed(l1) /\ Uncrossed(l2) /\ Uncrossed(l3)
    BY <2>4, <2>2, <2>3, <1>1, <1>2, <1>3
  <2>6. Uncrossed(l4) /\ Uncrossed(l5) /\ Uncrossed(l6) /\ Uncrossed(l7)
    BY <2>5, <2>2, <2>3, <1>4, <1>5, <1>6, <1>7
  <2> QED BY <2>6 DEF Uncrossed
<1>9. \A c, h \in Heads :
        \/ l7.credit[c] = 0 \/ l7.payable[h] = 0 \/ {c, h} = {"cgst", "sgst"}
  <2>1. \A l, n \in Ledgers, b, k, c, h \in Heads :
          After(l, n, b, k) /\ (l.credit[c] = 0 \/ l.payable[h] = 0)
            => n.credit[c] = 0 \/ n.payable[h] = 0
    <3> SUFFICES ASSUME NEW l \in Ledgers, NEW n \in Ledgers, NEW b \in Heads, NEW k \in Heads,
                        NEW c \in Heads, NEW h \in Heads, After(l, n, b, k),
                        l.credit[c] = 0 \/ l.payable[h] = 0
                 PROVE  n.credit[c] = 0 \/ n.payable[h] = 0
      OBVIOUS
    <3>1. n.credit[c] \in Nat /\ n.payable[h] \in Nat
      BY DEF Ledgers
    <3>2. n.credit[c] <= l.credit[c] /\ n.payable[h] <= l.payable[h]
      BY DEF After
    <3> QED BY <3>1, <3>2
  <2> SUFFICES ASSUME NEW c \in Heads, NEW h \in Heads, {c, h} # {"cgst", "sgst"}
               PROVE  l7.credit[c] = 0 \/ l7.payable[h] = 0
    OBVIOUS
  <2> DEFINE Spent(l) == l.credit[c] = 0 \/ l.payable[h] = 0
  <2>0. \A l, n : After(l, n, c, h) => Spent(n)
    BY DEF After
  <2>p. <<c, h>> \in {<<"igst", "igst">>, <<"igst", "cgst">>, <<"igst", "sgst">>, <<"cgst", "cgst">>,
                      <<"cgst", "igst">>, <<"sgst", "sgst">>, <<"sgst", "igst">>}
    BY DEF Heads
  <2>2. \/ Spent(l1) \/ Spent(l2) \/ Spent(l3) \/ Spent(l4)
        \/ Spent(l5) \/ Spent(l6) \/ Spent(l7)
    BY <2>0, <2>p, <1>1, <1>2, <1>3, <1>4, <1>5, <1>6, <1>7
  <2>3. \A l, n \in Ledgers, b, k \in Heads : After(l, n, b, k) /\ Spent(l) => Spent(n)
    BY <2>1
  <2> HIDE DEF Spent
  <2>4. Spent(l7)
    BY <2>2, <2>3, <1>h, <1>1, <1>2, <1>3, <1>4, <1>5, <1>6, <1>7
  <2> QED BY <2>4 DEF Spent
<1>10. ASSUME l7.credit["igst"] > 0
       PROVE  \A c \in {"cgst", "sgst"}, h \in Heads : l7.used[c][h] = 0
  <2>1. \A l \in Ledgers : l.credit["igst"] \in Nat
    BY <1>h DEF Ledgers
  <2>2. \A l, n, b, k : After(l, n, b, k) => n.credit["igst"] <= l.credit["igst"]
    BY <1>h DEF After
  <2>3. l3.credit["igst"] > 0 /\ l2.credit["igst"] > 0 /\ l1.credit["igst"] > 0
    BY <1>10, <2>1, <2>2, <1>1, <1>2, <1>3, <1>4, <1>5, <1>6, <1>7
  <2>4. l1.payable["igst"] = 0 /\ l2.payable["cgst"] = 0 /\ l3.payable["sgst"] = 0
    BY <2>3, <1>1, <1>2, <1>3 DEF After
  <2>5. l3.payable["igst"] = 0 /\ l3.payable["cgst"] = 0 /\ l3.payable["sgst"] = 0
    BY <2>4, <1>h, <1>2, <1>3 DEF After
  <2>6. l4 = l3
    BY <2>5, <1>4 DEF After
  <2>7. l5 = l3
    BY <2>5, <2>6, <1>5 DEF After
  <2>8. l6 = l3
    BY <2>5, <2>7, <1>6 DEF After
  <2>9. l7 = l3
    BY <2>5, <2>8, <1>7 DEF After
  <2>10. \A c \in {"cgst", "sgst"}, h \in Heads : l0.used[c][h] = 0
    BY <1>0 DEF Heads
  <2>11. \A c \in {"cgst", "sgst"}, h \in Heads : l3.used[c][h] = 0
    BY <2>10, <1>h, <1>1, <1>2, <1>3 DEF After
  <2> QED BY <2>9, <2>11
<1> QED BY <1>7, <1>8, <1>9, <1>10 DEF Lawful

(* The whole of apply_itc_utilization is lawful, for any credits.          *)
LEMMA SetOffIsLawful ==
  ASSUME NEW output \in [Heads -> Nat], NEW itc \in [Heads -> Nat]
  PROVE  Lawful(ApplyItcUtilization(output, itc), output, itc)
BY SevenPayments DEF ApplyItcUtilization

-----------------------------------------------------------------------------
(* Each route asks a request of its own kind.                              *)
LEMMA KindsOfRequests ==
  ASSUME Next
  PROVE  /\ request'.kind = "set-off" => SetOff
         /\ request'.kind = "tds" => ComputeTds
         /\ request'.kind = "interest" => ComputeInterest
         /\ request'.kind = "tax" => ComputeIncomeTax
         /\ request'.kind = "books" => ReconcileBooks
         /\ request'.kind = "upload" => MatchUpload
         /\ request'.kind = "invoice" => ValidateComputed
         /\ request'.kind = "draft" => DraftInvoice
         /\ request'.kind = "voucher" => VerifyVoucher
         /\ request'.kind = "proposal" => ProposeAction
         /\ request'.kind = "bill" => VerifyBill
<1>1. ComputeGst => request'.kind = "gst"
  BY DEF ComputeGst, Answer
<1>2. ComputeNetGst => request'.kind = "net gst"
  <2>. SUFFICES ASSUME ComputeNetGst PROVE request'.kind = "net gst"
    OBVIOUS
  <2>1. request' = [kind |-> "net gst"]
    BY Zenon DEF ComputeNetGst, Answer
  <2>. QED BY <2>1
<1>3. CheckItc => request'.kind = "itc"
  BY DEF CheckItc, Answer
<1>4. SetOff => request'.kind = "set-off"
  BY DEF SetOff, Answer
<1>5. FileGstr3b => request'.kind = "gstr3b"
  BY DEF FileGstr3b, Answer
<1>6. ComputeTds => request'.kind = "tds"
  BY DEF ComputeTds, Answer
<1>7. ComputeInterest => request'.kind = "interest"
  BY DEF ComputeInterest, Answer
<1>8. ComputeIncomeTax => request'.kind = "tax"
  BY DEF ComputeIncomeTax, Answer
<1>9. ComputeReturn => request'.kind = "return"
  BY DEF ComputeReturn, Answer
<1>10. ReconcileBooks => request'.kind = "books"
  BY DEF ReconcileBooks, Answer
<1>11. MatchUpload => request'.kind = "upload"
  <2>. SUFFICES ASSUME MatchUpload PROVE request'.kind = "upload"
    OBVIOUS
  <2>1. PICK purchases, raws : request' = [kind |-> "upload", purchases |-> purchases, raws |-> raws]
    BY Zenon DEF MatchUpload, Answer
  <2>. QED BY <2>1
<1>12. ReadStatement => request'.kind = "statement"
  BY DEF ReadStatement, Answer
<1>13. ScoreEntries => request'.kind = "bank"
  BY DEF ScoreEntries, Answer
<1>14. ValidateComputed => request'.kind = "invoice"
  BY DEF ValidateComputed, Answer
<1>15. DraftInvoice => request'.kind = "draft"
  <2>. SUFFICES ASSUME DraftInvoice PROVE request'.kind = "draft"
    OBVIOUS
  <2>1. PICK kind, doc : request' = [kind |-> "draft", of |-> kind, doc |-> doc]
    BY Zenon DEF DraftInvoice, Answer
  <2>. QED BY <2>1
<1>16. VerifyVoucher => request'.kind = "voucher"
  BY DEF VerifyVoucher, Answer
<1>17. ProposeAction => request'.kind = "proposal"
  <2>. SUFFICES ASSUME ProposeAction PROVE request'.kind = "proposal"
    OBVIOUS
  <2>1. PICK b : request' = [kind |-> "proposal", bill |-> b]
    BY Zenon DEF ProposeAction, Answer
  <2>. QED BY <2>1
<1>18. VerifyBill => request'.kind = "bill"
  BY DEF VerifyBill, Answer
<1>19. PrepareTables => request'.kind = "tables"
  BY DEF PrepareTables, Answer
<1>20. Return => request'.kind = "none"
  BY DEF Return, Answer
<1>. QED
  BY <1>1, <1>2, <1>3, <1>4, <1>5, <1>6, <1>7, <1>8, <1>9, <1>10,
     <1>11, <1>12, <1>13, <1>14, <1>15, <1>16, <1>17, <1>18, <1>19, <1>20 DEF Next

(* The set-off of input tax credit pays what the credits cover and no      *)
(* more, for all liabilities and credits (apply_itc_utilization).          *)
THEOREM SetOffsAreLawful == Spec => []SetOffLawful
<1> DEFINE Asked == request.kind = "set-off" =>
                      /\ request.output \in [Heads -> Nat] /\ request.itc \in [Heads -> Nat]
                      /\ answer = ApplyItcUtilization(request.output, request.itc)
<1>1. Init => Asked
  BY DEF Init
<1>2. Asked /\ [Next]_vars => Asked'
  <2> SUFFICES ASSUME Asked, [Next]_vars PROVE Asked'
    OBVIOUS
  <2>1. CASE SetOff
    <3>1. PICK output \in Vectors(Amounts), itc \in Vectors(Amounts) :
            /\ request' = [kind |-> "set-off", output |-> output, itc |-> itc]
            /\ answer' = ApplyItcUtilization(output, itc)
      BY <2>1 DEF SetOff, Answer
    <3>2. output \in [Heads -> Nat] /\ itc \in [Heads -> Nat]
      BY AmountsAssumption DEF Vectors
    <3> QED BY <3>1, <3>2
  <2>2. CASE UNCHANGED vars
    BY <2>2 DEF vars
  <2>. QED
    BY <2>1, <2>2, KindsOfRequests
<1>3. Asked => SetOffLawful
  <2> SUFFICES ASSUME Asked, request.kind = "set-off" PROVE SetOffLawful
    BY DEF SetOffLawful
  <2>1. Lawful(answer, request.output, request.itc)
    BY SetOffIsLawful
  <2>2. \A h \in Heads : answer.payable[h] >= 0 /\ answer.credit[h] >= 0
    BY <2>1 DEF Lawful, Ledgers
  <2>3. /\ Balanced(answer, request.output, request.itc)
        /\ answer.used["cgst"]["sgst"] = 0 /\ answer.used["sgst"]["cgst"] = 0
        /\ answer.credit["igst"] > 0 =>
             \A c \in {"cgst", "sgst"}, h \in Heads : answer.used[c][h] = 0
        /\ \A c, h \in Heads :
             answer.credit[c] = 0 \/ answer.payable[h] = 0 \/ {c, h} = {"cgst", "sgst"}
    BY <2>1 DEF Lawful
  <2> QED BY <2>2, <2>3 DEF Balanced, SetOffLawful
<1> QED BY <1>1, <1>2, <1>3, PTL DEF Spec

-----------------------------------------------------------------------------
(***************************************************************************)
(* Tax deducted at source.                                                 *)
(***************************************************************************)

(* What a purchase is taxed at, in tenths of a percent, and what an amount *)
(* bears at a rate.                                                        *)
PurchaseRate(pan, turnover) ==
  IF turnover = Unknown \/ turnover <= 1000 * Lakh THEN 0 ELSE IF pan THEN 1 ELSE 50
Bears(taxable, rate) == (taxable * rate) \div 1000

(* Rounding down two parts loses a unit at most.                           *)
LEMMA RoundedParts ==
  ASSUME NEW a \in Nat, NEW b \in Nat, NEW rate \in {0, 1, 50}
  PROVE  /\ Bears(a, rate) + Bears(b, rate) <= Bears(a + b, rate)
         /\ Bears(a + b, rate) <= Bears(a, rate) + Bears(b, rate) + 1
<1>1. CASE rate = 0
  BY <1>1 DEF Bears
<1>2. CASE rate = 1
  BY <1>2 DEF Bears
<1>3. CASE rate = 50
  BY <1>3 DEF Bears
<1>. QED BY <1>1, <1>2, <1>3

(* The tax on a purchase is what its taxable part bears at that rate.      *)
LEMMA TaxOfPurchase ==
  ASSUME NEW pan, NEW turnover, NEW amount \in Nat, NEW prior \in Nat
  PROVE  /\ Taxable194Q(amount, prior) \in Nat
         /\ CalculateTds("194Q", amount, pan, prior, turnover).tds_amount =
              Bears(Taxable194Q(amount, prior), PurchaseRate(pan, turnover))
<1>. DEFINE exempt == turnover = Unknown \/ turnover <= 1000 * Lakh
            taxable == Taxable194Q(amount, prior)
            rate == PurchaseRate(pan, turnover)
            tds == CalculateTds("194Q", amount, pan, prior, turnover).tds_amount
<1>1. TDS_RATES["194Q"] = 1 /\ Greater(1, 50) = 50
  BY DEF TDS_RATES, Greater
<1>2. taxable \in Nat
  <2>1. TDS_THRESHOLDS["194Q"] \in Nat
    BY DirectTaxAssumption DEF TDS_THRESHOLDS, Sections, TDS_RATES
  <2>. QED BY <2>1 DEF Taxable194Q, NotNegative, Greater
<1>3. tds = IF ~exempt /\ taxable > 0
              THEN Bears(taxable, IF pan THEN TDS_RATES["194Q"] ELSE Greater(TDS_RATES["194Q"], 50))
              ELSE 0
  BY DEF CalculateTds, Bears
<1>4. /\ exempt => rate = 0
      /\ ~exempt /\ pan => rate = 1
      /\ ~exempt /\ ~pan => rate = 50
  BY DEF PurchaseRate
<1>5. Bears(taxable, 0) = 0 /\ Bears(0, 1) = 0 /\ Bears(0, 50) = 0
  BY <1>2 DEF Bears
<1>. HIDE DEF exempt, taxable, rate, tds
<1>6. tds = Bears(taxable, rate)
  <2>1. CASE exempt
    BY <1>3, <1>4, <1>5, <2>1
  <2>2. CASE ~exempt /\ pan
    BY <1>1, <1>2, <1>3, <1>4, <1>5, <2>2
  <2>3. CASE ~exempt /\ ~pan
    BY <1>1, <1>2, <1>3, <1>4, <1>5, <2>3
  <2>. QED BY <2>1, <2>2, <2>3
<1>. QED BY <1>2, <1>6 DEF taxable, rate, tds

(* The taxable parts of two purchases are that of both at once.            *)
LEMMA TaxableParts ==
  ASSUME NEW first \in Nat, NEW second \in Nat, NEW prior \in Nat
  PROVE  Taxable194Q(first, prior) + Taxable194Q(second, prior + first)
           = Taxable194Q(first + second, prior)
<1>1. TDS_THRESHOLDS["194Q"] \in Nat
  BY DirectTaxAssumption DEF TDS_THRESHOLDS, Sections, TDS_RATES
<1>. QED BY <1>1 DEF Taxable194Q, NotNegative, Greater

(* So the taxes on two parts are that on the whole, but for a paisa.       *)
LEMMA TaxesOfParts ==
  ASSUME NEW pan, NEW turnover, NEW first \in Nat, NEW second \in Nat, NEW prior \in Nat
  PROVE  LET Part(amount, before) == CalculateTds("194Q", amount, pan, before, turnover).tds_amount
             parts == Part(first, prior) + Part(second, prior + first)
             whole == Part(first + second, prior)
         IN  parts <= whole /\ whole <= parts + 1
<1>1. PICK next, gross : next = prior + first /\ gross = first + second
  OBVIOUS
<1>2. next \in Nat /\ gross \in Nat
  BY <1>1
<1>3. PICK x, y, z :
         /\ x = CalculateTds("194Q", first, pan, prior, turnover).tds_amount
         /\ y = CalculateTds("194Q", second, pan, next, turnover).tds_amount
         /\ z = CalculateTds("194Q", gross, pan, prior, turnover).tds_amount
  OBVIOUS
<1>4. PICK rate : rate = PurchaseRate(pan, turnover)
  OBVIOUS
<1>5. PICK a, b : a = Taxable194Q(first, prior) /\ b = Taxable194Q(second, next)
  OBVIOUS
<1>6. rate \in {0, 1, 50}
  BY <1>4 DEF PurchaseRate
<1>7. /\ Taxable194Q(first, prior) \in Nat
      /\ CalculateTds("194Q", first, pan, prior, turnover).tds_amount =
           Bears(Taxable194Q(first, prior), PurchaseRate(pan, turnover))
  BY <1>2, TaxOfPurchase, Zenon
<1>8. /\ Taxable194Q(second, next) \in Nat
      /\ CalculateTds("194Q", second, pan, next, turnover).tds_amount =
           Bears(Taxable194Q(second, next), PurchaseRate(pan, turnover))
  BY <1>2, TaxOfPurchase, Zenon
<1>9. CalculateTds("194Q", gross, pan, prior, turnover).tds_amount =
        Bears(Taxable194Q(gross, prior), PurchaseRate(pan, turnover))
  BY <1>2, TaxOfPurchase, Zenon
<1>10. a + b = Taxable194Q(gross, prior)
  BY <1>1, <1>5, TaxableParts
<1>11. /\ a \in Nat /\ x = Bears(a, rate) /\ b \in Nat /\ y = Bears(b, rate)
      /\ z = Bears(a + b, rate)
  BY <1>3, <1>4, <1>5, <1>7, <1>8, <1>9, <1>10
<1>12. /\ Bears(a, rate) + Bears(b, rate) <= Bears(a + b, rate)
      /\ Bears(a + b, rate) <= Bears(a, rate) + Bears(b, rate) + 1
  BY <1>6, <1>11, RoundedParts, Zenon
<1>13. x + y <= z /\ z <= x + y + 1
  BY <1>11, <1>12
<1>. QED BY <1>1, <1>3, <1>13, Zenon

(* A purchase that is paid in two parts bears the tax of the whole but for *)
(* a paisa, for all amounts, thresholds and earlier purchases              *)
(* (calculate_tds).                                                        *)
THEOREM SplitPurchasesTaxedAlike == Spec => []SplitTaxedAlike
<1>1. Init => SplitTaxedAlike
  BY DEF Init, SplitTaxedAlike
<1>2. SplitTaxedAlike /\ [Next]_vars => SplitTaxedAlike'
  <2>. SUFFICES ASSUME SplitTaxedAlike, [Next]_vars PROVE SplitTaxedAlike'
    OBVIOUS
  <2>1. CASE UNCHANGED vars
    BY <2>1 DEF vars, SplitTaxedAlike
  <2>2. ASSUME ComputeTds, request'.section = "194Q" PROVE SplitTaxedAlike'
    <3>1. PICK section \in Sections, gross \in Payments, prior \in Payments, pan \in BOOLEAN,
               turnover \in {Unknown, 1000 * Lakh, 1001 * Lakh} :
            /\ request' = [kind |-> "tds", section |-> section, gross |-> gross, pan |-> pan,
                           prior |-> prior, turnover |-> turnover]
            /\ answer' = CalculateTds(section, gross, pan, prior, turnover)
      BY <2>2 DEF ComputeTds, Answer
    <3>2. section = "194Q" /\ gross \in Nat /\ prior \in Nat /\ Payments \subseteq Nat
      BY <2>2, <3>1, AmountsAssumption
    <3>. DEFINE Part(amount, before) == CalculateTds("194Q", amount, pan, before, turnover).tds_amount
    <3>3. ASSUME NEW first \in Payments, first <= gross
          PROVE  /\ Part(first, prior) + Part(gross - first, prior + first) <= Part(gross, prior)
                 /\ Part(gross, prior) <= Part(first, prior) + Part(gross - first, prior + first) + 1
      <4>1. PICK second, next : second = gross - first /\ next = prior + first
        OBVIOUS
      <4>2. /\ first \in Nat /\ second \in Nat /\ prior \in Nat
            /\ next = prior + first /\ gross = first + second
        BY <3>2, <3>3, <4>1
      <4>3. LET parts == Part(first, prior) + Part(second, prior + first)
                whole == Part(first + second, prior)
            IN  parts <= whole /\ whole <= parts + 1
        BY <4>2, TaxesOfParts, ZenonT(60)
      <4>4. gross - first = second /\ first + second = gross
        BY <4>1, <4>2
      <4>. QED
        <5>. HIDE DEF Part
        <5>. QED BY <4>3, <4>4, Zenon
    <3>4. /\ request'.gross = gross /\ request'.pan = pan /\ request'.prior = prior
          /\ request'.turnover = turnover /\ answer'.tds_amount = Part(gross, prior)
      <4>1. /\ request'.gross = gross /\ request'.pan = pan /\ request'.prior = prior
            /\ request'.turnover = turnover
        BY <3>1
      <4>2. answer' = CalculateTds("194Q", gross, pan, prior, turnover)
        BY <3>1, <3>2, Zenon
      <4>. QED BY <4>1, <4>2, Zenon
    <3>. QED BY <3>3, <3>4 DEF SplitTaxedAlike
  <2>. QED
    BY <2>1, <2>2, KindsOfRequests DEF SplitTaxedAlike
<1>. QED BY <1>1, <1>2, PTL DEF Spec

-----------------------------------------------------------------------------
(***************************************************************************)
(* Income tax, surcharge and marginal relief.                              *)
(***************************************************************************)

(* What of an income lies between two limits, and above one.               *)
Between(income, lower, upper) ==
  IF income < lower THEN 0 ELSE IF income < upper THEN income - lower ELSE upper - lower
Above(income, lower) == IF income < lower THEN 0 ELSE income - lower

(* A hundred times the tax, before anything is rounded.                    *)
Exact(regime, income) ==
  IF regime = "NEW"
    THEN Between(income, 3 * Lakh, 7 * Lakh) * 5 + Between(income, 7 * Lakh, 10 * Lakh) * 10
         + Between(income, 10 * Lakh, 12 * Lakh) * 15 + Between(income, 12 * Lakh, 15 * Lakh) * 20
         + Above(income, 15 * Lakh) * 30
    ELSE Between(income, (5 * Lakh) \div 2, 5 * Lakh) * 5 + Between(income, 5 * Lakh, 10 * Lakh) * 20
         + Above(income, 10 * Lakh) * 30

(* The slabs of the year 2025-26.                                          *)
Tax(regime, income) == SlabTax(income, SlabsOf("2025-26", regime))

(* A lakh is an even number of hundreds.                                   *)
LEMMA LakhIsEven == \E k \in Nat \ {0} : Lakh = 200 * k
<1>1. Lakh \in Nat \ {0} /\ Lakh % 200 = 0
  BY DirectTaxAssumption
<1>2. Lakh = 200 * (Lakh \div 200) /\ Lakh \div 200 \in Int
  BY <1>1
<1>3. Lakh \div 200 > 0
  BY <1>1, <1>2
<1>. QED BY <1>2, <1>3

(* Slab by slab the tax is what the limits cut out, each part truncated.   *)
LEMMA NewSlabs ==
  ASSUME NEW income \in Nat
  PROVE  Tax("NEW", income) =
           (Between(income, 3 * Lakh, 7 * Lakh) * 5) \div 100
           + (Between(income, 7 * Lakh, 10 * Lakh) * 10) \div 100
           + (Between(income, 10 * Lakh, 12 * Lakh) * 15) \div 100
           + (Between(income, 12 * Lakh, 15 * Lakh) * 20) \div 100
           + (Above(income, 15 * Lakh) * 30) \div 100
<1>. DEFINE slabs == <<Slab(3, 0), Slab(7, 5), Slab(10, 10), Slab(12, 15), Slab(15, 20), Slab(Open, 30)>>
            w == [i \in DOMAIN slabs |-> (InSlab(income, slabs, i) * slabs[i].rate) \div 100]
<1>1. Lakh \in Nat \ {0}
  BY DirectTaxAssumption
<1>2. SlabsOf("2025-26", "NEW") = slabs
  BY DEF SlabsOf, DEFAULT_RULES
<1>3. /\ DOMAIN slabs = 1 .. 6
      /\ slabs[1] = [limit |-> 3 * Lakh, rate |-> 0] /\ slabs[2] = [limit |-> 7 * Lakh, rate |-> 5]
      /\ slabs[3] = [limit |-> 10 * Lakh, rate |-> 10] /\ slabs[4] = [limit |-> 12 * Lakh, rate |-> 15]
      /\ slabs[5] = [limit |-> 15 * Lakh, rate |-> 20] /\ slabs[6] = [limit |-> 0, rate |-> 30]
  BY <1>1 DEF Slab, Open
<1>4. /\ InSlab(income, slabs, 1) = Between(income, 0, 3 * Lakh)
      /\ InSlab(income, slabs, 2) = Between(income, 3 * Lakh, 7 * Lakh)
      /\ InSlab(income, slabs, 3) = Between(income, 7 * Lakh, 10 * Lakh)
      /\ InSlab(income, slabs, 4) = Between(income, 10 * Lakh, 12 * Lakh)
      /\ InSlab(income, slabs, 5) = Between(income, 12 * Lakh, 15 * Lakh)
      /\ InSlab(income, slabs, 6) = Above(income, 15 * Lakh)
  <2>. HIDE DEF slabs
  <2>. QED BY <1>1, <1>3 DEF InSlab, Between, Above, NotNegative, Greater, Lesser, Open
<1>5. /\ w[1] = (Between(income, 0, 3 * Lakh) * 0) \div 100
      /\ w[2] = (Between(income, 3 * Lakh, 7 * Lakh) * 5) \div 100
      /\ w[3] = (Between(income, 7 * Lakh, 10 * Lakh) * 10) \div 100
      /\ w[4] = (Between(income, 10 * Lakh, 12 * Lakh) * 15) \div 100
      /\ w[5] = (Between(income, 12 * Lakh, 15 * Lakh) * 20) \div 100
      /\ w[6] = (Above(income, 15 * Lakh) * 30) \div 100
      /\ w = [i \in 1 .. 6 |-> w[i]]
  <2>. HIDE DEF slabs
  <2>. QED BY <1>3, <1>4
<1>6. w[1] = 0 /\ \A i \in 1 .. 6 : w[i] \in Int
  <2>. HIDE DEF w
  <2>1. /\ Between(income, 0, 3 * Lakh) \in Int /\ Between(income, 3 * Lakh, 7 * Lakh) \in Int
        /\ Between(income, 7 * Lakh, 10 * Lakh) \in Int
        /\ Between(income, 10 * Lakh, 12 * Lakh) \in Int
        /\ Between(income, 12 * Lakh, 15 * Lakh) \in Int /\ Above(income, 15 * Lakh) \in Int
    BY <1>1 DEF Between, Above
  <2>2. /\ w[1] = 0 /\ w[2] \in Int /\ w[3] \in Int /\ w[4] \in Int /\ w[5] \in Int
        /\ w[6] \in Int
    BY <2>1, <1>5
  <2>. QED BY <2>2
<1>7. SumFunction(w) = w[1] + w[2] + w[3] + w[4] + w[5] + w[6]
  <2>. HIDE DEF w
  <2>1. w = [i \in 1 .. 6 |-> w[i]]
    BY <1>5
  <2>2. \A i \in 1 .. 6 : w[i] \in Int
    BY <1>6
  <2>3. w \in [1 .. 6 -> Int]
    BY <2>1, <2>2, Zenon
  <2>. QED BY <2>3, SumOfSix, Zenon
<1>8. Tax("NEW", income) = SumFunction(w)
  BY <1>2 DEF Tax, SlabTax
<1>. HIDE DEF w
<1>9. w[2] \in Int /\ w[3] \in Int /\ w[4] \in Int /\ w[5] \in Int /\ w[6] \in Int
  BY <1>6
<1>. QED BY <1>5, <1>6, <1>7, <1>8, <1>9

(* The tax of the old regime, slab by slab.                                *)
LEMMA OldSlabs ==
  ASSUME NEW income \in Nat
  PROVE  Tax("OLD", income) =
           (Between(income, (5 * Lakh) \div 2, 5 * Lakh) * 5) \div 100
           + (Between(income, 5 * Lakh, 10 * Lakh) * 20) \div 100
           + (Above(income, 10 * Lakh) * 30) \div 100
<1>. DEFINE slabs == <<[limit |-> (5 * Lakh) \div 2, rate |-> 0], Slab(5, 5), Slab(10, 20), Slab(Open, 30)>>
            w == [i \in DOMAIN slabs |-> (InSlab(income, slabs, i) * slabs[i].rate) \div 100]
<1>1. PICK k \in Nat \ {0} : Lakh = 200 * k
  BY LakhIsEven
<1>2. SlabsOf("2025-26", "OLD") = slabs
  BY DEF SlabsOf, OLD_SLABS
<1>3. /\ DOMAIN slabs = 1 .. 4
      /\ slabs[1] = [limit |-> 500 * k, rate |-> 0] /\ slabs[2] = [limit |-> 5 * Lakh, rate |-> 5]
      /\ slabs[3] = [limit |-> 10 * Lakh, rate |-> 20] /\ slabs[4] = [limit |-> 0, rate |-> 30]
  BY <1>1 DEF Slab, Open
<1>4. /\ InSlab(income, slabs, 1) = Between(income, 0, 500 * k)
      /\ InSlab(income, slabs, 2) = Between(income, 500 * k, 5 * Lakh)
      /\ InSlab(income, slabs, 3) = Between(income, 5 * Lakh, 10 * Lakh)
      /\ InSlab(income, slabs, 4) = Above(income, 10 * Lakh)
  <2>. HIDE DEF slabs
  <2>. QED BY <1>1, <1>3 DEF InSlab, Between, Above, NotNegative, Greater, Lesser, Open
<1>5. /\ w[1] = (Between(income, 0, 500 * k) * 0) \div 100
      /\ w[2] = (Between(income, 500 * k, 5 * Lakh) * 5) \div 100
      /\ w[3] = (Between(income, 5 * Lakh, 10 * Lakh) * 20) \div 100
      /\ w[4] = (Above(income, 10 * Lakh) * 30) \div 100
      /\ w = [i \in 1 .. 4 |-> w[i]]
  <2>. HIDE DEF slabs
  <2>. QED BY <1>3, <1>4
<1>6. w[1] = 0 /\ \A i \in 1 .. 4 : w[i] \in Int
  <2>. HIDE DEF w
  <2>1. /\ Between(income, 0, 500 * k) \in Int /\ Between(income, 500 * k, 5 * Lakh) \in Int
        /\ Between(income, 5 * Lakh, 10 * Lakh) \in Int /\ Above(income, 10 * Lakh) \in Int
    BY <1>1 DEF Between, Above
  <2>2. w[1] = 0 /\ w[2] \in Int /\ w[3] \in Int /\ w[4] \in Int
    BY <2>1, <1>5
  <2>. QED BY <2>2
<1>7. SumFunction(w) = w[1] + w[2] + w[3] + w[4]
  <2>. HIDE DEF w
  <2>1. w = [i \in 1 .. 4 |-> w[i]]
    BY <1>5
  <2>2. \A i \in 1 .. 4 : w[i] \in Int
    BY <1>6
  <2>3. w \in [1 .. 4 -> Int]
    BY <2>1, <2>2, Zenon
  <2>. QED BY <2>3, SumOfFour, Zenon
<1>8. Tax("OLD", income) = SumFunction(w)
  BY <1>2 DEF Tax, SlabTax
<1>. HIDE DEF w
<1>9. (5 * Lakh) \div 2 = 500 * k /\ w[2] \in Int /\ w[3] \in Int /\ w[4] \in Int
  BY <1>1, <1>6
<1>. QED BY <1>5, <1>6, <1>7, <1>8, <1>9

(* Truncating each slab is truncating the tax: only one slab is cut short. *)
LEMMA TaxTruncated ==
  ASSUME NEW regime \in Regimes, NEW income \in Nat
  PROVE  Exact(regime, income) \in Nat /\ Tax(regime, income) = Exact(regime, income) \div 100
<1>1. PICK k \in Nat \ {0} : Lakh = 200 * k
  BY LakhIsEven
<1>2. CASE regime = "NEW"
  <2>. DEFINE B1 == Between(income, 3 * Lakh, 7 * Lakh)
              B2 == Between(income, 7 * Lakh, 10 * Lakh)
              B3 == Between(income, 10 * Lakh, 12 * Lakh)
              B4 == Between(income, 12 * Lakh, 15 * Lakh)
              B5 == Above(income, 15 * Lakh)
  <2>1. \/ B1 \in Nat /\ B2 = 0 /\ B3 = 0 /\ B4 = 0 /\ B5 = 0
        \/ B1 = 800 * k /\ B2 \in Nat /\ B3 = 0 /\ B4 = 0 /\ B5 = 0
        \/ B1 = 800 * k /\ B2 = 600 * k /\ B3 \in Nat /\ B4 = 0 /\ B5 = 0
        \/ B1 = 800 * k /\ B2 = 600 * k /\ B3 = 400 * k /\ B4 \in Nat /\ B5 = 0
        \/ B1 = 800 * k /\ B2 = 600 * k /\ B3 = 400 * k /\ B4 = 600 * k /\ B5 \in Nat
    BY <1>1 DEF Between, Above
  <2>2. Exact(regime, income) = B1 * 5 + B2 * 10 + B3 * 15 + B4 * 20 + B5 * 30
    BY <1>2 DEF Exact
  <2>3. Tax(regime, income) = (B1 * 5) \div 100 + (B2 * 10) \div 100 + (B3 * 15) \div 100
                              + (B4 * 20) \div 100 + (B5 * 30) \div 100
    BY <1>2, NewSlabs
  <2>. HIDE DEF B1, B2, B3, B4, B5
  <2>. QED BY <2>1, <2>2, <2>3
<1>3. CASE regime = "OLD"
  <2>. DEFINE B1 == Between(income, (5 * Lakh) \div 2, 5 * Lakh)
              B2 == Between(income, 5 * Lakh, 10 * Lakh)
              B3 == Above(income, 10 * Lakh)
  <2>1. \/ B1 \in Nat /\ B2 = 0 /\ B3 = 0
        \/ B1 = 500 * k /\ B2 \in Nat /\ B3 = 0
        \/ B1 = 500 * k /\ B2 = 1000 * k /\ B3 \in Nat
    BY <1>1 DEF Between, Above
  <2>2. Exact(regime, income) = B1 * 5 + B2 * 20 + B3 * 30
    BY <1>3 DEF Exact
  <2>3. Tax(regime, income) = (B1 * 5) \div 100 + (B2 * 20) \div 100 + (B3 * 30) \div 100
    BY <1>3, OldSlabs
  <2>. HIDE DEF B1, B2, B3
  <2>. QED BY <2>1, <2>2, <2>3
<1>. QED BY <1>2, <1>3 DEF Regimes

(* Before rounding the tax rises with the income, by 30 percent at most.   *)
LEMMA ExactRises ==
  ASSUME NEW regime \in Regimes, NEW lower \in Nat, NEW higher \in Nat, lower <= higher
  PROVE  /\ Exact(regime, lower) <= Exact(regime, higher)
         /\ Exact(regime, higher) <= Exact(regime, lower) + 30 * (higher - lower)
<1>1. PICK k \in Nat \ {0} : Lakh = 200 * k
  BY LakhIsEven
<1>2. CASE regime = "NEW"
  <2>1. Exact(regime, higher) - Exact(regime, lower) \in 0 .. 30 * (higher - lower)
    BY <1>1, <1>2 DEF Exact, Between, Above
  <2>. QED BY <2>1, TaxTruncated
<1>3. CASE regime = "OLD"
  <2>1. (5 * Lakh) \div 2 = 500 * k
    BY <1>1
  <2>2. Exact(regime, higher) - Exact(regime, lower) \in 0 .. 30 * (higher - lower)
    BY <1>1, <1>3, <2>1 DEF Exact, Between, Above
  <2>. QED BY <2>2, TaxTruncated
<1>. QED BY <1>2, <1>3 DEF Regimes

(* Tax and surcharge at a rate.                                            *)
Plus(tax, rate) == tax + (tax * rate) \div 100
Rates == {0, 10, 15, 25, 37}

(* Within a step they rise by no more than the income and a paisa.         *)
LEMMA PlusRises ==
  ASSUME NEW rate \in Rates, NEW low \in Nat, NEW high \in Nat, NEW more \in Nat,
         low <= high, high <= low + 30 * more
  PROVE  /\ Plus(low \div 100, rate) <= Plus(high \div 100, rate)
         /\ Plus(high \div 100, rate) <= Plus(low \div 100, rate) + more + 1
<1>1. CASE rate = 0
  BY <1>1 DEF Plus
<1>2. CASE rate = 10
  BY <1>2 DEF Plus
<1>3. CASE rate = 15
  BY <1>3 DEF Plus
<1>4. CASE rate = 25
  BY <1>4 DEF Plus
<1>5. CASE rate = 37
  BY <1>5 DEF Plus
<1>. QED BY <1>1, <1>2, <1>3, <1>4, <1>5 DEF Rates

(* The thresholds of the surcharge, and its rate above them.               *)
Threshold(k) == SURCHARGE[k].limit
Percent(regime, i) ==
  CASE i = 0 -> 0 [] i = 1 -> 10 [] i = 2 -> 15 [] i = 3 -> 25
    [] i = 4 -> IF regime = "NEW" THEN 25 ELSE 37

(* Tax and surcharge at a threshold, with the surcharge due there.         *)
Height(regime, k) == Plus(Tax(regime, Threshold(k)), Percent(regime, k - 1))

(* The thresholds lie at fifty lakh, one, two and five crore.              *)
LEMMA Thresholds ==
  /\ Lakh \in Nat \ {0}
  /\ Threshold(1) = 50 * Lakh /\ Threshold(2) = 100 * Lakh
  /\ Threshold(3) = 200 * Lakh /\ Threshold(4) = 500 * Lakh
  /\ \A regime, i : i \in 0 .. 4 => Percent(regime, i) \in Rates
BY DirectTaxAssumption DEF Threshold, SURCHARGE, Slab, Percent, Rates

(* From one threshold to the next tax and surcharge rise by less than the  *)
(* income does, so that relief is used up when the next one is reached.    *)
LEMMA HeightsRise ==
  ASSUME NEW regime \in Regimes
  PROVE  /\ \A k \in 1 .. 4 : Height(regime, k) \in Nat /\ Threshold(k) \in Nat
         /\ \A k \in 1 .. 3 :
              /\ Height(regime, k) <= Height(regime, k + 1)
              /\ Height(regime, k + 1) <= Height(regime, k) + (Threshold(k + 1) - Threshold(k))
<1>1. PICK n \in Nat \ {0} : Lakh = 200 * n
  BY LakhIsEven
<1>2. CASE regime = "NEW"
  <2>1. /\ Exact(regime, 50 * Lakh) = 1190 * Lakh /\ Exact(regime, 100 * Lakh) = 2690 * Lakh
        /\ Exact(regime, 200 * Lakh) = 5690 * Lakh /\ Exact(regime, 500 * Lakh) = 14690 * Lakh
    BY <1>1, <1>2 DEF Exact, Between, Above
  <2>2. /\ Tax(regime, Threshold(1)) = 2380 * n /\ Tax(regime, Threshold(2)) = 5380 * n
        /\ Tax(regime, Threshold(3)) = 11380 * n /\ Tax(regime, Threshold(4)) = 29380 * n
    <3>1. /\ 50 * Lakh \in Nat /\ 100 * Lakh \in Nat /\ 200 * Lakh \in Nat /\ 500 * Lakh \in Nat
      BY <1>1
    <3>2. /\ Tax(regime, Threshold(1)) = (1190 * Lakh) \div 100
          /\ Tax(regime, Threshold(2)) = (2690 * Lakh) \div 100
          /\ Tax(regime, Threshold(3)) = (5690 * Lakh) \div 100
          /\ Tax(regime, Threshold(4)) = (14690 * Lakh) \div 100
      BY <2>1, <3>1, Thresholds, TaxTruncated
    <3>. QED BY <1>1, <3>2
  <2>3. /\ Height(regime, 1) = 2380 * n /\ Height(regime, 2) = 5918 * n
        /\ Height(regime, 3) = 13087 * n /\ Height(regime, 4) = 36725 * n
    BY <2>2 DEF Height, Plus, Percent
  <2>. QED BY <1>1, <2>3, Thresholds
<1>3. CASE regime = "OLD"
  <2>1. /\ 2 * Exact(regime, 50 * Lakh) = 2625 * Lakh /\ 2 * Exact(regime, 100 * Lakh) = 5625 * Lakh
        /\ 2 * Exact(regime, 200 * Lakh) = 11625 * Lakh
        /\ 2 * Exact(regime, 500 * Lakh) = 29625 * Lakh
    BY <1>1, <1>3 DEF Exact, Between, Above
  <2>2. /\ Tax(regime, Threshold(1)) = 2625 * n /\ Tax(regime, Threshold(2)) = 5625 * n
        /\ Tax(regime, Threshold(3)) = 11625 * n /\ Tax(regime, Threshold(4)) = 29625 * n
    <3>1. /\ 50 * Lakh \in Nat /\ 100 * Lakh \in Nat /\ 200 * Lakh \in Nat /\ 500 * Lakh \in Nat
      BY <1>1
    <3>2. /\ Tax(regime, Threshold(1)) = Exact(regime, 50 * Lakh) \div 100
          /\ Tax(regime, Threshold(2)) = Exact(regime, 100 * Lakh) \div 100
          /\ Tax(regime, Threshold(3)) = Exact(regime, 200 * Lakh) \div 100
          /\ Tax(regime, Threshold(4)) = Exact(regime, 500 * Lakh) \div 100
          /\ Exact(regime, 50 * Lakh) \in Nat /\ Exact(regime, 100 * Lakh) \in Nat
          /\ Exact(regime, 200 * Lakh) \in Nat /\ Exact(regime, 500 * Lakh) \in Nat
      BY <3>1, Thresholds, TaxTruncated
    <3>. QED BY <1>1, <2>1, <3>2
  <2>3. /\ Height(regime, 1) = 2625 * n /\ Height(regime, 2) = 5625 * n + (5625 * n * 10) \div 100
        /\ Height(regime, 3) = 11625 * n + (11625 * n * 15) \div 100
        /\ Height(regime, 4) = 29625 * n + (29625 * n * 25) \div 100
    BY <2>2 DEF Height, Plus, Percent
  <2>. QED BY <1>1, <2>3, Thresholds
<1>. QED BY <1>2, <1>3 DEF Regimes

(* The i-th step of n: what an income above the i-th threshold and no      *)
(* other bears.  On the ground, step 0, there may be a rebate.             *)
OnStep(regime, n, i, income, total) ==
  /\ i > 0 =>
       /\ Threshold(i) < income
       /\ total = Lesser(Plus(Tax(regime, income), Percent(regime, i)),
                         Height(regime, i) + (income - Threshold(i)))
  /\ i = 0 =>
       /\ total \in 0 .. Tax(regime, income)
       /\ income > 7 * Lakh => total = Tax(regime, income)
  /\ i < n => income <= Threshold(i + 1)

(* A step begins at the height of its threshold, and rises no faster than  *)
(* the income.                                                             *)
LEMMA AboveThreshold ==
  ASSUME NEW regime \in Regimes, NEW n \in {3, 4}, NEW i \in 1 .. n, NEW income \in Nat, NEW total,
         OnStep(regime, n, i, income, total)
  PROVE  /\ total \in Nat
         /\ Height(regime, i) <= total
         /\ total <= Height(regime, i) + (income - Threshold(i))
<1>1. PICK h \in Nat, t \in Nat : h = Height(regime, i) /\ t = Threshold(i) /\ t < income
  BY HeightsRise DEF OnStep
<1>2. PICK low \in Nat, high \in Nat :
        /\ Tax(regime, t) = low \div 100 /\ Tax(regime, income) = high \div 100
        /\ low <= high /\ high <= low + 30 * (income - t)
  <2>1. t <= income
    BY <1>1
  <2>2. /\ Tax(regime, t) = Exact(regime, t) \div 100
        /\ Tax(regime, income) = Exact(regime, income) \div 100
        /\ Exact(regime, t) \in Nat /\ Exact(regime, income) \in Nat
        /\ Exact(regime, t) <= Exact(regime, income)
        /\ Exact(regime, income) <= Exact(regime, t) + 30 * (income - t)
    BY <2>1, TaxTruncated, ExactRises
  <2>. QED BY <2>2
<1>3. PICK before \in Rates, rate \in Rates :
        /\ before = Percent(regime, i - 1) /\ rate = Percent(regime, i) /\ before <= rate
  <2>1. i - 1 \in 0 .. 4 /\ i \in 0 .. 4
    OBVIOUS
  <2>2. Percent(regime, i - 1) <= Percent(regime, i)
    BY DEF Percent
  <2>. QED BY <2>1, <2>2, Thresholds
<1>4. h = Plus(low \div 100, before)
  BY <1>1, <1>2, <1>3 DEF Height
<1>5. Plus(low \div 100, before) <= Plus(low \div 100, rate)
  <2>1. PICK tax \in Nat : tax = low \div 100
    OBVIOUS
  <2>2. before \in Nat /\ rate \in Nat /\ tax * before \in Int /\ tax * rate \in Int
    BY DEF Rates
  <2>3. tax * before <= tax * rate
    BY <1>3, <2>2, ProductsKeepOrder
  <2>4. (tax * before) \div 100 <= (tax * rate) \div 100
    BY <2>2, <2>3, PartsKeepOrder
  <2>. QED BY <2>1, <2>2, <2>4 DEF Plus
<1>6. /\ Plus(low \div 100, rate) <= Plus(high \div 100, rate)
      /\ Plus(low \div 100, rate) \in Int /\ Plus(high \div 100, rate) \in Int
  BY <1>2, <1>3 DEF Rates, Plus
<1>7. total = Lesser(Plus(high \div 100, rate), h + (income - t))
  BY <1>1, <1>2, <1>3 DEF OnStep
<1>. QED BY <1>1, <1>4, <1>5, <1>6, <1>7 DEF Lesser

(* It ends at the height of the next one, and lies below it by no more     *)
(* than the income and a paisa.                                            *)
LEMMA BelowThreshold ==
  ASSUME NEW regime \in Regimes, NEW n \in {3, 4}, NEW i \in 0 .. n, i < n, NEW income \in Nat,
         NEW total, OnStep(regime, n, i, income, total)
  PROVE  /\ total \in Nat
         /\ total <= Height(regime, i + 1)
         /\ income > 7 * Lakh =>
              Height(regime, i + 1) <= total + (Threshold(i + 1) - income) + 1
<1>1. PICK h \in Nat, t \in Nat : h = Height(regime, i + 1) /\ t = Threshold(i + 1) /\ income <= t
  <2>1. i + 1 \in 1 .. 4
    OBVIOUS
  <2>. QED BY <2>1, HeightsRise DEF OnStep
<1>2. PICK low \in Nat, high \in Nat :
        /\ Tax(regime, income) = low \div 100 /\ Tax(regime, t) = high \div 100
        /\ low <= high /\ high <= low + 30 * (t - income)
  <2>1. /\ Tax(regime, t) = Exact(regime, t) \div 100
        /\ Tax(regime, income) = Exact(regime, income) \div 100
        /\ Exact(regime, t) \in Nat /\ Exact(regime, income) \in Nat
        /\ Exact(regime, income) <= Exact(regime, t)
        /\ Exact(regime, t) <= Exact(regime, income) + 30 * (t - income)
    BY <1>1, TaxTruncated, ExactRises
  <2>. QED BY <2>1
<1>3. PICK rate \in Rates : rate = Percent(regime, i)
  BY Thresholds
<1>4. h = Plus(high \div 100, rate)
  BY <1>1, <1>2, <1>3 DEF Height
<1>5. /\ Plus(low \div 100, rate) <= Plus(high \div 100, rate)
      /\ Plus(high \div 100, rate) <= Plus(low \div 100, rate) + (t - income) + 1
      /\ Plus(low \div 100, rate) \in Nat
  <2>1. Plus(low \div 100, rate) \in Nat
    BY DEF Plus, Rates
  <2>2. t - income \in Nat
    BY <1>1
  <2>. QED BY <1>2, <2>1, <2>2, PlusRises
<1>6. CASE i = 0
  <2>1. rate = 0 /\ Plus(low \div 100, 0) = low \div 100
    BY <1>3, <1>6 DEF Percent, Plus
  <2>2. total \in 0 .. (low \div 100) /\ (income > 7 * Lakh => total = low \div 100)
    BY <1>2, <1>6 DEF OnStep
  <2>. QED BY <1>1, <1>4, <1>5, <2>1, <2>2
<1>7. CASE i > 0
  <2>1. i \in 1 .. n /\ i \in 1 .. 3
    BY <1>7
  <2>2. /\ total \in Nat /\ Height(regime, i) <= total
        /\ total <= Height(regime, i) + (income - Threshold(i))
    BY <2>1, AboveThreshold
  <2>3. PICK g \in Nat, s \in Nat :
          g = Height(regime, i) /\ s = Threshold(i) /\ h <= g + (t - s) /\ s < income
    BY <1>1, <1>7, <2>1, HeightsRise DEF OnStep
  <2>4. total = Lesser(Plus(low \div 100, rate), g + (income - s))
    BY <1>2, <1>3, <1>7, <2>3 DEF OnStep
  <2>. QED BY <1>1, <1>4, <1>5, <2>2, <2>3, <2>4 DEF Lesser
<1>. QED BY <1>6, <1>7

(* On one step they rise by no more than the income and a paisa.           *)
LEMMA WithinStep ==
  ASSUME NEW regime \in Regimes, NEW n \in {3, 4}, NEW i \in 0 .. n,
         NEW lower \in Nat, NEW higher \in Nat, lower <= higher,
         NEW low, OnStep(regime, n, i, lower, low), NEW high, OnStep(regime, n, i, higher, high)
  PROVE  /\ i > 0 => low <= high
         /\ lower > 7 * Lakh => low <= high /\ high <= low + (higher - lower) + 1
<1>1. PICK a \in Nat, b \in Nat :
        /\ Tax(regime, lower) = a \div 100 /\ Tax(regime, higher) = b \div 100
        /\ a <= b /\ b <= a + 30 * (higher - lower)
  <2>1. /\ Tax(regime, lower) = Exact(regime, lower) \div 100
        /\ Tax(regime, higher) = Exact(regime, higher) \div 100
        /\ Exact(regime, lower) \in Nat /\ Exact(regime, higher) \in Nat
        /\ Exact(regime, lower) <= Exact(regime, higher)
        /\ Exact(regime, higher) <= Exact(regime, lower) + 30 * (higher - lower)
    BY TaxTruncated, ExactRises
  <2>. QED BY <2>1
<1>2. PICK rate \in Rates : rate = Percent(regime, i)
  BY Thresholds
<1>3. /\ Plus(a \div 100, rate) <= Plus(b \div 100, rate)
      /\ Plus(b \div 100, rate) <= Plus(a \div 100, rate) + (higher - lower) + 1
      /\ Plus(a \div 100, rate) \in Nat /\ Plus(b \div 100, rate) \in Nat
  <2>1. Plus(a \div 100, rate) \in Nat /\ Plus(b \div 100, rate) \in Nat
    BY DEF Plus, Rates
  <2>2. higher - lower \in Nat
    OBVIOUS
  <2>. QED BY <1>1, <2>1, <2>2, PlusRises
<1>4. CASE i = 0
  <2>1. rate = 0 /\ Plus(a \div 100, 0) = a \div 100 /\ Plus(b \div 100, 0) = b \div 100
    BY <1>2, <1>4 DEF Percent, Plus
  <2>2. /\ lower > 7 * Lakh => low = a \div 100
        /\ higher > 7 * Lakh => high = b \div 100
    BY <1>1, <1>4 DEF OnStep
  <2>. QED BY <1>3, <1>4, <2>1, <2>2, Thresholds
<1>5. CASE i > 0
  <2>1. PICK g \in Nat, s \in Nat : g = Height(regime, i) /\ s = Threshold(i)
    BY <1>5, HeightsRise
  <2>2. /\ low = Lesser(Plus(a \div 100, rate), g + (lower - s))
        /\ high = Lesser(Plus(b \div 100, rate), g + (higher - s))
    BY <1>1, <1>2, <1>5, <2>1 DEF OnStep
  <2>. QED BY <1>3, <2>1, <2>2 DEF Lesser
<1>. QED BY <1>4, <1>5

(* From step to step they never fall, and above the rebate never rise by   *)
(* more than the income and a paisa.                                       *)
LEMMA StepsNeverJump ==
  ASSUME NEW regime \in Regimes, NEW n \in {3, 4}, NEW i \in 0 .. n, NEW j \in 0 .. n,
         NEW lower \in Nat, NEW higher \in Nat, lower <= higher,
         NEW low, OnStep(regime, n, i, lower, low), NEW high, OnStep(regime, n, j, higher, high)
  PROVE  /\ i > 0 \/ j > 0 \/ lower > 7 * Lakh => low <= high
         /\ lower > 7 * Lakh => high <= low + (higher - lower) + 1
<1>1. CASE i = j
  BY <1>1, WithinStep
<1>2. CASE i < j
  <2>1. i < n /\ j \in 1 .. n /\ i + 1 \in 1 .. j /\ j \in 1 .. 4
    BY <1>2
  <2>2. PICK g \in Nat, s \in Nat, h \in Nat, t \in Nat :
          /\ g = Height(regime, i + 1) /\ s = Threshold(i + 1)
          /\ h = Height(regime, j) /\ t = Threshold(j)
          /\ g <= h /\ h <= g + (t - s)
    <3>. DEFINE H(k) == Height(regime, k)
                T(k) == Threshold(k)
    <3>1. /\ H(1) \in Nat /\ H(2) \in Nat /\ H(3) \in Nat /\ H(4) \in Nat
          /\ T(1) \in Nat /\ T(2) \in Nat /\ T(3) \in Nat /\ T(4) \in Nat
      BY HeightsRise
    <3>2. \A k \in 1 .. 3 : H(k) <= H(k + 1) /\ H(k + 1) <= H(k) + (T(k + 1) - T(k))
      BY HeightsRise
    <3>. HIDE DEF H, T
    <3>3. /\ H(1) <= H(2) /\ H(2) <= H(1) + (T(2) - T(1))
          /\ H(2) <= H(3) /\ H(3) <= H(2) + (T(3) - T(2))
          /\ H(3) <= H(4) /\ H(4) <= H(3) + (T(4) - T(3))
      BY <3>2
    <3>4. i \in {0, 1, 2, 3} /\ j \in {1, 2, 3, 4}
      BY <1>2, <2>1
    <3>5. /\ H(i + 1) \in Nat /\ T(i + 1) \in Nat /\ H(j) \in Nat /\ T(j) \in Nat
          /\ H(i + 1) <= H(j) /\ H(j) <= H(i + 1) + (T(j) - T(i + 1))
      <4>1. CASE i = 0
        BY <1>2, <3>1, <3>3, <3>4, <4>1
      <4>2. CASE i = 1
        BY <1>2, <3>1, <3>3, <3>4, <4>2
      <4>3. CASE i = 2
        BY <1>2, <3>1, <3>3, <3>4, <4>3
      <4>4. CASE i = 3
        BY <1>2, <3>1, <3>3, <3>4, <4>4
      <4>. QED BY <3>4, <4>1, <4>2, <4>3, <4>4
    <3>. QED BY <3>5 DEF H, T
  <2>3. low \in Nat /\ low <= g /\ (lower > 7 * Lakh => g <= low + (s - lower) + 1)
    BY <2>1, <2>2, BelowThreshold
  <2>4. high \in Nat /\ h <= high /\ high <= h + (higher - t)
    BY <2>1, <2>2, AboveThreshold
  <2>. QED BY <2>2, <2>3, <2>4
<1>3. CASE j < i
  <2>1. j < n /\ i \in 1 .. 4 /\ j + 1 \in 1 .. i
    BY <1>3
  <2>2. higher <= Threshold(j + 1) /\ Threshold(i) < lower
    BY <1>3, <2>1 DEF OnStep
  <2>3. Threshold(j + 1) <= Threshold(i)
    BY <2>1, Thresholds
  <2>4. Threshold(j + 1) \in Nat /\ Threshold(i) \in Nat
    BY <2>1, HeightsRise
  <2>. QED BY <2>2, <2>3, <2>4
<1>. QED BY <1>1, <1>2, <1>3

(* Relief leaves the lesser of the full surcharge and what the threshold   *)
(* permits.                                                                *)
LEMMA Relieved ==
  ASSUME NEW income \in Nat, NEW tax \in Nat, NEW slabs, NEW rate \in Rates,
         NEW limit \in Nat \ {0}, NEW prior \in Rates, NEW at \in Nat, at = SlabTax(limit, slabs)
  PROVE  /\ RelievedSurcharge(income, tax, slabs, Band(rate, limit, prior)) \in Int
         /\ tax + RelievedSurcharge(income, tax, slabs, Band(rate, limit, prior)) =
              Lesser(Plus(tax, rate), Plus(at, prior) + (income - limit))
<1>1. PICK full \in Int, due \in Int : full = (tax * rate) \div 100 /\ due = (at * prior) \div 100
  BY DEF Rates
<1>2. Band(rate, limit, prior) # NoBand
  BY DEF Band, NoBand, Open
<1>3. RelievedSurcharge(income, tax, slabs, Band(rate, limit, prior)) =
        full - NotNegative(tax + full - (at + due + (income - limit)))
  <2>1. /\ Band(rate, limit, prior).rate = rate /\ Band(rate, limit, prior).limit = limit
        /\ Band(rate, limit, prior).prior = prior
    BY DEF Band
  <2>. QED BY <1>1, <1>2, <2>1 DEF RelievedSurcharge
<1>4. Plus(tax, rate) = tax + full /\ Plus(at, prior) = at + due
  BY <1>1 DEF Plus
<1>. QED BY <1>3, <1>4 DEF NotNegative, Greater, Lesser

(* Without a band there is no surcharge.                                   *)
LEMMA NoSurcharge ==
  \A income, tax, slabs : RelievedSurcharge(income, tax, slabs, NoBand) = 0
BY DEF RelievedSurcharge

(* Tax and surcharge on the i-th step, as either engine works them out.    *)
LEMMA RelievedOnStep ==
  ASSUME NEW regime \in Regimes, NEW n \in {3, 4}, NEW i \in 1 .. n, NEW income \in Nat,
         Threshold(i) < income, i < n => income <= Threshold(i + 1),
         NEW band, band = Band(Percent(regime, i), Threshold(i), Percent(regime, i - 1)),
         NEW surcharge,
         surcharge = RelievedSurcharge(income, Tax(regime, income), SlabsOf("2025-26", regime), band)
  PROVE  /\ surcharge \in Int
         /\ OnStep(regime, n, i, income, Tax(regime, income) + surcharge)
<1>1. PICK limit \in Nat \ {0}, rate \in Rates, prior \in Rates :
        limit = Threshold(i) /\ rate = Percent(regime, i) /\ prior = Percent(regime, i - 1)
  <2>1. i \in 1 .. 4 /\ i \in 0 .. 4 /\ i - 1 \in 0 .. 4
    OBVIOUS
  <2>2. Threshold(i) \in Nat \ {0}
    BY <2>1, Thresholds
  <2>. QED BY <2>1, <2>2, Thresholds
<1>2. PICK tax \in Nat, at \in Nat : tax = Tax(regime, income) /\ at = Tax(regime, limit)
  BY TaxTruncated
<1>3. at = SlabTax(limit, SlabsOf("2025-26", regime))
  BY <1>2 DEF Tax
<1>4. /\ surcharge \in Int
      /\ tax + surcharge = Lesser(Plus(tax, rate), Plus(at, prior) + (income - limit))
  BY <1>1, <1>2, <1>3, Relieved
<1>5. Height(regime, i) = Plus(at, prior)
  BY <1>1, <1>2 DEF Height
<1>. QED BY <1>1, <1>2, <1>4, <1>5 DEF OnStep

(* Tax and surcharge by tax.py, and how many steps it has.                 *)
PlainTotal(regime, income) ==
  LET c == CalculateIncomeTax(income, regime) IN c.base_tax + c.surcharge
PlainSteps(regime) == IF regime = "NEW" THEN 3 ELSE 4

(* Every income is on one of them (calculate_income_tax).                  *)
LEMMA PlainOnStep ==
  ASSUME NEW regime \in Regimes, NEW income \in Nat
  PROVE  \E i \in 0 .. PlainSteps(regime) :
           /\ OnStep(regime, PlainSteps(regime), i, income, PlainTotal(regime, income))
           /\ i = 0 => PlainTotal(regime, income) =
                         IF regime = "NEW" /\ income <= 7 * Lakh THEN 0 ELSE Tax(regime, income)
<1>1. PICK n \in {3, 4} : n = PlainSteps(regime)
  BY DEF PlainSteps
<1>2. PICK tax, rebate, surcharge :
        /\ tax \in Nat /\ rebate \in Nat /\ tax = Tax(regime, income)
        /\ rebate = IF regime = "NEW" /\ income <= 7 * Lakh THEN tax ELSE 0
        /\ surcharge = RelievedSurcharge(income, tax - rebate, SlabsOf("2025-26", regime),
                                         SurchargeBand(income, regime))
        /\ PlainTotal(regime, income) = (tax - rebate) + surcharge
  <2>1. PICK tax \in Nat : tax = Tax(regime, income)
    BY TaxTruncated
  <2>2. PICK rebate \in Nat : rebate = IF regime = "NEW" /\ income <= 7 * Lakh THEN tax ELSE 0
    OBVIOUS
  <2>. QED BY <2>1, <2>2 DEF PlainTotal, CalculateIncomeTax, Tax
<1>3. CASE income <= 50 * Lakh
  <2>1. SurchargeBand(income, regime) = NoBand
    BY <1>3, Thresholds DEF SurchargeBand
  <2>2. surcharge = 0
    BY <1>2, <2>1, NoSurcharge
  <2>3. PlainTotal(regime, income) = tax - rebate
    BY <1>2, <2>2
  <2>4. OnStep(regime, n, 0, income, PlainTotal(regime, income))
    BY <1>2, <1>3, <2>3, Thresholds DEF OnStep
  <2>. QED BY <1>1, <1>2, <2>3, <2>4
<1>4. CASE income > 50 * Lakh
  <2>1. PICK i \in 1 .. n :
          /\ Threshold(i) < income /\ (i < n => income <= Threshold(i + 1))
          /\ SurchargeBand(income, regime) =
               Band(Percent(regime, i), Threshold(i), Percent(regime, i - 1))
    <3>1. CASE income <= 100 * Lakh
      <4>1. SurchargeBand(income, regime) = Band(10, 50 * Lakh, 0)
        BY <1>4, <3>1, Thresholds DEF SurchargeBand
      <4>2. Percent(regime, 1) = 10 /\ Percent(regime, 0) = 0
        BY DEF Percent
      <4>3. 1 \in 1 .. n /\ 1 + 1 = 2 /\ 1 - 1 = 0
        OBVIOUS
      <4>. QED BY <1>4, <3>1, <4>1, <4>2, <4>3, Thresholds
    <3>2. CASE income > 100 * Lakh /\ income <= 200 * Lakh
      <4>1. SurchargeBand(income, regime) = Band(15, 100 * Lakh, 10)
        BY <3>2, Thresholds DEF SurchargeBand
      <4>2. Percent(regime, 2) = 15 /\ Percent(regime, 1) = 10
        BY DEF Percent
      <4>3. 2 \in 1 .. n /\ 2 + 1 = 3 /\ 2 - 1 = 1
        OBVIOUS
      <4>. QED BY <3>2, <4>1, <4>2, <4>3, Thresholds
    <3>3. CASE income > 200 * Lakh /\ (income <= 500 * Lakh \/ regime = "NEW")
      <4>1. SurchargeBand(income, regime) = Band(25, 200 * Lakh, 15)
        BY <3>3, Thresholds DEF SurchargeBand
      <4>2. Percent(regime, 3) = 25 /\ Percent(regime, 2) = 15
        BY DEF Percent
      <4>3. 3 \in 1 .. n /\ 3 + 1 = 4 /\ 3 - 1 = 2 /\ (3 < n => regime # "NEW")
        BY <1>1 DEF PlainSteps
      <4>. QED BY <3>3, <4>1, <4>2, <4>3, Thresholds
    <3>4. CASE income > 500 * Lakh /\ regime # "NEW"
      <4>1. SurchargeBand(income, regime) = Band(37, 500 * Lakh, 25)
        BY <3>4, Thresholds DEF SurchargeBand
      <4>2. Percent(regime, 4) = 37 /\ Percent(regime, 3) = 25
        BY <3>4 DEF Percent
      <4>3. n = 4 /\ 4 \in 1 .. n /\ 4 - 1 = 3
        BY <1>1, <3>4 DEF PlainSteps
      <4>. QED BY <3>4, <4>1, <4>2, <4>3, Thresholds
    <3>. QED BY <1>4, <3>1, <3>2, <3>3, <3>4, Thresholds
  <2>2. rebate = 0 /\ tax - rebate = tax
    BY <1>2, <1>4, Thresholds
  <2>3. surcharge \in Int /\ OnStep(regime, n, i, income, tax + surcharge)
    BY <1>2, <2>1, <2>2, RelievedOnStep
  <2>4. i \in 0 .. n /\ i # 0 /\ PlainTotal(regime, income) = tax + surcharge
    BY <1>2, <2>2
  <2>. QED BY <1>1, <2>3, <2>4
<1>. QED BY <1>3, <1>4, Thresholds

(* Tax and surcharge by income_tax_rules.                                  *)
RulesTotal(regime, income) ==
  LET c == Calculate("2025-26", regime, TRUE, income, 0, 0, 0, 0, 0)
  IN  (c.slab_tax - c.rebate) + c.surcharge
RulesRebate(regime, income) ==
  IF income <= RebateLimit("2025-26", regime)
    THEN Lesser(Tax(regime, income), RebateMax("2025-26", regime)) ELSE 0

(* The step of an income in the table of surcharges.                       *)
LEMMA RuleBands ==
  ASSUME NEW regime \in Regimes, NEW income \in Nat
  PROVE  /\ income <= Threshold(1) => RuleBand(income, regime) = NoBand
         /\ \A i \in 1 .. 4 :
              Threshold(i) < income /\ (i < 4 => income <= Threshold(i + 1)) =>
                RuleBand(income, regime) =
                  Band(Percent(regime, i), Threshold(i), Percent(regime, i - 1))
<1>. DEFINE below == {i \in DOMAIN SURCHARGE : income > SURCHARGE[i].limit}
            Rate(i) == IF i = 0 THEN 0
                       ELSE IF regime = "NEW" THEN Lesser(SURCHARGE[i].rate, NEW_SURCHARGE_CAP)
                       ELSE SURCHARGE[i].rate
<1>1. /\ DOMAIN SURCHARGE = 1 .. 4
      /\ SURCHARGE[1].rate = 10 /\ SURCHARGE[2].rate = 15
      /\ SURCHARGE[3].rate = 25 /\ SURCHARGE[4].rate = 37
  BY DEF SURCHARGE, Slab
<1>2. below = {i \in 1 .. 4 : Threshold(i) < income}
  <2>1. \A i \in 1 .. 4 : SURCHARGE[i].limit = Threshold(i) /\ Threshold(i) \in Nat
    BY HeightsRise DEF Threshold
  <2>. QED BY <1>1, <2>1
<1>3. RuleBand(income, regime) =
        IF below = {} THEN NoBand
        ELSE Band(Rate(Max(below)), SURCHARGE[Max(below)].limit, Rate(Max(below) - 1))
  BY DEF RuleBand
<1>4. \A i \in 0 .. 4 : Rate(i) = Percent(regime, i)
  BY <1>1 DEF Percent, Lesser, NEW_SURCHARGE_CAP
<1>. HIDE DEF below, Rate
<1>5. \A i, j \in 1 .. 4 : i <= j => Threshold(i) <= Threshold(j) /\ Threshold(j) \in Nat
  BY Thresholds
<1>6. ASSUME income <= Threshold(1) PROVE RuleBand(income, regime) = NoBand
  <2>1. below = {}
    <3>1. \A i \in 1 .. 4 : ~ Threshold(i) < income
      BY <1>6, Thresholds
    <3>. QED BY <1>2, <3>1
  <2>. QED BY <1>3, <2>1
<1>7. ASSUME NEW i \in 1 .. 4, Threshold(i) < income, i < 4 => income <= Threshold(i + 1)
      PROVE  RuleBand(income, regime) =
               Band(Percent(regime, i), Threshold(i), Percent(regime, i - 1))
  <2>1. below = 1 .. i
    <3>1. \A j \in 1 .. i : j \in 1 .. 4 /\ Threshold(j) < income
      BY <1>5, <1>7
    <3>2. \A j \in 1 .. 4 : j > i => ~ Threshold(j) < income
      BY <1>5, <1>7
    <3>. QED BY <1>2, <3>1, <3>2
  <2>2. Max(below) = i
    <3>1. i \in below /\ \A j \in below : i >= j
      BY <2>1
    <3>2. \A m \in below : (\A j \in below : m >= j) => m = i
      BY <2>1
    <3>. QED BY <3>1, <3>2 DEF Max
  <2>3. below # {} /\ i \in 0 .. 4 /\ i - 1 \in 0 .. 4 /\ SURCHARGE[i].limit = Threshold(i)
    BY <2>1 DEF Threshold
  <2>. QED BY <1>3, <1>4, <2>2, <2>3
<1>. QED BY <1>6, <1>7

(* Every income is on one of four steps (income_tax_rules.calculate).      *)
LEMMA RulesOnStep ==
  ASSUME NEW regime \in Regimes, NEW income \in Nat
  PROVE  \E i \in 0 .. 4 :
           /\ OnStep(regime, 4, i, income, RulesTotal(regime, income))
           /\ i = 0 => RulesTotal(regime, income) = Tax(regime, income) - RulesRebate(regime, income)
<1>1. Lakh \in Nat \ {0} /\ Lakh \div 4 \in Nat /\ Lakh \div 8 \in Nat
  <2>1. PICK k \in Nat \ {0} : Lakh = 200 * k
    BY LakhIsEven
  <2>. QED BY <2>1
<1>2. /\ RebateLimit("2025-26", regime) \in {5 * Lakh, 7 * Lakh}
      /\ RebateMax("2025-26", regime) \in {Lakh \div 4, Lakh \div 8}
  BY DEF RebateLimit, RebateMax, DEFAULT_RULES
<1>3. PICK tax, rebate, surcharge :
        /\ tax \in Nat /\ rebate \in Nat /\ tax = Tax(regime, income) /\ rebate = RulesRebate(regime, income) /\ rebate <= tax
        /\ income > 7 * Lakh => rebate = 0
        /\ surcharge = RelievedSurcharge(income, tax - rebate, SlabsOf("2025-26", regime),
                                         RuleBand(income, regime))
        /\ RulesTotal(regime, income) = (tax - rebate) + surcharge
  <2>1. PICK tax \in Nat : tax = Tax(regime, income)
    BY TaxTruncated
  <2>2. PICK rebate \in Nat : /\ rebate = RulesRebate(regime, income) /\ rebate <= tax
                              /\ income > 7 * Lakh => rebate = 0
    <3>1. PICK most \in Nat, limit \in Nat :
            /\ most = RebateMax("2025-26", regime) /\ limit = RebateLimit("2025-26", regime)
            /\ limit <= 7 * Lakh
      BY <1>1, <1>2
    <3>2. RulesRebate(regime, income) = IF income <= limit THEN Lesser(tax, most) ELSE 0
      BY <2>1, <3>1 DEF RulesRebate
    <3>. QED BY <1>1, <3>1, <3>2 DEF Lesser
  <2>3. PICK c : c = Calculate("2025-26", regime, TRUE, income, 0, 0, 0, 0, 0)
    OBVIOUS
  <2>4. /\ c.slab_tax = tax /\ c.rebate = rebate
        /\ c.surcharge = RelievedSurcharge(income, tax - rebate, SlabsOf("2025-26", regime),
                                           RuleBand(income, regime))
    <3>1. /\ NotNegative(0) = 0 /\ NotNegative(Lesser(0, 0)) = 0
          /\ NotNegative(income - 0) = income /\ income + 0 = income
          /\ tax - rebate + 0 = tax - rebate
      BY DEF NotNegative, Greater, Lesser
    <3>2. tax = SlabTax(income, SlabsOf("2025-26", regime))
      BY <2>1 DEF Tax
    <3>3. rebate = IF TRUE /\ income <= RebateLimit("2025-26", regime)
                     THEN Lesser(tax, RebateMax("2025-26", regime)) ELSE 0
      BY <2>1, <2>2 DEF RulesRebate
    <3>. QED BY <2>3, <3>1, <3>2, <3>3 DEF Calculate
  <2>. QED BY <2>1, <2>2, <2>3, <2>4 DEF RulesTotal
<1>4. CASE income <= Threshold(1)
  <2>1. surcharge = 0
    BY <1>3, <1>4, RuleBands, NoSurcharge
  <2>2. RulesTotal(regime, income) = tax - rebate
    BY <1>3, <2>1
  <2>3. OnStep(regime, 4, 0, income, RulesTotal(regime, income))
    BY <1>3, <1>4, <2>2 DEF OnStep
  <2>. QED BY <1>3, <2>2, <2>3
<1>5. CASE income > Threshold(1)
  <2>1. PICK i \in 1 .. 4 : Threshold(i) < income /\ (i < 4 => income <= Threshold(i + 1))
    BY <1>5, Thresholds
  <2>2. RuleBand(income, regime) = Band(Percent(regime, i), Threshold(i), Percent(regime, i - 1))
    BY <2>1, RuleBands
  <2>3. rebate = 0 /\ tax - rebate = tax
    BY <1>3, <1>5, Thresholds
  <2>4. surcharge \in Int /\ OnStep(regime, 4, i, income, tax + surcharge)
    BY <1>3, <2>1, <2>2, <2>3, RelievedOnStep
  <2>5. i \in 0 .. 4 /\ i # 0 /\ RulesTotal(regime, income) = tax + surcharge
    BY <1>3, <2>3
  <2>. QED BY <2>4, <2>5
<1>. QED BY <1>4, <1>5, Thresholds

(* On the ground the tax never falls either: a rebate is never less of it  *)
(* for a lower income.                                                     *)
LEMMA GroundRises ==
  ASSUME NEW regime \in Regimes, NEW lower \in Nat, NEW higher \in Nat, lower <= higher
  PROVE  /\ Tax(regime, lower) <= Tax(regime, higher)
         /\ Tax(regime, lower) - RulesRebate(regime, lower)
              <= Tax(regime, higher) - RulesRebate(regime, higher)
<1>1. PICK low \in Nat, high \in Nat :
        low = Tax(regime, lower) /\ high = Tax(regime, higher) /\ low <= high
  <2>1. /\ Exact(regime, lower) \in Nat /\ Exact(regime, higher) \in Nat
        /\ Exact(regime, lower) <= Exact(regime, higher)
        /\ Tax(regime, lower) = Exact(regime, lower) \div 100
        /\ Tax(regime, higher) = Exact(regime, higher) \div 100
    BY TaxTruncated, ExactRises
  <2>. QED BY <2>1
<1>2. PICK most \in Nat, limit \in Nat :
        most = RebateMax("2025-26", regime) /\ limit = RebateLimit("2025-26", regime)
  <2>1. PICK k \in Nat \ {0} : Lakh = 200 * k
    BY LakhIsEven
  <2>2. /\ RebateLimit("2025-26", regime) \in {5 * Lakh, 7 * Lakh}
        /\ RebateMax("2025-26", regime) \in {Lakh \div 4, Lakh \div 8}
    BY DEF RebateLimit, RebateMax, DEFAULT_RULES
  <2>. QED BY <2>1, <2>2
<1>3. /\ RulesRebate(regime, lower) = IF lower <= limit THEN Lesser(low, most) ELSE 0
      /\ RulesRebate(regime, higher) = IF higher <= limit THEN Lesser(high, most) ELSE 0
  BY <1>1, <1>2 DEF RulesRebate
<1>. QED BY <1>1, <1>3 DEF Lesser

(* What an income bears is a number.                                       *)
LEMMA TotalsAreNumbers ==
  ASSUME NEW regime \in Regimes, NEW n \in {3, 4}, NEW i \in 0 .. n, NEW income \in Nat, NEW total,
         OnStep(regime, n, i, income, total)
  PROVE  total \in Nat
<1>1. CASE i = 0
  BY <1>1, TaxTruncated DEF OnStep
<1>2. CASE i > 0
  <2>1. i \in 1 .. n
    BY <1>2
  <2>. QED BY <2>1, AboveThreshold
<1>. QED BY <1>1, <1>2

(* By tax.py a higher income never bears less, and above seven lakh more   *)
(* by at most the income and a paisa.                                      *)
LEMMA PlainNeverJumps ==
  ASSUME NEW regime \in Regimes, NEW lower \in Nat, NEW higher \in Nat, lower <= higher
  PROVE  /\ PlainTotal(regime, lower) \in Int /\ PlainTotal(regime, higher) \in Int
         /\ PlainTotal(regime, lower) <= PlainTotal(regime, higher)
         /\ lower > 7 * Lakh =>
              PlainTotal(regime, higher) <= PlainTotal(regime, lower) + (higher - lower) + 1
<1>1. PICK n \in {3, 4} : n = PlainSteps(regime)
  BY DEF PlainSteps
<1>2. PICK low, high : low = PlainTotal(regime, lower) /\ high = PlainTotal(regime, higher)
  OBVIOUS
<1>3. PICK i \in 0 .. n :
        /\ OnStep(regime, n, i, lower, low)
        /\ i = 0 => low = IF regime = "NEW" /\ lower <= 7 * Lakh THEN 0 ELSE Tax(regime, lower)
  BY <1>1, <1>2, PlainOnStep
<1>4. PICK j \in 0 .. n :
        /\ OnStep(regime, n, j, higher, high)
        /\ j = 0 => high = IF regime = "NEW" /\ higher <= 7 * Lakh THEN 0 ELSE Tax(regime, higher)
  BY <1>1, <1>2, PlainOnStep
<1>5. low \in Nat /\ high \in Nat
  BY <1>3, <1>4, TotalsAreNumbers
<1>6. /\ i > 0 \/ j > 0 \/ lower > 7 * Lakh => low <= high
      /\ lower > 7 * Lakh => high <= low + (higher - lower) + 1
  BY <1>3, <1>4, StepsNeverJump
<1>7. low <= high
  <2>1. CASE i > 0 \/ j > 0
    BY <1>6, <2>1
  <2>2. CASE i = 0 /\ j = 0
    <3>1. PICK under \in Nat, over \in Nat :
            /\ under = Tax(regime, lower) /\ over = Tax(regime, higher) /\ under <= over
      BY GroundRises, TaxTruncated
    <3>2. low \in {0, under} /\ high \in {0, over} /\ (high = 0 => low = 0 \/ over = 0)
      <4>1. Lakh \in Nat
        BY Thresholds
      <4>. QED BY <1>3, <1>4, <2>2, <3>1, <4>1
    <3>. QED BY <3>1, <3>2
  <2>. QED BY <2>1, <2>2
<1>. QED BY <1>2, <1>5, <1>6, <1>7

(* And so by income_tax_rules.                                             *)
LEMMA RulesNeverJump ==
  ASSUME NEW regime \in Regimes, NEW lower \in Nat, NEW higher \in Nat, lower <= higher
  PROVE  /\ RulesTotal(regime, lower) \in Int /\ RulesTotal(regime, higher) \in Int
         /\ RulesTotal(regime, lower) <= RulesTotal(regime, higher)
         /\ lower > 7 * Lakh =>
              RulesTotal(regime, higher) <= RulesTotal(regime, lower) + (higher - lower) + 1
<1>2. PICK low, high : low = RulesTotal(regime, lower) /\ high = RulesTotal(regime, higher)
  OBVIOUS
<1>3. PICK i \in 0 .. 4 :
        /\ OnStep(regime, 4, i, lower, low)
        /\ i = 0 => low = Tax(regime, lower) - RulesRebate(regime, lower)
  BY <1>2, RulesOnStep
<1>4. PICK j \in 0 .. 4 :
        /\ OnStep(regime, 4, j, higher, high)
        /\ j = 0 => high = Tax(regime, higher) - RulesRebate(regime, higher)
  BY <1>2, RulesOnStep
<1>5. low \in Nat /\ high \in Nat
  BY <1>3, <1>4, TotalsAreNumbers
<1>6. /\ i > 0 \/ j > 0 \/ lower > 7 * Lakh => low <= high
      /\ lower > 7 * Lakh => high <= low + (higher - lower) + 1
  BY <1>3, <1>4, StepsNeverJump
<1>7. low <= high
  <2>1. CASE i > 0 \/ j > 0
    BY <1>6, <2>1
  <2>2. CASE i = 0 /\ j = 0
    BY <1>3, <1>4, <2>2, GroundRises
  <2>. QED BY <2>1, <2>2
<1>. QED BY <1>2, <1>5, <1>6, <1>7

(* Tax and surcharge, by either engine, never fall as the income rises,    *)
(* and above the rebate never rise by more than the income and a paisa:    *)
(* marginal relief holds across every threshold, for every income and      *)
(* however many paise a lakh has (calculate_income_tax, calculate).        *)
THEOREM TaxesNeverJump == Spec => []TaxNeverJumps
<1>1. Init => TaxNeverJumps
  BY DEF Init, TaxNeverJumps
<1>2. TaxNeverJumps /\ [Next]_vars => TaxNeverJumps'
  <2>. SUFFICES ASSUME TaxNeverJumps, [Next]_vars PROVE TaxNeverJumps'
    OBVIOUS
  <2>1. CASE UNCHANGED vars
    BY <2>1 DEF vars, TaxNeverJumps
  <2>2. ASSUME ComputeIncomeTax PROVE TaxNeverJumps'
    <3>1. PICK income \in Incomes, regime \in Regimes :
            /\ request' = [kind |-> "tax", income |-> income, regime |-> regime]
            /\ answer' = [tax |-> CalculateIncomeTax(income, regime),
                          rules |-> Calculate("2025-26", regime, TRUE, income, 0, 0, 0, 0, 0)]
      BY <2>2, Zenon DEF ComputeIncomeTax, Answer
    <3>2. /\ request'.income = income /\ request'.regime = regime
          /\ answer'.tax = CalculateIncomeTax(income, regime)
          /\ answer'.rules = Calculate("2025-26", regime, TRUE, income, 0, 0, 0, 0, 0)
      BY <3>1, Zenon
    <3>3. ASSUME NEW lower \in Incomes, lower <= income
          PROVE  /\ PlainTotal(regime, lower) <= PlainTotal(regime, income)
                 /\ RulesTotal(regime, lower) <= RulesTotal(regime, income)
                 /\ lower > 7 * Lakh =>
                      /\ PlainTotal(regime, income) <= PlainTotal(regime, lower) + (income - lower) + 1
                      /\ RulesTotal(regime, income) <= RulesTotal(regime, lower) + (income - lower) + 1
      <4>1. lower \in Nat /\ income \in Nat
        BY AmountsAssumption
      <4>. QED BY <3>3, <4>1, PlainNeverJumps, RulesNeverJump
    <3>4. \A i \in Incomes : PlainTotal(regime, i) \in Int /\ RulesTotal(regime, i) \in Int
      <4>1. ASSUME NEW i \in Incomes PROVE i \in Nat /\ i <= i
        BY AmountsAssumption
      <4>. QED BY <4>1, PlainNeverJumps, RulesNeverJump
    <3>5. ASSUME NEW lower \in Incomes, lower <= income
          PROVE  LET other == CalculateIncomeTax(lower, regime)
                     there == Calculate("2025-26", regime, TRUE, lower, 0, 0, 0, 0, 0)
                     tax == CalculateIncomeTax(income, regime)
                     rules == Calculate("2025-26", regime, TRUE, income, 0, 0, 0, 0, 0)
                     plain == (tax.base_tax + tax.surcharge) - (other.base_tax + other.surcharge)
                     ruled == ((rules.slab_tax - rules.rebate) + rules.surcharge)
                                - ((there.slab_tax - there.rebate) + there.surcharge)
                 IN  /\ plain >= 0 /\ ruled >= 0
                     /\ lower > 7 * Lakh => plain <= income - lower + 1 /\ ruled <= income - lower + 1
      <4>1. PICK p, q, r, s :
              /\ p = PlainTotal(regime, lower) /\ q = PlainTotal(regime, income)
              /\ r = RulesTotal(regime, lower) /\ s = RulesTotal(regime, income)
        OBVIOUS
      <4>2. p \in Int /\ q \in Int /\ r \in Int /\ s \in Int
        BY <3>4, <3>5, <4>1
      <4>3. lower \in Int /\ income \in Int
        BY AmountsAssumption
      <4>4. /\ q - p >= 0 /\ s - r >= 0
            /\ lower > 7 * Lakh => q - p <= income - lower + 1 /\ s - r <= income - lower + 1
        BY <3>3, <3>5, <4>1, <4>2, <4>3
      <4>. QED BY <4>1, <4>4, Zenon DEF PlainTotal, RulesTotal
    <3>6. ASSUME NEW lower \in {i \in Incomes : i <= request'.income}
          PROVE  lower \in Incomes /\ lower <= income
      BY <3>2
    <3>. QED BY <3>2, <3>5, <3>6, Zenon DEF TaxNeverJumps
  <2>. QED
    BY <2>1, <2>2, KindsOfRequests DEF TaxNeverJumps
<1>. QED BY <1>1, <1>2, PTL DEF Spec

-----------------------------------------------------------------------------
(***************************************************************************)
(* Interest on advance tax.                                                *)
(***************************************************************************)

(* The base of an interest is no more for a smaller amount                 *)
(* (_rule_119a_base).                                                      *)
LEMMA BasesKeepOrder ==
  ASSUME NEW a \in Int, NEW b \in Int, a <= b
  PROVE  /\ Rule119A(a) \div 100 \in Nat /\ Rule119A(b) \div 100 \in Nat
         /\ Rule119A(a) \div 100 <= Rule119A(b) \div 100
<1>1. PICK x \in Nat, y \in Nat : x = NotNegative(a) /\ y = NotNegative(b) /\ x <= y
  BY DEF NotNegative, Greater
<1>2. Hundred \in Nat \ {0}
  BY HundredAssumption
<1>3. /\ x \div Hundred \in Nat /\ y \div Hundred \in Nat
      /\ x \div Hundred <= y \div Hundred
  <2>1. 0 \div Hundred = 0
    BY <1>2
  <2>2. 0 \div Hundred <= x \div Hundred /\ x \div Hundred <= y \div Hundred
    BY <1>1, <1>2, PartsKeepOrder
  <2>3. x \div Hundred \in Int /\ y \div Hundred \in Int
    BY <1>2
  <2>. QED BY <2>1, <2>2, <2>3
<1>4. /\ (x \div Hundred) * Hundred \in Nat /\ (y \div Hundred) * Hundred \in Nat
      /\ (x \div Hundred) * Hundred <= (y \div Hundred) * Hundred
  BY <1>2, <1>3, ProductsKeepOrder
<1>5. Rule119A(a) \in Nat /\ Rule119A(b) \in Nat /\ Rule119A(a) <= Rule119A(b)
  BY <1>1, <1>4 DEF Rule119A
<1>. QED BY <1>5

(* The interest on one installment of which so much is paid.               *)
Charge(total, inst, paid) ==
  LET shortfall == NotNegative((total * inst.due) \div 100 - paid)
  IN  IF paid < (total * inst.spared) \div 100 /\ shortfall > 0
        THEN (Rule119A(shortfall) \div 100) * inst.months ELSE 0

(* It falls as more is paid (calculater234c_interest, one turn).           *)
LEMMA ChargesFall ==
  ASSUME NEW total \in Int, NEW inst \in [due : Nat, spared : Nat, months : Nat],
         NEW less \in Int, NEW more \in Int, less <= more
  PROVE  /\ Charge(total, inst, less) \in Nat /\ Charge(total, inst, more) \in Nat
         /\ Charge(total, inst, more) <= Charge(total, inst, less)
<1>1. PICK due \in Int, spared \in Int, months \in Nat :
        /\ due = (total * inst.due) \div 100 /\ spared = (total * inst.spared) \div 100
        /\ months = inst.months
  OBVIOUS
<1>2. PICK s \in Nat, t \in Nat :
        s = NotNegative(due - less) /\ t = NotNegative(due - more) /\ t <= s
  <2>1. /\ NotNegative(due - less) \in Nat /\ NotNegative(due - more) \in Nat
        /\ NotNegative(due - more) <= NotNegative(due - less)
    BY DEF NotNegative, Greater
  <2>. QED BY <2>1
<1>3. PICK x \in Nat, y \in Nat : x = Rule119A(s) \div 100 /\ y = Rule119A(t) \div 100 /\ y <= x
  BY <1>2, BasesKeepOrder
<1>4. x * months \in Nat /\ y * months \in Nat /\ y * months <= x * months
  BY <1>3, ProductsKeepOrder
<1>5. /\ Charge(total, inst, less) = IF less < spared /\ s > 0 THEN x * months ELSE 0
      /\ Charge(total, inst, more) = IF more < spared /\ t > 0 THEN y * months ELSE 0
  BY <1>1, <1>2, <1>3 DEF Charge
<1>. QED BY <1>2, <1>4, <1>5

(* The four installments are charged one by one.                           *)
LEMMA ChargedByInstallment ==
  ASSUME NEW total, NEW paid \in [1 .. 4 -> Int]
  PROVE  Interest234C(total, paid) =
           Charge(total, Installments[1], paid[1])
           + Charge(total, Installments[2], paid[1] + paid[2])
           + Charge(total, Installments[3], paid[1] + paid[2] + paid[3])
           + Charge(total, Installments[4], paid[1] + paid[2] + paid[3] + paid[4])
<1>1. /\ paid[1] + 0 + 0 + 0 = paid[1] /\ paid[1] + paid[2] + 0 + 0 = paid[1] + paid[2]
      /\ paid[1] + paid[2] + paid[3] + 0 = paid[1] + paid[2] + paid[3]
  OBVIOUS
<1>. QED BY <1>1 DEF Interest234C, Charge

(* Every installment is one.                                               *)
LEMMA FourInstallments ==
  \A k \in 1 .. 4 : Installments[k] \in [due : Nat, spared : Nat, months : Nat]
BY DEF Installments

(* Where every date finds at least as much paid, less is charged.          *)
LEMMA PaidSoonerChargedLess ==
  ASSUME NEW total \in Int, NEW paid \in [1 .. 4 -> Int], NEW sooner \in [1 .. 4 -> Int],
         paid[1] <= sooner[1], paid[1] + paid[2] <= sooner[1] + sooner[2],
         paid[1] + paid[2] + paid[3] <= sooner[1] + sooner[2] + sooner[3],
         paid[1] + paid[2] + paid[3] + paid[4] <= sooner[1] + sooner[2] + sooner[3] + sooner[4]
  PROVE  Interest234C(total, sooner) <= Interest234C(total, paid)
<1>. DEFINE P(k) == CASE k = 1 -> paid[1] [] k = 2 -> paid[1] + paid[2]
                      [] k = 3 -> paid[1] + paid[2] + paid[3]
                      [] k = 4 -> paid[1] + paid[2] + paid[3] + paid[4]
            S(k) == CASE k = 1 -> sooner[1] [] k = 2 -> sooner[1] + sooner[2]
                      [] k = 3 -> sooner[1] + sooner[2] + sooner[3]
                      [] k = 4 -> sooner[1] + sooner[2] + sooner[3] + sooner[4]
<1>1. ASSUME NEW k \in 1 .. 4
      PROVE  /\ Charge(total, Installments[k], P(k)) \in Nat
             /\ Charge(total, Installments[k], S(k)) \in Nat
             /\ Charge(total, Installments[k], S(k)) <= Charge(total, Installments[k], P(k))
  <2>1. P(k) \in Int /\ S(k) \in Int /\ P(k) <= S(k)
    OBVIOUS
  <2>. QED BY <2>1, FourInstallments, ChargesFall
<1>2. /\ Interest234C(total, paid) =
           Charge(total, Installments[1], P(1)) + Charge(total, Installments[2], P(2))
           + Charge(total, Installments[3], P(3)) + Charge(total, Installments[4], P(4))
      /\ Interest234C(total, sooner) =
           Charge(total, Installments[1], S(1)) + Charge(total, Installments[2], S(2))
           + Charge(total, Installments[3], S(3)) + Charge(total, Installments[4], S(4))
  BY ChargedByInstallment
<1>. HIDE DEF P, S
<1>3. 1 \in 1 .. 4 /\ 2 \in 1 .. 4 /\ 3 \in 1 .. 4 /\ 4 \in 1 .. 4
  OBVIOUS
<1>. QED BY <1>1, <1>2, <1>3

(* An earlier date has no more months behind it.                           *)
LEMMA MonthsGrow ==
  ASSUME NEW from \in Int, NEW later \in [y : Int, m : 1 .. 12, d : 1 .. 31],
         NEW early \in [y : Int, m : 1 .. 12, d : 1 .. 31],
         \/ early.y < later.y
         \/ early.y = later.y /\ early.m < later.m
         \/ early.y = later.y /\ early.m = later.m /\ early.d <= later.d
  PROVE  /\ MonthsSince(from, early) \in Nat /\ MonthsSince(from, later) \in Nat
         /\ MonthsSince(from, early) <= MonthsSince(from, later)
<1>1. PICK y \in Int, m \in 1 .. 12, d \in 1 .. 31 : y = later.y /\ m = later.m /\ d = later.d
  OBVIOUS
<1>2. PICK v \in Int, n \in 1 .. 12, e \in 1 .. 31 : v = early.y /\ n = early.m /\ e = early.d
  OBVIOUS
<1>3. v < y \/ (v = y /\ n < m) \/ (v = y /\ n = m /\ e <= d)
  BY <1>1, <1>2
<1>. DEFINE Since(a, b, c) ==
       IF a < from \/ (a = from /\ b < 4) THEN 0
       ELSE Greater(1, (a - from) * 12 + (b - 4) + (IF c > 1 THEN 1 ELSE 0))
<1>4. MonthsSince(from, later) = Since(y, m, d) /\ MonthsSince(from, early) = Since(v, n, e)
  BY <1>1, <1>2 DEF MonthsSince
<1>5. Since(v, n, e) \in Nat /\ Since(y, m, d) \in Nat /\ Since(v, n, e) <= Since(y, m, d)
  BY <1>3 DEF Greater
<1>. QED BY <1>4, <1>5

(* Nor does a larger payment or an earlier return cost more                *)
(* (calculater234b_interest).                                              *)
LEMMA PaidMoreChargedLess ==
  ASSUME NEW total \in Int, NEW less \in Int, NEW more \in Int, less <= more, NEW end \in Int,
         NEW due \in [y : Int, m : 1 .. 12, d : 1 .. 31],
         NEW early \in [y : Int, m : 1 .. 12, d : 1 .. 31],
         \/ early.y < due.y
         \/ early.y = due.y /\ early.m < due.m
         \/ early.y = due.y /\ early.m = due.m /\ early.d <= due.d
  PROVE  Interest234B(total, more, end, early) <= Interest234B(total, less, end, due)
<1>1. PICK m \in Nat, n \in Nat :
        m = MonthsSince(end - 1, early) /\ n = MonthsSince(end - 1, due) /\ m <= n
  BY MonthsGrow
<1>2. PICK x \in Nat, y \in Nat :
        x = Rule119A(total - more) \div 100 /\ y = Rule119A(total - less) \div 100 /\ x <= y
  BY BasesKeepOrder
<1>3. x * m \in Nat /\ y * n \in Nat /\ x * m <= y * n
  BY <1>1, <1>2, ProductsKeepOrder
<1>4. PICK spared \in Int : spared = (total * 90) \div 100
  OBVIOUS
<1>5. /\ Interest234B(total, more, end, early) = IF more >= spared THEN 0 ELSE x * m
      /\ Interest234B(total, less, end, due) = IF less >= spared THEN 0 ELSE y * n
  BY <1>1, <1>2, <1>4 DEF Interest234B
<1>. QED BY <1>3, <1>4, <1>5

(* Advance tax that is paid sooner or in a larger amount, and a return     *)
(* that is filed sooner, never cost more interest, for every tax, payment  *)
(* and date (calculater234b_interest, calculater234c_interest).            *)
THEOREM EarlierPaymentNeverCostsMore == Spec => []EarlierPaymentCostsNoMore
<1>1. Init => EarlierPaymentCostsNoMore
  BY DEF Init, EarlierPaymentCostsNoMore
<1>2. EarlierPaymentCostsNoMore /\ [Next]_vars => EarlierPaymentCostsNoMore'
  <2>. SUFFICES ASSUME EarlierPaymentCostsNoMore, [Next]_vars PROVE EarlierPaymentCostsNoMore'
    OBVIOUS
  <2>1. CASE UNCHANGED vars
    BY <2>1 DEF vars, EarlierPaymentCostsNoMore
  <2>2. ASSUME ComputeInterest PROVE EarlierPaymentCostsNoMore'
    <3>1. PICK total \in Taxes, paid \in [1 .. 4 -> Installs], returned \in Dates :
            /\ request' = [kind |-> "interest", total |-> total, paid |-> paid, filed |-> returned]
            /\ answer' =
                 [b |-> Interest234B(total, paid[1] + paid[2] + paid[3] + paid[4], 2026, returned),
                  c |-> Interest234C(total, paid)]
      BY <2>2 DEF ComputeInterest, Answer
    <3>2. total \in Int /\ Installs \subseteq Nat /\ paid \in [1 .. 4 -> Int]
      <4>1. total \in Int /\ Installs \subseteq Nat
        BY AmountsAssumption
      <4>2. Installs \subseteq Int
        BY <4>1
      <4>3. paid \in [1 .. 4 -> Int]
        BY <4>2, Zenon
      <4>. QED BY <4>1, <4>3
    <3>3. ASSUME NEW i \in 1 .. 4, NEW j \in 1 .. 4, i < j
          PROVE  Interest234C(total, [paid EXCEPT ![i] = @ + paid[j], ![j] = 0])
                   <= Interest234C(total, paid)
      <4>1. PICK sooner : sooner = [paid EXCEPT ![i] = @ + paid[j], ![j] = 0]
        OBVIOUS
      <4>2. sooner \in [1 .. 4 -> Int] /\ \A k \in 1 .. 4 : paid[k] \in Nat
        BY <3>2, <4>1
      <4>3. \A k \in 1 .. 4 :
              sooner[k] = IF k = i THEN paid[i] + paid[j] ELSE IF k = j THEN 0 ELSE paid[k]
        BY <3>2, <3>3, <4>1
      <4>4. /\ paid[1] <= sooner[1] /\ paid[1] + paid[2] <= sooner[1] + sooner[2]
            /\ paid[1] + paid[2] + paid[3] <= sooner[1] + sooner[2] + sooner[3]
            /\ paid[1] + paid[2] + paid[3] + paid[4]
                 <= sooner[1] + sooner[2] + sooner[3] + sooner[4]
        BY <3>3, <4>2, <4>3
      <4>. QED BY <3>2, <4>1, <4>2, <4>4, PaidSoonerChargedLess
    <3>4. ASSUME NEW more \in Installs, NEW early \in Dates,
                 \/ early.y < returned.y
                 \/ early.y = returned.y /\ early.m < returned.m
                 \/ early.y = returned.y /\ early.m = returned.m /\ early.d <= returned.d
          PROVE  Interest234B(total, paid[1] + paid[2] + paid[3] + paid[4] + more, 2026, early)
                   <= Interest234B(total, paid[1] + paid[2] + paid[3] + paid[4], 2026, returned)
      <4>1. PICK advance \in Int : advance = paid[1] + paid[2] + paid[3] + paid[4]
        BY <3>2
      <4>2. /\ advance + more \in Int /\ advance <= advance + more
            /\ returned \in [y : Int, m : 1 .. 12, d : 1 .. 31]
            /\ early \in [y : Int, m : 1 .. 12, d : 1 .. 31]
        BY <3>2, AmountsAssumption
      <4>. QED BY <3>2, <3>4, <4>1, <4>2, PaidMoreChargedLess
    <3>. QED BY <3>1, <3>3, <3>4 DEF EarlierPaymentCostsNoMore
  <2>. QED
    BY <2>1, <2>2, KindsOfRequests DEF EarlierPaymentCostsNoMore
<1>. QED BY <1>1, <1>2, PTL DEF Spec

-----------------------------------------------------------------------------
(***************************************************************************)
(* Invoices whose tax the engine computed.                                 *)
(***************************************************************************)

(* An invoice of one line, as the engine computed its tax.                 *)
Computed(taxable, gst, interstate) ==
  [supplier |-> [valid |-> TRUE, state |-> 27], pan_valid |-> TRUE, age |-> 30,
   client |-> [valid |-> TRUE, state |-> IF interstate THEN 29 ELSE 27], place |-> 0,
   money_valid |-> TRUE, taxable |-> taxable, cgst |-> gst.cgst, sgst |-> gst.sgst,
   igst |-> gst.igst, other |-> 0, total |-> gst.total, credit_note |-> FALSE,
   inr |-> TRUE, lines |-> <<[quantity |-> 1, rate |-> taxable, amount |-> taxable]>>]

(* The tax is the truncated part of the value, in one amount or two halves *)
(* (calculate_gst).                                                        *)
LEMMA TaxComputed ==
  ASSUME NEW taxable \in Nat, NEW rate \in GST_SLABS, NEW interstate \in BOOLEAN,
         NEW tax, tax = (taxable * rate) \div 100
  PROVE  /\ tax \in Nat
         /\ CalculateGst(taxable, rate, interstate) =
              IF interstate
                THEN [cgst |-> 0, sgst |-> 0, igst |-> tax, total |-> taxable + tax]
                ELSE [cgst |-> tax \div 2, sgst |-> tax - tax \div 2, igst |-> 0,
                      total |-> taxable + tax]
<1>1. PICK product \in Nat : product = taxable * rate
  BY DEF GST_SLABS
<1>. QED BY <1>1 DEF CalculateGst, Truncated

(* Two halves of a tax are both there or both missing, but for a paisa.    *)
LEMMA Halves ==
  ASSUME NEW tax \in Nat
  PROVE  /\ ((tax \div 2 = 0) # (tax - tax \div 2 = 0)) <=> tax = 1
         /\ ~ Gap(tax \div 2, tax - tax \div 2) > 100
<1>1. PICK half \in Nat : half = tax \div 2 /\ 2 * half <= tax /\ tax <= 2 * half + 1
  OBVIOUS
<1>2. /\ ~ Gap(half, tax - half) > 100
      /\ tax = 1 => half = 0 /\ tax - half = 1
  BY <1>1 DEF Gap
<1>3. tax # 1 => (half = 0 /\ tax - half = 0) \/ (half # 0 /\ tax - half # 0)
  BY <1>1
<1>. QED BY <1>1, <1>2, <1>3

(* What such an invoice is found to lack (validate_invoice).               *)
LEMMA FindingsOfComputed ==
  ASSUME NEW taxable \in Nat, NEW rate \in GST_SLABS, NEW interstate \in BOOLEAN,
         NEW tax, tax = (taxable * rate) \div 100
  PROVE  ValidateInvoice(Computed(taxable, CalculateGst(taxable, rate, interstate), interstate)) =
           IF interstate /\ tax = 0 THEN {"IGST_REQUIRED"}
           ELSE IF ~interstate /\ tax = 1 THEN {"CGST_SGST_INCONSISTENT"} ELSE {}
<1>1. PICK gst : gst = CalculateGst(taxable, rate, interstate)
  OBVIOUS
<1>2. PICK d : d = Computed(taxable, gst, interstate)
  OBVIOUS
<1>3. /\ tax \in Nat
      /\ interstate => gst.cgst = 0 /\ gst.sgst = 0 /\ gst.igst = tax
      /\ ~interstate => gst.cgst = tax \div 2 /\ gst.sgst = tax - tax \div 2 /\ gst.igst = 0
      /\ gst.total = taxable + tax
  BY <1>1, TaxComputed
<1>4. PartyFindings(d) = {} /\ DateFindings(d) = {}
  BY <1>2 DEF Computed, PartyFindings, DateFindings, Unread
<1>5. TaxFindings(d) = IF ~interstate /\ tax = 1 THEN {"CGST_SGST_INCONSISTENT"} ELSE {}
  <2>1. d.cgst = gst.cgst /\ d.sgst = gst.sgst /\ d.igst = gst.igst
    BY <1>2 DEF Computed
  <2>2. CASE interstate
    BY <2>1, <2>2, <1>3 DEF TaxFindings, Gap
  <2>3. CASE ~interstate
    <3>1. /\ ((d.cgst = 0) # (d.sgst = 0)) <=> tax = 1
          /\ ~ Gap(d.cgst, d.sgst) > 100
      <4>1. d.cgst = tax \div 2 /\ d.sgst = tax - tax \div 2
        BY <2>1, <2>3, <1>3
      <4>. QED BY <1>3, <4>1, Halves, Zenon
    <3>2. d.igst = 0
      BY <2>1, <2>3, <1>3
    <3>. QED BY <3>1, <3>2, <2>3 DEF TaxFindings
  <2>. QED BY <2>2, <2>3
<1>6. PlaceFindings(d) = IF interstate /\ tax = 0 THEN {"IGST_REQUIRED"} ELSE {}
  <2>1. /\ d.supplier = [valid |-> TRUE, state |-> 27] /\ d.place = 0
        /\ d.client = [valid |-> TRUE, state |-> IF interstate THEN 29 ELSE 27]
        /\ d.igst = IF interstate THEN tax ELSE 0
    BY <1>2, <1>3 DEF Computed
  <2>2. d.supplier # NoParty /\ d.client # NoParty
    BY <2>1 DEF NoParty
  <2>3. PlaceOfSupply(d) = IF interstate THEN 29 ELSE 27
    BY <2>1 DEF PlaceOfSupply
  <2>4. PlaceOfSupply(d) # UnknownState /\ d.supplier.state = 27
    BY <2>1, <2>3 DEF UnknownState
  <2>5. CASE interstate
    <3>1. d.supplier.state # PlaceOfSupply(d) /\ d.igst = tax
      BY <2>1, <2>3, <2>4, <2>5
    <3>. QED BY <3>1, <2>2, <2>4, <2>5 DEF PlaceFindings
  <2>6. CASE ~interstate
    <3>1. d.supplier.state = PlaceOfSupply(d) /\ d.igst = 0
      BY <2>1, <2>3, <2>4, <2>6
    <3>. QED BY <3>1, <2>2, <2>4, <2>6 DEF PlaceFindings
  <2>. QED BY <2>5, <2>6
<1>7. LineFindings(d) = {}
  <2>. DEFINE amounts == [i \in DOMAIN d.lines |-> d.lines[i].amount]
  <2>1. /\ d.lines = <<[quantity |-> 1, rate |-> taxable, amount |-> taxable]>>
        /\ d.taxable = taxable
    BY <1>2 DEF Computed
  <2>2. DOMAIN d.lines = {1} /\ d.lines # <<>> /\ amounts[1] = taxable
    BY <2>1
  <2>3. SumFunction(amounts) = taxable
    <3>1. SumFunctionOnSet(amounts, {1}) = amounts[1]
      <4>1. amounts[1] \in Int
        BY <2>2
      <4>. HIDE DEF amounts
      <4>. QED BY <4>1, SumOfOne
    <3>2. DOMAIN amounts = {1}
      BY <2>2
    <3>. QED BY <3>1, <3>2, <2>2 DEF SumFunction
  <2>4. \A i \in DOMAIN d.lines :
          ~ Gap(d.lines[i].quantity * d.lines[i].rate, d.lines[i].amount) > 100
    BY <2>1, <2>2 DEF Gap
  <2>5. ~ Gap(SumFunction(amounts), d.taxable) > 100
    BY <2>1, <2>3 DEF Gap
  <2>. QED BY <2>2, <2>4, <2>5 DEF LineFindings
<1>8. /\ d.money_valid /\ d.inr /\ d.credit_note = FALSE
      /\ ~ Gap(d.taxable + d.cgst + d.sgst + d.igst + d.other, d.total) > 100
      /\ ~ d.total < 0
  <2>1. /\ d.money_valid /\ d.inr /\ d.credit_note = FALSE /\ d.taxable = taxable /\ d.other = 0
        /\ d.cgst = gst.cgst /\ d.sgst = gst.sgst /\ d.igst = gst.igst /\ d.total = gst.total
    BY <1>2 DEF Computed
  <2>2. d.taxable + d.cgst + d.sgst + d.igst + d.other = d.total /\ d.total \in Nat
    BY <2>1, <1>3
  <2>. QED BY <2>1, <2>2 DEF Gap
<1>9. ValidateInvoice(d) = TaxFindings(d) \cup PlaceFindings(d)
  <2>1. d.total < 0 <=> d.credit_note
    BY <1>8
  <2>. QED BY <1>4, <1>7, <1>8, <2>1 DEF ValidateInvoice
<1>. QED BY <1>1, <1>2, <1>5, <1>6, <1>9

(* An invoice whose tax the engine computed passes the validation, for     *)
(* every value and rate, but for a tax of a single paisa within a state    *)
(* and none between two (calculate_gst, validate_invoice).                 *)
THEOREM ComputedTaxAlwaysPasses == Spec => []ComputedTaxPasses
<1>1. Init => ComputedTaxPasses
  BY DEF Init, ComputedTaxPasses
<1>2. ComputedTaxPasses /\ [Next]_vars => ComputedTaxPasses'
  <2>. SUFFICES ASSUME ComputedTaxPasses, [Next]_vars PROVE ComputedTaxPasses'
    OBVIOUS
  <2>1. CASE UNCHANGED vars
    BY <2>1 DEF vars, ComputedTaxPasses
  <2>2. ASSUME ValidateComputed, request'.missing = {} PROVE ComputedTaxPasses'
    <3>1. PICK taxable \in Payments \ {0}, rate \in GST_SLABS, interstate \in BOOLEAN,
               missing \in SUBSET {"invoice_number"} :
            LET invoice == Computed(taxable, CalculateGst(taxable, rate, interstate), interstate)
                found == ValidateSalesInvoice(invoice, missing)
            IN  /\ request' = [kind |-> "invoice", tax |-> (taxable * rate) \div 100,
                               interstate |-> interstate, missing |-> missing]
                /\ answer' = [findings |-> found, state |-> ValidationState(found)]
      BY <2>2, Zenon DEF ValidateComputed, Answer, Computed
    <3>2. missing = {} /\ taxable \in Nat
      BY <2>2, <3>1, AmountsAssumption
    <3>3. PICK tax, findings :
            /\ tax = (taxable * rate) \div 100
            /\ findings = ValidateInvoice(
                 Computed(taxable, CalculateGst(taxable, rate, interstate), interstate))
      OBVIOUS
    <3>4. findings = IF interstate /\ tax = 0 THEN {"IGST_REQUIRED"}
                     ELSE IF ~interstate /\ tax = 1 THEN {"CGST_SGST_INCONSISTENT"} ELSE {}
      BY <3>2, <3>3, FindingsOfComputed, Zenon
    <3>5. /\ request'.tax = tax /\ request'.interstate = interstate
          /\ answer'.findings = findings /\ answer'.state = ValidationState(findings)
      <4>1. \A invoice : ValidateSalesInvoice(invoice, {}) = ValidateInvoice(invoice)
        BY DEF ValidateSalesInvoice
      <4>. QED BY <3>1, <3>2, <3>3, <4>1
    <3>6. findings = {} => answer'.state = "PASSED"
      BY <3>5 DEF ValidationState
    <3>. QED BY <3>4, <3>5, <3>6 DEF ComputedTaxPasses
  <2>. QED
    BY <2>1, <2>2, KindsOfRequests DEF ComputedTaxPasses
<1>. QED BY <1>1, <1>2, PTL DEF Spec

-----------------------------------------------------------------------------
(***************************************************************************)
(* Books, portals and uploads.                                             *)
(***************************************************************************)

(* Every line of books and portal has one match, and no two without one    *)
(* may be matched (reconcile); every purchase of an upload has one result, *)
(* no two of them one identity, a document whose identity is not matched   *)
(* has one, and none is left for a supplier whose purchase is missing      *)
(* (match_gstr2b): for lists of every length, whatever the fuzzy           *)
(* comparison says.                                                        *)
THEOREM LinesAlwaysAccounted == Spec => []LinesAccountedOnce
<1>1. Init => LinesAccountedOnce
  BY DEF Init, LinesAccountedOnce
<1>2. LinesAccountedOnce /\ [Next]_vars => LinesAccountedOnce'
  <2>. SUFFICES ASSUME LinesAccountedOnce, [Next]_vars PROVE LinesAccountedOnce'
    OBVIOUS
  <2>1. CASE UNCHANGED vars
    BY <2>1 DEF vars, LinesAccountedOnce
  <2>2. ASSUME ReconcileBooks PROVE LinesAccountedOnce'
    <3>1. PICK ours \in UpTo(Lines, Longest), portal \in UpTo(Lines, Longest) :
            /\ request' = [kind |-> "books", books |-> ours, portal |-> portal]
            /\ answer' = [matches |-> Reconcile(ours, portal, Similar),
                          summary |-> Summary(Reconcile(ours, portal, Similar), ours, portal)]
      BY <2>2, Zenon DEF ReconcileBooks, Answer
    <3>2. PICK matches : matches = Reconcile(ours, portal, Similar)
      OBVIOUS
    <3>3. /\ request'.kind = "books" /\ request'.books = ours /\ request'.portal = portal
          /\ answer'.matches = matches
      BY <3>1, <3>2
    <3>4. Longest \in Nat
      BY MatchingAssumption
    <3>5. /\ DOMAIN ours = 1 .. Len(ours) /\ Len(ours) \in Nat /\ \A i \in DOMAIN ours : ours[i] \in Lines
          /\ DOMAIN portal = 1 .. Len(portal) /\ Len(portal) \in Nat /\ \A i \in DOMAIN portal : portal[i] \in Lines
      BY <3>4, ListsUpTo
    <3>6. Comparable(ours, portal, Similar)
      <4>1. ASSUME NEW line \in Lines, NEW other \in Lines
            PROVE  line.amount \in Int /\ other.amount \in Int /\ Similar[<<line.party, other.party>>] \in Int
        <5>1. /\ line.amount \in Int /\ other.amount \in Int
              /\ Similar[<<line.party, other.party>>] \in 0 .. 100
          BY MatchingAssumption, Zenon
        <5>2. 0 .. 100 \subseteq Int
          OBVIOUS
        <5>. QED BY <5>1, <5>2, Zenon
      <4>. QED BY <3>5, <4>1, Zenon DEF Comparable
    <3>7. /\ Once(matches, "source", DOMAIN ours) /\ Once(matches, "target", DOMAIN portal)
          /\ \A i, j \in DOMAIN matches :
               matches[i].target = 0 /\ matches[j].source = 0 =>
                 ~Admissible(ours[matches[i].source], portal[matches[j].target], Similar)
      BY <3>2, <3>5, <3>6, ReconcileAccounts
    <3>. DEFINE Alone(side, other) == {matches[i][side] : i \in {i \in DOMAIN matches : matches[i][other] = 0}}
    <3>8. ASSUME NEW s \in Alone("source", "target"), NEW t \in Alone("target", "source")
          PROVE  ~Admissible(ours[s], portal[t], Similar)
      BY <3>7
    <3>9. MatchesSettled(matches, ours, portal)
      BY <3>7, <3>8 DEF MatchesSettled
    <3>. QED BY <3>3, <3>9 DEF LinesAccountedOnce
  <2>3. ASSUME MatchUpload PROVE LinesAccountedOnce'
    <3>1. PICK purchases \in UpTo(Invoices, Longest), raws \in UpTo(Portal, Longest) :
            /\ request' = [kind |-> "upload", purchases |-> purchases, raws |-> raws]
            /\ answer' = IF ParseGstr2b(raws).error # "" THEN <<>>
                         ELSE MatchGstr2b(purchases, ParseGstr2b(raws).documents, {})
      BY <2>3, Zenon DEF MatchUpload, Answer
    <3>2. /\ request'.kind = "upload" /\ request'.purchases = purchases /\ request'.raws = raws
      BY <3>1
    <3>3. CASE ParseGstr2b(raws).error # ""
      BY <3>1, <3>2, <3>3 DEF LinesAccountedOnce
    <3>4. CASE ParseGstr2b(raws).error = ""
      <4>1. PICK documents, results :
              /\ documents = ParseGstr2b(raws).documents
              /\ results = MatchGstr2b(purchases, documents, {})
        OBVIOUS
      <4>2. Longest \in Nat
        BY MatchingAssumption
      <4>3. /\ DOMAIN purchases = 1 .. Len(purchases) /\ Len(purchases) \in Nat
            /\ \A p \in 1 .. Len(purchases) : purchases[p].amount \in Int
            /\ raws \in Seq(Portal)
        BY <4>2, ListsUpTo, MatchingAssumption
      <4>4. /\ Len(documents) \in Nat /\ DOMAIN documents = 1 .. Len(documents)
            /\ \A d \in DOMAIN documents : documents[d].total \in Int
        BY <3>4, <4>1, <4>3, DocumentsRead
      <4>5. UploadSettled(results, purchases, documents)
        BY <4>1, <4>3, <4>4, UploadAccounts
      <4>6. answer' = results
        BY <3>1, <3>4, <4>1
      <4>. QED BY <3>2, <4>1, <4>5, <4>6 DEF LinesAccountedOnce
    <3>. QED BY <3>3, <3>4
  <2>. QED
    BY <2>1, <2>2, <2>3, KindsOfRequests DEF LinesAccountedOnce
<1>. QED BY <1>1, <1>2, PTL DEF Spec

-----------------------------------------------------------------------------
(***************************************************************************)
(* Vouchers and bills: sums over rearranged lists, and what is read back.  *)
(***************************************************************************)

(* The terms of one sum, in places of their own in another.                *)
Moves(f, v, S, w, T) ==
  /\ \A x \in S : f[x] \in T /\ v[x] = w[f[x]]
  /\ \A x, y \in S : f[x] = f[y] => x = y
  /\ \A y \in T : \E x \in S : f[x] = y

(* Which sum to the same.                                                  *)
LEMMA SumMoved ==
  ASSUME NEW D, NEW w \in [D -> Int], NEW E, NEW v \in [E -> Int],
         NEW S \in SUBSET E, IsFiniteSet(S), NEW T \in SUBSET D, NEW f, Moves(f, v, S, w, T)
  PROVE  SumFunctionOnSet(v, S) = SumFunctionOnSet(w, T)
<1>1. {f[x] : x \in S} = T
  BY DEF Moves
<1>2. /\ \A x \in S : f[x] \in D /\ v[x] = w[f[x]]
      /\ \A x, y \in S : f[x] = f[y] => x = y
  BY DEF Moves
<1>3. SumFunctionOnSet(v, S) = SumFunctionOnSet(w, {f[x] : x \in S})
  BY <1>2, SumRenamed
<1>. QED BY <1>1, <1>3

Alike(v, w, S) == \A x \in S : v[x] = w[x]

(* Functions that agree have the same sum.                                 *)
LEMMA SumAgreed ==
  ASSUME NEW D, NEW w \in [D -> Int], NEW v \in [D -> Int],
         NEW S \in SUBSET D, IsFiniteSet(S), Alike(v, w, S)
  PROVE  SumFunctionOnSet(v, S) = SumFunctionOnSet(w, S)
<1>. DEFINE f == [x \in S |-> x]
<1>1. /\ \A x \in S : f[x] \in D /\ v[x] = w[f[x]]
      /\ \A x, y \in S : f[x] = f[y] => x = y
      /\ {f[x] : x \in S} = S
  BY DEF Alike
<1>. HIDE DEF f
<1>. QED BY <1>1, SumRenamed

(* Terms that are zero may be left out.                                    *)
LEMMA SumOfNonzero ==
  ASSUME NEW D, NEW w \in [D -> Int], NEW S \in SUBSET D, IsFiniteSet(S)
  PROVE  SumFunctionOnSet(w, S) = SumFunctionOnSet(w, {x \in S : w[x] # 0})
<1>. DEFINE Zero == {x \in S : w[x] = 0}
            Rest == {x \in S : w[x] # 0}
<1>1. Zero \cup Rest = S /\ Zero \cap Rest = {} /\ IsFiniteSet(Zero) /\ IsFiniteSet(Rest)
  BY FS_Subset
<1>2. SumFunctionOnSet(w, Zero) = 0
  <2>. DEFINE G == {s \in SUBSET Zero : SumFunctionOnSet(w, s) = 0}
  <2>1. ASSUME NEW s \in SUBSET Zero, \A t \in SUBSET s : t # s => t \in G PROVE s \in G
    <3>0. IsFiniteSet(s)
      BY <1>1, FS_Subset
    <3>1. CASE s = {}
      BY <3>0, <3>1, SumPicked
    <3>2. CASE s # {}
      <4>1. PICK x \in s : TRUE
        BY <3>2
      <4>2. w[x] = 0 /\ SumFunctionOnSet(w, s) = w[x] + SumFunctionOnSet(w, s \ {x})
        BY <3>0, <4>1, SumTaken
      <4>3. s \ {x} \in G
        BY <2>1, <4>1
      <4>4. SumFunctionOnSet(w, s \ {x}) = 0
        BY <4>3
      <4>. QED BY <4>2, <4>4
    <3>. QED BY <3>1, <3>2
  <2>. HIDE DEF G
  <2>2. \A s \in SUBSET Zero : s \in G
    <3>. HIDE DEF Zero
    <3>. QED BY <1>1, <2>1, SubsetInduction, Zenon
  <2>3. Zero \in G
    BY <2>2
  <2>. QED BY <2>3 DEF G
<1>3. SumFunctionOnSet(w, Rest) \in Int
  BY <1>1, SumTyped
<1>4. SumFunctionOnSet(w, Zero \cup Rest) = SumFunctionOnSet(w, Zero) + SumFunctionOnSet(w, Rest)
  <2>. HIDE DEF Zero, Rest
  <2>. QED BY <1>1, SumOfParts
<1>. HIDE DEF Zero
<1>5. SumFunctionOnSet(w, S) = 0 + SumFunctionOnSet(w, Rest)
  BY <1>1, <1>2, <1>4, Zenon
<1>. HIDE DEF Rest
<1>6. SumFunctionOnSet(w, S) = SumFunctionOnSet(w, Rest)
  BY <1>3, <1>5
<1>. QED BY <1>6 DEF Rest

(* What one list has at each place another has at a place of its own, when *)
(* both have the same elements as often.                                   *)
Rearranges(h, s, t) ==
  /\ \A i \in DOMAIN s : h[i] \in DOMAIN t /\ t[h[i]] = s[i]
  /\ \A i, j \in DOMAIN s : h[i] = h[j] => i = j
  /\ \A k \in DOMAIN t : \E i \in DOMAIN s : h[i] = k

(* Lists with the same elements as often are such rearrangements.          *)
LEMMA SameBag ==
  ASSUME NEW S, NEW s \in Seq(S), NEW t \in Seq(S), ToBag(s) = ToBag(t)
  PROVE  \E h : Rearranges(h, s, t)
<1>. DEFINE At(l, x) == {i \in DOMAIN l : l[i] = x}
<1>1. /\ \A x : x \in Range(s) <=> x \in Range(t)
      /\ \A x \in Range(s) : Cardinality(At(s, x)) = Cardinality(At(t, x))
  <2>1. ToBag(s) = [x \in Range(s) |-> Cardinality(At(s, x))]
    BY DEF ToBag
  <2>2. ToBag(t) = [x \in Range(t) |-> Cardinality(At(t, x))]
    BY DEF ToBag
  <2>. HIDE DEF At
  <2>3. Range(s) = Range(t)
    BY <2>1, <2>2
  <2>. QED BY <2>1, <2>2, <2>3
<1>2. /\ \A i \in DOMAIN s : s[i] \in Range(s)
      /\ \A k \in DOMAIN t : t[k] \in Range(t)
  BY DEF Range
<1>3. \A x : IsFiniteSet(At(s, x)) /\ IsFiniteSet(At(t, x))
  <2>1. IsFiniteSet(DOMAIN s) /\ IsFiniteSet(DOMAIN t)
    <3>1. DOMAIN s = 1 .. Len(s) /\ DOMAIN t = 1 .. Len(t) /\ Len(s) \in Int /\ Len(t) \in Int
      OBVIOUS
    <3>2. IsFiniteSet(1 .. Len(s)) /\ IsFiniteSet(1 .. Len(t))
      BY <3>1, FS_Interval
    <3>. QED BY <3>1, <3>2
  <2>2. \A x : At(s, x) \subseteq DOMAIN s /\ At(t, x) \subseteq DOMAIN t
    OBVIOUS
  <2>. HIDE DEF At
  <2>. QED BY <2>1, <2>2, FS_Subset
<1>. DEFINE b(x) == CHOOSE f : f \in Bijection(At(s, x), At(t, x))
            h == [i \in DOMAIN s |-> b(s[i])[i]]
<1>4. ASSUME NEW x \in Range(s) PROVE b(x) \in Bijection(At(s, x), At(t, x))
  <2>. HIDE DEF At
  <2>1. ExistsBijection(At(s, x), At(t, x))
    BY <1>1, <1>3, FS_SameCardinalityBij
  <2>2. \E f : f \in Bijection(At(s, x), At(t, x))
    BY <2>1 DEF ExistsBijection
  <2>. QED BY <2>2
<1>5. ASSUME NEW x \in Range(s)
      PROVE  /\ \A i \in At(s, x) : b(x)[i] \in At(t, x)
             /\ \A i, j \in At(s, x) : b(x)[i] = b(x)[j] => i = j
             /\ \A k \in At(t, x) : \E i \in At(s, x) : b(x)[i] = k
  <2>. HIDE DEF At, b
  <2>1. b(x) \in Bijection(At(s, x), At(t, x))
    BY <1>4
  <2>. QED BY <2>1 DEF Bijection, Injection, Surjection, IsInjective
<1>6. ASSUME NEW i \in DOMAIN s PROVE h[i] = b(s[i])[i] /\ i \in At(s, s[i])
  OBVIOUS
<1>7. \A l, x, i : i \in At(l, x) <=> i \in DOMAIN l /\ l[i] = x
  OBVIOUS
<1>. HIDE DEF At, b, h
<1>8. ASSUME NEW i \in DOMAIN s PROVE h[i] \in DOMAIN t /\ t[h[i]] = s[i]
  BY <1>2, <1>5, <1>6, <1>7
<1>9. ASSUME NEW i \in DOMAIN s, NEW j \in DOMAIN s, h[i] = h[j] PROVE i = j
  <2>1. s[i] = s[j]
    BY <1>8, <1>9
  <2>2. i \in At(s, s[i]) /\ j \in At(s, s[i]) /\ h[i] = b(s[i])[i] /\ h[j] = b(s[i])[j]
    BY <1>6, <2>1
  <2>. QED BY <1>2, <1>5, <1>9, <2>2
<1>10. ASSUME NEW k \in DOMAIN t PROVE \E i \in DOMAIN s : h[i] = k
  <2>1. t[k] \in Range(s) /\ k \in At(t, t[k])
    BY <1>1, <1>2, <1>7
  <2>2. PICK i \in At(s, t[k]) : b(t[k])[i] = k
    BY <1>5, <2>1
  <2>3. i \in DOMAIN s /\ s[i] = t[k]
    BY <1>7, <2>2
  <2>4. h[i] = b(s[i])[i]
    BY <1>6, <2>3
  <2>. QED BY <2>2, <2>3, <2>4
<1>. QED BY <1>8, <1>9, <1>10 DEF Rearranges

(* Terms that go with the elements of a list, and those of its rearranging. *)
SameTerms(h, s, t, E, v, D, w) ==
  /\ Rearranges(h, s, t) /\ E = DOMAIN s /\ IsFiniteSet(E) /\ D = DOMAIN t
  /\ v \in [E -> Int] /\ w \in [D -> Int]
  /\ \A i \in E, k \in D : s[i] = t[k] => v[i] = w[k]

Among(E, s, X) == {i \in E : s[i] \in X}

(* What is summed over some elements of the one is summed over them in the *)
(* other.                                                                  *)
LEMMA SumRearranged ==
  ASSUME NEW s, NEW t, NEW h, NEW E, NEW D, NEW v, NEW w, SameTerms(h, s, t, E, v, D, w), NEW X
  PROVE  SumFunctionOnSet(v, Among(E, s, X)) = SumFunctionOnSet(w, Among(D, t, X))
<1>. /\ E = DOMAIN s /\ IsFiniteSet(E) /\ D = DOMAIN t
     /\ v \in [E -> Int] /\ w \in [D -> Int]
     /\ \A i \in E, k \in D : s[i] = t[k] => v[i] = w[k]
     /\ Rearranges(h, s, t)
  BY DEF SameTerms
<1>. DEFINE I == Among(E, s, X)
            K == Among(D, t, X)
<1>0. I = {i \in E : s[i] \in X} /\ K = {k \in D : t[k] \in X}
  BY DEF Among
<1>1. IsFiniteSet(I) /\ I \in SUBSET E
  BY <1>0, FS_Subset
<1>2. /\ \A i \in I : h[i] \in D /\ t[h[i]] = s[i] /\ i \in E
      /\ \A i, j \in I : h[i] = h[j] => i = j
      /\ \A k \in D : \E i \in E : h[i] = k /\ t[k] = s[i]
  <2>1. /\ \A i \in E : h[i] \in D /\ t[h[i]] = s[i]
        /\ \A i, j \in E : h[i] = h[j] => i = j
        /\ \A k \in D : \E i \in E : h[i] = k
    BY DEF Rearranges
  <2>2. \A i \in I : i \in E
    BY <1>1
  <2>3. \A k \in D : \E i \in E : h[i] = k /\ t[k] = s[i]
    BY <2>1
  <2>. HIDE DEF I
  <2>. QED BY <2>1, <2>2, <2>3
<1>3. Moves(h, v, I, w, K)
  <2>1. /\ \A i : i \in I <=> i \in E /\ s[i] \in X
        /\ \A k : k \in K <=> k \in D /\ t[k] \in X
    BY <1>0
  <2>. HIDE DEF I, K
  <2>. QED BY <1>2, <2>1 DEF Moves
<1>4. K \in SUBSET D
  BY <1>0
<1>. HIDE DEF I, K
<1>5. SumFunctionOnSet(v, I) = SumFunctionOnSet(w, K)
  BY <1>1, <1>3, <1>4, SumMoved
<1>. QED BY <1>5 DEF I, K

(* Where what is kept of a list has its place in the list.                 *)
KeptAt(p, kept, s, chosen) ==
  /\ \A k \in DOMAIN kept : p[k] \in chosen /\ kept[k] = s[p[k]]
  /\ \A j, k \in DOMAIN kept : p[j] = p[k] => j = k
  /\ \A x \in chosen : \E k \in DOMAIN kept : p[k] = x

(* Every chosen element is kept once.                                      *)
LEMMA KeptOnce ==
  ASSUME NEW S, NEW s \in Seq(S), NEW chosen \in SUBSET (1 .. Len(s))
  PROVE  /\ DOMAIN Kept(s, chosen) = 1 .. Len(Kept(s, chosen)) /\ Len(Kept(s, chosen)) \in Nat
         /\ \E p : KeptAt(p, Kept(s, chosen), s, chosen)
<1>1. chosen \cap 1 .. Len(s) = chosen
  BY Zenon
<1>0. Len(s) \in Nat
  OBVIOUS
<1>2. PICK p : p = InOrder(chosen, Len(s))
  OBVIOUS
<1>3. Ascending(p, chosen)
  BY <1>0, <1>1, <1>2, KeptInOrder, Zenon
<1>n. PICK n : n = Len(p)
  OBVIOUS
<1>4. /\ DOMAIN p = 1 .. n /\ n \in Nat /\ \A k \in 1 .. n : p[k] \in chosen
      /\ \A x \in chosen : \E k \in 1 .. n : p[k] = x
      /\ \A j, k \in 1 .. n : j < k => p[j] < p[k]
  BY <1>3, <1>n DEF Ascending
<1>5. \A x \in chosen : x \in Int
  OBVIOUS
<1>6. ASSUME NEW j \in 1 .. n, NEW k \in 1 .. n, p[j] = p[k] PROVE j = k
  <2>1. p[j] \in Int /\ p[k] \in Int
    BY <1>4, <1>5, Zenon
  <2>0. j \in Int /\ k \in Int
    BY <1>4
  <2>2. ~(j < k) /\ ~(k < j)
    BY <1>4, <1>6, <2>1
  <2>. QED BY <2>0, <2>2
<1>7. PICK kept : kept = [k \in DOMAIN p |-> s[p[k]]]
  OBVIOUS
<1>8. DOMAIN kept = 1 .. n /\ \A k \in 1 .. n : kept[k] = s[p[k]]
  BY <1>4, <1>7
<1>9. KeptAt(p, kept, s, chosen)
  BY <1>4, <1>6, <1>8 DEF KeptAt
<1>10. kept = Kept(s, chosen)
  BY <1>2, <1>7 DEF Kept
<1>11. DOMAIN kept = 1 .. Len(kept) /\ Len(kept) \in Nat
  <2>1. kept \in Seq(S)
    BY <1>10, KeptIsList
  <2>. QED BY <2>1
<1>. QED BY <1>9, <1>10, <1>11

(* The sums of two terms and of three.                                     *)
LEMMA SumOfThree ==
  ASSUME NEW n \in {2, 3}, NEW w \in [1 .. n -> Int]
  PROVE  SumFunctionOnSet(w, 1 .. n) = IF n = 2 THEN w[1] + w[2] ELSE w[1] + w[2] + w[3]
<1>. DEFINE Sum(k) == SumFunctionOnSet(w, 1 .. k)
<1>1. Sum(0) = 0
  <2>1. 1 .. 0 = {} /\ IsFiniteSet({})
    BY FS_EmptySet
  <2>. QED BY <2>1, SumPicked
<1>2. \A k \in 0 .. n - 1 : Sum(k) \in Int /\ Sum(k + 1) = Sum(k) + w[k + 1]
  <2>1. ASSUME NEW k \in 0 .. n - 1 PROVE k \in Nat /\ 1 .. (k + 1) \subseteq 1 .. n
    OBVIOUS
  <2>. QED BY <2>1, SumUpTo
<1>. HIDE DEF Sum
<1>3. w[1] \in Int /\ w[2] \in Int /\ Sum(1) = Sum(0) + w[1] /\ Sum(2) = Sum(1) + w[2]
  BY <1>2
<1>4. n = 3 => Sum(3) = Sum(2) + w[3] /\ w[3] \in Int
  BY <1>2
<1>5. Sum(n) = IF n = 2 THEN w[1] + w[2] ELSE w[1] + w[2] + w[3]
  BY <1>1, <1>3, <1>4
<1>. QED BY <1>5 DEF Sum

(* Two sums whose terms make up a third.                                   *)
InParts(D, w, A, B, f, E, u, g, F, v) ==
  /\ w \in [D -> Int] /\ u \in [E -> Int] /\ v \in [F -> Int]
  /\ IsFiniteSet(D) /\ IsFiniteSet(E) /\ IsFiniteSet(F)
  /\ A \cap B = {} /\ A \cup B = D
  /\ Moves(f, u, E, w, A) /\ Moves(g, v, F, w, B)

(* The third is the sum of the two.                                        *)
LEMMA SumInParts ==
  ASSUME NEW D, NEW w, NEW A, NEW B, NEW f, NEW E, NEW u, NEW g, NEW F, NEW v,
         InParts(D, w, A, B, f, E, u, g, F, v)
  PROVE  SumFunction(w) = SumFunction(u) + SumFunction(v)
<1>. /\ w \in [D -> Int] /\ u \in [E -> Int] /\ v \in [F -> Int]
     /\ IsFiniteSet(D) /\ IsFiniteSet(E) /\ IsFiniteSet(F)
     /\ A \cap B = {} /\ A \cup B = D /\ A \in SUBSET D /\ B \in SUBSET D
     /\ Moves(f, u, E, w, A) /\ Moves(g, v, F, w, B)
  BY DEF InParts
<1>1. IsFiniteSet(A) /\ IsFiniteSet(B)
  BY FS_Subset
<1>2. SumFunctionOnSet(u, E) = SumFunctionOnSet(w, A)
  BY SumMoved
<1>3. SumFunctionOnSet(v, F) = SumFunctionOnSet(w, B)
  BY SumMoved
<1>4. SumFunctionOnSet(w, A \cup B) = SumFunctionOnSet(w, A) + SumFunctionOnSet(w, B)
  BY <1>1, SumOfParts
<1>5. DOMAIN u = E /\ DOMAIN v = F /\ DOMAIN w = A \cup B
  OBVIOUS
<1>. QED BY <1>2, <1>3, <1>4, <1>5, Zenon DEF SumFunction

(* Sums laid end to end.                                                   *)
LEMMA SumLaidOut ==
  ASSUME NEW m \in Nat, NEW n \in Nat, NEW u \in [1 .. m -> Int], NEW v \in [1 .. n -> Int],
         NEW w \in [1 .. m + n -> Int],
         \A i \in 1 .. m : w[i] = u[i], \A i \in 1 .. n : w[m + i] = v[i]
  PROVE  SumFunction(w) = SumFunction(u) + SumFunction(v)
<1>. DEFINE A == 1 .. m
            B == m + 1 .. m + n
            e == [i \in 1 .. m |-> i]
            f == [i \in 1 .. n |-> m + i]
<1>1. A \cup B = 1 .. m + n /\ A \cap B = {}
  <2>1. \A i : i \in 1 .. m + n <=> i \in 1 .. m \/ i \in m + 1 .. m + n
    OBVIOUS
  <2>2. \A i : ~(i \in 1 .. m /\ i \in m + 1 .. m + n)
    OBVIOUS
  <2>. QED BY <2>1, <2>2, Zenon
<1>2. IsFiniteSet(1 .. m) /\ IsFiniteSet(1 .. n) /\ IsFiniteSet(1 .. m + n)
  <2>1. 1 \in Int /\ m \in Int /\ n \in Int /\ m + n \in Int
    OBVIOUS
  <2>. QED BY <2>1, FS_Interval, Zenon
<1>4. Moves(e, u, 1 .. m, w, A)
  BY DEF Moves
<1>5. Moves(f, v, 1 .. n, w, B)
  <2>1. \A i \in 1 .. n : f[i] \in B /\ v[i] = w[f[i]]
    OBVIOUS
  <2>2. \A i, j \in 1 .. n : f[i] = f[j] => i = j
    OBVIOUS
  <2>3. ASSUME NEW y \in B PROVE \E i \in 1 .. n : f[i] = y
    <3>1. y - m \in 1 .. n /\ m + (y - m) = y
      OBVIOUS
    <3>. QED BY <3>1
  <2>. HIDE DEF f, B
  <2>. QED BY <2>1, <2>2, <2>3 DEF Moves
<1>. HIDE DEF A, B, e, f
<1>3. InParts(1 .. m + n, w, A, B, e, 1 .. m, u, f, 1 .. n, v)
  BY <1>1, <1>2, <1>4, <1>5 DEF InParts
<1>. QED BY <1>3, SumInParts, SMT

(* Entries are numbers, and lists of them laid end to end sum to the two   *)
(* sums.                                                                   *)
LEMMA AmountsTyped ==
  ASSUME NEW l \in Seq(BookEntries)
  PROVE  /\ AmountsOf(l) \in [1 .. Len(l) -> Int] /\ IsFiniteSet(1 .. Len(l)) /\ Len(l) \in Nat
         /\ DOMAIN l = 1 .. Len(l) /\ DOMAIN AmountsOf(l) = 1 .. Len(l)
         /\ \A i \in 1 .. Len(l) : AmountsOf(l)[i] = l[i].amount
<1>1. /\ Len(l) \in Nat /\ DOMAIN l = 1 .. Len(l)
      /\ \A i \in 1 .. Len(l) : l[i].amount \in Int
  <2>1. \A e \in BookEntries : e.amount \in Int
    BY DEF BookEntries
  <2>. QED BY <2>1, ListFacts, Zenon
<1>2. IsFiniteSet(1 .. Len(l))
  <2>1. 1 \in Int /\ Len(l) \in Int
    BY <1>1
  <2>. QED BY <2>1, FS_Interval, Zenon
<1>. QED BY <1>1, <1>2 DEF AmountsOf

(* Lists of entries, one after the other.                                  *)
LEMMA AmountsJoined ==
  ASSUME NEW a \in Seq(BookEntries), NEW b \in Seq(BookEntries)
  PROVE  SumFunction(AmountsOf(a \o b)) = SumFunction(AmountsOf(a)) + SumFunction(AmountsOf(b))
<1>1. PICK c, m, n : c = a \o b /\ m = Len(a) /\ n = Len(b)
  OBVIOUS
<1>2. /\ c \in Seq(BookEntries) /\ Len(c) = m + n /\ m \in Nat /\ n \in Nat
  BY <1>1
<1>3. Joins(a, b, c)
  BY <1>1, Joined
<1>4. PICK u, v, w : u = AmountsOf(a) /\ v = AmountsOf(b) /\ w = AmountsOf(c)
  OBVIOUS
<1>5. /\ u \in [1 .. m -> Int] /\ v \in [1 .. n -> Int] /\ w \in [1 .. m + n -> Int]
      /\ \A i \in 1 .. m : u[i] = a[i].amount
      /\ \A i \in 1 .. n : v[i] = b[i].amount
      /\ \A i \in 1 .. m + n : w[i] = c[i].amount
  BY <1>1, <1>2, <1>4, AmountsTyped, Zenon
<1>6. /\ \A i \in 1 .. m : c[i] = a[i]
      /\ \A i \in 1 .. n : c[m + i] = b[i]
  BY <1>1, <1>3, Zenon DEF Joins
<1>7. /\ \A i \in 1 .. m : i \in 1 .. m + n
      /\ \A i \in 1 .. n : m + i \in 1 .. m + n
  BY <1>2
<1>8. /\ \A i \in 1 .. m : w[i] = u[i]
      /\ \A i \in 1 .. n : w[m + i] = v[i]
  BY <1>5, <1>6, <1>7, Zenon
<1>9. SumFunction(w) = SumFunction(u) + SumFunction(v)
  BY <1>2, <1>5, <1>8, SumLaidOut, Zenon
<1>. QED BY <1>1, <1>4, <1>9, Zenon

(* A list that begins with two entries is not empty.                       *)
LEMMA BeginsWithTwo ==
  ASSUME NEW S, NEW a \in Seq(S), NEW b \in Seq(S), Len(a) = 2
  PROVE  a \o b \in Seq(S) /\ a \o b # <<>>
OBVIOUS

(* What nets to nothing, debited or credited.                              *)
LEMMA NetOfSides ==
  ASSUME NEW sign \in {1, -1}, NEW t \in Int, NEW x \in Int, NEW c \in Int, NEW s \in Int, NEW g \in Int,
         -sign * t + sign * x + (sign * c + sign * s + sign * g) = 0
  PROVE  t = x + (c + s + g)
<1>1. CASE sign = 1
  BY <1>1
<1>2. CASE sign = -1
  BY <1>2
<1>. QED BY <1>1, <1>2

(* The entries of the taxes of a draft, and their sum.                     *)
LEMMA TaxesOfDraft ==
  ASSUME NEW doc, doc.cgst \in Int, doc.sgst \in Int, doc.igst \in Int, NEW sign \in {1, -1},
         NEW ledgers \in [party : Names, account : Names, CGST : Names, SGST : Names, IGST : Names],
         NEW taxes, taxes = TaxDetails(doc, ledgers, sign),
         NEW rest, rest = [i \in DOMAIN taxes |-> LedgerEntry(taxes[i].ledger, taxes[i].amount)]
  PROVE  /\ taxes \in Seq(TaxEntries) /\ rest \in Seq(BookEntries)
         /\ SumFunction(AmountsOf(rest)) = sign * doc.cgst + sign * doc.sgst + sign * doc.igst
<1>1. PICK c \in Int, s \in Int, g \in Int :
        c = sign * doc.cgst /\ s = sign * doc.sgst /\ g = sign * doc.igst
  OBVIOUS
<1>. DEFINE all == <<[ledger |-> ledgers.CGST, type |-> "CGST", amount |-> c],
                     [ledger |-> ledgers.SGST, type |-> "SGST", amount |-> s],
                     [ledger |-> ledgers.IGST, type |-> "IGST", amount |-> g]>>
            some == {i \in 1 .. 3 : all[i].amount # 0}
<1>2. /\ all \in Seq(TaxEntries) /\ Len(all) = 3 /\ DOMAIN all = 1 .. 3
      /\ all[1].amount = c /\ all[2].amount = s /\ all[3].amount = g
  <2>1. PICK x \in Names, y \in Names, z \in Names :
          x = ledgers.CGST /\ y = ledgers.SGST /\ z = ledgers.IGST
    OBVIOUS
  <2>2. PICK t1, t2, t3 : /\ t1 = [ledger |-> x, type |-> "CGST", amount |-> c]
                          /\ t2 = [ledger |-> y, type |-> "SGST", amount |-> s]
                          /\ t3 = [ledger |-> z, type |-> "IGST", amount |-> g]
    OBVIOUS
  <2>3. /\ t1 \in TaxEntries /\ t2 \in TaxEntries /\ t3 \in TaxEntries
        /\ t1.amount = c /\ t2.amount = s /\ t3.amount = g
    <3>1. "CGST" \in Names /\ "SGST" \in Names /\ "IGST" \in Names
      BY VoucherAssumption, Zenon DEF TaxTypes
    <3>. QED BY <2>2, <3>1 DEF TaxEntries
  <2>4. all = <<t1, t2, t3>>
    BY <2>1, <2>2
  <2>. HIDE DEF all
  <2>. QED BY <2>3, <2>4
<1>3. taxes = Kept(all, some)
  BY <1>1, <1>2, Zenon DEF TaxDetails
<1>4. some \in SUBSET (1 .. 3) /\ some \in SUBSET (1 .. Len(all))
  BY <1>2
<1>. HIDE DEF all, some
<1>5. taxes \in Seq(TaxEntries)
  BY <1>2, <1>3, KeptIsList
<1>6. /\ DOMAIN taxes = 1 .. Len(taxes) /\ Len(taxes) \in Nat
      /\ \E p : KeptAt(p, taxes, all, some)
  BY <1>2, <1>3, <1>4, KeptOnce
<1>7. PICK n \in Nat : n = Len(taxes)
  BY <1>6
<1>8. PICK p : KeptAt(p, taxes, all, some)
  BY <1>6
<1>9. \A i \in 1 .. n : taxes[i] \in TaxEntries
  BY <1>5, <1>7, ListFacts, Zenon
<1>10. /\ rest \in [1 .. n -> BookEntries]
       /\ \A i \in 1 .. n : rest[i].amount = taxes[i].amount
  <2>1. \A t \in TaxEntries : LedgerEntry(t.ledger, t.amount) \in BookEntries
                              /\ LedgerEntry(t.ledger, t.amount).amount = t.amount
    BY DEF TaxEntries, BookEntries, LedgerEntry
  <2>2. rest = [i \in 1 .. n |-> LedgerEntry(taxes[i].ledger, taxes[i].amount)]
    BY <1>6, <1>7
  <2>3. ASSUME NEW i \in 1 .. n
        PROVE  rest[i] = LedgerEntry(taxes[i].ledger, taxes[i].amount) /\ rest[i] \in BookEntries
               /\ rest[i].amount = taxes[i].amount
    <3>1. rest[i] = LedgerEntry(taxes[i].ledger, taxes[i].amount)
      BY <2>2, Zenon
    <3>. QED BY <3>1, <1>9, <2>1, Zenon
  <2>4. rest = [i \in 1 .. n |-> rest[i]]
    BY <2>2, <2>3, Zenon
  <2>. QED BY <2>3, <2>4, Zenon
<1>11. rest \in Seq(BookEntries) /\ Len(rest) = n
  BY <1>10, ListOf, Zenon
<1>12. PICK v : v = AmountsOf(rest)
  OBVIOUS
<1>13. /\ v \in [1 .. n -> Int] /\ IsFiniteSet(1 .. n)
       /\ \A i \in 1 .. n : v[i] = taxes[i].amount
  BY <1>10, <1>11, <1>12, AmountsTyped, Zenon
<1>14. PICK w : w = [i \in 1 .. 3 |-> all[i].amount]
  OBVIOUS
<1>15. w \in [1 .. 3 -> Int] /\ w[1] = c /\ w[2] = s /\ w[3] = g
  <2>1. \A i \in 1 .. 3 : i = 1 \/ i = 2 \/ i = 3
    OBVIOUS
  <2>. QED BY <1>2, <1>14, <2>1
<1>16. some = {i \in 1 .. 3 : w[i] # 0}
  BY <1>14 DEF some
<1>17. Moves(p, v, 1 .. n, w, some)
  <2>1. \A k \in 1 .. n : p[k] \in some /\ taxes[k] = all[p[k]] /\ v[k] = taxes[k].amount
    BY <1>6, <1>7, <1>8, <1>13, Zenon DEF KeptAt
  <2>2. \A i \in some : w[i] = all[i].amount
    BY <1>4, <1>14
  <2>3. \A k \in 1 .. n : p[k] \in some /\ v[k] = w[p[k]]
    BY <2>1, <2>2, Zenon
  <2>. QED BY <1>6, <1>7, <1>8, <2>3, Zenon DEF KeptAt, Moves
<1>18. SumFunctionOnSet(v, 1 .. n) = SumFunctionOnSet(w, some)
  <2>1. PICK D, E : D = 1 .. 3 /\ E = 1 .. n
    OBVIOUS
  <2>2. /\ w \in [D -> Int] /\ some \in SUBSET D /\ v \in [E -> Int] /\ E \in SUBSET E
        /\ IsFiniteSet(E) /\ Moves(p, v, E, w, some)
    BY <1>4, <1>13, <1>15, <1>17, <2>1
  <2>3. SumFunctionOnSet(v, E) = SumFunctionOnSet(w, some)
    BY <2>2, SumMoved
  <2>. QED BY <2>1, <2>3
<1>19. SumFunctionOnSet(w, 1 .. 3) = SumFunctionOnSet(w, some)
  <2>1. IsFiniteSet(1 .. 3)
    <3>1. 1 \in Int /\ 3 \in Int
      OBVIOUS
    <3>. QED BY <3>1, FS_Interval, Zenon
  <2>2. PICK D : D = 1 .. 3
    OBVIOUS
  <2>3. w \in [D -> Int] /\ D \in SUBSET D /\ IsFiniteSet(D) /\ some = {i \in D : w[i] # 0}
    BY <1>15, <1>16, <2>1, <2>2
  <2>4. SumFunctionOnSet(w, D) = SumFunctionOnSet(w, some)
    BY <2>3, SumOfNonzero
  <2>. QED BY <2>2, <2>4
<1>20. SumFunctionOnSet(w, 1 .. 3) = c + s + g
  <2>1. 3 \in {2, 3} /\ 3 # 2
    OBVIOUS
  <2>2. SumFunctionOnSet(w, 1 .. 3) = w[1] + w[2] + w[3]
    BY <1>15, <2>1, SumOfThree
  <2>. QED BY <1>15, <2>2
<1>21. SumFunction(v) = SumFunctionOnSet(v, 1 .. n)
  <2>1. DOMAIN v = 1 .. n
    BY <1>13
  <2>. QED BY <2>1, Zenon DEF SumFunction
<1>22. SumFunction(AmountsOf(rest)) = c + s + g
  BY <1>12, <1>18, <1>19, <1>20, <1>21, Zenon
<1>. QED BY <1>1, <1>5, <1>11, <1>22, Zenon

(* A draft whose entries net to nothing adds up to the paisa.              *)
LEMMA DraftAddsUp ==
  ASSUME NEW doc, doc.cgst \in Int, doc.sgst \in Int, doc.igst \in Int, doc.taxable \in Int, doc.total \in Int,
         NEW ledgers \in [party : Names, account : Names, CGST : Names, SGST : Names, IGST : Names],
         NEW kind \in {PURCHASE, SALES}, NEW draft, draft = Draft(kind, doc, ledgers)
  PROVE  /\ draft.entries \in Seq(BookEntries) /\ draft.gst_details \in Seq(TaxEntries)
         /\ draft.entries # <<>> /\ draft.kind = kind
         /\ NetsToZero(draft.entries) => doc.total = doc.taxable + TaxTotal(doc)
<1>. DEFINE sign == IF kind = PURCHASE THEN -1 ELSE 1
<1>1. sign \in {1, -1}
  OBVIOUS
<1>2. PICK taxes, rest :
        /\ taxes = TaxDetails(doc, ledgers, sign)
        /\ rest = [i \in DOMAIN taxes |-> LedgerEntry(taxes[i].ledger, taxes[i].amount)]
  OBVIOUS
<1>. DEFINE first == <<LedgerEntry(ledgers.party, -sign * doc.total), LedgerEntry(ledgers.account, sign * doc.taxable)>>
<1>3. /\ draft.entries = first \o rest /\ draft.kind = kind
      /\ draft.gst_details = IF kind = PURCHASE THEN taxes ELSE <<>>
  BY <1>2 DEF Draft
<1>. HIDE DEF sign
<1>4. PICK a \in Int, b \in Int : a = -sign * doc.total /\ b = sign * doc.taxable
  BY <1>1
<1>5. /\ taxes \in Seq(TaxEntries) /\ rest \in Seq(BookEntries)
      /\ SumFunction(AmountsOf(rest)) = sign * doc.cgst + sign * doc.sgst + sign * doc.igst
  BY <1>1, <1>2, TaxesOfDraft
<1>6. /\ first \in Seq(BookEntries) /\ Len(first) = 2 /\ first[1].amount = a /\ first[2].amount = b
  BY <1>4 DEF BookEntries, LedgerEntry
<1>. HIDE DEF first
<1>7. SumFunction(AmountsOf(first)) = a + b
  <2>1. PICK w : w = AmountsOf(first)
    OBVIOUS
  <2>2. w \in [1 .. 2 -> Int] /\ \A i \in 1 .. 2 : w[i] = first[i].amount
    BY <1>6, <2>1, AmountsTyped, Zenon
  <2>3. w[1] = a /\ w[2] = b /\ DOMAIN w = 1 .. 2
    BY <1>6, <2>2
  <2>4. SumFunctionOnSet(w, 1 .. 2) = w[1] + w[2]
    <3>1. 2 \in {2, 3}
      OBVIOUS
    <3>. QED BY <2>2, <3>1, SumOfThree
  <2>. QED BY <2>1, <2>3, <2>4, Zenon DEF SumFunction
<1>8. SumFunction(AmountsOf(first \o rest)) = SumFunction(AmountsOf(first)) + SumFunction(AmountsOf(rest))
  BY <1>5, <1>6, AmountsJoined
<1>9. first \o rest \in Seq(BookEntries) /\ first \o rest # <<>>
  BY <1>5, <1>6, BeginsWithTwo, Zenon
<1>10. draft.gst_details \in Seq(TaxEntries)
  <2>1. <<>> \in Seq(TaxEntries)
    OBVIOUS
  <2>. QED BY <1>3, <1>5, <2>1, Zenon
<1>11. ASSUME NetsToZero(draft.entries) PROVE doc.total = doc.taxable + TaxTotal(doc)
  <2>1. a + b + (sign * doc.cgst + sign * doc.sgst + sign * doc.igst) = 0
    BY <1>3, <1>5, <1>7, <1>8, <1>11, Zenon DEF NetsToZero
  <2>2. PICK t \in Int, x \in Int, c \in Int, s \in Int, g \in Int :
          t = doc.total /\ x = doc.taxable /\ c = doc.cgst /\ s = doc.sgst /\ g = doc.igst
    OBVIOUS
  <2>3. -sign * t + sign * x + (sign * c + sign * s + sign * g) = 0
    BY <1>4, <2>1, <2>2, Zenon
  <2>4. t = x + (c + s + g)
    BY <1>1, <2>3, NetOfSides
  <2>. QED BY <2>2, <2>4 DEF TaxTotal
<1>. QED BY <1>3, <1>9, <1>10, <1>11, Zenon

(* No term is above the greatest of finitely many.                         *)
LEMMA MaxOfAll ==
  ASSUME NEW S, IsFiniteSet(S), S \subseteq Int, NEW w, \A i \in S : w[i] \in Int
  PROVE  \A j \in S : w[j] <= Max({w[i] : i \in S})
<1>. SUFFICES ASSUME NEW j \in S PROVE w[j] <= Max({w[i] : i \in S})
  OBVIOUS
<1>1. PICK i \in S : \A k \in S : w[k] < w[i] \/ (w[k] = w[i] /\ i <= k)
  BY BestExists, Zenon
<1>2. \A k \in S : w[i] >= w[k]
  BY <1>1
<1>3. \E x \in {w[k] : k \in S} : \A y \in {w[k] : k \in S} : x >= y
  BY <1>2
<1>4. \A y \in {w[k] : k \in S} : Max({w[k] : k \in S}) >= y
  BY <1>3, Zenon DEF Max
<1>5. Max({w[k] : k \in S}) \in Int
  BY <1>3 DEF Max
<1>. QED BY <1>4, <1>5

(* Lists with the same entries as often book the same on every ledger.     *)
LEMMA SameBooking ==
  ASSUME NEW s \in Seq(BookEntries), NEW t \in Seq(BookEntries), ToBag(s) = ToBag(t), NEW ledger
  PROVE  BookedOn(ledger, s) = BookedOn(ledger, t)
<1>1. PICK h : Rearranges(h, s, t)
  BY SameBag, Zenon
<1>2. PICK E, D, v, w : E = DOMAIN s /\ D = DOMAIN t /\ v = AmountsOf(s) /\ w = AmountsOf(t)
  OBVIOUS
<1>3. /\ IsFiniteSet(E) /\ v \in [E -> Int] /\ w \in [D -> Int]
      /\ \A i \in E : v[i] = s[i].amount /\ s[i] \in BookEntries
      /\ \A k \in D : w[k] = t[k].amount /\ t[k] \in BookEntries
  BY <1>2, AmountsTyped, ListFacts, Zenon
<1>. DEFINE X == {e \in BookEntries : e.ledger = ledger}
<1>4. \A i \in E, k \in D : s[i] = t[k] => v[i] = w[k]
  BY <1>3, Zenon
<1>5. /\ Among(E, s, X) = {i \in E : s[i].ledger = ledger}
      /\ Among(D, t, X) = {k \in D : t[k].ledger = ledger}
  BY <1>3 DEF Among
<1>6. PICK Y : Y = X
  OBVIOUS
<1>. HIDE DEF X
<1>7. SumFunctionOnSet(v, Among(E, s, Y)) = SumFunctionOnSet(w, Among(D, t, Y))
  <2>1. SameTerms(h, s, t, E, v, D, w)
    BY <1>1, <1>2, <1>3, <1>4 DEF SameTerms
  <2>. QED BY <2>1, SumRearranged, SMT
<1>8. SumFunctionOnSet(v, {i \in E : s[i].ledger = ledger}) = SumFunctionOnSet(w, {k \in D : t[k].ledger = ledger})
  BY <1>5, <1>6, <1>7
<1>. QED BY <1>2, <1>8, SMT DEF BookedOn

(* The amounts of tax details.                                             *)
LEMMA TaxAmountsTyped ==
  ASSUME NEW l \in Seq(TaxEntries)
  PROVE  /\ AmountsOf(l) \in [1 .. Len(l) -> Int] /\ IsFiniteSet(1 .. Len(l)) /\ Len(l) \in Nat
         /\ DOMAIN l = 1 .. Len(l)
         /\ \A i \in 1 .. Len(l) : AmountsOf(l)[i] = l[i].amount /\ l[i] \in TaxEntries
<1>1. /\ Len(l) \in Nat /\ DOMAIN l = 1 .. Len(l)
      /\ \A i \in 1 .. Len(l) : l[i].amount \in Int /\ l[i] \in TaxEntries
  <2>1. \A e \in TaxEntries : e.amount \in Int
    BY DEF TaxEntries
  <2>. QED BY <2>1, ListFacts, Zenon
<1>2. IsFiniteSet(1 .. Len(l))
  <2>1. 1 \in Int /\ Len(l) \in Int
    BY <1>1
  <2>. QED BY <2>1, FS_Interval, Zenon
<1>. QED BY <1>1, <1>2 DEF AmountsOf

(* The tax details that are read back from entries, and their sums by type *)
(* of tax.                                                                 *)
ReadTaxes(entries, TypeOf) ==
  LET taxed == Kept(entries, {i \in DOMAIN entries : TypeOf[entries[i].ledger] # NoLedger})
  IN  [i \in DOMAIN taxed |->
         [ledger |-> taxed[i].ledger, type |-> TypeOf[taxed[i].ledger], amount |-> taxed[i].amount]]

(* They are the sums over the ledgers that collect the tax.                *)
LEMMA TaxesReadBack ==
  ASSUME NEW entries \in Seq(BookEntries), NEW TypeOf \in [Names -> Names],
         NEW read, read = ReadTaxes(entries, TypeOf)
  PROVE  /\ read \in Seq(TaxEntries)
         /\ \A type \in TaxTypes :
              SumFunctionOnSet(AmountsOf(read), {i \in DOMAIN read : read[i].type = type})
                = SumFunctionOnSet(AmountsOf(entries), {i \in DOMAIN entries : TypeOf[entries[i].ledger] = type})
<1>. DEFINE chosen == {i \in DOMAIN entries : TypeOf[entries[i].ledger] # NoLedger}
<1>1. PICK n, taxed : n = Len(entries) /\ taxed = Kept(entries, chosen)
  OBVIOUS
<1>2. n \in Nat /\ DOMAIN entries = 1 .. n /\ chosen \in SUBSET (1 .. Len(entries))
  BY <1>1
<1>3. taxed \in Seq(BookEntries)
  BY <1>1, KeptIsList
<1>4. DOMAIN taxed = 1 .. Len(taxed) /\ Len(taxed) \in Nat /\ \E p : KeptAt(p, taxed, entries, chosen)
  BY <1>1, <1>2, KeptOnce
<1>5. PICK m \in Nat : m = Len(taxed)
  BY <1>4
<1>6. PICK p : KeptAt(p, taxed, entries, chosen)
  BY <1>4
<1>7. \A i \in 1 .. m : taxed[i] \in BookEntries
  BY <1>3, <1>5, ListFacts, Zenon
<1>8. \A i \in 1 .. n : entries[i] \in BookEntries
  BY <1>1, ListFacts, Zenon
<1>9. /\ DOMAIN read = 1 .. m
      /\ \A i \in 1 .. m : /\ read[i] \in TaxEntries /\ read[i].amount = taxed[i].amount
                           /\ read[i].type = TypeOf[taxed[i].ledger]
  <2>1. \A e \in BookEntries :
          LET t == [ledger |-> e.ledger, type |-> TypeOf[e.ledger], amount |-> e.amount]
          IN  t \in TaxEntries /\ t.amount = e.amount /\ t.type = TypeOf[e.ledger]
    BY DEF BookEntries, TaxEntries
  <2>2. read = [i \in 1 .. m |->
                 [ledger |-> taxed[i].ledger, type |-> TypeOf[taxed[i].ledger], amount |-> taxed[i].amount]]
    BY <1>1, <1>4, <1>5, Zenon DEF ReadTaxes
  <2>3. ASSUME NEW i \in 1 .. m
        PROVE  /\ read[i] \in TaxEntries /\ read[i].amount = taxed[i].amount
               /\ read[i].type = TypeOf[taxed[i].ledger]
    <3>1. read[i] = [ledger |-> taxed[i].ledger, type |-> TypeOf[taxed[i].ledger], amount |-> taxed[i].amount]
      BY <2>2, Zenon
    <3>2. taxed[i] \in BookEntries
      BY <1>7
    <3>. QED BY <2>1, <3>1, <3>2, Zenon
  <2>. QED BY <2>2, <2>3, Zenon
<1>10. read \in Seq(TaxEntries) /\ Len(read) = m
  <2>1. read \in [1 .. m -> TaxEntries]
    <3>1. read = [i \in 1 .. m |-> read[i]]
      BY <1>1, <1>4, <1>5, <1>9, Zenon DEF ReadTaxes
    <3>. QED BY <1>9, <3>1, Zenon
  <2>. QED BY <2>1, ListOf, Zenon
<1>11. PICK v, w : v = AmountsOf(read) /\ w = AmountsOf(entries)
  OBVIOUS
<1>12. /\ v \in [1 .. m -> Int] /\ IsFiniteSet(1 .. m)
       /\ \A i \in 1 .. m : v[i] = taxed[i].amount
  BY <1>9, <1>10, <1>11, TaxAmountsTyped, Zenon
<1>13. w \in [1 .. n -> Int] /\ \A i \in 1 .. n : w[i] = entries[i].amount
  BY <1>1, <1>11, AmountsTyped, Zenon
<1>d. DOMAIN taxed = 1 .. m
  BY <1>4, <1>5
<1>14. /\ \A k \in 1 .. m : p[k] \in chosen /\ taxed[k] = entries[p[k]]
       /\ \A j, k \in 1 .. m : p[j] = p[k] => j = k
       /\ \A x \in chosen : \E k \in 1 .. m : p[k] = x
  BY <1>6, <1>d DEF KeptAt
<1>15. \A i : i \in chosen <=> i \in 1 .. n /\ TypeOf[entries[i].ledger] # NoLedger
  BY <1>2
<1>. HIDE DEF chosen
<1>16. ASSUME NEW type \in TaxTypes
       PROVE  SumFunctionOnSet(v, {i \in 1 .. m : read[i].type = type})
                = SumFunctionOnSet(w, {i \in 1 .. n : TypeOf[entries[i].ledger] = type})
  <2>0. PICK I, K : /\ I = {i \in 1 .. m : read[i].type = type}
                    /\ K = {i \in 1 .. n : TypeOf[entries[i].ledger] = type}
    OBVIOUS
  <2>1. type # NoLedger
    BY DEF TaxTypes, NoLedger
  <2>2. \A i : i \in I <=> i \in 1 .. m /\ read[i].type = type
    BY <2>0
  <2>3. \A i : i \in K <=> i \in 1 .. n /\ TypeOf[entries[i].ledger] = type
    BY <2>0
  <2>4. IsFiniteSet(I) /\ I \in SUBSET (1 .. m) /\ K \in SUBSET (1 .. n)
    BY <1>12, <2>0, FS_Subset
  <2>5. ASSUME NEW i \in I PROVE p[i] \in K /\ v[i] = w[p[i]]
    <3>1. i \in 1 .. m /\ TypeOf[taxed[i].ledger] = type
      BY <1>9, <2>2, Zenon
    <3>2. p[i] \in chosen /\ taxed[i] = entries[p[i]] /\ v[i] = taxed[i].amount
      BY <1>12, <1>14, <3>1, Zenon
    <3>3. p[i] \in 1 .. n
      BY <1>15, <3>2, Zenon
    <3>. QED BY <1>13, <2>3, <3>1, <3>2, <3>3, Zenon
  <2>6. ASSUME NEW i \in I, NEW j \in I, p[i] = p[j] PROVE i = j
    <3>1. i \in 1 .. m /\ j \in 1 .. m
      BY <2>2, Zenon
    <3>. QED BY <1>14, <2>6, <3>1, Zenon
  <2>7. \A k \in K : \E i \in I : p[i] = k
    <3>. SUFFICES ASSUME NEW k \in K PROVE \E i \in I : p[i] = k
      OBVIOUS
    <3>1. k \in chosen
      BY <1>15, <2>1, <2>3
    <3>2. PICK i \in 1 .. m : p[i] = k
      BY <1>14, <3>1, Zenon
    <3>3. taxed[i] = entries[k] /\ read[i].type = TypeOf[taxed[i].ledger]
      BY <1>9, <1>14, <3>2, Zenon
    <3>4. i \in I
      BY <2>2, <2>3, <3>3, Zenon
    <3>. QED BY <3>2, <3>4
  <2>8. Moves(p, v, I, w, K)
    BY <2>5, <2>6, <2>7, Zenon DEF Moves
  <2>9. PICK D, E : D = 1 .. n /\ E = 1 .. m
    OBVIOUS
  <2>10. /\ w \in [D -> Int] /\ v \in [E -> Int] /\ I \in SUBSET E /\ K \in SUBSET D
         /\ IsFiniteSet(I) /\ Moves(p, v, I, w, K)
    BY <1>12, <1>13, <2>4, <2>8, <2>9
  <2>11. SumFunctionOnSet(v, I) = SumFunctionOnSet(w, K)
    BY <2>10, SumMoved
  <2>. QED BY <2>0, <2>11
<1>. QED BY <1>2, <1>9, <1>10, <1>11, <1>16, Zenon

(* The tax of one type.                                                    *)
TaxOn(type, details) ==
  SumFunctionOnSet(AmountsOf(details), {i \in DOMAIN details : details[i].type = type})

(* Details with the same taxes as often hold the same tax of every type.   *)
LEMMA SameTaxes ==
  ASSUME NEW s \in Seq(TaxEntries), NEW t \in Seq(TaxEntries), ToBag(s) = ToBag(t), NEW type
  PROVE  TaxOn(type, s) = TaxOn(type, t)
<1>1. PICK h : Rearranges(h, s, t)
  BY SameBag, Zenon
<1>2. PICK E, D, v, w : E = DOMAIN s /\ D = DOMAIN t /\ v = AmountsOf(s) /\ w = AmountsOf(t)
  OBVIOUS
<1>3. /\ IsFiniteSet(E) /\ v \in [E -> Int] /\ w \in [D -> Int]
      /\ \A i \in E : v[i] = s[i].amount /\ s[i] \in TaxEntries
      /\ \A k \in D : w[k] = t[k].amount /\ t[k] \in TaxEntries
  BY <1>2, TaxAmountsTyped, Zenon
<1>. DEFINE X == {e \in TaxEntries : e.type = type}
<1>4. \A i \in E, k \in D : s[i] = t[k] => v[i] = w[k]
  BY <1>3, Zenon
<1>5. /\ Among(E, s, X) = {i \in E : s[i].type = type}
      /\ Among(D, t, X) = {k \in D : t[k].type = type}
  BY <1>3 DEF Among
<1>6. PICK Y : Y = X
  OBVIOUS
<1>. HIDE DEF X
<1>7. SumFunctionOnSet(v, Among(E, s, Y)) = SumFunctionOnSet(w, Among(D, t, Y))
  <2>1. SameTerms(h, s, t, E, v, D, w)
    BY <1>1, <1>2, <1>3, <1>4 DEF SameTerms
  <2>. QED BY <2>1, SumRearranged, SMT
<1>8. SumFunctionOnSet(v, {i \in E : s[i].type = type}) = SumFunctionOnSet(w, {k \in D : t[k].type = type})
  BY <1>5, <1>6, <1>7
<1>. QED BY <1>2, <1>8, SMT DEF TaxOn

(* What a payload for Tally is, once it is completed.                      *)
Payload(p) ==
  /\ p.entries \in Seq(BookEntries) /\ p.gst_details \in Seq(TaxEntries)
  /\ Completed(p).entries \in Seq(BookEntries) /\ Completed(p).gst_details = p.gst_details
  /\ Completed(p).kind = p.kind

(* Every payload that is proposed, and every draft, is one.                *)
LEMMA PayloadsTyped ==
  ASSUME NEW p, p \in Payloads \/ \E k \in {PURCHASE, SALES}, d \in Bills, l \in LedgerMaps : p = Draft(k, d, l)
  PROVE  Payload(p)
<1>1. CASE p \in Payloads
  <2>1. p \in [kind : {PURCHASE, SALES}, party : Names, account : Names, total : Int, number : STRING,
               tax_total : Int, gst_details : Seq(TaxEntries), entries : Seq(BookEntries)]
    BY <1>1, VoucherAssumption, Zenon
  <2>2. PICK pair : pair = <<LedgerEntry(p.party, p.total), LedgerEntry(p.account, -p.total)>>
    OBVIOUS
  <2>3. pair \in Seq(BookEntries)
    <3>1. /\ LedgerEntry(p.party, p.total) \in BookEntries
          /\ LedgerEntry(p.account, -p.total) \in BookEntries
      BY <2>1 DEF LedgerEntry, BookEntries
    <3>. QED BY <2>2, <3>1
  <2>4. Completed(p) = p \/ Completed(p) = [p EXCEPT !.entries = pair]
    BY <2>2 DEF Completed
  <2>. QED BY <2>1, <2>3, <2>4 DEF Payload
<1>2. CASE \E k \in {PURCHASE, SALES}, d \in Bills, l \in LedgerMaps : p = Draft(k, d, l)
  <2>1. PICK k \in {PURCHASE, SALES}, d \in Bills, l \in LedgerMaps : p = Draft(k, d, l)
    BY <1>2
  <2>2. {d.taxable, d.cgst, d.sgst, d.igst, d.total} \subseteq Int
    BY VoucherAssumption, Zenon
  <2>3. l \in [party : Names, account : Names, CGST : Names, SGST : Names, IGST : Names]
    BY VoucherAssumption, Zenon
  <2>4. p.entries \in Seq(BookEntries) /\ p.gst_details \in Seq(TaxEntries) /\ p.entries # <<>>
    BY <2>1, <2>2, <2>3, DraftAddsUp
  <2>5. Completed(p) = p
    BY <2>4, Zenon DEF Completed
  <2>. QED BY <2>4, <2>5 DEF Payload
<1>. QED BY <1>1, <1>2

(* What is left of a voucher's entries after an edit in Tally.             *)
LEMMA EditsTyped ==
  ASSUME NEW l \in Seq(BookEntries), NEW e \in Edits(l)
  PROVE  e \in Seq(BookEntries)
<1>1. PICK n : n = Len(l)
  OBVIOUS
<1>2. n \in Nat /\ l \in [1 .. n -> BookEntries]
  BY <1>1
<1>3. ASSUME NEW i \in Int
      PROVE  [l EXCEPT ![i].amount = @ + 7, ![i + 1].amount = @ - 7] \in Seq(BookEntries)
  <2>1. ASSUME NEW f \in [1 .. n -> BookEntries], NEW j \in Int, NEW a \in Int
        PROVE  [f EXCEPT ![j].amount = @ + a] \in [1 .. n -> BookEntries]
    <3>1. j \in 1 .. n => [f[j] EXCEPT !.amount = @ + a] \in BookEntries
      BY DEF BookEntries
    <3>. QED BY <3>1
  <2>2. PICK g : g = [l EXCEPT ![i].amount = @ + 7]
    OBVIOUS
  <2>3. g \in [1 .. n -> BookEntries]
    <3>1. 7 \in Int
      OBVIOUS
    <3>. QED BY <1>2, <2>1, <2>2, <3>1, Zenon
  <2>4. PICK h : h = [g EXCEPT ![i + 1].amount = @ - 7]
    OBVIOUS
  <2>5. h \in [1 .. n -> BookEntries]
    <3>1. i + 1 \in 1 .. n => [g[i + 1] EXCEPT !.amount = @ - 7] \in BookEntries
      BY <2>3 DEF BookEntries
    <3>. QED BY <2>3, <2>4, <3>1
  <2>6. h \in Seq(BookEntries)
    BY <1>2, <2>5, ListOf, Zenon
  <2>. QED BY <2>2, <2>4, <2>6
<1>4. Reverse(l) \in Seq(BookEntries)
  <2>1. \A i \in 1 .. n : (n - i) + 1 \in 1 .. n
    BY <1>2
  <2>2. Reverse(l) \in [1 .. n -> BookEntries]
    BY <1>1, <1>2, <2>1 DEF Reverse
  <2>. QED BY <1>2, <2>2, ListOf, Zenon
<1>5. l \o l \in Seq(BookEntries)
  OBVIOUS
<1>6. 1 \in Int /\ Len(l) - 1 \in Int
  BY <1>1, <1>2
<1>. QED BY <1>3, <1>4, <1>5, <1>6 DEF Edits

(* A voucher that is read back without a mismatch is the one approved.     *)
Approved(p, v, TypeOf) ==
  LET Held(type) == {i \in DOMAIN v.entries : TypeOf[v.entries[i].ledger] = type}
      Told(type) == {i \in DOMAIN p.gst_details : p.gst_details[i].type = type}
  IN  /\ \A e \in ToSet(v.entries) \cup ToSet(p.entries) :
           BookedOn(e.ledger, v.entries) = BookedOn(e.ledger, p.entries)
      /\ \A e \in ToSet(v.entries) : Abs(e.amount) <= p.total
      /\ p.kind = PURCHASE =>
           \A type \in TaxTypes :
             SumFunctionOnSet(AmountsOf(v.entries), Held(type))
               = SumFunctionOnSet(AmountsOf(p.gst_details), Told(type))

(* That is what the comparison of entries, total and tax details shows.    *)
LEMMA VoucherApproved ==
  ASSUME NEW p, Payload(p), NEW v, v.entries \in Seq(BookEntries), NEW TypeOf \in [Names -> Names],
         Mismatches(p, ReadVoucher(v, TypeOf)) = {}
  PROVE  Approved(Completed(p), v, TypeOf)
<1>1. PICK wanted, r, entries, read :
        /\ wanted = Completed(p) /\ r = ReadVoucher(v, TypeOf)
        /\ entries = v.entries /\ read = ReadTaxes(entries, TypeOf)
  OBVIOUS
<1>2. r.entries = entries /\ r.gst_details = read /\ r.total = Max({Abs(entries[i].amount) : i \in DOMAIN entries})
  BY <1>1 DEF ReadVoucher, ReadTaxes
<1>3. /\ wanted.total = r.total
      /\ Listed(wanted.entries) = Listed(r.entries)
      /\ p.kind = PURCHASE => Listed(wanted.gst_details) = Listed(r.gst_details)
  <2>1. Mismatches(p, r) = {}
    BY <1>1
  <2>. QED BY <1>1, <2>1 DEF Mismatches
<1>4. /\ wanted.entries \in Seq(BookEntries) /\ entries \in Seq(BookEntries)
      /\ wanted.gst_details \in Seq(TaxEntries) /\ wanted.kind = p.kind
  BY <1>1 DEF Payload
<1>5. ToBag(wanted.entries) = ToBag(entries)
  BY <1>2, <1>3 DEF Listed
<1>6. \A ledger : BookedOn(ledger, entries) = BookedOn(ledger, wanted.entries)
  BY <1>4, <1>5, SameBooking
<1>7. \A e \in ToSet(entries) : Abs(e.amount) <= wanted.total
  <2>1. PICK n : n = Len(entries)
    OBVIOUS
  <2>2. /\ IsFiniteSet(1 .. n) /\ 1 .. n \subseteq Int /\ DOMAIN entries = 1 .. n
        /\ \A i \in 1 .. n : entries[i] \in BookEntries
    BY <1>4, <2>1, AmountsTyped, ListFacts
  <2>3. PICK w : w = [i \in 1 .. n |-> Abs(entries[i].amount)]
    OBVIOUS
  <2>4. \A e \in BookEntries : Abs(e.amount) \in Int
    BY DEF BookEntries, Abs, Gap
  <2>5. \A i \in 1 .. n : w[i] = Abs(entries[i].amount) /\ w[i] \in Int
    BY <2>2, <2>3, <2>4
  <2>6. \A i \in 1 .. n : w[i] <= Max({w[k] : k \in 1 .. n})
    <3>1. PICK S : S = 1 .. n
      OBVIOUS
    <3>2. IsFiniteSet(S) /\ S \subseteq Int /\ \A i \in S : w[i] \in Int
      BY <2>2, <2>5, <3>1
    <3>3. \A i \in S : w[i] <= Max({w[k] : k \in S})
      BY <3>2, MaxOfAll
    <3>. QED BY <3>1, <3>3
  <2>7. {w[k] : k \in 1 .. n} = {Abs(entries[i].amount) : i \in DOMAIN entries}
    BY <2>2, <2>5
  <2>8. \A i \in 1 .. n : w[i] <= wanted.total
    BY <1>2, <1>3, <2>6, <2>7
  <2>. QED BY <2>2, <2>5, <2>8 DEF ToSet
<1>8. ASSUME wanted.kind = PURCHASE, NEW type \in TaxTypes
      PROVE  SumFunctionOnSet(AmountsOf(entries), {i \in DOMAIN entries : TypeOf[entries[i].ledger] = type})
               = SumFunctionOnSet(AmountsOf(wanted.gst_details),
                                  {i \in DOMAIN wanted.gst_details : wanted.gst_details[i].type = type})
  <2>1. read \in Seq(TaxEntries) /\
        SumFunctionOnSet(AmountsOf(read), {i \in DOMAIN read : read[i].type = type})
          = SumFunctionOnSet(AmountsOf(entries), {i \in DOMAIN entries : TypeOf[entries[i].ledger] = type})
    BY <1>1, <1>4, TaxesReadBack
  <2>2. ToBag(wanted.gst_details) = ToBag(read)
    BY <1>2, <1>3, <1>4, <1>8 DEF Listed
  <2>3. PICK told : told = wanted.gst_details
    OBVIOUS
  <2>4. TaxOn(type, told) = TaxOn(type, read)
    <3>1. told \in Seq(TaxEntries) /\ read \in Seq(TaxEntries) /\ ToBag(told) = ToBag(read)
      BY <1>4, <2>1, <2>2, <2>3
    <3>. QED BY <3>1, SameTaxes
  <2>. QED BY <2>1, <2>3, <2>4, Zenon DEF TaxOn
<1>. QED BY <1>1, <1>6, <1>7, <1>8 DEF Approved

(* What a bill is, and every bill that is proposed or drafted is one.      *)
Bill(b) ==
  /\ b.lines \in Seq(BillLines) /\ b.subtotal \in Int /\ b.tax_total \in Int /\ b.total \in Int

(* Every bill that an agent proposes or that is drafted is one.            *)
LEMMA BillsTyped ==
  ASSUME NEW b, b \in AgentBills \/ \E d \in Bills : b = ZohoDraft(d, TRUE)
  PROVE  Bill(b)
<1>1. CASE b \in AgentBills
  <2>1. b \in [lines : Seq(BillLines), subtotal : Int, tax_total : Int, total : Int]
    BY <1>1, VoucherAssumption, Zenon
  <2>. QED BY <2>1 DEF Bill
<1>2. CASE \E d \in Bills : b = ZohoDraft(d, TRUE)
  <2>1. PICK d \in Bills : b = ZohoDraft(d, TRUE)
    BY <1>2
  <2>2. /\ {d.taxable, d.cgst, d.sgst, d.igst, d.total} \subseteq Int
        /\ \A i \in DOMAIN d.lines : d.lines[i].amount \in Int
        /\ DOMAIN d.lines = 1 .. Len(d.lines) /\ Len(d.lines) \in Nat
    BY VoucherAssumption, Zenon
  <2>3. PICK n, lines_ : n = Len(d.lines) /\ lines_ = [i \in 1 .. n |-> BillLine(d.lines[i], TRUE)]
    OBVIOUS
  <2>4. \A a \in Int : [rate |-> a, quantity |-> 1, taxed |-> TRUE] \in BillLines
    BY DEF BillLines
  <2>5. \A i \in 1 .. n : BillLine(d.lines[i], TRUE) \in BillLines
    BY <2>2, <2>3, <2>4, Zenon DEF BillLine
  <2>6. lines_ \in [1 .. n -> BillLines] /\ n \in Nat
    BY <2>2, <2>3, <2>5, Zenon
  <2>7. lines_ \in Seq(BillLines)
    BY <2>6, ListOf, Zenon
  <2>8. /\ b.lines = lines_ /\ b.subtotal = d.taxable /\ b.tax_total = TaxTotal(d) /\ b.total = d.total
    BY <2>1, <2>2, <2>3 DEF ZohoDraft
  <2>9. TaxTotal(d) \in Int
    BY <2>2 DEF TaxTotal
  <2>. QED BY <2>2, <2>7, <2>8, <2>9 DEF Bill
<1>. QED BY <1>1, <1>2

(* Only a line of no quantity is read back as another.                     *)
LEMMA LinesReadBack ==
  ASSUME NEW line \in BillLines
  PROVE  /\ MapLine(line) \in BillLines /\ MapLine(line).quantity # 0
         /\ MapLine(line).rate = line.rate /\ MapLine(line).taxed = line.taxed
         /\ line.quantity # 0 => MapLine(line) = line
         /\ line.quantity = 0 => MapLine(line).quantity = 1
BY DEF BillLines, MapLine

(* What Zoho books and what is read back of it.                            *)
LEMMA BillReadBack ==
  ASSUME NEW l \in Seq(BillLines), NEW tax, NEW z, z = ZohoBooked([lines |-> l], tax),
         NEW m, m = MapBill(z)
  PROVE  /\ z.lines = l /\ z.subtotal = Subtotal(l) /\ z.tax_total = tax /\ z.total = Subtotal(l) + tax
         /\ m.subtotal = z.subtotal /\ m.tax_total = z.tax_total /\ m.total = z.total
         /\ DOMAIN m.lines = 1 .. Len(l) /\ Len(m.lines) = Len(l)
         /\ \A i \in 1 .. Len(l) : m.lines[i] = MapLine(l[i])
<1>1. PICK s : s = Subtotal(l)
  OBVIOUS
<1>2. PICK t : t = s + tax
  OBVIOUS
<1>3. z = [lines |-> l, subtotal |-> s, tax_total |-> tax, total |-> t]
  BY <1>1, <1>2, Zenon DEF ZohoBooked
<1>4. PICK r : r = [i \in DOMAIN l |-> MapLine(l[i])]
  OBVIOUS
<1>5. DOMAIN l = 1 .. Len(l) /\ Len(l) \in Nat
  OBVIOUS
<1>6. DOMAIN r = 1 .. Len(l) /\ \A i \in 1 .. Len(l) : r[i] = MapLine(l[i])
  BY <1>4, <1>5
<1>7. \A i \in 1 .. Len(l) : r[i] \in BillLines
  BY <1>6, LinesReadBack, ListFacts, Zenon
<1>8. Len(r) = Len(l)
  <2>1. r \in [1 .. Len(l) -> BillLines]
    BY <1>4, <1>5, <1>7
  <2>. QED BY <1>5, <2>1, ListOf, Zenon
<1>9. m = [z EXCEPT !.lines = r]
  <2>1. z.lines = l
    BY <1>3
  <2>. QED BY <1>4, <2>1, Zenon DEF MapBill
<1>10. m.lines = r /\ m.subtotal = s /\ m.tax_total = tax /\ m.total = t
  BY <1>3, <1>9
<1>. QED BY <1>1, <1>2, <1>3, <1>6, <1>8, <1>10

(* Two bills compare without a difference.                                 *)
Agree(b, m) ==
  /\ Len(b.lines) = Len(m.lines)
  /\ \A i \in DOMAIN b.lines \cap DOMAIN m.lines : b.lines[i] = m.lines[i]
  /\ b.subtotal = m.subtotal /\ b.tax_total = m.tax_total /\ b.total = m.total

(* That is what the comparison without a difference says.                  *)
LEMMA ComparedBill ==
  ASSUME NEW b, NEW m
  PROVE  CompareBill(b, m) = {} <=> Agree(b, m)
<1>1. \A F, G : (F \cup G = {} <=> F = {} /\ G = {})
  OBVIOUS
<1>2. /\ {c \in {"count"} : Len(b.lines) # Len(m.lines)} = {} <=> Len(b.lines) = Len(m.lines)
      /\ {c \in {"lines"} : \E i \in DOMAIN b.lines \cap DOMAIN m.lines : b.lines[i] # m.lines[i]} = {}
           <=> \A i \in DOMAIN b.lines \cap DOMAIN m.lines : b.lines[i] = m.lines[i]
      /\ {c \in {"subtotal"} : b.subtotal # m.subtotal} = {} <=> b.subtotal = m.subtotal
      /\ {c \in {"tax_total"} : b.tax_total # m.tax_total} = {} <=> b.tax_total = m.tax_total
      /\ {c \in {"total"} : b.total # m.total} = {} <=> b.total = m.total
  OBVIOUS
<1>. QED BY <1>1, <1>2, Zenon DEF CompareBill, Agree

(* A proposal passes as it was proposed unless a line has no quantity.     *)
LEMMA ProposalReadBack ==
  ASSUME NEW b, Bill(b), BillAccepted(b)
  PROVE  CompareBill(b, MapBill(ZohoBooked(ZohoJson(b), b.tax_total))) = {}
           <=> \A i \in DOMAIN b.lines : b.lines[i].quantity # 0
<1>1. PICK l, z, m : l = b.lines /\ z = ZohoBooked([lines |-> l], b.tax_total) /\ m = MapBill(z)
  OBVIOUS
<1>2. l \in Seq(BillLines) /\ DOMAIN l = 1 .. Len(l) /\ Subtotal(l) = b.subtotal
      /\ b.total = Subtotal(l) + b.tax_total
  BY <1>1 DEF Bill, BillAccepted
<1>3. /\ m.subtotal = Subtotal(l) /\ m.tax_total = b.tax_total /\ m.total = Subtotal(l) + b.tax_total
      /\ DOMAIN m.lines = 1 .. Len(l) /\ Len(m.lines) = Len(l)
      /\ \A i \in 1 .. Len(l) : m.lines[i] = MapLine(l[i])
  <2>1. PICK tax : tax = b.tax_total
    OBVIOUS
  <2>2. z = ZohoBooked([lines |-> l], tax) /\ m = MapBill(z)
    BY <1>1, <2>1
  <2>. QED BY <1>2, <2>1, <2>2, BillReadBack, SMT
<1>4. Agree(b, m) <=> \A i \in 1 .. Len(l) : l[i] = MapLine(l[i])
  BY <1>1, <1>2, <1>3 DEF Agree
<1>5. \A i \in 1 .. Len(l) : l[i] = MapLine(l[i]) <=> l[i].quantity # 0
  <2>1. \A line \in BillLines : line = MapLine(line) <=> line.quantity # 0
    BY LinesReadBack
  <2>2. \A i \in 1 .. Len(l) : l[i] \in BillLines
    BY <1>2, ListFacts, Zenon
  <2>. QED BY <2>1, <2>2, Zenon
<1>6. CompareBill(b, m) = {} <=> \A i \in 1 .. Len(l) : l[i].quantity # 0
  BY <1>4, <1>5, ComparedBill, Zenon
<1>7. MapBill(ZohoBooked(ZohoJson(b), b.tax_total)) = m
  BY <1>1, Zenon DEF ZohoJson
<1>. QED BY <1>1, <1>2, <1>6, <1>7, Zenon

(* What lines cost, and what each of them does.                            *)
LEMMA SubtotalOf ==
  ASSUME NEW l \in Seq(BillLines)
  PROVE  \E w \in [1 .. Len(l) -> Int] :
           /\ Subtotal(l) = SumFunctionOnSet(w, 1 .. Len(l))
           /\ \A i \in 1 .. Len(l) : w[i] = l[i].rate * l[i].quantity
<1>1. PICK w : w = [i \in DOMAIN l |-> l[i].rate * l[i].quantity]
  OBVIOUS
<1>2. PICK n \in Nat : n = Len(l) /\ DOMAIN l = 1 .. n
  OBVIOUS
<1>3. \A line \in BillLines : line.rate * line.quantity \in Int
  BY DEF BillLines
<1>4. \A i \in 1 .. n : l[i] \in BillLines
  BY <1>2, ListFacts, Zenon
<1>5. \A i \in 1 .. n : l[i].rate * l[i].quantity \in Int
  BY <1>3, <1>4, Zenon
<1>6. /\ w \in [1 .. n -> Int] /\ DOMAIN w = 1 .. n
      /\ \A i \in 1 .. n : w[i] = l[i].rate * l[i].quantity
  BY <1>1, <1>2, <1>5, Zenon
<1>7. Subtotal(l) = SumFunctionOnSet(w, 1 .. n)
  BY <1>1, <1>6, Zenon DEF Subtotal, SumFunction
<1>. QED BY <1>2, <1>6, <1>7, Zenon

(* An accepted bill has a line.                                            *)
LEMMA AcceptedHasLines ==
  ASSUME NEW b, Bill(b), BillAccepted(b)
  PROVE  b.lines # <<>>
<1>. SUFFICES ASSUME b.lines = <<>> PROVE FALSE
  OBVIOUS
<1>0. b.lines \in Seq(BillLines)
  BY DEF Bill
<1>1. PICK l : l = b.lines /\ l \in Seq(BillLines) /\ Len(l) = 0
  <2>1. Len(<<>>) = 0
    OBVIOUS
  <2>. QED BY <1>0, <2>1, Zenon
<1>2. PICK w \in [1 .. Len(l) -> Int] :
        /\ Subtotal(l) = SumFunctionOnSet(w, 1 .. Len(l))
        /\ \A i \in 1 .. Len(l) : w[i] = l[i].rate * l[i].quantity
  <2>1. l \in Seq(BillLines)
    BY <1>1
  <2>. QED BY <2>1, SubtotalOf, Zenon
<1>3. 1 .. Len(l) = {} /\ IsFiniteSet({})
  BY <1>1, FS_EmptySet
<1>4. Subtotal(l) = 0
  BY <1>2, <1>3, SumPicked
<1>. QED BY <1>1, <1>4 DEF BillAccepted

(* Lines stay lines when they are edited in Zoho.                          *)
LEMMA LineEditsTyped ==
  ASSUME NEW l \in Seq(BillLines), l # <<>>, NEW e \in LineEdits(l)
  PROVE  e \in Seq(BillLines)
<1>1. PICK n \in Nat : n = Len(l) /\ l \in [1 .. n -> BillLines]
  OBVIOUS
<1>2. Reverse(l) \in Seq(BillLines)
  <2>1. \A i \in 1 .. n : (n - i) + 1 \in 1 .. n
    OBVIOUS
  <2>2. Reverse(l) \in [1 .. n -> BillLines]
    BY <1>1, <2>1 DEF Reverse
  <2>. QED BY <2>2, ListOf, Zenon
<1>3. Tail(l) \in Seq(BillLines)
  OBVIOUS
<1>4. [l EXCEPT ![1].quantity = @ - 1] \in Seq(BillLines)
  <2>1. 1 \in 1 .. n => [l[1] EXCEPT !.quantity = @ - 1] \in BillLines
    BY <1>1 DEF BillLines
  <2>2. [l EXCEPT ![1].quantity = @ - 1] \in [1 .. n -> BillLines]
    BY <1>1, <2>1
  <2>. QED BY <2>2, ListOf, Zenon
<1>. QED BY <1>2, <1>3, <1>4 DEF LineEdits

(* Sums that are equal, as all their terms are but one.                    *)
OneLeft(D, x, u, w) ==
  /\ IsFiniteSet(D) /\ x \in D /\ u \in [D -> Int] /\ w \in [D -> Int]
  /\ Alike(u, w, D \ {x}) /\ SumFunctionOnSet(u, D) = SumFunctionOnSet(w, D)

(* That term is equal too.                                                 *)
LEMMA OneTermLeft ==
  ASSUME NEW D, NEW x, NEW u, NEW w, OneLeft(D, x, u, w)
  PROVE  u[x] = w[x]
<1>. /\ IsFiniteSet(D) /\ x \in D /\ u \in [D -> Int] /\ w \in [D -> Int]
     /\ Alike(u, w, D \ {x}) /\ SumFunctionOnSet(u, D) = SumFunctionOnSet(w, D)
  BY DEF OneLeft
<1>1. PICK R : R = D \ {x}
  OBVIOUS
<1>2. IsFiniteSet(R) /\ R \in SUBSET D /\ D \in SUBSET D
  BY <1>1, FS_Subset
<1>3. SumFunctionOnSet(u, R) = SumFunctionOnSet(w, R)
  BY <1>1, <1>2, SumAgreed
<1>4. /\ SumFunctionOnSet(u, D) = u[x] + SumFunctionOnSet(u, R)
      /\ SumFunctionOnSet(w, D) = w[x] + SumFunctionOnSet(w, R)
  BY <1>1, <1>2, SumTaken
<1>5. SumFunctionOnSet(w, R) \in Int /\ u[x] \in Int /\ w[x] \in Int
  BY <1>2, SumTyped
<1>6. PICK a \in Int, b \in Int, r \in Int : a = u[x] /\ b = w[x] /\ r = SumFunctionOnSet(w, R)
  BY <1>5
<1>7. a + r = b + r
  BY <1>3, <1>4, <1>6, Zenon
<1>8. a = b
  BY <1>7
<1>. QED BY <1>6, <1>8

(* A bill that passes is the approved one, but for lines that are free.    *)
BillKept(b, z) ==
  /\ z.tax_total = b.tax_total /\ Len(z.lines) = Len(b.lines)
  /\ \A i \in DOMAIN b.lines : z.lines[i] = b.lines[i] \/ b.lines[i].rate = 0

(* Every edit in Zoho that passes the comparison leaves the bill so.       *)
LEMMA BillApproved ==
  ASSUME NEW b, Bill(b), BillAccepted(b), NEW e \in LineEdits(b.lines), NEW tax,
         NEW z, z = ZohoBooked([lines |-> e], tax), CompareBill(b, MapBill(z)) = {}
  PROVE  z.total = b.total /\ BillKept(b, z)
<1>1. PICK l, m : l = b.lines /\ m = MapBill(z)
  OBVIOUS
<1>2. PICK n : n = Len(l)
  OBVIOUS
<1>3. l \in Seq(BillLines) /\ l # <<>> /\ n \in Nat \ {0} /\ DOMAIN l = 1 .. n /\ e \in Seq(BillLines)
      /\ \A i \in 1 .. n : l[i] \in BillLines
  <2>1. l \in Seq(BillLines) /\ l # <<>>
    BY <1>1, AcceptedHasLines DEF Bill
  <2>2. e \in Seq(BillLines)
    BY <1>1, <2>1, LineEditsTyped
  <2>. QED BY <1>2, <2>1, <2>2
<1>4. /\ z.lines = e /\ z.subtotal = Subtotal(e) /\ z.tax_total = tax
      /\ m.subtotal = z.subtotal /\ m.tax_total = z.tax_total /\ m.total = z.total
      /\ DOMAIN m.lines = 1 .. Len(e) /\ Len(m.lines) = Len(e)
      /\ \A i \in 1 .. Len(e) : m.lines[i] = MapLine(e[i])
  <2>1. e \in Seq(BillLines) /\ m = MapBill(z)
    BY <1>1, <1>3
  <2>. QED BY <2>1, BillReadBack, SMT
<1>5. Agree(b, m)
  BY <1>1, ComparedBill
<1>6. /\ Len(e) = n /\ z.total = b.total /\ z.tax_total = b.tax_total /\ Subtotal(e) = Subtotal(l)
      /\ \A i \in 1 .. n : l[i] = MapLine(e[i])
  BY <1>1, <1>2, <1>3, <1>4, <1>5 DEF Agree, BillAccepted
<1>7. \A i \in 1 .. n : e[i] \in BillLines
  BY <1>3, <1>6, ListFacts
<1>8. \A i \in 1 .. n : l[i].quantity # 0
  BY <1>6, <1>7, LinesReadBack, Zenon
<1>9. ASSUME NEW i \in 1 .. n, e[i].quantity # 0 PROVE e[i] = l[i]
  BY <1>6, <1>7, <1>9, LinesReadBack, Zenon
<1>10. ASSUME \A i \in 1 .. n : e[i].quantity # 0 PROVE BillKept(b, z)
  BY <1>1, <1>2, <1>3, <1>4, <1>6, <1>9, <1>10 DEF BillKept
<1>11. CASE e = l
  <2>1. \A i \in 1 .. n : e[i].quantity # 0
    BY <1>8, <1>11
  <2>. QED BY <1>6, <1>10, <2>1, Zenon
<1>12. CASE e = Reverse(l)
  <2>1. \A i \in 1 .. n : e[i].quantity # 0
    <3>. SUFFICES ASSUME NEW i \in 1 .. n PROVE e[i].quantity # 0
      OBVIOUS
    <3>1. (n - i) + 1 \in 1 .. n /\ e[i] = l[(n - i) + 1]
      BY <1>2, <1>3, <1>12 DEF Reverse
    <3>. QED BY <1>8, <3>1
  <2>. QED BY <1>6, <1>10, <2>1, Zenon
<1>13. CASE e = Tail(l)
  <2>1. Len(e) = n - 1
    BY <1>2, <1>3, <1>13
  <2>. QED BY <1>3, <1>6, <2>1
<1>14. CASE e = [l EXCEPT ![1].quantity = @ - 1]
  <2>1. /\ 1 \in 1 .. n /\ e[1] = [l[1] EXCEPT !.quantity = @ - 1]
        /\ \A i \in 1 .. n : i # 1 => e[i] = l[i]
    BY <1>3, <1>14
  <2>2. CASE e[1].quantity # 0
    <3>1. \A i \in 1 .. n : e[i].quantity # 0
      BY <1>8, <2>1, <2>2, Zenon
    <3>. QED BY <1>6, <1>10, <3>1, Zenon
  <2>3. CASE e[1].quantity = 0
    <3>1. e[1].rate = l[1].rate /\ e[1].rate \in Int /\ l[1].quantity = 1
      <4>1. l[1] = MapLine(e[1]) /\ e[1] \in BillLines
        BY <1>6, <1>7, <2>1, Zenon
      <4>2. e[1].rate \in Int
        BY <4>1 DEF BillLines
      <4>. QED BY <2>3, <4>1, <4>2, LinesReadBack
    <3>2. PICK u \in [1 .. n -> Int] :
            /\ Subtotal(l) = SumFunctionOnSet(u, 1 .. n)
            /\ \A i \in 1 .. n : u[i] = l[i].rate * l[i].quantity
      BY <1>2, <1>3, SubtotalOf
    <3>3. PICK w \in [1 .. n -> Int] :
            /\ Subtotal(e) = SumFunctionOnSet(w, 1 .. n)
            /\ \A i \in 1 .. n : w[i] = e[i].rate * e[i].quantity
      BY <1>3, <1>6, SubtotalOf
    <3>4. PICK r \in Int : r = l[1].rate
      BY <3>1
    <3>5. u[1] = r /\ w[1] = 0
      <4>1. r * 1 = r /\ r * 0 = 0
        OBVIOUS
      <4>. QED BY <2>1, <2>3, <3>1, <3>2, <3>3, <3>4, <4>1, Zenon
    <3>6. PICK D : D = 1 .. n
      OBVIOUS
    <3>7. r = 0
      <4>1. \A i \in D \ {1} : u[i] = w[i]
        BY <2>1, <3>2, <3>3, <3>6
      <4>2. OneLeft(D, 1, u, w)
        <5>1. IsFiniteSet(1 .. n)
          <6>1. 1 \in Int /\ n \in Int
            BY <1>3
          <6>. QED BY <6>1, FS_Interval, Zenon
        <5>2. SumFunctionOnSet(u, D) = SumFunctionOnSet(w, D)
          BY <1>6, <3>2, <3>3, <3>6, Zenon
        <5>3. Alike(u, w, D \ {1})
          BY <4>1, Zenon DEF Alike
        <5>4. 1 \in D /\ u \in [D -> Int] /\ w \in [D -> Int]
          BY <2>1, <3>6
        <5>5. IsFiniteSet(D)
          BY <3>6, <5>1
        <5>. QED BY <5>2, <5>3, <5>4, <5>5, Zenon DEF OneLeft
      <4>3. u[1] = w[1]
        <5>1. PICK first : first = 1
          OBVIOUS
        <5>2. OneLeft(D, first, u, w)
          BY <4>2, <5>1
        <5>3. u[first] = w[first]
          BY <5>2, OneTermLeft, Zenon
        <5>. QED BY <5>1, <5>3
      <4>. QED BY <3>5, <4>3
    <3>8. \A i \in DOMAIN b.lines : z.lines[i] = b.lines[i] \/ b.lines[i].rate = 0
      BY <1>1, <1>3, <1>4, <2>1, <3>4, <3>7, Zenon
    <3>. QED BY <1>1, <1>2, <1>4, <1>6, <3>8 DEF BillKept
  <2>. QED BY <2>2, <2>3
<1>15. e \in {l, Reverse(l), Tail(l)} \/ e = [l EXCEPT ![1].quantity = @ - 1]
  BY <1>1, Zenon DEF LineEdits
<1>. QED BY <1>6, <1>11, <1>12, <1>13, <1>14, <1>15

(* What DraftInvoice answers adds up.                                      *)
LEMMA DraftsAddUp ==
  ASSUME DraftInvoice
  PROVE  VouchersFaithful'
<1>1. PICK kind \in {PURCHASE, SALES}, doc \in Bills, ledgers \in LedgerMaps, tax \in BOOLEAN :
        Answer([kind |-> "draft", of |-> kind, doc |-> doc],
               [tally |-> DraftAccepted(kind, doc, ledgers), zoho |-> ZohoAccepted(kind, doc, tax)])
  BY Zenon DEF DraftInvoice
<1>2. PICK tally, zoho : tally = DraftAccepted(kind, doc, ledgers) /\ zoho = ZohoAccepted(kind, doc, tax)
  OBVIOUS
<1>3. request' = [kind |-> "draft", of |-> kind, doc |-> doc] /\ answer' = [tally |-> tally, zoho |-> zoho]
  BY <1>1, <1>2, Zenon DEF Answer
<1>4. PICK draft : draft = Draft(kind, doc, ledgers)
  OBVIOUS
<1>5. {doc.taxable, doc.cgst, doc.sgst, doc.igst, doc.total} \subseteq Int
      /\ ledgers \in [party : Names, account : Names, CGST : Names, SGST : Names, IGST : Names]
  BY VoucherAssumption, Zenon
<1>6. /\ draft.entries # <<>> /\ draft.kind = kind
      /\ NetsToZero(draft.entries) => doc.total = doc.taxable + TaxTotal(doc)
  BY <1>4, <1>5, DraftAddsUp
<1>7. ASSUME tally PROVE doc.total = doc.taxable + TaxTotal(doc)
  <2>1. Completed(draft) = draft
    BY <1>6, Zenon DEF Completed
  <2>2. NetsToZero(draft.entries)
    BY <1>2, <1>4, <1>6, <1>7, <2>1, Zenon DEF DraftAccepted, ValidVoucher, ValidPurchase, SoundEntries
  <2>. QED BY <1>6, <2>2, Zenon
<1>8. ASSUME kind = PURCHASE, zoho PROVE doc.total = doc.taxable + TaxTotal(doc)
  <2>1. BillAccepted(ZohoDraft(doc, tax))
    BY <1>2, <1>8, Zenon DEF ZohoAccepted
  <2>2. /\ ZohoDraft(doc, tax).total = doc.total /\ ZohoDraft(doc, tax).subtotal = doc.taxable
        /\ ZohoDraft(doc, tax).tax_total = TaxTotal(doc)
    BY DEF ZohoDraft
  <2>. QED BY <2>1, <2>2, Zenon DEF BillAccepted
<1>9. /\ request'.kind = "draft" /\ request'.of = kind /\ request'.doc = doc
      /\ answer'.tally = tally /\ answer'.zoho = zoho
  BY <1>3
<1>10. request'.kind \notin {"voucher", "proposal", "bill"}
  BY <1>9
<1>. QED BY <1>7, <1>8, <1>9, <1>10, Zenon DEF VouchersFaithful

(* What VerifyVoucher finds no fault with is what was approved.            *)
LEMMA VouchersVerified ==
  ASSUME VerifyVoucher
  PROVE  VouchersFaithful'
<1>1. PICK p \in Payloads \cup Drafts, number \in {"ref", "own"}, TypeOf \in TaxSetups :
        \E entries \in Edits(VoucherXml(p, number).entries) :
          LET held == [VoucherXml(p, number) EXCEPT !.entries = entries]
          IN  Answer([kind |-> "voucher", payload |-> Completed(p), held |-> held, types |-> TypeOf],
                     Mismatches(p, ReadVoucher(held, TypeOf)))
  BY Zenon DEF VerifyVoucher
<1>2. p \in Payloads \/ \E k \in {PURCHASE, SALES}, d \in Bills, l \in LedgerMaps : p = Draft(k, d, l)
  BY DEF Drafts
<1>3. PICK v : v = VoucherXml(p, number)
  OBVIOUS
<1>4. PICK entries \in Edits(v.entries) :
        Answer([kind |-> "voucher", payload |-> Completed(p), held |-> [v EXCEPT !.entries = entries],
                types |-> TypeOf],
               Mismatches(p, ReadVoucher([v EXCEPT !.entries = entries], TypeOf)))
  BY <1>1, <1>3
<1>5. PICK wanted, held, found :
        /\ wanted = Completed(p) /\ held = [v EXCEPT !.entries = entries]
        /\ found = Mismatches(p, ReadVoucher(held, TypeOf))
  OBVIOUS
<1>6. /\ request' = [kind |-> "voucher", payload |-> wanted, held |-> held, types |-> TypeOf]
      /\ answer' = found
  BY <1>4, <1>5 DEF Answer
<1>7. Payload(p) /\ TypeOf \in [Names -> Names]
  BY <1>2, PayloadsTyped, VoucherAssumption
<1>8. v.entries = wanted.entries /\ held.entries = entries
  BY <1>3, <1>5 DEF VoucherXml
<1>9. entries \in Seq(BookEntries)
  BY <1>4, <1>5, <1>7, <1>8, EditsTyped DEF Payload
<1>10. ASSUME found = {} PROVE Approved(wanted, held, TypeOf)
  BY <1>5, <1>7, <1>8, <1>9, <1>10, VoucherApproved
<1>11. /\ request'.kind = "voucher" /\ request'.payload = wanted /\ request'.held = held
       /\ request'.types = TypeOf
  BY <1>6
<1>12. request'.kind \notin {"draft", "proposal", "bill"}
  BY <1>11
<1>. QED BY <1>6, <1>10, <1>11, <1>12, Zenon DEF VouchersFaithful, Approved

(* What ProposeAction accepts passes.                                      *)
LEMMA ProposalsPass ==
  ASSUME ProposeAction
  PROVE  VouchersFaithful'
<1>1. PICK b \in AgentBills : request' = [kind |-> "proposal", bill |-> b] /\ answer' = BillAccepted(b)
  BY Zenon DEF ProposeAction, Answer
<1>2. request'.kind = "proposal" /\ request'.bill = b /\ request'.kind \notin {"draft", "voucher", "bill"}
  BY <1>1
<1>3. Bill(b)
  BY BillsTyped
<1>. QED BY <1>1, <1>2, <1>3, ProposalReadBack, Zenon DEF VouchersFaithful

(* What VerifyBill finds no fault with is what was approved.               *)
LEMMA BillsVerified ==
  ASSUME VerifyBill
  PROVE  VouchersFaithful'
<1>. DEFINE Drafted == AgentBills \cup {ZohoDraft(d, TRUE) : d \in Bills}
<1>1. PICK kind \in {PURCHASE, SALES}, tax \in {0, 180}, b \in Drafted :
        /\ IF kind = PURCHASE THEN BillAccepted(b) ELSE InvoiceAccepted(b)
        /\ \E lines_ \in LineEdits(ZohoJson(b).lines) :
             LET held == ZohoBooked([lines |-> lines_], tax)
             IN  Answer([kind |-> "bill", of |-> kind, draft |-> b, held |-> held],
                        IF kind = PURCHASE THEN CompareBill(b, MapBill(held))
                        ELSE CompareInvoice(b, MapBill(held)))
  BY DEF VerifyBill
<1>2. Bill(b)
  BY BillsTyped
<1>. HIDE DEF Drafted
<1>3. PICK e \in LineEdits(ZohoJson(b).lines) :
        Answer([kind |-> "bill", of |-> kind, draft |-> b, held |-> ZohoBooked([lines |-> e], tax)],
               IF kind = PURCHASE THEN CompareBill(b, MapBill(ZohoBooked([lines |-> e], tax)))
               ELSE CompareInvoice(b, MapBill(ZohoBooked([lines |-> e], tax))))
  BY <1>1
<1>4. PICK z, found :
        /\ z = ZohoBooked([lines |-> e], tax)
        /\ found = IF kind = PURCHASE THEN CompareBill(b, MapBill(z)) ELSE CompareInvoice(b, MapBill(z))
  OBVIOUS
<1>5. request' = [kind |-> "bill", of |-> kind, draft |-> b, held |-> z] /\ answer' = found
  BY <1>3, <1>4, Zenon DEF Answer
<1>6. e \in LineEdits(b.lines)
  <2>1. ZohoJson(b).lines = b.lines
    BY DEF ZohoJson
  <2>. QED BY <1>3, <2>1
<1>7. ASSUME found = {}, kind = PURCHASE PROVE z.total = b.total /\ BillKept(b, z)
  <2>1. BillAccepted(b) /\ CompareBill(b, MapBill(z)) = {}
    BY <1>1, <1>4, <1>7
  <2>. QED BY <1>2, <1>4, <1>6, <2>1, BillApproved
<1>8. ASSUME found = {}, kind # PURCHASE PROVE z.total = b.total
  <2>1. b.lines # <<>> /\ b.lines \in Seq(BillLines)
    BY <1>1, <1>2, <1>8 DEF InvoiceAccepted, Bill
  <2>2. e \in Seq(BillLines)
    BY <1>6, <2>1, LineEditsTyped
  <2>3. PICK m : m = MapBill(z)
    OBVIOUS
  <2>4. m.total = z.total
    BY <1>4, <2>2, <2>3, BillReadBack
  <2>5. CompareInvoice(b, m) = {}
    BY <1>4, <1>8, <2>3
  <2>. QED BY <2>4, <2>5 DEF CompareInvoice
<1>9. /\ request'.kind = "bill" /\ request'.of = kind /\ request'.draft = b /\ request'.held = z
  BY <1>5
<1>10. request'.kind \notin {"draft", "voucher", "proposal"}
  BY <1>9
<1>. QED BY <1>5, <1>7, <1>8, <1>9, <1>10, Zenon DEF VouchersFaithful, BillKept

(* What Tally, or Zoho for a purchase, is asked to book adds up to the     *)
(* paisa, and what is read back without a mismatch is what was approved    *)
(* (compare_purchase, compare_sales, compare_bill).                        *)
THEOREM VouchersStayFaithful == Spec => []VouchersFaithful
<1>1. Init => VouchersFaithful
  BY DEF Init, VouchersFaithful
<1>2. VouchersFaithful /\ [Next]_vars => VouchersFaithful'
  <2>. SUFFICES ASSUME VouchersFaithful, [Next]_vars PROVE VouchersFaithful'
    OBVIOUS
  <2>1. CASE UNCHANGED vars
    BY <2>1 DEF vars, VouchersFaithful
  <2>2. CASE Next /\ request'.kind \in {"draft", "voucher", "proposal", "bill"}
    BY <2>2, KindsOfRequests, DraftsAddUp, VouchersVerified, ProposalsPass, BillsVerified, Zenon
  <2>3. CASE request'.kind \notin {"draft", "voucher", "proposal", "bill"}
    BY <2>3, Zenon DEF VouchersFaithful
  <2>. QED BY <2>1, <2>2, <2>3
<1>. QED BY <1>1, <1>2, PTL DEF Spec

-----------------------------------------------------------------------------
(***************************************************************************)
(* The bank reconciliation.                                                *)
(***************************************************************************)

(* A request that decides holds present rows, and means to reject every    *)
(* rival of what it accepts, unless one came meanwhile.                    *)
Deciders ==
  \A q \in Reviewers : reviewer[q].kind = "decide" =>
    LET r == reviewer[q]
    IN  /\ r.row \in Scored /\ Present(r.row)
        /\ r.status \in {"ACCEPTED", "REJECTED"}
        /\ \A row \in r.rejects : row \in Scored /\ Present(row)
        /\ r.status = "ACCEPTED" => r.row[1] \in late \/ Rivals(r.row) \subseteq r.rejects

OnlyOneAccepted ==
  \A r, s \in Scored :
    (candidate[r] = "ACCEPTED" /\ candidate[s] = "ACCEPTED" /\ r[1] = s[1] /\ r # s)
      => r[1] \in late

(* A proof's totals were read at once.                                     *)
TotalsRead ==
  /\ \A q \in Reviewers : reviewer[q].kind = "proof" =>
       \/ reviewer[q].late
       \/ reviewer[q].matched + reviewer[q].unmatched = Total
  /\ \A p \in proofs : p.late \/ p.matched + p.unmatched = Total

BankTypes ==
  /\ candidate \in [Scored -> {"NONE", "SUGGESTED", "ACCEPTED", "REJECTED"}]
  /\ reviewer = [q \in Reviewers |-> reviewer[q]]

BankInv == BankTypes /\ Deciders /\ OnlyOneAccepted /\ TotalsRead

(* With one entry accepted for a transaction, what is matched and what is  *)
(* not add up to the statement.                                            *)
LEMMA TotalsAddUp ==
  ASSUME BankTypes, OnlyOneAccepted, late = {}
  PROVE  Matched + Unmatched = Total
<1>. DEFINE v == [row \in Scored |-> Amount[row[1]]]
            here == {row[1] : row \in Accepted}
            rest == {t \in Transactions : \A row \in Accepted : row[1] # t}
<1>1. /\ IsFiniteSet(Transactions) /\ IsFiniteSet(Scored) /\ IsFiniteSet(Accepted)
      /\ IsFiniteSet(here) /\ IsFiniteSet(rest)
  <2>1. IsFiniteSet(Transactions \X Books)
    BY BankAssumption, FS_Product
  <2>2. IsFiniteSet(Scored) /\ Accepted \in SUBSET Scored
    BY <2>1, BankAssumption, FS_Subset DEF Accepted
  <2>3. here \subseteq Transactions /\ rest \subseteq Transactions
    BY <2>2, BankAssumption
  <2>. QED BY <2>2, <2>3, BankAssumption, FS_Subset
<1>2. /\ Accepted \in SUBSET Scored
      /\ \A row \in Scored : row[1] \in Transactions
      /\ Amount \in [Transactions -> Int]
      /\ v \in [Scored -> Int]
  BY BankAssumption DEF Accepted
<1>3. \A r, s \in Accepted : r[1] = s[1] => r = s
  BY DEF OnlyOneAccepted, Accepted
<1>4. SumFunctionOnSet(v, Accepted) = SumFunctionOnSet(Amount, here)
  <2>. DEFINE f == [row \in Accepted |-> row[1]]
  <2>1. /\ \A row \in Accepted : f[row] \in Transactions /\ v[row] = Amount[f[row]]
        /\ \A r, s \in Accepted : f[r] = f[s] => r = s
        /\ here = {f[row] : row \in Accepted}
    BY <1>2, <1>3
  <2>. HIDE DEF f, v, here
  <2>. QED BY <1>1, <1>2, <2>1, SumRenamed
<1>5. here \cap rest = {} /\ here \cup rest = Transactions
  BY <1>2
<1>6. SumFunctionOnSet(Amount, here \cup rest) =
        SumFunctionOnSet(Amount, here) + SumFunctionOnSet(Amount, rest)
  <2>1. here \in SUBSET Transactions /\ rest \in SUBSET Transactions
    BY <1>5
  <2>. HIDE DEF here, rest
  <2>. QED BY <1>1, <1>2, <1>5, <2>1, SumOfParts
<1>7. DOMAIN Amount = Transactions
  BY <1>2
<1>. QED BY <1>4, <1>5, <1>6, <1>7 DEF Matched, Unmatched, Total, SumFunction

(* A step that leaves the candidates and the proofs alone.                 *)
LEMMA CandidatesKept ==
  ASSUME BankInv, NEW q \in Reviewers, NEW r, Asks(q, r),
         UNCHANGED <<candidate, proofs, late>>, r.kind \notin {"decide", "proof"}
  PROVE  BankInv'
<1>1. /\ reviewer' = [reviewer EXCEPT ![q] = r]
      /\ \A p \in Reviewers : reviewer'[p] = IF p = q THEN r ELSE reviewer[p]
  BY DEF BankInv, BankTypes, Asks
<1>2. BankTypes'
  BY <1>1 DEF BankInv, BankTypes
<1>3. Deciders'
  BY <1>1 DEF BankInv, Deciders, Present, Rivals
<1>. QED
  BY <1>1, <1>2, <1>3 DEF BankInv, OnlyOneAccepted, TotalsRead

(* Candidates that come while one of their transaction is being accepted   *)
(* make the transaction late.                                              *)
LEMMA InsertCandidatesKeeps ==
  ASSUME BankInv, NEW q \in Reviewers, InsertCandidates(q)
  PROVE  BankInv'
<1>. DEFINE new == {row \in Scored : row[2] \in reviewer[q].books /\ ~Present(row)}
<1>1. /\ candidate' = [row \in Scored |-> IF row \in new THEN "SUGGESTED" ELSE candidate[row]]
      /\ late' = late \cup {row[1] : row \in {r \in new : Deciding(r[1])}}
      /\ reviewer' = [reviewer EXCEPT ![q] = Away]
      /\ proofs' = proofs
      /\ \A p \in Reviewers : reviewer'[p] = IF p = q THEN Away ELSE reviewer[p]
  BY DEF InsertCandidates, Leaves, Asks, BankInv, BankTypes
<1>. HIDE DEF new
<1>2. BankTypes'
  BY <1>1 DEF BankInv, BankTypes
<1>3. \A row \in Scored : Present(row)' <=> Present(row) \/ row \in new
  BY <1>1 DEF Present, BankInv, BankTypes
<1>4. ASSUME NEW p \in Reviewers, NEW r, r = reviewer'[p], r.kind = "decide"
      PROVE  /\ r.row \in Scored /\ Present(r.row)'
             /\ r.status \in {"ACCEPTED", "REJECTED"}
             /\ \A row \in r.rejects : row \in Scored /\ Present(row)'
             /\ r.status = "ACCEPTED" => r.row[1] \in late' \/ Rivals(r.row)' \subseteq r.rejects
  <2>1. p # q /\ reviewer[p] = r
    BY <1>1, <1>4 DEF Away
  <2>2. /\ r.row \in Scored /\ Present(r.row)
        /\ r.status \in {"ACCEPTED", "REJECTED"}
        /\ \A row \in r.rejects : row \in Scored /\ Present(row)
        /\ r.status = "ACCEPTED" => r.row[1] \in late \/ Rivals(r.row) \subseteq r.rejects
    BY <1>4, <2>1 DEF BankInv, Deciders
  <2>3. ASSUME r.status = "ACCEPTED", r.row[1] \notin late'
        PROVE  Rivals(r.row)' \subseteq r.rejects
    <3>1. Deciding(r.row[1])
      BY <1>4, <2>1 DEF Deciding
    <3>2. \A row \in new : row[1] # r.row[1]
      BY <1>1, <2>3, <3>1
    <3>3. Rivals(r.row)' = Rivals(r.row)
      BY <1>3, <3>2 DEF Rivals
    <3>. QED BY <2>2, <2>3, <3>3, <1>1
  <2>. QED BY <1>3, <2>2, <2>3
<1>7. Deciders'
  BY <1>4 DEF Deciders
<1>5. OnlyOneAccepted'
  BY <1>1 DEF BankInv, OnlyOneAccepted
<1>6. TotalsRead'
  BY <1>1 DEF BankInv, TotalsRead, Away, Total
<1>. QED BY <1>2, <1>5, <1>6, <1>7 DEF BankInv

(* A decision applies to the row and to the rows it found; if one of their *)
(* transaction stays accepted, it came meanwhile.                          *)
LEMMA CommitDecisionKeeps ==
  ASSUME BankInv, NEW q \in Reviewers, CommitDecision(q)
  PROVE  BankInv'
<1>. DEFINE d == reviewer[q]
<1>1. /\ candidate' = [row \in Scored |->
             IF row = d.row THEN d.status
             ELSE IF row \in d.rejects THEN "REJECTED" ELSE candidate[row]]
      /\ late' = late /\ proofs' = proofs
      /\ reviewer' = [reviewer EXCEPT ![q] = Away]
      /\ \A p \in Reviewers : reviewer'[p] = IF p = q THEN Away ELSE reviewer[p]
  BY DEF CommitDecision, Leaves, Asks, BankInv, BankTypes
<1>2. /\ d.row \in Scored /\ Present(d.row)
      /\ d.status \in {"ACCEPTED", "REJECTED"}
      /\ \A row \in d.rejects : row \in Scored /\ Present(row)
      /\ d.status = "ACCEPTED" => d.row[1] \in late \/ Rivals(d.row) \subseteq d.rejects
  BY DEF CommitDecision, BankInv, Deciders
<1>. HIDE DEF d
<1>3. BankTypes'
  BY <1>1, <1>2 DEF BankInv, BankTypes
<1>4. \A row \in Scored : Present(row)' <=> Present(row)
  BY <1>1, <1>2 DEF Present, BankInv, BankTypes
<1>5. \A row : Rivals(row)' = Rivals(row)
  BY <1>4 DEF Rivals
<1>6. Deciders'
  <2>1. \A p \in Reviewers : reviewer'[p].kind = "decide" =>
          p # q /\ reviewer'[p] = reviewer[p] /\ reviewer[p].kind = "decide"
    BY <1>1 DEF Away
  <2>. QED
    BY <1>1, <1>4, <1>5, <2>1 DEF BankInv, Deciders
<1>7. OnlyOneAccepted'
  <2>. SUFFICES ASSUME NEW r \in Scored, NEW s \in Scored,
                       candidate'[r] = "ACCEPTED", candidate'[s] = "ACCEPTED",
                       r[1] = s[1], r # s
                PROVE  r[1] \in late
    BY <1>1 DEF OnlyOneAccepted
  <2>1. CASE r # d.row /\ s # d.row
    BY <1>1, <2>1 DEF BankInv, OnlyOneAccepted
  <2>2. ASSUME NEW t \in Scored, t # d.row, t[1] = d.row[1], candidate'[t] = "ACCEPTED",
               d.status = "ACCEPTED"
        PROVE  d.row[1] \in late
    <3>1. candidate[t] = "ACCEPTED" /\ t \notin d.rejects
      BY <1>1, <2>2
    <3>2. t \in Rivals(d.row)
      BY <2>2, <3>1 DEF Rivals, Present
    <3>. QED BY <1>2, <2>2, <3>1, <3>2
  <2>3. CASE r = d.row
    BY <1>1, <2>2, <2>3
  <2>4. CASE s = d.row
    BY <1>1, <2>2, <2>4
  <2>. QED BY <2>1, <2>3, <2>4
<1>8. TotalsRead'
  BY <1>1 DEF BankInv, TotalsRead, Away, Total
<1>. QED BY <1>3, <1>6, <1>7, <1>8 DEF BankInv

(* The invariant of the bank workspace holds in every reachable state.     *)
LEMMA BankInvariant == BankSpec => []BankInv
<1>1. BankInit => BankInv
  <2>. SUFFICES ASSUME BankInit PROVE BankInv
    OBVIOUS
  <2>. QED
    BY DEF BankInit, BankInv, BankTypes, Deciders, OnlyOneAccepted, TotalsRead, Away
<1>2. BankInv /\ [BankNext]_bank_vars => BankInv'
  <2>. SUFFICES ASSUME BankInv, [BankNext]_bank_vars PROVE BankInv'
    OBVIOUS
  <2>1. ASSUME NEW b \in Books, PostEntry(b) PROVE BankInv'
    BY <2>1 DEF PostEntry, BankInv, BankTypes, Deciders, OnlyOneAccepted, TotalsRead, Present,
         Rivals, Total
  <2>2. ASSUME NEW q \in Reviewers, StoreUpload(q) PROVE BankInv'
    <3>1. [kind |-> "upload"].kind \notin {"decide", "proof"}
      OBVIOUS
    <3>. QED BY <2>2, <3>1, CandidatesKept DEF StoreUpload
  <2>3. ASSUME NEW q \in Reviewers, Leaves(q), UNCHANGED <<candidate, proofs, late>>
        PROVE  BankInv'
    <3>1. Away.kind \notin {"decide", "proof"}
      BY DEF Away
    <3>. QED BY <2>3, <3>1, CandidatesKept DEF Leaves
  <2>4. ASSUME NEW q \in Reviewers, CommitUpload(q) \/ AbortDecision(q) \/ ProposePosting(q)
        PROVE  BankInv'
    BY <2>3, <2>4 DEF CommitUpload, AbortDecision, ProposePosting
  <2>5. ASSUME NEW q \in Reviewers, ReadBooks(q) PROVE BankInv'
    <3>1. [kind |-> "generate", books |-> books].kind \notin {"decide", "proof"}
      OBVIOUS
    <3>. QED BY <2>5, <3>1, CandidatesKept DEF ReadBooks
  <2>6. ASSUME NEW q \in Reviewers, ReadAccepted(q) PROVE BankInv'
    <3>1. PICK row \in Scored : Asks(q, [kind |-> "posting", row |-> row])
      BY <2>6 DEF ReadAccepted
    <3>2. [kind |-> "posting", row |-> row].kind \notin {"decide", "proof"}
      OBVIOUS
    <3>. QED BY <2>6, <3>1, <3>2, CandidatesKept DEF ReadAccepted
  <2>7. ASSUME NEW q \in Reviewers, InsertCandidates(q) PROVE BankInv'
    BY <2>7, InsertCandidatesKeeps
  <2>8. ASSUME NEW q \in Reviewers, CommitDecision(q) PROVE BankInv'
    BY <2>8, CommitDecisionKeeps
  <2>9. ASSUME NEW q \in Reviewers, Decide(q) PROVE BankInv'
    <3>1. PICK row \in Scored, status \in {"ACCEPTED", "REJECTED"} :
            /\ Present(row)
            /\ Asks(q, [kind |-> "decide", row |-> row, status |-> status,
                        rejects |-> RejectedBy(row, status), held |-> {}])
      BY <2>9 DEF Decide
    <3>. DEFINE d == [kind |-> "decide", row |-> row, status |-> status,
                      rejects |-> RejectedBy(row, status), held |-> {}]
    <3>2. /\ reviewer' = [reviewer EXCEPT ![q] = d]
          /\ \A p \in Reviewers : reviewer'[p] = IF p = q THEN d ELSE reviewer[p]
          /\ UNCHANGED <<candidate, proofs, late>>
      BY <2>9, <3>1 DEF Decide, Asks, BankInv, BankTypes
    <3>3. /\ d.kind = "decide" /\ d.row = row /\ d.status = status
          /\ \A r \in d.rejects : r \in Scored /\ Present(r)
          /\ status = "ACCEPTED" => Rivals(row) \subseteq d.rejects
      BY DEF RejectedBy, Rivals
    <3>. HIDE DEF d
    <3>4. \A r : Rivals(r)' = Rivals(r) /\ (Present(r)' <=> Present(r))
      BY <3>2 DEF Rivals, Present
    <3>5. BankTypes'
      BY <3>2 DEF BankInv, BankTypes
    <3>6. Deciders'
      BY <3>1, <3>2, <3>3, <3>4 DEF BankInv, Deciders
    <3>. QED
      BY <3>2, <3>3, <3>5, <3>6 DEF BankInv, OnlyOneAccepted, TotalsRead, Total
  <2>10. ASSUME NEW q \in Reviewers, LockRow(q) PROVE BankInv'
    <3>1. PICK row \in Awaited(q) : Asks(q, [reviewer[q] EXCEPT !.held = @ \cup {row}])
      BY <2>10 DEF LockRow
    <3>. DEFINE d == [reviewer[q] EXCEPT !.held = @ \cup {row}]
    <3>2. /\ reviewer' = [reviewer EXCEPT ![q] = d]
          /\ \A p \in Reviewers : reviewer'[p] = IF p = q THEN d ELSE reviewer[p]
          /\ UNCHANGED <<candidate, proofs, late>>
      BY <2>10, <3>1 DEF LockRow, Asks, BankInv, BankTypes
    <3>3. reviewer[q].kind = "decide"
      BY <3>1 DEF Awaited
    <3>4. /\ d.kind = reviewer[q].kind /\ d.row = reviewer[q].row
          /\ d.status = reviewer[q].status /\ d.rejects = reviewer[q].rejects
      OBVIOUS
    <3>. HIDE DEF d
    <3>5. \A r : Rivals(r)' = Rivals(r) /\ (Present(r)' <=> Present(r))
      BY <3>2 DEF Rivals, Present
    <3>6. BankTypes'
      BY <3>2 DEF BankInv, BankTypes
    <3>7. Deciders'
      BY <3>2, <3>3, <3>4, <3>5 DEF BankInv, Deciders
    <3>. QED
      BY <3>2, <3>3, <3>4, <3>6, <3>7 DEF BankInv, OnlyOneAccepted, TotalsRead, Total
  <2>11. ASSUME NEW q \in Reviewers, ReadTotals(q) PROVE BankInv'
    <3>1. PICK complete \in BOOLEAN :
            Asks(q, [kind |-> "proof", matched |-> Matched, unmatched |-> Unmatched,
                     completed |-> complete, late |-> late # {}])
      BY <2>11 DEF ReadTotals
    <3>. DEFINE r == [kind |-> "proof", matched |-> Matched, unmatched |-> Unmatched,
                      completed |-> complete, late |-> late # {}]
    <3>2. /\ reviewer' = [reviewer EXCEPT ![q] = r]
          /\ \A p \in Reviewers : reviewer'[p] = IF p = q THEN r ELSE reviewer[p]
          /\ UNCHANGED <<candidate, proofs, late>>
      BY <2>11, <3>1 DEF ReadTotals, Asks, BankInv, BankTypes
    <3>3. r.kind = "proof" /\ (r.late \/ r.matched + r.unmatched = Total)
      BY TotalsAddUp DEF BankInv
    <3>. HIDE DEF r
    <3>5. \A row : Rivals(row)' = Rivals(row) /\ (Present(row)' <=> Present(row))
      BY <3>2 DEF Rivals, Present
    <3>6. BankTypes'
      BY <3>2 DEF BankInv, BankTypes
    <3>7. Deciders'
      BY <3>2, <3>3, <3>5 DEF BankInv, Deciders
    <3>. QED
      BY <3>2, <3>3, <3>6, <3>7 DEF BankInv, OnlyOneAccepted, TotalsRead, Total
  <2>12. ASSUME NEW q \in Reviewers, CreateProof(q) PROVE BankInv'
    <3>1. /\ reviewer' = [reviewer EXCEPT ![q] = Away]
          /\ \A p \in Reviewers : reviewer'[p] = IF p = q THEN Away ELSE reviewer[p]
          /\ UNCHANGED <<candidate, late>>
          /\ proofs' = proofs \cup
               {[version |-> Cardinality(proofs) + 1, matched |-> reviewer[q].matched,
                 unmatched |-> reviewer[q].unmatched, completed |-> reviewer[q].completed,
                 late |-> reviewer[q].late]}
          /\ reviewer[q].kind = "proof"
      BY <2>12 DEF CreateProof, Leaves, Asks, BankInv, BankTypes
    <3>2. TotalsRead'
      BY <3>1 DEF BankInv, TotalsRead, Total, Away
    <3>3. \A row : Rivals(row)' = Rivals(row) /\ (Present(row)' <=> Present(row))
      BY <3>1 DEF Rivals, Present
    <3>4. BankTypes' /\ Deciders' /\ OnlyOneAccepted'
      BY <3>1, <3>3 DEF BankInv, BankTypes, Deciders, OnlyOneAccepted, Away
    <3>. QED BY <3>2, <3>4 DEF BankInv
  <2>13. CASE UNCHANGED bank_vars
    BY <2>13 DEF bank_vars, BankInv, BankTypes, Deciders, OnlyOneAccepted, TotalsRead, Present,
         Rivals, Total
  <2>. QED
    BY <2>1, <2>2, <2>4, <2>5, <2>6, <2>7, <2>8, <2>9, <2>10, <2>11, <2>12, <2>13 DEF BankNext
<1>. QED BY <1>1, <1>2, PTL DEF BankSpec

(* However the reviewers' decisions interleave, a transaction is accepted  *)
(* against one entry, unless a candidate was inserted while another was    *)
(* being accepted, and a proof counts every transaction once.              *)
THEOREM TransactionsAcceptedOnce == BankSpec => []AcceptedOnce
<1>1. BankInv => AcceptedOnce
  BY DEF BankInv, OnlyOneAccepted, TotalsRead, AcceptedOnce
<1>. QED BY <1>1, BankInvariant, PTL

-----------------------------------------------------------------------------
(***************************************************************************)
(* The income tax workspace.                                               *)
(***************************************************************************)

(* The workspace is a row whose hash is of its sources, approved and filed *)
(* rows pass the table's check, lines drafted by the engine are of the     *)
(* sources, and a filing or completion the status shows is on record.      *)
Statuses == Final \cup {"DATA_REQUIRED", "NEEDS_REVIEW", "REJECTED"}
Hashes == {NoHash} \cup SUBSET Sources
WorkspaceRows ==
  [status : Statuses, hash : Hashes, approved : Hashes, stale : BOOLEAN]

Backed ==
  /\ workspace \in WorkspaceRows
  /\ sources \in SUBSET Sources
  /\ workspace.hash \in {NoHash, sources}
  /\ Consistent(workspace)
  /\ lines \subseteq {Manual, sources}
SetFiled == {"FILED_EXTERNALLY", "PAYMENT_RECORDED", "E_VERIFIED"}
Recorded ==
  /\ filed \in {NotFiled} \cup SetFiled
  /\ workspace.status \in {"FILED_EXTERNALLY", "COMPLETED"} => filed \in SetFiled
  /\ workspace.status = "COMPLETED" => acknowledged
ItrInv == Backed /\ Recorded

(* Every request keeps that.                                               *)
LEMMA ItrInvariant == ItrSpec => []ItrInv
<1>1. ItrInit => ItrInv
  <2>. SUFFICES ASSUME ItrInit PROVE ItrInv
    OBVIOUS
  <2>. QED
    BY DEF ItrInit, ItrInv, Backed, Recorded, WorkspaceRows, Statuses, Hashes, Consistent, Final
<1>2. ItrInv /\ [ItrNext]_itr_vars => ItrInv'
  <2>. SUFFICES ASSUME ItrInv, [ItrNext]_itr_vars PROVE ItrInv'
    OBVIOUS
  <2>0. /\ workspace = [status |-> workspace.status, hash |-> workspace.hash,
                        approved |-> workspace.approved, stale |-> workspace.stale]
        /\ workspace.status \in Statuses /\ workspace.hash \in Hashes
        /\ workspace.approved \in Hashes /\ workspace.stale \in BOOLEAN
        /\ sources \in SUBSET Sources
    BY DEF ItrInv, Backed, WorkspaceRows
  <2>1. ASSUME UNCHANGED <<workspace, sources, lines, filed, acknowledged>> PROVE ItrInv'
    BY <2>1 DEF ItrInv, Backed, Recorded, Consistent
  <2>2. CASE Create
    BY <2>1, <2>2 DEF Create
  <2>3. CASE Authorize
    BY <2>1, <2>3 DEF Authorize
  <2>4. CASE AddSource
    <3>1. PICK s \in Sources \ sources :
            LET hash == sources \cup {s}
                moved == workspace.approved # NoHash /\ workspace.approved # hash
            IN  /\ sources' = sources \cup {s}
                /\ Update([workspace EXCEPT !.hash = hash, !.stale = moved,
                             !.status = IF moved THEN "NEEDS_REVIEW" ELSE "DATA_REQUIRED"])
      BY <2>4 DEF AddSource, HashAfter
    <3>. DEFINE hash == sources \cup {s}
                moved == workspace.approved # NoHash /\ workspace.approved # hash
                status == IF moved THEN "NEEDS_REVIEW" ELSE "DATA_REQUIRED"
    <3>2. hash \in Hashes /\ sources' = hash /\ hash \in SUBSET Sources
      BY <3>1, <2>0 DEF Hashes
    <3>3. workspace' = [status |-> status, hash |-> hash, approved |-> workspace.approved, stale |-> moved]
      BY <3>1, <2>0 DEF Update
    <3>4. workspace' \in WorkspaceRows /\ workspace'.status \notin Final
      BY <3>3, <3>2, <2>0 DEF WorkspaceRows, Statuses, Final
    <3>. QED
      BY <3>2, <3>3, <3>4, <2>4 DEF AddSource, ItrInv, Backed, Recorded, Consistent, Final
  <2>5. ASSUME NEW status \in {"DATA_REQUIRED", "NEEDS_REVIEW"}, NEW stale \in BOOLEAN,
               workspace' = [workspace EXCEPT !.status = status, !.stale = stale],
               UNCHANGED <<sources, filed, acknowledged>>, lines' \subseteq {Manual, sources}
        PROVE  ItrInv'
    <3>1. workspace' = [status |-> status, hash |-> workspace.hash,
                        approved |-> workspace.approved, stale |-> stale]
      BY <2>5, <2>0
    <3>2. workspace' \in WorkspaceRows
      BY <3>1, <2>0 DEF WorkspaceRows, Statuses
    <3>. QED
      BY <3>1, <3>2, <2>5 DEF ItrInv, Backed, Recorded, Consistent, Final
  <2>6. ASSUME NEW q \in Callers, EnterSchedules(q) PROVE ItrInv'
    <3>1. workspace' = [workspace EXCEPT !.status = "NEEDS_REVIEW", !.stale = workspace.stale]
      BY <2>6, <2>0 DEF EnterSchedules, Update
    <3>2. lines' \subseteq {Manual, sources}
      BY <2>6 DEF EnterSchedules, ItrInv, Backed
    <3>. QED
      BY <3>1, <3>2, <2>0, <2>5, <2>6 DEF EnterSchedules
  <2>7. CASE DraftReturn
    BY <2>5, <2>7 DEF DraftReturn, Update
  <2>8. CASE RecordEvent
    <3>1. PICK type \in {"FILED_EXTERNALLY", "PAYMENT_RECORDED", "E_VERIFIED", "REJECTED",
                         "ACKNOWLEDGEMENT_UPLOADED"}, attached \in BOOLEAN :
            /\ Acceptable(type, attached)
            /\ Update([workspace EXCEPT !.status = StatusAfter(type)])
            /\ filed' = IF StatusAfter(type) = "FILED_EXTERNALLY" /\ filed = NotFiled
                         THEN type ELSE filed
            /\ acknowledged' = (acknowledged \/ (type = "ACKNOWLEDGEMENT_UPLOADED" /\ attached))
      BY <2>8 DEF RecordEvent
    <3>. DEFINE status == StatusAfter(type)
    <3>2. /\ status \in {"FILED_EXTERNALLY", "REJECTED", "COMPLETED"}
          /\ status = "COMPLETED" <=> type = "ACKNOWLEDGEMENT_UPLOADED"
          /\ status = "FILED_EXTERNALLY" => type \in SetFiled /\ filed' \in SetFiled
          /\ status = "COMPLETED" =>
               acknowledged' /\ filed' = filed /\ workspace.status = "FILED_EXTERNALLY"
          /\ status = "REJECTED" => filed' = filed
      BY <3>1 DEF StatusAfter, Acceptable, SetFiled, ItrInv, Recorded
    <3>. HIDE DEF status
    <3>3. /\ workspace' = [status |-> status, hash |-> workspace.hash,
                           approved |-> workspace.approved, stale |-> workspace.stale]
          /\ Consistent(workspace')
      BY <3>1, <2>0 DEF Update, status
    <3>4. workspace' \in WorkspaceRows
      BY <3>2, <3>3, <2>0 DEF WorkspaceRows, Statuses, Final
    <3>. QED
      BY <3>2, <3>3, <3>4, <2>8 DEF RecordEvent, ItrInv, Backed, Recorded
  <2>9. ASSUME NEW q \in Callers,
               \/ ReadSources(q) \/ DeleteItems(q) \/ CheckApproval(q) \/ RefuseApproval(q)
               \/ ReadForPack(q) \/ DeleteLines(q) \/ RefuseSchedules(q)
        PROVE  ItrInv'
    BY <2>1, <2>9 DEF ReadSources, DeleteItems, CheckApproval, RefuseApproval, ReadForPack,
         DeleteLines, RefuseSchedules
  <2>10. ASSUME NEW q \in Callers, CommitReconciliation(q) PROVE ItrInv'
    <3>. DEFINE status == IF AllMatched(caller[q].result) THEN "NEEDS_REVIEW" ELSE "DATA_REQUIRED"
    <3>1. workspace' = [workspace EXCEPT !.status = status, !.stale = workspace.stale]
      BY <2>10, <2>0 DEF CommitReconciliation, Update
    <3>. QED
      BY <3>1, <2>0, <2>5, <2>10 DEF CommitReconciliation, ItrInv, Backed
  <2>11. ASSUME NEW q \in Callers, Approve(q) PROVE ItrInv'
    <3>1. /\ workspace' = [status |-> "APPROVED", hash |-> workspace.hash,
                           approved |-> workspace.hash, stale |-> FALSE]
          /\ Consistent(workspace')
      BY <2>11, <2>0 DEF Approve, Update
    <3>2. workspace' \in WorkspaceRows
      BY <3>1, <2>0 DEF WorkspaceRows, Statuses, Final
    <3>. QED
      BY <3>1, <3>2, <2>11 DEF Approve, ItrInv, Backed, Recorded
  <2>12. ASSUME NEW q \in Callers, Pack(q) PROVE ItrInv'
    <3>. DEFINE packed == [workspace EXCEPT !.status = "READY_FOR_MANUAL_FILING"]
    <3>1. packed = [status |-> "READY_FOR_MANUAL_FILING", hash |-> workspace.hash,
                    approved |-> workspace.approved, stale |-> workspace.stale]
      BY <2>0
    <3>2. CASE Consistent(packed)
      <4>1. workspace' = packed /\ Consistent(workspace')
        BY <2>12, <3>2 DEF Pack
      <4>2. workspace' \in WorkspaceRows
        BY <4>1, <3>1, <2>0 DEF WorkspaceRows, Statuses, Final
      <4>. QED
        BY <4>1, <4>2, <3>1, <2>12 DEF Pack, ItrInv, Backed, Recorded
    <3>3. CASE ~Consistent(packed)
      BY <2>1, <2>12, <3>3 DEF Pack
    <3>. QED BY <3>2, <3>3
  <2>13. CASE UNCHANGED itr_vars
    BY <2>1, <2>13 DEF itr_vars
  <2>. QED
    BY <2>2, <2>3, <2>4, <2>6, <2>7, <2>8, <2>9, <2>10, <2>11, <2>12, <2>13 DEF ItrNext
<1>. QED BY <1>1, <1>2, PTL DEF ItrSpec

(* However requests interleave, a return that is approved, filed or        *)
(* completed rests on the sources it was approved on, its drafted lines    *)
(* are of the present sources, and a completion has evidence of its        *)
(* acknowledgement and an event that set it to filed on record: for every  *)
(* set of sources and callers.                                             *)
THEOREM ReturnsStandOnTheirSources == ItrSpec => []FilingsStand
<1>1. ItrInv => FilingsStand
  BY DEF ItrInv, Backed, Recorded, SetFiled, FilingsStand, Consistent, Final
<1>. QED BY <1>1, ItrInvariant, PTL
=============================================================================

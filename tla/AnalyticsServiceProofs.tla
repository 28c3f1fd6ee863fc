----------------------- MODULE AnalyticsServiceProofs -----------------------
(***************************************************************************)
(* For all lists of rows and all requests: every number reported is exact, *)
(* groups add up, and rankings list the best.                              *)
(***************************************************************************)
EXTENDS AnalyticsService, FiniteSetTheorems, SequenceTheorems, WellFoundedInduction, TLAPS

-----------------------------------------------------------------------------
(* Induction over the naturals, for a set.                                 *)

LEMMA UpFromZero ==
  ASSUME NEW T, 0 \in T, \A n \in Nat : n \in T => n + 1 \in T
  PROVE  \A n \in Nat : n \in T
<1> DEFINE Others == Nat \ T
<1> SUFFICES ASSUME Others # {} PROVE FALSE
  OBVIOUS
<1>1. PICK x \in Others : \A y \in Others : ~(<<y, x>> \in OpToRel(<, Nat))
  <2>1. Others \subseteq Nat
    OBVIOUS
  <2> QED BY <2>1, WFMin, NatLessThanWellFounded
<1>2. x \in Nat /\ x # 0 /\ x - 1 \in Nat
  OBVIOUS
<1>3. <<x - 1, x>> \in OpToRel(<, Nat)
  BY <1>2 DEF OpToRel
<1>4. x - 1 \in T
  BY <1>1, <1>2, <1>3
<1>5. (x - 1) + 1 = x
  BY <1>2
<1> QED BY <1>2, <1>4, <1>5

(* A value for every subset of D, from the one of the subset without a     *)
(* chosen member: what it takes, what it is, and that it exists.           *)
Recursive(D, V, base, c, op) ==
  /\ IsFiniteSet(D) /\ base \in V
  /\ \A s \in SUBSET D : s # {} => c[s] \in s
  /\ \A v \in V, x \in D : op[<<v, x>>] \in V

Solves(g, D, V, base, c, op) ==
  /\ g \in [SUBSET D -> V]
  /\ g[{}] = base
  /\ \A s \in SUBSET D : s # {} => g[s] = op[<<g[s \ {c[s]}], c[s]>>]

LEMMA Recursion ==
  ASSUME NEW D, NEW V, NEW base, NEW c, NEW op, Recursive(D, V, base, c, op)
  PROVE  \E g : Solves(g, D, V, base, c, op)
<1> USE DEF Recursive
<1> DEFINE Step(g) == [s \in SUBSET D |-> IF s = {} THEN base ELSE op[<<g[s \ {c[s]}], c[s]>>]]
           T == {n \in Nat : \E g \in [SUBSET D -> V] :
                               \A s \in SUBSET D : Cardinality(s) <= n => g[s] = Step(g)[s]}
<1>1. \A s \in SUBSET D : IsFiniteSet(s) /\ Cardinality(s) \in Nat /\ Cardinality(s) <= Cardinality(D)
  BY FS_Subset, FS_CardinalityType
<1>2. \A s \in SUBSET D : s # {} =>
        c[s] \in D /\ s \ {c[s]} \in SUBSET D /\ Cardinality(s \ {c[s]}) = Cardinality(s) - 1
  BY <1>1, FS_RemoveElement
<1>3. \A g \in [SUBSET D -> V] : Step(g) \in [SUBSET D -> V]
  BY <1>2
<1>4. 0 \in T
  <2> DEFINE g == [s \in SUBSET D |-> base]
  <2>1. \A s \in SUBSET D : Cardinality(s) <= 0 => s = {}
    <3>1. \A s \in SUBSET D : Cardinality(s) <= 0 => Cardinality(s) = 0
      BY <1>1
    <3> QED BY <1>1, <3>1, FS_EmptySet
  <2>2. \A s \in SUBSET D : Cardinality(s) <= 0 => g[s] = Step(g)[s]
    BY <2>1
  <2>3. g \in [SUBSET D -> V]
    OBVIOUS
  <2> QED BY <2>2, <2>3
<1>5. ASSUME NEW n \in Nat, n \in T PROVE n + 1 \in T
  <2>1. PICK g \in [SUBSET D -> V] :
          \A s \in SUBSET D : Cardinality(s) <= n => g[s] = Step(g)[s]
    BY <1>5
  <2>2. Step(g) \in [SUBSET D -> V]
    BY <1>3
  <2>3. ASSUME NEW s \in SUBSET D, Cardinality(s) <= n + 1
        PROVE  Step(g)[s] = Step(Step(g))[s]
    <3>1. CASE s = {}
      BY <3>1
    <3>2. CASE s # {}
      <4>1. g[s \ {c[s]}] = Step(g)[s \ {c[s]}]
        <5>1. Cardinality(s \ {c[s]}) <= n
          <6>1. Cardinality(s \ {c[s]}) = Cardinality(s) - 1
            BY <1>2, <3>2
          <6>2. Cardinality(s) \in Nat
            BY <1>1
          <6> QED BY <2>3, <6>1, <6>2
        <5> HIDE DEF Step
        <5> QED BY <1>2, <2>1, <3>2, <5>1
      <4>2. Step(g)[s] = op[<<g[s \ {c[s]}], c[s]>>]
        BY <3>2
      <4>3. Step(Step(g))[s] = op[<<Step(g)[s \ {c[s]}], c[s]>>]
        BY <3>2
      <4> QED BY <4>1, <4>2, <4>3
    <3> QED BY <3>1, <3>2
  <2>4. \E h \in [SUBSET D -> V] :
          \A s \in SUBSET D : Cardinality(s) <= n + 1 => h[s] = Step(h)[s]
    <3> HIDE DEF Step
    <3> QED BY <2>2, <2>3
  <2>5. n + 1 \in Nat
    OBVIOUS
  <2> HIDE DEF Step
  <2> QED BY <2>4, <2>5
<1>6. Cardinality(D) \in T
  <2> HIDE DEF T
  <2>1. \A n \in Nat : n \in T
    BY <1>4, <1>5, UpFromZero
  <2> QED BY <2>1, FS_CardinalityType
<1>7. PICK g \in [SUBSET D -> V] :
        \A s \in SUBSET D : Cardinality(s) <= Cardinality(D) => g[s] = Step(g)[s]
  BY <1>6
<1>8. \A s \in SUBSET D : g[s] = Step(g)[s]
  BY <1>1, <1>7
<1>9. Solves(g, D, V, base, c, op)
  <2>1. {} \in SUBSET D
    OBVIOUS
  <2> QED BY <1>8, <2>1 DEF Solves
<1> QED BY <1>9

(* What holds of the empty set and of every set it holds of without a      *)
(* chosen member, holds of every subset of D.                              *)
Climbs(D, c, Good) ==
  /\ {} \in Good
  /\ \A s \in SUBSET D : s # {} => c[s] \in s /\ (s \ {c[s]} \in Good => s \in Good)

LEMMA SubsetsUp ==
  ASSUME NEW D, IsFiniteSet(D), NEW c, NEW Good, Climbs(D, c, Good)
  PROVE  \A s \in SUBSET D : s \in Good
<1> USE DEF Climbs
<1> DEFINE T == {n \in Nat : \A s \in SUBSET D : Cardinality(s) = n => s \in Good}
<1>1. \A s \in SUBSET D : IsFiniteSet(s) /\ Cardinality(s) \in Nat
  BY FS_Subset, FS_CardinalityType
<1>2. 0 \in T
  BY <1>1, FS_EmptySet
<1>3. ASSUME NEW n \in Nat, n \in T PROVE n + 1 \in T
  <2> SUFFICES ASSUME NEW s \in SUBSET D, Cardinality(s) = n + 1 PROVE s \in Good
    BY <1>3
  <2>1. s # {}
    BY FS_EmptySet
  <2>2. c[s] \in s
    BY <2>1
  <2>3. s \ {c[s]} \in SUBSET D /\ Cardinality(s \ {c[s]}) = n
    <3>1. Cardinality(s \ {c[s]}) = Cardinality(s) - 1
      BY <1>1, <2>2, FS_RemoveElement
    <3> QED BY <3>1
  <2>4. s \ {c[s]} \in Good
    BY <1>3, <2>3
  <2> QED BY <2>1, <2>4
<1>4. \A n \in Nat : n \in T
  <2> HIDE DEF T
  <2> QED BY <1>2, <1>3, UpFromZero
<1> QED BY <1>1, <1>4

(* A finite set of numbers has a greatest and a smallest member.           *)
LEMMA Extremes ==
  ASSUME NEW S \in SUBSET Int, IsFiniteSet(S), S # {}
  PROVE  /\ Max(S) \in S /\ \A y \in S : Max(S) >= y
         /\ Min(S) \in S /\ \A y \in S : Min(S) <= y
<1> DEFINE Bounded(s) == /\ \E x \in s : \A y \in s : x >= y
                         /\ \E x \in s : \A y \in s : x <= y
           T == {n \in Nat : \A s \in SUBSET S : Cardinality(s) = n + 1 => Bounded(s)}
<1>1. \A s \in SUBSET S : IsFiniteSet(s) /\ Cardinality(s) \in Nat
  BY FS_Subset, FS_CardinalityType
<1>2. \A s \in SUBSET S : \A x \in s :
        s \ {x} \in SUBSET S /\ Cardinality(s \ {x}) = Cardinality(s) - 1
  BY <1>1, FS_RemoveElement
<1>3. 0 \in T
  <2> SUFFICES ASSUME NEW s \in SUBSET S, Cardinality(s) = 0 + 1 PROVE Bounded(s)
    OBVIOUS
  <2>0. s # {}
    BY FS_EmptySet
  <2>1. PICK x \in s : TRUE
    BY <2>0
  <2>2. Cardinality(s \ {x}) = 0
    BY <1>2
  <2>3. s = {x}
    BY <1>1, <1>2, <2>2, FS_EmptySet
  <2> QED BY <2>3
<1>4. ASSUME NEW n \in Nat, n \in T PROVE n + 1 \in T
  <2> SUFFICES ASSUME NEW s \in SUBSET S, Cardinality(s) = (n + 1) + 1 PROVE Bounded(s)
    BY <1>4
  <2>0. s # {}
    BY FS_EmptySet
  <2>1. PICK x \in s : TRUE
    BY <2>0
  <2>2. s \ {x} \in SUBSET S /\ Cardinality(s \ {x}) = n + 1
    BY <1>2
  <2>3. Bounded(s \ {x})
    BY <1>4, <2>2
  <2>4. PICK a \in s \ {x} : \A y \in s \ {x} : a >= y
    BY <2>3
  <2>5. PICK b \in s \ {x} : \A y \in s \ {x} : b <= y
    BY <2>3
  <2>6. a \in Int /\ b \in Int /\ x \in Int /\ \A y \in s : y \in Int
    OBVIOUS
  <2>7. \E z \in s : \A y \in s : z >= y
    <3>1. CASE a >= x
      BY <2>4, <3>1
    <3>2. CASE ~(a >= x)
      <4>1. \A y \in s : x >= y
        BY <2>4, <2>6, <3>2
      <4> QED BY <4>1
    <3> QED BY <3>1, <3>2
  <2>8. \E z \in s : \A y \in s : z <= y
    <3>1. CASE b <= x
      BY <2>5, <3>1
    <3>2. CASE ~(b <= x)
      <4>1. \A y \in s : x <= y
        BY <2>5, <2>6, <3>2
      <4> QED BY <4>1
    <3> QED BY <3>1, <3>2
  <2> QED BY <2>7, <2>8
<1>5. Bounded(S)
  <2>1. Cardinality(S) # 0 /\ Cardinality(S) \in Nat
    BY <1>1, FS_EmptySet
  <2>2. Cardinality(S) - 1 \in Nat /\ (Cardinality(S) - 1) + 1 = Cardinality(S)
    BY <2>1
  <2>3. \A n \in Nat : n \in T
    <3> HIDE DEF T
    <3> QED BY <1>3, <1>4, UpFromZero
  <2>4. Cardinality(S) - 1 \in T
    BY <2>2, <2>3
  <2> HIDE DEF Bounded
  <2> QED BY <2>2, <2>4
<1> QED BY <1>5 DEF Max, Min

LEMMA LastIsMax ==
  ASSUME NEW n \in Nat \ {0} PROVE Max(1..n) = n
<1>1. n \in 1..n /\ \A y \in 1..n : n >= y
  OBVIOUS
<1>2. Max(1..n) \in 1..n /\ \A y \in 1..n : Max(1..n) >= y
  BY <1>1 DEF Max
<1> QED BY <1>1, <1>2

(* Total adds the numbers of a list from the first on.                     *)
LEMMA TotalAdds ==
  ASSUME NEW nums \in Seq(Int)
  PROVE  \E t \in [0..Len(nums) -> Int] :
           /\ t[0] = 0 /\ t[Len(nums)] = Total(nums)
           /\ \A k \in 1..Len(nums) : t[k] = t[k - 1] + nums[k]
<1> DEFINE D == DOMAIN nums
           Eq(g) == g = [s \in SUBSET D |-> IF s = {} THEN 0 ELSE g[s \ {Max(s)}] + nums[Max(s)]]
           F == CHOOSE g : Eq(g)
<1>1. Total(nums) = F[D]
  BY DEF Total, FoldLeft, MapThenFoldSet
<1>2. D = 1..Len(nums) /\ Len(nums) \in Nat /\ IsFiniteSet(D) /\ \A x \in D : nums[x] \in Int
  BY FS_Interval
<1>3. \E g \in [SUBSET D -> Int] : Eq(g)
  <2> DEFINE c == [s \in SUBSET D |-> Max(s)]
             op == [vx \in Int \X D |-> vx[1] + nums[vx[2]]]
  <2>1. \A s \in SUBSET D : s # {} => c[s] \in s
    <3>1. \A s \in SUBSET D : s \in SUBSET Int /\ IsFiniteSet(s)
      BY <1>2, FS_Subset
    <3> QED BY <3>1, Extremes
  <2>2. \A v \in Int, x \in D : op[<<v, x>>] = v + nums[x] /\ op[<<v, x>>] \in Int
    BY <1>2
  <2>3. Recursive(D, Int, 0, c, op)
    <3>1. \A v \in Int, x \in D : op[<<v, x>>] \in Int
      BY <2>2
    <3> HIDE DEF c, op
    <3> QED BY <1>2, <2>1, <3>1 DEF Recursive
  <2>4. PICK g : Solves(g, D, Int, 0, c, op)
    BY <2>3, Recursion
  <2>5. ASSUME NEW s \in SUBSET D, s # {}
        PROVE  g[s] = g[s \ {Max(s)}] + nums[Max(s)]
    <3>1. c[s] = Max(s) /\ c[s] \in D /\ g[s \ {c[s]}] \in Int
      BY <2>1, <2>4, <2>5 DEF Solves
    <3>2. g[s] = op[<<g[s \ {c[s]}], c[s]>>]
      BY <2>4, <2>5 DEF Solves
    <3> HIDE DEF c, op
    <3> QED BY <2>2, <3>1, <3>2
  <2>6. g \in [SUBSET D -> Int] /\ g[{}] = 0
    BY <2>4 DEF Solves
  <2>7. Eq(g)
    <3> HIDE DEF c, op
    <3> QED BY <2>5, <2>6
  <2> QED BY <2>6, <2>7
<1>4. Eq(F)
  <2> HIDE DEF Eq
  <2> QED BY <1>3
<1> DEFINE t == [k \in 0..Len(nums) |-> F[1..k]]
<1>6. F[{}] = 0
  BY <1>4
<1>7. \A k \in 1..Len(nums) : F[1..k] = F[1..(k - 1)] + nums[k]
  <2> SUFFICES ASSUME NEW k \in 1..Len(nums) PROVE F[1..k] = F[1..(k - 1)] + nums[k]
    OBVIOUS
  <2>1. 1..k \in SUBSET D /\ 1..k # {} /\ (1..k) \ {k} = 1..(k - 1)
    <3>1. 1..k \subseteq 1..Len(nums)
      BY <1>2
    <3>2. k \in 1..k
      BY <1>2
    <3>3. (1..k) \ {k} = 1..(k - 1)
      BY <1>2
    <3> QED BY <1>2, <3>1, <3>2, <3>3
  <2>2. Max(1..k) = k
    BY <1>2, LastIsMax
  <2> HIDE DEF F
  <2> QED BY <1>4, <2>1, <2>2
<1>8. \A k \in 0..Len(nums) : F[1..k] \in Int
  <2> DEFINE T == {n \in Nat : n <= Len(nums) => F[1..n] \in Int}
  <2>1. 0 \in T
    <3>1. 1..0 = {}
      OBVIOUS
    <3> HIDE DEF F
    <3> QED BY <1>6, <3>1
  <2>2. ASSUME NEW n \in Nat, n \in T PROVE n + 1 \in T
    <3> SUFFICES ASSUME n + 1 <= Len(nums) PROVE F[1..(n + 1)] \in Int
      OBVIOUS
    <3>1. n + 1 \in 1..Len(nums) /\ n <= Len(nums) /\ (n + 1) - 1 = n
      BY <1>2
    <3>2. F[1..n] \in Int /\ nums[n + 1] \in Int
      BY <1>2, <2>2, <3>1
    <3> HIDE DEF F
    <3> QED BY <1>7, <3>1, <3>2
  <2>3. \A n \in Nat : n \in T
    <3> HIDE DEF T
    <3> QED BY <2>1, <2>2, UpFromZero
  <2>4. \A k \in 0..Len(nums) : k \in Nat /\ k <= Len(nums)
    BY <1>2
  <2> HIDE DEF F
  <2> QED BY <2>3, <2>4
<1> HIDE DEF F
<1>9. t \in [0..Len(nums) -> Int]
  BY <1>2, <1>8
<1>10. t[0] = 0 /\ t[Len(nums)] = Total(nums)
  <2>1. 1..0 = {}
    OBVIOUS
  <2> QED BY <1>1, <1>2, <1>6, <2>1
<1>11. \A k \in 1..Len(nums) : t[k] = t[k - 1] + nums[k]
  BY <1>2, <1>7
<1> QED BY <1>9, <1>10, <1>11

(* A sum over each subset of D, which does not depend on the order in      *)
(* which the members are added.                                            *)
Sums(g, w, D) ==
  /\ g \in [SUBSET D -> Int]
  /\ g[{}] = 0
  /\ \A s \in SUBSET D : \A x \in s : g[s] = w[x] + g[s \ {x}]

LEMMA SumExists ==
  ASSUME NEW D, IsFiniteSet(D), NEW w \in [D -> Int]
  PROVE  \E g : Sums(g, w, D)
<1> DEFINE c  == [s \in SUBSET D |-> CHOOSE x \in s : TRUE]
           op == [vx \in Int \X D |-> vx[1] + w[vx[2]]]
<1>1. \A s \in SUBSET D : s # {} => c[s] \in s
  OBVIOUS
<1>2. \A v \in Int, x \in D : op[<<v, x>>] = v + w[x] /\ op[<<v, x>>] \in Int
  OBVIOUS
<1> HIDE DEF c, op
<1>3. PICK g : Solves(g, D, Int, 0, c, op)
  <2>1. \A v \in Int, x \in D : op[<<v, x>>] \in Int
    BY <1>2
  <2>2. Recursive(D, Int, 0, c, op)
    BY <1>1, <2>1 DEF Recursive
  <2> QED BY <2>2, Recursion
<1>4. g \in [SUBSET D -> Int] /\ g[{}] = 0
  BY <1>3 DEF Solves
<1>5. ASSUME NEW s \in SUBSET D, s # {} PROVE g[s] = w[c[s]] + g[s \ {c[s]}]
  <2>1. c[s] \in D /\ g[s \ {c[s]}] \in Int /\ w[c[s]] \in Int
    BY <1>1, <1>4, <1>5
  <2>2. g[s] = op[<<g[s \ {c[s]}], c[s]>>]
    BY <1>3, <1>5 DEF Solves
  <2>3. g[s] = g[s \ {c[s]}] + w[c[s]]
    BY <1>2, <2>1, <2>2
  <2> QED BY <2>1, <2>3
<1> DEFINE Good(s) == \A x \in s : g[s] = w[x] + g[s \ {x}]
           T == {n \in Nat : \A s \in SUBSET D : Cardinality(s) = n => Good(s)}
<1>6. \A s \in SUBSET D : IsFiniteSet(s) /\ Cardinality(s) \in Nat
  BY FS_Subset, FS_CardinalityType
<1>7. 0 \in T
  BY <1>6, FS_EmptySet
<1>8. ASSUME NEW n \in Nat, n \in T PROVE n + 1 \in T
  <2> SUFFICES ASSUME NEW s \in SUBSET D, Cardinality(s) = n + 1, NEW x \in s
               PROVE  g[s] = w[x] + g[s \ {x}]
    BY <1>8
  <2>1. s # {} /\ c[s] \in s /\ g[s] = w[c[s]] + g[s \ {c[s]}]
    BY <1>1, <1>5
  <2>2. CASE x = c[s]
    BY <2>1, <2>2
  <2>3. CASE x # c[s]
    <3> DEFINE y == c[s]
    <3>1. \A z \in s : s \ {z} \in SUBSET D /\ Cardinality(s \ {z}) = n
      <4>1. \A z \in s : Cardinality(s \ {z}) = Cardinality(s) - 1
        BY <1>6, FS_RemoveElement
      <4> QED BY <4>1
    <3>2. Good(s \ {x}) /\ Good(s \ {y})
      BY <1>8, <2>1, <3>1
    <3>3. x \in s \ {y} /\ y \in s \ {x} /\ (s \ {y}) \ {x} = (s \ {x}) \ {y}
      BY <2>1, <2>3
    <3>4. /\ g[s \ {x}] = w[y] + g[(s \ {x}) \ {y}]
          /\ g[s \ {y}] = w[x] + g[(s \ {x}) \ {y}]
      BY <3>2, <3>3
    <3>5. w[x] \in Int /\ w[y] \in Int /\ g[(s \ {x}) \ {y}] \in Int
      BY <1>4, <3>3
    <3> QED BY <2>1, <3>4, <3>5
  <2> QED BY <2>2, <2>3
<1>9. \A n \in Nat : n \in T
  <2> HIDE DEF T
  <2> QED BY <1>7, <1>8, UpFromZero
<1>10. \A s \in SUBSET D : Good(s)
  BY <1>6, <1>9
<1> QED BY <1>4, <1>10 DEF Sums

(* The sum over two sets that share no member.                             *)
LEMMA SumOfUnion ==
  ASSUME NEW D, IsFiniteSet(D), NEW w \in [D -> Int], NEW g, Sums(g, w, D),
         NEW A \in SUBSET D, NEW B \in SUBSET D, A \cap B = {}
  PROVE  g[A \cup B] = g[A] + g[B]
<1> DEFINE c    == [s \in SUBSET B |-> CHOOSE x \in s : TRUE]
           Good == {s \in SUBSET B : g[A \cup s] = g[A] + g[s]}
<1>1. g \in [SUBSET D -> Int] /\ g[{}] = 0
  BY DEF Sums
<1>2. {} \in Good
  <2>1. A \cup {} = A /\ g[A] \in Int
    BY <1>1
  <2> QED BY <1>1, <2>1
<1>3. ASSUME NEW s \in SUBSET B, s # {}
      PROVE  c[s] \in s /\ (s \ {c[s]} \in Good => s \in Good)
  <2>1. c[s] \in s
    BY <1>3
  <2> HIDE DEF c
  <2>2. (A \cup s) \ {c[s]} = A \cup (s \ {c[s]}) /\ A \cup s \in SUBSET D /\ s \in SUBSET D
    BY <2>1
  <2>3. g[A \cup s] = w[c[s]] + g[A \cup (s \ {c[s]})] /\ g[s] = w[c[s]] + g[s \ {c[s]}]
    BY <2>1, <2>2 DEF Sums
  <2>4. w[c[s]] \in Int /\ g[A] \in Int /\ g[s \ {c[s]}] \in Int
    BY <1>1, <2>1
  <2> QED BY <2>1, <2>3, <2>4
<1>4. \A s \in SUBSET B : s \in Good
  <2>1. IsFiniteSet(B)
    BY FS_Subset
  <2>2. Climbs(B, c, Good)
    <3> HIDE DEF c, Good
    <3> QED BY <1>2, <1>3 DEF Climbs
  <2> HIDE DEF c, Good
  <2> QED BY <2>1, <2>2, SubsetsUp
<1> QED BY <1>4

-----------------------------------------------------------------------------
(* Lists of the members of a set, each once.                               *)

Lists(p, S) ==
  /\ p \in Seq(S)
  /\ \A m, n \in DOMAIN p : p[m] = p[n] => m = n
  /\ \A x \in S : \E n \in DOMAIN p : p[n] = x

(* The members that the first k places of a list hold.                     *)
FirstOf(p, k) == {p[n] : n \in 1..k}

LEMMA FirstPlaces ==
  ASSUME NEW S, NEW p, Lists(p, S)
  PROVE  /\ FirstOf(p, 0) = {} /\ FirstOf(p, Len(p)) = S
         /\ \A k \in 1..Len(p) : /\ p[k] \in S /\ p[k] \notin FirstOf(p, k - 1)
                                 /\ FirstOf(p, k) = FirstOf(p, k - 1) \cup {p[k]}
         /\ \A k \in 0..Len(p) : FirstOf(p, k) \in SUBSET S
<1>1. p \in Seq(S) /\ DOMAIN p = 1..Len(p) /\ Len(p) \in Nat /\ \A n \in 1..Len(p) : p[n] \in S
  BY DEF Lists
<1>2. FirstOf(p, 0) = {}
  BY DEF FirstOf
<1>3. FirstOf(p, Len(p)) = S
  BY <1>1 DEF FirstOf, Lists
<1>4. \A k \in 0..Len(p) : FirstOf(p, k) \in SUBSET S
  <2> SUFFICES ASSUME NEW k \in 0..Len(p) PROVE FirstOf(p, k) \in SUBSET S
    OBVIOUS
  <2>1. 1..k \subseteq 1..Len(p)
    BY <1>1
  <2> QED BY <1>1, <2>1 DEF FirstOf
<1>5. ASSUME NEW k \in 1..Len(p)
      PROVE  /\ p[k] \in S /\ p[k] \notin FirstOf(p, k - 1)
             /\ FirstOf(p, k) = FirstOf(p, k - 1) \cup {p[k]}
  <2>1. 1..k = (1..(k - 1)) \cup {k}
    BY <1>1
  <2>2. \A n \in 1..(k - 1) : n \in 1..Len(p) /\ n # k
    BY <1>1
  <2>3. p[k] \notin FirstOf(p, k - 1)
    BY <1>1, <2>2 DEF FirstOf, Lists
  <2> QED BY <1>1, <2>1, <2>3 DEF FirstOf
<1> QED BY <1>2, <1>3, <1>4, <1>5

(* A list of the members of a finite set is as long as the set is large.   *)
LEMMA LengthOfList ==
  ASSUME NEW S, NEW p, Lists(p, S)
  PROVE  IsFiniteSet(S) /\ Cardinality(S) = Len(p) /\ Len(p) \in Nat
<1> DEFINE T == {n \in Nat : n <= Len(p) => IsFiniteSet(FirstOf(p, n)) /\ Cardinality(FirstOf(p, n)) = n}
<1>1. Len(p) \in Nat
  BY DEF Lists
<1>2. 0 \in T
  BY FirstPlaces, FS_EmptySet
<1>3. ASSUME NEW n \in Nat, n \in T PROVE n + 1 \in T
  <2> SUFFICES ASSUME n + 1 <= Len(p)
               PROVE  IsFiniteSet(FirstOf(p, n + 1)) /\ Cardinality(FirstOf(p, n + 1)) = n + 1
    OBVIOUS
  <2>1. n + 1 \in 1..Len(p) /\ n <= Len(p) /\ (n + 1) - 1 = n
    BY <1>1
  <2>2. IsFiniteSet(FirstOf(p, n)) /\ Cardinality(FirstOf(p, n)) = n
    BY <1>3, <2>1
  <2>3. p[n + 1] \notin FirstOf(p, n) /\ FirstOf(p, n + 1) = FirstOf(p, n) \cup {p[n + 1]}
    BY <2>1, FirstPlaces
  <2> QED BY <2>2, <2>3, FS_AddElement
<1>4. \A n \in Nat : n \in T
  <2> HIDE DEF T
  <2> QED BY <1>2, <1>3, UpFromZero
<1> QED BY <1>1, <1>4, FirstPlaces

(* Adding up a list of the weights of a set's members is their sum.        *)
Weights(nums, w, p) == nums = [n \in DOMAIN p |-> w[p[n]]]
AddsUp(nums, p, sum) == nums \in Seq(Int) /\ Len(nums) = Len(p) /\ Total(nums) = sum

LEMMA TotalIsSum ==
  ASSUME NEW D, IsFiniteSet(D), NEW w \in [D -> Int], NEW g, Sums(g, w, D),
         NEW S \in SUBSET D, NEW p, Lists(p, S),
         NEW nums, Weights(nums, w, p)
  PROVE  AddsUp(nums, p, g[S])
<1>1. Len(p) \in Nat /\ DOMAIN p = 1..Len(p) /\ \A n \in 1..Len(p) : p[n] \in D
  BY DEF Lists
<1>2. nums \in Seq(Int) /\ Len(nums) = Len(p) /\ \A n \in 1..Len(p) : nums[n] = w[p[n]]
  BY <1>1 DEF Weights
<1>3. PICK t \in [0..Len(nums) -> Int] :
        /\ t[0] = 0 /\ t[Len(nums)] = Total(nums)
        /\ \A k \in 1..Len(nums) : t[k] = t[k - 1] + nums[k]
  BY <1>2, TotalAdds
<1> DEFINE T == {n \in Nat : n <= Len(p) => t[n] = g[FirstOf(p, n)]}
<1>4. 0 \in T
  <2>1. FirstOf(p, 0) = {}
    BY FirstPlaces
  <2>2. g[{}] = 0
    BY DEF Sums
  <2> QED BY <1>3, <2>1, <2>2
<1>5. ASSUME NEW n \in Nat, n \in T PROVE n + 1 \in T
  <2> SUFFICES ASSUME n + 1 <= Len(p) PROVE t[n + 1] = g[FirstOf(p, n + 1)]
    OBVIOUS
  <2>1. n + 1 \in 1..Len(p) /\ n <= Len(p) /\ (n + 1) - 1 = n
    BY <1>1
  <2>2. /\ p[n + 1] \in S /\ p[n + 1] \notin FirstOf(p, n)
        /\ FirstOf(p, n + 1) = FirstOf(p, n) \cup {p[n + 1]}
        /\ FirstOf(p, n + 1) \in SUBSET S
    BY <2>1, FirstPlaces
  <2>3. FirstOf(p, n + 1) \ {p[n + 1]} = FirstOf(p, n) /\ p[n + 1] \in FirstOf(p, n + 1)
    BY <2>2
  <2>4. g[FirstOf(p, n + 1)] = w[p[n + 1]] + g[FirstOf(p, n)]
    <3>1. FirstOf(p, n + 1) \in SUBSET D
      BY <2>2
    <3>2. g[FirstOf(p, n + 1)] = w[p[n + 1]] + g[FirstOf(p, n + 1) \ {p[n + 1]}]
      BY <2>3, <3>1 DEF Sums
    <3> QED BY <2>3, <3>2
  <2>5. t[n + 1] = t[n] + w[p[n + 1]] /\ t[n] = g[FirstOf(p, n)]
    BY <1>1, <1>2, <1>3, <1>5, <2>1
  <2>6. w[p[n + 1]] \in Int /\ t[n] \in Int
    <3>1. p[n + 1] \in D /\ w[p[n + 1]] \in Int
      BY <1>1, <2>1
    <3>2. n \in 0..Len(nums)
      BY <1>1, <1>2, <2>1
    <3>3. t[n] \in Int
      BY <1>3, <3>2
    <3> QED BY <3>1, <3>3
  <2> QED BY <2>4, <2>5, <2>6
<1>6. \A n \in Nat : n \in T
  <2> HIDE DEF T
  <2> QED BY <1>4, <1>5, UpFromZero
<1>7. t[Len(p)] = g[S]
  BY <1>1, <1>6, FirstPlaces
<1> QED BY <1>2, <1>3, <1>7 DEF AddsUp

-----------------------------------------------------------------------------
(* Sorting by places.                                                      *)

(* below[x] are the members that come before x in a total order of S.      *)
Ranks(below, S) ==
  /\ IsFiniteSet(S) /\ below \in [S -> SUBSET S]
  /\ \A x \in S : x \notin below[x]
  /\ \A x, y \in S : x \in below[y] => below[x] \subseteq below[y]
  /\ \A x, y \in S : x = y \/ x \in below[y] \/ y \in below[x]

LEMMA PlacesDiffer ==
  ASSUME NEW S, NEW below, Ranks(below, S)
  PROVE  /\ Cardinality(S) \in Nat
         /\ \A x \in S : /\ Cardinality(below[x]) \in Nat
                         /\ Cardinality(below[x]) + 1 <= Cardinality(S)
         /\ \A x, y \in S : x \in below[y] => Cardinality(below[x]) < Cardinality(below[y])
<1>1. /\ IsFiniteSet(S) /\ below \in [S -> SUBSET S]
      /\ \A x \in S : x \notin below[x]
      /\ \A x, y \in S : x \in below[y] => below[x] \subseteq below[y]
  BY DEF Ranks
<1>2. \A x \in S : /\ IsFiniteSet(below[x]) /\ Cardinality(below[x]) \in Nat
                   /\ IsFiniteSet(below[x] \cup {x})
                   /\ Cardinality(below[x] \cup {x}) = Cardinality(below[x]) + 1
  <2> SUFFICES ASSUME NEW x \in S
               PROVE  /\ IsFiniteSet(below[x]) /\ Cardinality(below[x]) \in Nat
                      /\ IsFiniteSet(below[x] \cup {x})
                      /\ Cardinality(below[x] \cup {x}) = Cardinality(below[x]) + 1
    OBVIOUS
  <2>1. below[x] \in SUBSET S /\ x \notin below[x]
    BY <1>1
  <2>2. IsFiniteSet(below[x]) /\ Cardinality(below[x]) \in Nat
    BY <1>1, <2>1, FS_Subset, FS_CardinalityType
  <2> QED BY <2>1, <2>2, FS_AddElement
<1>3. ASSUME NEW x \in S PROVE Cardinality(below[x]) + 1 <= Cardinality(S)
  <2>1. below[x] \cup {x} \in SUBSET S
    BY <1>1
  <2>2. Cardinality(below[x] \cup {x}) <= Cardinality(S)
    BY <1>1, <2>1, FS_Subset
  <2> QED BY <1>2, <2>2
<1>4. ASSUME NEW x \in S, NEW y \in S, x \in below[y]
      PROVE  Cardinality(below[x]) < Cardinality(below[y])
  <2>1. below[x] \cup {x} \in SUBSET below[y]
    BY <1>1, <1>4
  <2>2. Cardinality(below[x] \cup {x}) <= Cardinality(below[y])
    BY <1>2, <2>1, FS_Subset
  <2>3. Cardinality(below[x]) + 1 <= Cardinality(below[y])
    BY <1>2, <2>2
  <2>4. Cardinality(below[x]) \in Nat /\ Cardinality(below[y]) \in Nat
    BY <1>2
  <2> QED BY <2>3, <2>4
<1> QED BY <1>1, <1>2, <1>3, <1>4, FS_CardinalityType

(* Every place is taken.                                                   *)
Taken(below, S) == \A n \in 1..Cardinality(S) : \E x \in S : Cardinality(below[x]) + 1 = n

LEMMA PlaceTaken ==
  ASSUME NEW S, NEW below, Ranks(below, S)
  PROVE  Taken(below, S)
<1> DEFINE place == [x \in S |-> Cardinality(below[x]) + 1]
<1>1. Cardinality(S) \in Nat
  BY PlacesDiffer
<1>2. \A x \in S : Cardinality(below[x]) \in Nat /\ Cardinality(below[x]) + 1 <= Cardinality(S)
  BY PlacesDiffer
<1>3. place \in [S -> 1..Cardinality(S)]
  BY <1>1, <1>2
<1>4. \A x, y \in S : place[x] = place[y] => x = y
  <2> SUFFICES ASSUME NEW x \in S, NEW y \in S, place[x] = place[y], x # y PROVE FALSE
    OBVIOUS
  <2>1. Cardinality(below[x]) = Cardinality(below[y])
    <3>1. place[x] = Cardinality(below[x]) + 1 /\ place[y] = Cardinality(below[y]) + 1
      OBVIOUS
    <3> QED BY <1>2, <3>1
  <2>2. x \in below[y] \/ y \in below[x]
    BY DEF Ranks
  <2>3. Cardinality(below[x]) < Cardinality(below[y]) \/ Cardinality(below[y]) < Cardinality(below[x])
    BY <2>2, PlacesDiffer
  <2> QED BY <1>2, <2>1, <2>3
<1>5. place \in Injection(S, 1..Cardinality(S))
  BY <1>3, <1>4 DEF Injection, IsInjective
<1>6. IsFiniteSet(1..Cardinality(S)) /\ Cardinality(1..Cardinality(S)) = Cardinality(S)
  BY <1>1, FS_Interval
<1>7. place \in Surjection(S, 1..Cardinality(S))
  <2>1. IsFiniteSet(S)
    BY DEF Ranks
  <2> QED BY <1>5, <1>6, <2>1, FS_Injection
<1>8. \A n \in 1..Cardinality(S) : \E x \in S : place[x] = n
  BY <1>7 DEF Surjection
<1> QED BY <1>8 DEF Taken

(* Who has each member at its place, lists the set in its order.           *)
Placed(order, below, S) ==
  /\ order \in [1..Cardinality(S) -> S]
  /\ \A n \in 1..Cardinality(S) : Cardinality(below[order[n]]) + 1 = n

LEMMA PlacedLists ==
  ASSUME NEW S, NEW below, NEW order, Ranks(below, S), Placed(order, below, S)
  PROVE  /\ Lists(order, S) /\ Len(order) = Cardinality(S) /\ Cardinality(S) \in Nat
         /\ \A m, n \in 1..Cardinality(S) : order[m] \in below[order[n]] <=> m < n
<1>1. /\ order \in [1..Cardinality(S) -> S]
      /\ \A n \in 1..Cardinality(S) : Cardinality(below[order[n]]) + 1 = n
  BY DEF Placed
<1>2. Cardinality(S) \in Nat
  BY PlacesDiffer
<1>3. \A x \in S : Cardinality(below[x]) \in Nat /\ Cardinality(below[x]) + 1 <= Cardinality(S)
  BY PlacesDiffer
<1>4. order \in Seq(S) /\ Len(order) = Cardinality(S) /\ DOMAIN order = 1..Cardinality(S)
  BY <1>1, <1>2
<1>5. \A m, n \in 1..Cardinality(S) : order[m] \in below[order[n]] => m < n
  <2> SUFFICES ASSUME NEW m \in 1..Cardinality(S), NEW n \in 1..Cardinality(S),
                      order[m] \in below[order[n]]
               PROVE  m < n
    OBVIOUS
  <2>1. Cardinality(below[order[m]]) < Cardinality(below[order[n]])
    BY <1>1, PlacesDiffer
  <2>2. Cardinality(below[order[m]]) + 1 = m /\ Cardinality(below[order[n]]) + 1 = n
    BY <1>1
  <2>3. Cardinality(below[order[m]]) \in Nat /\ Cardinality(below[order[n]]) \in Nat
    BY <1>1, <1>3
  <2> QED BY <2>1, <2>2, <2>3
<1>6. \A m, n \in 1..Cardinality(S) : order[m] = order[n] => m = n
  BY <1>1
<1>7. \A m, n \in 1..Cardinality(S) : m < n => order[m] \in below[order[n]]
  <2> SUFFICES ASSUME NEW m \in 1..Cardinality(S), NEW n \in 1..Cardinality(S), m < n
               PROVE  order[m] \in below[order[n]]
    OBVIOUS
  <2>1. order[m] # order[n] /\ order[n] \notin below[order[m]]
    BY <1>5, <1>6
  <2> QED BY <1>1, <2>1 DEF Ranks
<1>8. \A x \in S : \E n \in 1..Cardinality(S) : order[n] = x
  <2> SUFFICES ASSUME NEW x \in S PROVE \E n \in 1..Cardinality(S) : order[n] = x
    OBVIOUS
  <2> DEFINE n == Cardinality(below[x]) + 1
  <2>1. n \in 1..Cardinality(S)
    BY <1>2, <1>3
  <2>2. order[n] \in S /\ Cardinality(below[order[n]]) + 1 = Cardinality(below[x]) + 1
    BY <1>1, <2>1
  <2>3. Cardinality(below[order[n]]) = Cardinality(below[x])
    <3>1. Cardinality(below[order[n]]) \in Nat /\ Cardinality(below[x]) \in Nat
      BY <1>3, <2>2
    <3> QED BY <2>2, <3>1
  <2>4. ~(order[n] \in below[x]) /\ ~(x \in below[order[n]])
    <3> HIDE DEF n
    <3>1. Cardinality(below[x]) \in Nat
      BY <1>3
    <3> QED BY <2>2, <2>3, <3>1, PlacesDiffer
  <2>5. order[n] = x
    BY <2>2, <2>4 DEF Ranks
  <2> QED BY <2>1, <2>5
<1> QED BY <1>2, <1>4, <1>5, <1>6, <1>7, <1>8 DEF Lists

(* Numbers in order.                                                       *)
Increasing(p) == \A m, n \in DOMAIN p : m < n => p[m] < p[n]

LEMMA InOrderLists ==
  ASSUME NEW S \in SUBSET Int, IsFiniteSet(S)
  PROVE  Lists(InOrder(S), S) /\ Increasing(InOrder(S))
<1> DEFINE below == [x \in S |-> {y \in S : y < x}]
<1>1. Ranks(below, S)
  <2>1. below \in [S -> SUBSET S] /\ \A x \in S : x \notin below[x]
    OBVIOUS
  <2>2. \A x, y \in S : x \in below[y] => below[x] \subseteq below[y]
    <3>1. \A x, y, z \in S : x < y /\ z < x => z < y
      OBVIOUS
    <3> QED BY <3>1
  <2>3. \A x, y \in S : x = y \/ x \in below[y] \/ y \in below[x]
    OBVIOUS
  <2> HIDE DEF below
  <2> QED BY <2>1, <2>2, <2>3 DEF Ranks
<1>2. InOrder(S) = [n \in 1..Cardinality(S) |->
                      CHOOSE x \in S : Cardinality({y \in S : y < x}) + 1 = n]
  BY DEF InOrder, SortedBy
<1>3. \A n \in 1..Cardinality(S) :
        InOrder(S)[n] \in S /\ Cardinality(below[InOrder(S)[n]]) + 1 = n
  <2>1. \A n \in 1..Cardinality(S) : \E x \in S : Cardinality(below[x]) + 1 = n
    <3> HIDE DEF below
    <3>1. Taken(below, S)
      BY <1>1, PlaceTaken
    <3> QED BY <3>1 DEF Taken
  <2> SUFFICES ASSUME NEW n \in 1..Cardinality(S)
               PROVE  InOrder(S)[n] \in S /\ Cardinality(below[InOrder(S)[n]]) + 1 = n
    OBVIOUS
  <2>2. \E x \in S : Cardinality({y \in S : y < x}) + 1 = n
    BY <2>1
  <2>3. InOrder(S)[n] = CHOOSE x \in S : Cardinality({y \in S : y < x}) + 1 = n
    BY <1>2
  <2>4. InOrder(S)[n] \in S /\ Cardinality({y \in S : y < InOrder(S)[n]}) + 1 = n
    BY <2>2, <2>3
  <2> QED BY <2>4
<1>4. Placed(InOrder(S), below, S)
  <2>1. InOrder(S) \in [1..Cardinality(S) -> S]
    BY <1>2, <1>3
  <2> HIDE DEF below
  <2> QED BY <1>3, <2>1 DEF Placed
<1>5. /\ Lists(InOrder(S), S) /\ Len(InOrder(S)) = Cardinality(S)
      /\ \A m, n \in 1..Cardinality(S) : InOrder(S)[m] \in below[InOrder(S)[n]] <=> m < n
  <2> HIDE DEF below
  <2> QED BY <1>1, <1>4, PlacedLists
<1>6. \A m, n \in 1..Cardinality(S) : m < n => InOrder(S)[m] < InOrder(S)[n]
  BY <1>3, <1>5
<1>7. DOMAIN InOrder(S) = 1..Cardinality(S)
  BY <1>2
<1> QED BY <1>5, <1>6, <1>7 DEF Increasing

(* Keeping places of a list without repetition: the members there, in the  *)
(* order of the list.                                                      *)
LEMMA KeptLists ==
  ASSUME NEW S \in SUBSET Int, NEW p, Lists(p, S), NEW P \in SUBSET DOMAIN p
  PROVE  /\ Lists(Kept(p, P), {p[n] : n \in P})
         /\ Increasing(p) => Increasing(Kept(p, P))
<1> DEFINE q == Kept(p, P)
           o == InOrder(P)
<1>1. p \in Seq(S) /\ DOMAIN p = 1..Len(p) /\ Len(p) \in Nat
  BY DEF Lists
<1>2. P \in SUBSET Int /\ IsFiniteSet(P)
  <2>1. IsFiniteSet(DOMAIN p)
    BY <1>1, FS_Interval
  <2> QED BY <1>1, <2>1, FS_Subset
<1>3. Lists(o, P) /\ Increasing(o)
  BY <1>2, InOrderLists
<1>4. Cardinality(P) = Len(o) /\ Len(o) \in Nat
  BY <1>3, LengthOfList
<1>5. DOMAIN o = 1..Len(o) /\ \A n \in 1..Len(o) : o[n] \in P
  BY <1>3 DEF Lists
<1>6. q = [n \in 1..Len(o) |-> p[o[n]]]
  BY <1>4 DEF Kept
<1>7. DOMAIN q = 1..Len(o) /\ \A n \in 1..Len(o) : q[n] = p[o[n]]
  BY <1>6
<1>8. q \in Seq({p[n] : n \in P})
  <2>1. q \in [1..Len(o) -> {p[n] : n \in P}]
    BY <1>5, <1>6
  <2> QED BY <1>4, <2>1
<1> HIDE DEF o, q
<1>9. \A m, n \in DOMAIN q : q[m] = q[n] => m = n
  <2> SUFFICES ASSUME NEW m \in 1..Len(o), NEW n \in 1..Len(o), q[m] = q[n] PROVE m = n
    BY <1>7
  <2>1. p[o[m]] = p[o[n]] /\ o[m] \in DOMAIN p /\ o[n] \in DOMAIN p
    BY <1>5, <1>7
  <2>2. o[m] = o[n]
    BY <2>1 DEF Lists
  <2> QED BY <1>3, <1>5, <2>2 DEF Lists
<1>10. \A x \in {p[n] : n \in P} : \E n \in DOMAIN q : q[n] = x
  <2> SUFFICES ASSUME NEW k \in P PROVE \E n \in DOMAIN q : q[n] = p[k]
    OBVIOUS
  <2>1. PICK n \in DOMAIN o : o[n] = k
    BY <1>3 DEF Lists
  <2> QED BY <1>5, <1>7, <2>1
<1>11. ASSUME Increasing(p) PROVE Increasing(q)
  <2> SUFFICES ASSUME NEW m \in 1..Len(o), NEW n \in 1..Len(o), m < n PROVE q[m] < q[n]
    BY <1>7 DEF Increasing
  <2>1. o[m] < o[n]
    BY <1>3, <1>5 DEF Increasing
  <2>2. o[m] \in DOMAIN p /\ o[n] \in DOMAIN p
    BY <1>5
  <2>3. p[o[m]] < p[o[n]]
    BY <1>11, <2>1, <2>2 DEF Increasing
  <2> QED BY <1>7, <2>3
<1> QED BY <1>8, <1>9, <1>10, <1>11 DEF q, Lists

-----------------------------------------------------------------------------
(* The rows that match, and those with a number.                           *)

LEMMA RowValues ==
  ASSUME rows \in Seq(Row), NEW i \in DOMAIN rows
  PROVE  /\ Get(i, "group") \in Texts \cup {None} /\ Get(i, "metric") \in Values
         /\ \A s \in Spec : Metric(i, s) \in Values
<1>1. rows[i] \in Row
  OBVIOUS
<1>2. Get(i, "group") \in Texts \cup {None} /\ Get(i, "metric") \in Values
  BY <1>1 DEF Get, Row, Values
<1> QED BY <1>2 DEF Metric, Values

LEMMA LimitType == \A s \in Spec : s.limit \in Int
BY AnalyticsAssumption DEF AnalyticsAssumption, Spec

LEMMA RowsAreFew ==
  ASSUME rows \in Seq(Row)
  PROVE  /\ DOMAIN rows \in SUBSET Int /\ IsFiniteSet(DOMAIN rows)
         /\ Cardinality(DOMAIN rows) = Len(rows) /\ Len(rows) \in Nat
<1>1. DOMAIN rows = 1..Len(rows) /\ Len(rows) \in Nat
  OBVIOUS
<1>2. IsFiniteSet(1..Len(rows)) /\ Cardinality(1..Len(rows)) = Len(rows)
  <2>1. 1 \in Int /\ Len(rows) \in Int
    BY <1>1
  <2>2. Cardinality(1..Len(rows)) = IF 1 > Len(rows) THEN 0 ELSE Len(rows) - 1 + 1
    BY <2>1, FS_Interval
  <2> QED BY <1>1, <2>1, <2>2, FS_Interval
<1> QED BY <1>1, <1>2

LEMMA MatchedLists ==
  ASSUME rows \in Seq(Row), NEW s
  PROVE  /\ Selected(s) \in SUBSET DOMAIN rows
         /\ Lists(Matched(s), Selected(s)) /\ Increasing(Matched(s))
<1>1. Selected(s) \in SUBSET DOMAIN rows
  BY DEF Selected
<1>2. Matched(s) = InOrder(Selected(s))
  BY DEF Matched, Selected
<1>3. Selected(s) \in SUBSET Int /\ IsFiniteSet(Selected(s))
  BY <1>1, RowsAreFew, FS_Subset
<1> QED BY <1>1, <1>2, <1>3, InOrderLists

LEMMA WithNumberLists ==
  ASSUME rows \in Seq(Row), NEW s, NEW S \in SUBSET DOMAIN rows, NEW p, Lists(p, S)
  PROVE  /\ Lists(WithNumber(p, s), Numeric(s, S))
         /\ Increasing(p) => Increasing(WithNumber(p, s))
         /\ \A n \in DOMAIN WithNumber(p, s) : Metric(WithNumber(p, s)[n], s) \in Numbers
<1> DEFINE P == {n \in DOMAIN p : Metric(p[n], s) \in Numbers}
<1>1. WithNumber(p, s) = Kept(p, P)
  BY DEF WithNumber
<1>2. \A n \in DOMAIN p : p[n] \in S
  BY DEF Lists
<1>3. {p[n] : n \in P} = Numeric(s, S)
  <2>1. \A x \in S : \E n \in DOMAIN p : p[n] = x
    BY DEF Lists
  <2> QED BY <1>2, <2>1 DEF Numeric
<1>4. /\ Lists(Kept(p, P), {p[n] : n \in P})
      /\ Increasing(p) => Increasing(Kept(p, P))
  <2>1. S \in SUBSET Int /\ P \in SUBSET DOMAIN p
    BY RowsAreFew
  <2> HIDE DEF P
  <2> QED BY <2>1, KeptLists
<1>5. Lists(WithNumber(p, s), Numeric(s, S))
  BY <1>1, <1>3, <1>4
<1>6. \A n \in DOMAIN WithNumber(p, s) : WithNumber(p, s)[n] \in Numeric(s, S)
  BY <1>5 DEF Lists
<1> QED BY <1>1, <1>4, <1>5, <1>6 DEF Numeric

-----------------------------------------------------------------------------
(* One value over some rows.                                               *)

Weight(s) == [i \in DOMAIN rows |-> IF Metric(i, s) \in Numbers THEN Metric(i, s) ELSE 0]

LEMMA WeightType == \A s : Weight(s) \in [DOMAIN rows -> Int]
<1>1. \A s : \A i \in DOMAIN rows :
        (IF Metric(i, s) \in Numbers THEN Metric(i, s) ELSE 0) \in Int
  <2>1. Numbers \subseteq Int
    BY AnalyticsAssumption DEF AnalyticsAssumption
  <2> SUFFICES ASSUME NEW s, NEW i \in DOMAIN rows
               PROVE  (IF Metric(i, s) \in Numbers THEN Metric(i, s) ELSE 0) \in Int
    OBVIOUS
  <2>2. CASE Metric(i, s) \in Numbers
    BY <2>1, <2>2
  <2>3. CASE Metric(i, s) \notin Numbers
    BY <2>3
  <2> QED BY <2>2, <2>3
<1> QED BY <1>1 DEF Weight

LEMMA SumSetIsSum ==
  ASSUME rows \in Seq(Row), NEW s, NEW g, Sums(g, Weight(s), DOMAIN rows),
         NEW N \in SUBSET DOMAIN rows, \A i \in N : Metric(i, s) \in Numbers
  PROVE  MapThenSumSet(LAMBDA i : Metric(i, s), N) = g[N]
<1> DEFINE Eq(h) == h = [t \in SUBSET N |->
                           IF t = {} THEN 0
                           ELSE Metric(CHOOSE x \in t : TRUE, s) + h[t \ {CHOOSE x \in t : TRUE}]]
           F == CHOOSE h : Eq(h)
           c == [t \in SUBSET N |-> CHOOSE x \in t : TRUE]
           Good == {t \in SUBSET N : F[t] = g[t]}
<1>1. MapThenSumSet(LAMBDA i : Metric(i, s), N) = F[N]
  BY DEF MapThenSumSet, MapThenFoldSet
<1>2. g[{}] = 0
  BY DEF Sums
<1>3. ASSUME NEW t \in SUBSET N, NEW x \in t
      PROVE  g[t] = Metric(x, s) + g[t \ {x}]
  <2>1. t \in SUBSET DOMAIN rows /\ Weight(s)[x] = Metric(x, s)
    BY DEF Weight
  <2> QED BY <2>1 DEF Sums
<1>4. Eq([t \in SUBSET N |-> g[t]])
  <2> DEFINE h == [t \in SUBSET N |-> g[t]]
  <2>1. ASSUME NEW t \in SUBSET N
        PROVE  g[t] = IF t = {} THEN 0
                      ELSE Metric(CHOOSE x \in t : TRUE, s) + h[t \ {CHOOSE x \in t : TRUE}]
    <3>1. CASE t = {}
      BY <1>2, <3>1
    <3>2. CASE t # {}
      <4> DEFINE x == CHOOSE x \in t : TRUE
      <4>1. x \in t
        BY <3>2
      <4>2. t \ {x} \in SUBSET N
        OBVIOUS
      <4>3. h[t \ {x}] = g[t \ {x}]
        BY <4>2
      <4>4. g[t] = Metric(x, s) + g[t \ {x}]
        BY <1>3, <4>1
      <4> QED BY <3>2, <4>3, <4>4
    <3> QED BY <3>1, <3>2
  <2>2. h = [t \in SUBSET N |->
               IF t = {} THEN 0
               ELSE Metric(CHOOSE x \in t : TRUE, s) + h[t \ {CHOOSE x \in t : TRUE}]]
    BY <2>1
  <2> QED BY <2>2
<1>5. Eq(F)
  <2> HIDE DEF Eq
  <2> QED BY <1>4
<1>6. Climbs(N, c, Good)
  <2>1. {} \in Good
    <3>1. F[{}] = 0
      BY <1>5
    <3> QED BY <1>2, <3>1
  <2>2. ASSUME NEW t \in SUBSET N, t # {}
        PROVE  c[t] \in t /\ (t \ {c[t]} \in Good => t \in Good)
    <3>1. c[t] \in t /\ c[t] = CHOOSE x \in t : TRUE
      BY <2>2
    <3>2. F[t] = Metric(c[t], s) + F[t \ {c[t]}]
      <4>1. F[t] = Metric(CHOOSE x \in t : TRUE, s) + F[t \ {CHOOSE x \in t : TRUE}]
        <5> HIDE DEF F
        <5> QED BY <1>5, <2>2
      <4> QED BY <3>1, <4>1
    <3>3. g[t] = Metric(c[t], s) + g[t \ {c[t]}]
      BY <1>3, <3>1
    <3> HIDE DEF c, F
    <3> QED BY <3>1, <3>2, <3>3
  <2> HIDE DEF c, Good
  <2> QED BY <2>1, <2>2 DEF Climbs
<1>7. \A t \in SUBSET N : t \in Good
  <2>1. IsFiniteSet(N)
    BY RowsAreFew, FS_Subset
  <2> HIDE DEF c, Good
  <2> QED BY <1>6, <2>1, SubsetsUp
<1>8. F[N] = g[N]
  BY <1>7
<1> QED BY <1>1, <1>8

(* The numbers of a list of rows: as many as there are rows with a number, *)
(* and their total is the sum.                                             *)
LEMMA NumbersAreListed ==
  ASSUME rows \in Seq(Row), NEW s, NEW g, Sums(g, Weight(s), DOMAIN rows),
         NEW S \in SUBSET DOMAIN rows, NEW p, Lists(p, S)
  PROVE  /\ NumbersOf(p, s) \in Seq(Int)
         /\ Len(NumbersOf(p, s)) = Cardinality(Numeric(s, S))
         /\ Cardinality(Numeric(s, S)) \in Nat
         /\ NumbersOf(p, s) = <<>> <=> Numeric(s, S) = {}
         /\ Total(NumbersOf(p, s)) = g[Numeric(s, S)]
         /\ ToSet(NumbersOf(p, s)) = {Metric(i, s) : i \in Numeric(s, S)}
         /\ IsFiniteSet(ToSet(NumbersOf(p, s)))
<1> DEFINE N == Numeric(s, S)
           q == WithNumber(p, s)
           nums == NumbersOf(p, s)
<1>1. N \in SUBSET DOMAIN rows /\ Lists(q, N)
  BY WithNumberLists DEF Numeric
<1>2. /\ DOMAIN q = 1..Len(q) /\ \A n \in 1..Len(q) : q[n] \in N
      /\ \A i \in N : \E n \in DOMAIN q : q[n] = i
  BY <1>1 DEF Lists
<1>3. nums = [n \in DOMAIN q |-> Metric(q[n], s)]
  BY DEF NumbersOf
<1>4. IsFiniteSet(N) /\ Cardinality(N) = Len(q) /\ Len(q) \in Nat
  BY <1>1, LengthOfList
<1>5. Weights(nums, Weight(s), q)
  <2>1. \A n \in DOMAIN q : Weight(s)[q[n]] = Metric(q[n], s)
    BY <1>1, <1>2 DEF Weight, Numeric
  <2> HIDE DEF q, nums
  <2> QED BY <1>3, <2>1 DEF Weights
<1> HIDE DEF q, nums, N
<1>6. nums \in Seq(Int) /\ Len(nums) = Len(q) /\ Total(nums) = g[N]
  <2> DEFINE w == Weight(s)
             D == DOMAIN rows
  <2>1. /\ IsFiniteSet(D) /\ w \in [D -> Int] /\ Sums(g, w, D)
        /\ N \in SUBSET D /\ Lists(q, N) /\ Weights(nums, w, q)
    BY <1>1, <1>5, WeightType, RowsAreFew
  <2> HIDE DEF w, D
  <2>2. AddsUp(nums, q, g[N])
    BY <2>1, TotalIsSum
  <2> QED BY <2>2 DEF AddsUp
<1>7. ToSet(nums) = {Metric(i, s) : i \in N}
  <2>1. DOMAIN nums = DOMAIN q /\ \A n \in DOMAIN q : nums[n] = Metric(q[n], s)
    BY <1>3
  <2> QED BY <1>2, <2>1 DEF ToSet
<1>8. nums = <<>> <=> N = {}
  <2>1. nums = <<>> <=> Len(nums) = 0
    BY <1>6
  <2>2. N = {} <=> Cardinality(N) = 0
    BY <1>4, FS_EmptySet
  <2> QED BY <1>4, <1>6, <2>1, <2>2
<1>9. IsFiniteSet(ToSet(nums))
  <2>1. nums \in Surjection(DOMAIN nums, ToSet(nums))
    <3>1. nums = [n \in DOMAIN nums |-> nums[n]]
      BY <1>6
    <3> QED BY <3>1 DEF Surjection, ToSet
  <2>2. IsFiniteSet(DOMAIN nums)
    <3>1. DOMAIN nums = 1..Len(nums) /\ 1 \in Int /\ Len(nums) \in Int
      BY <1>6
    <3> QED BY <3>1, FS_Interval
  <2> QED BY <2>1, <2>2, FS_Surjection
<1> QED BY <1>4, <1>6, <1>7, <1>8, <1>9 DEF nums, N

(* What _scalar returns is the aggregate, and None when a number is needed *)
(* and there is none.                                                      *)
LEMMA ScalarIsExact ==
  ASSUME rows \in Seq(Row), NEW s \in Spec, NEW g, Sums(g, Weight(s), DOMAIN rows),
         NEW S \in SUBSET DOMAIN rows, NEW p, Lists(p, S)
  PROVE  /\ s.op # "count" /\ Numeric(s, S) = {} => Scalar(p, s) = None
         /\ Computable(s, S) => Scalar(p, s) \in Fraction /\ Scalar(p, s) = Value(s, S)
         /\ s.op = "count" => Scalar(p, s) = Whole(Cardinality(S))
         /\ s.op = "sum" /\ Numeric(s, S) # {} => Scalar(p, s) = Whole(g[Numeric(s, S)])
<1> DEFINE N == Numeric(s, S)
           nums == NumbersOf(p, s)
           sum == MapThenSumSet(LAMBDA i : Metric(i, s), N)
<1>1. /\ nums \in Seq(Int) /\ Len(nums) = Cardinality(N) /\ Cardinality(N) \in Nat
      /\ nums = <<>> <=> N = {}
      /\ Total(nums) = g[N] /\ ToSet(nums) = {Metric(i, s) : i \in N}
      /\ IsFiniteSet(ToSet(nums))
  BY NumbersAreListed
<1>2. Len(p) = Cardinality(S) /\ Len(p) \in Nat
  BY LengthOfList
<1>3. N \in SUBSET DOMAIN rows /\ \A i \in N : Metric(i, s) \in Numbers /\ Metric(i, s) \in Int
  BY AnalyticsAssumption DEF Numeric, AnalyticsAssumption
<1>4. sum = g[N] /\ g[N] \in Int
  <2> HIDE DEF N, nums
  <2>1. N \in SUBSET DOMAIN rows /\ \A i \in N : Metric(i, s) \in Numbers
    BY <1>3
  <2>2. sum = g[N]
    BY <2>1, SumSetIsSum
  <2>3. g[N] \in Int
    BY <2>1 DEF Sums
  <2> QED BY <2>2, <2>3
<1>5. s.op \in {"count", "sum", "avg", "min", "max"}
  BY DEF Spec, Op
<1>6. \A n \in Int : Whole(n) \in Fraction /\ Whole(n).num = n
  BY DEF Whole, Fraction
<1>7. ASSUME s.op = "count" PROVE Scalar(p, s) = Whole(Cardinality(S)) /\ Scalar(p, s) = Value(s, S)
  BY <1>2, <1>7 DEF Scalar, Value
<1>8. ASSUME s.op # "count", N = {} PROVE Scalar(p, s) = None
  BY <1>1, <1>8 DEF Scalar
<1>9. ASSUME N # {}, s.op = "sum" PROVE Scalar(p, s) = Whole(g[N]) /\ Scalar(p, s) = Value(s, S)
  <2>1. Scalar(p, s) = Whole(g[N])
    BY <1>1, <1>9 DEF Scalar
  <2> QED BY <1>4, <1>9, <2>1 DEF Value
<1>10. ASSUME N # {}, s.op = "avg" PROVE Scalar(p, s) \in Fraction /\ Scalar(p, s) = Value(s, S)
  <2>1. Scalar(p, s) = [num |-> g[N], den |-> Cardinality(N)]
    BY <1>1, <1>10 DEF Scalar
  <2>2. Cardinality(N) # 0
    BY <1>1, <1>10
  <2>3. Scalar(p, s) \in Fraction
    BY <1>1, <1>4, <2>1, <2>2 DEF Fraction
  <2> QED BY <1>4, <1>10, <2>1, <2>3 DEF Value
<1>11. (ToSet(nums) # {} /\ ToSet(nums) \in SUBSET Int) \/ N = {}
  BY <1>1, <1>3
<1>12. ASSUME N # {}, s.op = "min" PROVE Scalar(p, s) \in Fraction /\ Scalar(p, s) = Value(s, S)
  <2>1. Scalar(p, s) = Whole(Min(ToSet(nums)))
    BY <1>1, <1>12 DEF Scalar
  <2>2. Min(ToSet(nums)) \in Int
    BY <1>1, <1>11, <1>12, Extremes
  <2>3. Value(s, S) = Whole(Min({Metric(i, s) : i \in N}))
    BY <1>12 DEF Value
  <2> QED BY <1>1, <1>6, <2>1, <2>2, <2>3
<1>13. ASSUME N # {}, s.op = "max" PROVE Scalar(p, s) \in Fraction /\ Scalar(p, s) = Value(s, S)
  <2>1. Scalar(p, s) = Whole(Max(ToSet(nums)))
    BY <1>1, <1>13 DEF Scalar
  <2>2. Max(ToSet(nums)) \in Int
    BY <1>1, <1>11, <1>13, Extremes
  <2>3. Value(s, S) = Whole(Max({Metric(i, s) : i \in N}))
    BY <1>13 DEF Value
  <2> QED BY <1>1, <1>6, <2>1, <2>2, <2>3
<1> HIDE DEF N, nums, sum
<1>14. s.op = "count" => Scalar(p, s) \in Fraction
  <2>1. Whole(Cardinality(S)) \in Fraction
    BY <1>2, <1>6
  <2> QED BY <1>7, <2>1
<1>15. N # {} /\ s.op = "sum" => Scalar(p, s) \in Fraction
  BY <1>4, <1>6, <1>9
<1> QED BY <1>5, <1>7, <1>8, <1>9, <1>10, <1>12, <1>13, <1>14, <1>15 DEF N, Computable

-----------------------------------------------------------------------------
(* Buckets.                                                                *)

Bucket == [key : Texts \cup {None}, rows : Seq(DOMAIN rows)]
Holding(S, key) == {i \in S : Get(i, "group") = key}

(* The rows S, each in the bucket of its key.                              *)
Bucketing(b, S) ==
  /\ b \in Seq(Bucket)
  /\ \A m, n \in DOMAIN b : b[m].key = b[n].key => m = n
  /\ \A n \in DOMAIN b : Lists(b[n].rows, Holding(S, b[n].key))
  /\ \A n \in DOMAIN b : Holding(S, b[n].key) # {}
  /\ \A i \in S : \E n \in DOMAIN b : b[n].key = Get(i, "group")

LEMMA AppendLists ==
  ASSUME NEW S, NEW p, Lists(p, S), NEW x, x \notin S
  PROVE  Lists(Append(p, x), S \cup {x})
<1> DEFINE q == Append(p, x)
<1>1. p \in Seq(S) /\ DOMAIN p = 1..Len(p) /\ Len(p) \in Nat /\ \A n \in 1..Len(p) : p[n] \in S
  BY DEF Lists
<1>2. p \in Seq(S \cup {x})
  <2>1. p \in [1..Len(p) -> S \cup {x}]
    BY <1>1
  <2> QED BY <1>1, <2>1
<1>3. q \in Seq(S \cup {x}) /\ DOMAIN q = 1..(Len(p) + 1) /\ q[Len(p) + 1] = x
      /\ \A n \in 1..Len(p) : q[n] = p[n]
  BY <1>1, <1>2, AppendProperties
<1> HIDE DEF q
<1>4. \A n \in 1..(Len(p) + 1) : n = Len(p) + 1 \/ n \in 1..Len(p)
  BY <1>1
<1>5. \A m, n \in DOMAIN q : q[m] = q[n] => m = n
  <2> SUFFICES ASSUME NEW m \in 1..(Len(p) + 1), NEW n \in 1..(Len(p) + 1), q[m] = q[n]
               PROVE  m = n
    BY <1>3
  <2>1. CASE m \in 1..Len(p) /\ n \in 1..Len(p)
    BY <1>1, <1>3, <2>1 DEF Lists
  <2>2. CASE m \notin 1..Len(p) \/ n \notin 1..Len(p)
    BY <1>1, <1>3, <1>4, <2>2
  <2> QED BY <2>1, <2>2
<1>6. \A y \in S \cup {x} : \E n \in DOMAIN q : q[n] = y
  <2> SUFFICES ASSUME NEW y \in S \cup {x} PROVE \E n \in DOMAIN q : q[n] = y
    OBVIOUS
  <2>1. CASE y = x
    <3>1. Len(p) + 1 \in DOMAIN q
      BY <1>1, <1>3
    <3> QED BY <1>3, <2>1, <3>1
  <2>2. CASE y \in S
    <3>1. PICK n \in DOMAIN p : p[n] = y
      BY <2>2 DEF Lists
    <3>2. n \in DOMAIN q
      BY <1>1, <1>3
    <3> QED BY <1>1, <1>3, <3>1, <3>2
  <2> QED BY <2>1, <2>2
<1> QED BY <1>3, <1>5, <1>6 DEF Lists, q

LEMMA SingleLists == \A x : Lists(<<x>>, {x})
<1> SUFFICES ASSUME NEW x PROVE Lists(<<x>>, {x})
  OBVIOUS
<1>1. <<x>> \in Seq({x}) /\ DOMAIN <<x>> = {1} /\ <<x>>[1] = x
  OBVIOUS
<1> QED BY <1>1 DEF Lists

LEMMA PutType ==
  ASSUME rows \in Seq(Row), NEW b \in Seq(Bucket), NEW i \in DOMAIN rows
  PROVE  Bucketed(b, i) \in Seq(Bucket)
<1> DEFINE key == Get(i, "group")
           exists == \E x \in ToSet(b) : x.key = key
<1>1. key \in Texts \cup {None}
  BY RowValues
<1>2. DOMAIN b = 1..Len(b) /\ Len(b) \in Nat /\ \A n \in 1..Len(b) : b[n] \in Bucket
  OBVIOUS
<1> HIDE DEF key, exists
<1>3. CASE exists
  <2>1. Bucketed(b, i) = [n \in DOMAIN b |->
                            IF b[n].key = key THEN [b[n] EXCEPT !.rows = Append(@, i)] ELSE b[n]]
    BY <1>3 DEF Bucketed, Put, key, exists
  <2>2. \A n \in 1..Len(b) : [b[n] EXCEPT !.rows = Append(@, i)] \in Bucket
    <3> SUFFICES ASSUME NEW n \in 1..Len(b) PROVE [b[n] EXCEPT !.rows = Append(@, i)] \in Bucket
      OBVIOUS
    <3>1. b[n].key \in Texts \cup {None} /\ b[n].rows \in Seq(DOMAIN rows) /\ b[n] \in Bucket
      BY <1>2 DEF Bucket
    <3>2. Append(b[n].rows, i) \in Seq(DOMAIN rows)
      BY <3>1, AppendProperties
    <3> QED BY <3>1, <3>2 DEF Bucket
  <2>3. Bucketed(b, i) \in [1..Len(b) -> Bucket]
    BY <1>2, <2>1, <2>2
  <2> QED BY <1>2, <2>3
<1>4. CASE ~exists
  <2>1. Bucketed(b, i) = Append(b, [key |-> key, rows |-> <<i>>])
    BY <1>4 DEF Bucketed, Put, key, exists
  <2>2. <<i>> \in Seq(DOMAIN rows)
    OBVIOUS
  <2>3. [key |-> key, rows |-> <<i>>] \in Bucket
    BY <1>1, <2>2 DEF Bucket
  <2> QED BY <2>1, <2>3, AppendProperties
<1> QED BY <1>3, <1>4

LEMMA BucketedKeeps ==
  ASSUME rows \in Seq(Row), NEW S \in SUBSET DOMAIN rows, NEW i \in DOMAIN rows, i \notin S,
         NEW b, Bucketing(b, S)
  PROVE  Bucketing(Bucketed(b, i), S \cup {i})
<1> DEFINE key == Get(i, "group")
           exists == \E x \in ToSet(b) : x.key = key
           a == Bucketed(b, i)
           U == S \cup {i}
<1>1. /\ b \in Seq(Bucket) /\ DOMAIN b = 1..Len(b) /\ Len(b) \in Nat
      /\ \A n \in 1..Len(b) : b[n] \in Bucket
  BY DEF Bucketing
<1>2. a \in Seq(Bucket)
  BY <1>1, PutType
<1>3. exists <=> \E n \in DOMAIN b : b[n].key = key
  BY DEF ToSet
<1>4. /\ \A k : k # key => Holding(U, k) = Holding(S, k)
      /\ Holding(U, key) = Holding(S, key) \cup {i} /\ i \notin Holding(S, key)
  BY DEF Holding
<1> HIDE DEF exists, U, a
<1>5. CASE exists
  <2>1. a = [n \in DOMAIN b |->
               IF b[n].key = key THEN [b[n] EXCEPT !.rows = Append(@, i)] ELSE b[n]]
    BY <1>5 DEF Bucketed, Put, exists, a
  <2> HIDE DEF key
  <2>2. /\ DOMAIN a = 1..Len(b)
        /\ \A n \in 1..Len(b) :
             /\ b[n].key = key => a[n] = [b[n] EXCEPT !.rows = Append(@, i)]
             /\ b[n].key # key => a[n] = b[n]
    BY <1>1, <2>1
  <2>3. \A n \in 1..Len(b) :
             /\ a[n].key = b[n].key
             /\ b[n].key = key => a[n].rows = Append(b[n].rows, i)
    BY <1>1, <2>2 DEF Bucket
  <2>4. \A m, n \in DOMAIN a : a[m].key = a[n].key => m = n
    BY <1>1, <2>2, <2>3 DEF Bucketing
  <2>5. \A n \in DOMAIN a : Lists(a[n].rows, Holding(U, a[n].key))
    <3> SUFFICES ASSUME NEW n \in 1..Len(b) PROVE Lists(a[n].rows, Holding(U, a[n].key))
      BY <2>2
    <3>1. Lists(b[n].rows, Holding(S, b[n].key))
      BY <1>1 DEF Bucketing
    <3>2. CASE b[n].key = key
      <4>1. Lists(Append(b[n].rows, i), Holding(S, key) \cup {i})
        BY <1>4, <3>1, <3>2, AppendLists
      <4> QED BY <1>4, <2>3, <3>2, <4>1
    <3>3. CASE b[n].key # key
      BY <1>4, <2>2, <2>3, <3>1, <3>3
    <3> QED BY <3>2, <3>3
  <2>6. \A j \in U : \E n \in DOMAIN a : a[n].key = Get(j, "group")
    <3> SUFFICES ASSUME NEW j \in U PROVE \E n \in 1..Len(b) : b[n].key = Get(j, "group")
      BY <2>2, <2>3
    <3>1. CASE j \in S
      BY <1>1, <3>1 DEF Bucketing
    <3>2. CASE j = i
      BY <1>1, <1>3, <1>5, <3>2 DEF key
    <3> QED BY <3>1, <3>2 DEF U
  <2>7. \A n \in DOMAIN a : Holding(U, a[n].key) # {}
    BY <1>1, <1>4, <2>2, <2>3 DEF Bucketing
  <2> QED BY <1>2, <2>4, <2>5, <2>6, <2>7 DEF Bucketing, a, U
<1>6. CASE ~exists
  <2> DEFINE new == [key |-> key, rows |-> <<i>>]
  <2>1. a = Append(b, new)
    BY <1>6 DEF Bucketed, Put, exists, a
  <2>2. new \in Bucket /\ new.key = key /\ new.rows = <<i>>
    <3>1. <<i>> \in Seq(DOMAIN rows) /\ key \in Texts \cup {None}
      BY RowValues
    <3> QED BY <3>1 DEF Bucket
  <2> HIDE DEF key, new
  <2>3. DOMAIN a = 1..(Len(b) + 1) /\ a[Len(b) + 1] = new /\ \A n \in 1..Len(b) : a[n] = b[n]
    BY <1>1, <2>1, <2>2, AppendProperties
  <2>4. \A n \in 1..(Len(b) + 1) : n = Len(b) + 1 \/ n \in 1..Len(b)
    BY <1>1
  <2>5. \A n \in 1..Len(b) : b[n].key # key
    BY <1>1, <1>3, <1>6
  <2>6. \A m, n \in DOMAIN a : a[m].key = a[n].key => m = n
    <3> SUFFICES ASSUME NEW m \in 1..(Len(b) + 1), NEW n \in 1..(Len(b) + 1), a[m].key = a[n].key
                 PROVE  m = n
      BY <2>3
    <3>1. CASE m \in 1..Len(b) /\ n \in 1..Len(b)
      BY <1>1, <2>3, <3>1 DEF Bucketing
    <3>2. CASE m \notin 1..Len(b) \/ n \notin 1..Len(b)
      BY <2>2, <2>3, <2>4, <2>5, <3>2
    <3> QED BY <3>1, <3>2
  <2>7. \A n \in DOMAIN a : Lists(a[n].rows, Holding(U, a[n].key))
    <3> SUFFICES ASSUME NEW n \in 1..(Len(b) + 1) PROVE Lists(a[n].rows, Holding(U, a[n].key))
      BY <2>3
    <3>1. CASE n \in 1..Len(b)
      <4>1. Lists(b[n].rows, Holding(S, b[n].key))
        BY <1>1, <3>1 DEF Bucketing
      <4> QED BY <1>4, <2>3, <2>5, <3>1, <4>1
    <3>2. CASE n = Len(b) + 1
      <4>1. Holding(S, key) = {}
        BY <1>1, <2>5 DEF Bucketing, Holding
      <4>2. Holding(U, key) = {i}
        BY <1>4, <4>1
      <4> QED BY <2>2, <2>3, <3>2, <4>2, SingleLists
    <3> QED BY <2>4, <3>1, <3>2
  <2>8. \A j \in U : \E n \in DOMAIN a : a[n].key = Get(j, "group")
    <3> SUFFICES ASSUME NEW j \in U PROVE \E n \in DOMAIN a : a[n].key = Get(j, "group")
      OBVIOUS
    <3>1. CASE j \in S
      <4>1. PICK n \in 1..Len(b) : b[n].key = Get(j, "group")
        BY <1>1, <3>1 DEF Bucketing
      <4>2. n \in 1..(Len(b) + 1)
        BY <1>1
      <4> QED BY <2>3, <4>1, <4>2
    <3>2. CASE j = i
      <4>1. Len(b) + 1 \in 1..(Len(b) + 1)
        BY <1>1
      <4> QED BY <2>2, <2>3, <3>2, <4>1 DEF key
    <3> QED BY <3>1, <3>2 DEF U
  <2>9. \A n \in DOMAIN a : Holding(U, a[n].key) # {}
    BY <1>1, <1>4, <2>2, <2>3, <2>4 DEF Bucketing
  <2> QED BY <1>2, <2>6, <2>7, <2>8, <2>9 DEF Bucketing, a, U
<1> QED BY <1>5, <1>6 DEF a, U

(* The buckets of a list of rows, one row after the other.                 *)
LEMMA BucketsFold ==
  ASSUME rows \in Seq(Row), NEW p \in Seq(DOMAIN rows)
  PROVE  \E t \in [0..Len(p) -> Seq(Bucket)] :
           /\ t[0] = <<>> /\ t[Len(p)] = FoldLeft(Bucketed, <<>>, p)
           /\ \A k \in 1..Len(p) : t[k] = Bucketed(t[k - 1], p[k])
<1> DEFINE D == DOMAIN p
           Eq(g) == g = [s \in SUBSET D |->
                           IF s = {} THEN <<>> ELSE Bucketed(g[s \ {Max(s)}], p[Max(s)])]
           F == CHOOSE g : Eq(g)
           c == [s \in SUBSET D |-> Max(s)]
           op == [vx \in Seq(Bucket) \X D |-> Bucketed(vx[1], p[vx[2]])]
           t == [k \in 0..Len(p) |-> F[1..k]]
<1>1. FoldLeft(Bucketed, <<>>, p) = F[D]
  BY DEF FoldLeft, MapThenFoldSet
<1>2. D = 1..Len(p) /\ Len(p) \in Nat /\ IsFiniteSet(D) /\ \A x \in D : p[x] \in DOMAIN rows
  BY FS_Interval
<1>3. <<>> \in Seq(Bucket) /\ \A v \in Seq(Bucket), x \in D : Bucketed(v, p[x]) \in Seq(Bucket)
  BY <1>2, PutType
<1>4. \E g \in [SUBSET D -> Seq(Bucket)] : Eq(g)
  <2>1. \A s \in SUBSET D : s # {} => c[s] \in s
    <3>1. \A s \in SUBSET D : s \in SUBSET Int /\ IsFiniteSet(s)
      BY <1>2, FS_Subset
    <3> QED BY <3>1, Extremes
  <2>2. \A v \in Seq(Bucket), x \in D :
          op[<<v, x>>] = Bucketed(v, p[x]) /\ op[<<v, x>>] \in Seq(Bucket)
    BY <1>3
  <2>3. Recursive(D, Seq(Bucket), <<>>, c, op)
    <3>1. \A v \in Seq(Bucket), x \in D : op[<<v, x>>] \in Seq(Bucket)
      BY <2>2
    <3> HIDE DEF c, op
    <3> QED BY <1>2, <1>3, <2>1, <3>1 DEF Recursive
  <2>4. PICK g : Solves(g, D, Seq(Bucket), <<>>, c, op)
    BY <2>3, Recursion
  <2>5. ASSUME NEW s \in SUBSET D, s # {}
        PROVE  g[s] = Bucketed(g[s \ {Max(s)}], p[Max(s)])
    <3>1. c[s] = Max(s) /\ c[s] \in D /\ g[s \ {c[s]}] \in Seq(Bucket)
      BY <2>1, <2>4, <2>5 DEF Solves
    <3>2. g[s] = op[<<g[s \ {c[s]}], c[s]>>]
      BY <2>4, <2>5 DEF Solves
    <3> HIDE DEF c, op
    <3> QED BY <2>2, <3>1, <3>2
  <2>6. g \in [SUBSET D -> Seq(Bucket)] /\ g[{}] = <<>>
    BY <2>4 DEF Solves
  <2>7. Eq(g)
    <3> HIDE DEF c, op
    <3> QED BY <2>5, <2>6
  <2> QED BY <2>6, <2>7
<1>5. Eq(F)
  <2> HIDE DEF Eq
  <2> QED BY <1>4
<1>6. F[{}] = <<>>
  BY <1>5
<1>7. \A k \in 1..Len(p) : F[1..k] = Bucketed(F[1..(k - 1)], p[k])
  <2> SUFFICES ASSUME NEW k \in 1..Len(p) PROVE F[1..k] = Bucketed(F[1..(k - 1)], p[k])
    OBVIOUS
  <2>1. 1..k \in SUBSET D /\ 1..k # {} /\ (1..k) \ {k} = 1..(k - 1)
    <3>1. 1..k \subseteq 1..Len(p)
      BY <1>2
    <3>2. k \in 1..k
      BY <1>2
    <3>3. (1..k) \ {k} = 1..(k - 1)
      BY <1>2
    <3> QED BY <1>2, <3>1, <3>2, <3>3
  <2>2. Max(1..k) = k
    BY <1>2, LastIsMax
  <2> HIDE DEF F
  <2> QED BY <1>5, <2>1, <2>2
<1>8. \A k \in 0..Len(p) : F[1..k] \in Seq(Bucket)
  <2> DEFINE T == {n \in Nat : n <= Len(p) => F[1..n] \in Seq(Bucket)}
  <2>1. 0 \in T
    <3>1. 1..0 = {}
      OBVIOUS
    <3> HIDE DEF F
    <3> QED BY <1>3, <1>6, <3>1
  <2>2. ASSUME NEW n \in Nat, n \in T PROVE n + 1 \in T
    <3> SUFFICES ASSUME n + 1 <= Len(p) PROVE F[1..(n + 1)] \in Seq(Bucket)
      OBVIOUS
    <3>1. n + 1 \in 1..Len(p) /\ n <= Len(p) /\ (n + 1) - 1 = n
      BY <1>2
    <3>2. F[1..n] \in Seq(Bucket) /\ n + 1 \in D
      BY <1>2, <2>2, <3>1
    <3> HIDE DEF F
    <3> QED BY <1>3, <1>7, <3>1, <3>2
  <2>3. \A n \in Nat : n \in T
    <3> HIDE DEF T
    <3> QED BY <2>1, <2>2, UpFromZero
  <2>4. \A k \in 0..Len(p) : k \in Nat /\ k <= Len(p)
    BY <1>2
  <2> HIDE DEF F
  <2> QED BY <2>3, <2>4
<1> HIDE DEF F
<1>9. t \in [0..Len(p) -> Seq(Bucket)]
  BY <1>2, <1>8
<1>10. t[0] = <<>> /\ t[Len(p)] = FoldLeft(Bucketed, <<>>, p)
  <2>1. 1..0 = {}
    OBVIOUS
  <2> QED BY <1>1, <1>2, <1>6, <2>1
<1>11. \A k \in 1..Len(p) : t[k] = Bucketed(t[k - 1], p[k])
  BY <1>2, <1>7
<1> QED BY <1>9, <1>10, <1>11

(* Once all rows of a list are in, each is in the bucket of its key.       *)
LEMMA BucketsAreGroups ==
  ASSUME rows \in Seq(Row), NEW S \in SUBSET DOMAIN rows, NEW p, Lists(p, S)
  PROVE  Bucketing(FoldLeft(Bucketed, <<>>, p), S)
<1>1. p \in Seq(DOMAIN rows) /\ Len(p) \in Nat
  <2>1. p \in Seq(S)
    BY DEF Lists
  <2>2. p \in [1..Len(p) -> DOMAIN rows] /\ Len(p) \in Nat
    BY <2>1
  <2> QED BY <2>2
<1>2. PICK t \in [0..Len(p) -> Seq(Bucket)] :
        /\ t[0] = <<>> /\ t[Len(p)] = FoldLeft(Bucketed, <<>>, p)
        /\ \A k \in 1..Len(p) : t[k] = Bucketed(t[k - 1], p[k])
  BY <1>1, BucketsFold
<1> DEFINE T == {n \in Nat : n <= Len(p) => Bucketing(t[n], FirstOf(p, n))}
<1>3. 0 \in T
  <2>1. FirstOf(p, 0) = {} /\ t[0] = <<>>
    BY <1>2, FirstPlaces
  <2>2. Bucketing(<<>>, {})
    <3>1. <<>> \in Seq(Bucket) /\ DOMAIN <<>> = {}
      OBVIOUS
    <3> QED BY <3>1 DEF Bucketing
  <2> QED BY <2>1, <2>2
<1>4. ASSUME NEW n \in Nat, n \in T PROVE n + 1 \in T
  <2> SUFFICES ASSUME n + 1 <= Len(p) PROVE Bucketing(t[n + 1], FirstOf(p, n + 1))
    OBVIOUS
  <2>1. n + 1 \in 1..Len(p) /\ n <= Len(p) /\ (n + 1) - 1 = n /\ n \in 0..Len(p)
    BY <1>1
  <2>2. /\ p[n + 1] \in S /\ p[n + 1] \notin FirstOf(p, n)
        /\ FirstOf(p, n + 1) = FirstOf(p, n) \cup {p[n + 1]}
        /\ FirstOf(p, n) \in SUBSET S
    BY <2>1, FirstPlaces
  <2>3. t[n + 1] = Bucketed(t[n], p[n + 1])
    BY <1>2, <2>1
  <2>4. Bucketing(t[n], FirstOf(p, n))
    BY <1>4, <2>1
  <2>5. FirstOf(p, n) \in SUBSET DOMAIN rows /\ p[n + 1] \in DOMAIN rows
    BY <2>2
  <2> QED BY <2>2, <2>3, <2>4, <2>5, BucketedKeeps
<1>5. \A n \in Nat : n \in T
  <2> HIDE DEF T
  <2> QED BY <1>3, <1>4, UpFromZero
<1>6. Bucketing(t[Len(p)], FirstOf(p, Len(p)))
  BY <1>1, <1>5
<1> QED BY <1>2, <1>6, FirstPlaces

-----------------------------------------------------------------------------
(* Sorting groups by their values.                                         *)

LEMMA ScalingUp ==
  ASSUME NEW x \in Int, NEW y \in Int, NEW k \in Nat \ {0}
  PROVE  x * k <= y * k <=> x <= y
<1>1. ASSUME x <= y PROVE x * k <= y * k
  <2>1. (y - x) * k >= 0
    BY <1>1
  <2>2. (y - x) * k = y * k - x * k
    OBVIOUS
  <2> QED BY <2>1, <2>2
<1>2. ASSUME y < x PROVE y * k < x * k
  <2>1. (x - y) * k > 0
    BY <1>2
  <2>2. (x - y) * k = x * k - y * k
    OBVIOUS
  <2> QED BY <2>1, <2>2
<1>3. x * k \in Int /\ y * k \in Int
  OBVIOUS
<1> QED BY <1>1, <1>2, <1>3

LEMMA LessOrders ==
  ASSUME NEW a \in Fraction, NEW b \in Fraction, NEW c \in Fraction
  PROVE  /\ ~(Less(a, b) /\ Less(b, a))
         /\ ~Less(b, a) /\ ~Less(c, b) => ~Less(c, a)
<1>1. /\ a.num \in Int /\ b.num \in Int /\ c.num \in Int
      /\ a.den \in Nat \ {0} /\ b.den \in Nat \ {0} /\ c.den \in Nat \ {0}
  BY DEF Fraction
<1> DEFINE an == a.num  bn == b.num  cn == c.num  ad == a.den  bd == b.den  cd == c.den
<1>2. /\ Less(a, b) <=> an * bd < bn * ad
      /\ Less(b, a) <=> bn * ad < an * bd
      /\ Less(c, b) <=> cn * bd < bn * cd
      /\ Less(c, a) <=> cn * ad < an * cd
  BY DEF Less
<1> HIDE DEF an, bn, cn, ad, bd, cd
<1>3. /\ an \in Int /\ bn \in Int /\ cn \in Int
      /\ ad \in Nat \ {0} /\ bd \in Nat \ {0} /\ cd \in Nat \ {0}
  BY <1>1 DEF an, bn, cn, ad, bd, cd
<1>4. an * bd \in Int /\ bn * ad \in Int /\ bn * cd \in Int /\ cn * bd \in Int
      /\ an * cd \in Int /\ cn * ad \in Int
  BY <1>3
<1>5. ~(Less(a, b) /\ Less(b, a))
  BY <1>2, <1>4
<1>6. ASSUME ~Less(b, a), ~Less(c, b) PROVE ~Less(c, a)
  <2>1. an * bd <= bn * ad /\ bn * cd <= cn * bd
    BY <1>2, <1>4, <1>6
  <2>2. (an * bd) * cd <= (bn * ad) * cd /\ (bn * cd) * ad <= (cn * bd) * ad
    BY <1>3, <1>4, <2>1, ScalingUp
  <2>3. /\ (an * bd) * cd = (an * cd) * bd
        /\ (bn * ad) * cd = (bn * cd) * ad
        /\ (cn * bd) * ad = (cn * ad) * bd
    BY <1>3
  <2>4. (an * cd) * bd <= (cn * ad) * bd
    <3>1. (an * cd) * bd \in Int /\ (bn * cd) * ad \in Int /\ (cn * ad) * bd \in Int
      BY <1>3
    <3> QED BY <2>2, <2>3, <3>1
  <2>5. an * cd <= cn * ad
    BY <1>3, <1>4, <2>4, ScalingUp
  <2> QED BY <1>2, <1>4, <2>5
<1> QED BY <1>5, <1>6

(* The order of Sorted: by value, and of equal ones as they came.          *)
Smaller(groups, s, m, n) ==
  IF s.desc THEN Less(groups[n].value, groups[m].value)
  ELSE Less(groups[m].value, groups[n].value)
Earlier(groups, s, m, n) ==
  \/ Smaller(groups, s, m, n)
  \/ /\ ~Less(groups[m].value, groups[n].value)
     /\ ~Less(groups[n].value, groups[m].value)
     /\ m < n
PlaceOf(groups, s, n) ==
  CHOOSE x \in DOMAIN groups :
    Cardinality({m \in DOMAIN groups : Earlier(groups, s, m, x)}) + 1 = n

LEMMA EarlierIs ==
  ASSUME NEW groups, NEW s, NEW m, NEW n
  PROVE  Earlier(groups, s, m, n) <=>
           \/ Smaller(groups, s, m, n)
           \/ ~Smaller(groups, s, m, n) /\ ~Smaller(groups, s, n, m) /\ m < n
BY DEF Earlier, Smaller

LEMMA EarlierOrders ==
  ASSUME NEW G, NEW groups \in Seq(G), \A n \in DOMAIN groups : groups[n].value \in Fraction, NEW s
  PROVE  Ranks([n \in DOMAIN groups |-> {m \in DOMAIN groups : Earlier(groups, s, m, n)}],
               DOMAIN groups)
<1> DEFINE D == DOMAIN groups
           below == [n \in D |-> {m \in D : Earlier(groups, s, m, n)}]
<1>1. D = 1..Len(groups) /\ D \in SUBSET Int /\ IsFiniteSet(D)
  BY FS_Interval
<1> HIDE DEF D
<1>2. \A l, m, n \in D :
        /\ ~(Smaller(groups, s, l, m) /\ Smaller(groups, s, m, l))
        /\ ~Smaller(groups, s, m, l) /\ ~Smaller(groups, s, n, m) => ~Smaller(groups, s, n, l)
  BY LessOrders DEF Smaller, D
<1>3. \A n \in D : ~Earlier(groups, s, n, n)
  BY <1>1, <1>2, EarlierIs
<1>4. \A m, n \in D : m = n \/ Earlier(groups, s, m, n) \/ Earlier(groups, s, n, m)
  <2>1. \A m, n \in D : m = n \/ m < n \/ n < m
    BY <1>1
  <2> QED BY <2>1, EarlierIs
<1>5. \A l, m, n \in D :
        Earlier(groups, s, l, m) /\ Earlier(groups, s, m, n) => Earlier(groups, s, l, n)
  <2> SUFFICES ASSUME NEW l \in D, NEW m \in D, NEW n \in D,
                      Earlier(groups, s, l, m), Earlier(groups, s, m, n)
               PROVE  Earlier(groups, s, l, n)
    OBVIOUS
  <2>1. ~Smaller(groups, s, m, l) /\ ~Smaller(groups, s, n, m)
    BY <1>2, EarlierIs
  <2>2. ~Smaller(groups, s, n, l)
    BY <1>2, <2>1
  <2>3. CASE Smaller(groups, s, l, m) \/ Smaller(groups, s, m, n)
    <3>1. Smaller(groups, s, l, n)
      BY <1>2, <2>1, <2>3
    <3> QED BY <3>1, EarlierIs
  <2>4. CASE ~Smaller(groups, s, l, m) /\ ~Smaller(groups, s, m, n)
    <3>1. l < m /\ m < n
      BY <2>4, EarlierIs
    <3>2. l < n
      <4>1. l \in Int /\ m \in Int /\ n \in Int
        BY <1>1
      <4> QED BY <3>1, <4>1
    <3> QED BY <2>2, <2>4, <3>2, EarlierIs
  <2> QED BY <2>3, <2>4
<1>6. /\ below \in [D -> SUBSET D]
      /\ \A m, n \in D : m \in below[n] <=> Earlier(groups, s, m, n)
  OBVIOUS
<1>7. \A m, n \in D : m \in below[n] => below[m] \subseteq below[n]
  <2> SUFFICES ASSUME NEW m \in D, NEW n \in D, m \in below[n], NEW l \in below[m]
               PROVE  l \in below[n]
    OBVIOUS
  <2>1. l \in D
    BY <1>6
  <2> HIDE DEF below
  <2> QED BY <1>5, <1>6, <2>1
<1>8. Ranks(below, D)
  <2> HIDE DEF below
  <2> QED BY <1>1, <1>3, <1>4, <1>6, <1>7 DEF Ranks
<1> QED BY <1>8 DEF D

(* Sorting lists each group once, in that order.                           *)
IsSorting(order, groups, s) ==
  /\ Lists(order, DOMAIN groups)
  /\ Sorted(groups, s) = [n \in DOMAIN order |-> groups[order[n]]]
  /\ \A m, n \in DOMAIN order : Earlier(groups, s, order[m], order[n]) <=> m < n

LEMMA SortedSorts ==
  ASSUME NEW G, NEW groups \in Seq(G), \A n \in DOMAIN groups : groups[n].value \in Fraction, NEW s
  PROVE  \E order : IsSorting(order, groups, s)
<1> DEFINE D == DOMAIN groups
           below == [n \in D |-> {m \in D : Earlier(groups, s, m, n)}]
           order == [n \in 1..Cardinality(D) |-> PlaceOf(groups, s, n)]
<1>1. Ranks(below, D)
  BY EarlierOrders
<1>2. Sorted(groups, s) = [n \in DOMAIN order |-> groups[order[n]]]
  BY DEF Sorted, SortedBy, Earlier, Smaller, PlaceOf
<1>3. \A n \in 1..Cardinality(D) : order[n] \in D /\ Cardinality(below[order[n]]) + 1 = n
  <2> SUFFICES ASSUME NEW n \in 1..Cardinality(D)
               PROVE  order[n] \in D /\ Cardinality(below[order[n]]) + 1 = n
    OBVIOUS
  <2>1. \E x \in D : Cardinality(below[x]) + 1 = n
    <3> HIDE DEF below, D
    <3>1. Taken(below, D)
      BY <1>1, PlaceTaken
    <3> QED BY <3>1 DEF Taken
  <2>2. \E x \in D : Cardinality({m \in D : Earlier(groups, s, m, x)}) + 1 = n
    BY <2>1
  <2>3. order[n] = PlaceOf(groups, s, n)
    OBVIOUS
  <2>4. order[n] \in D /\ Cardinality({m \in D : Earlier(groups, s, m, order[n])}) + 1 = n
    <3> HIDE DEF order
    <3> QED BY <2>2, <2>3 DEF PlaceOf
  <2> HIDE DEF order
  <2> QED BY <2>4
<1>4. DOMAIN order = 1..Cardinality(D)
  OBVIOUS
<1>5. order \in [1..Cardinality(D) -> D]
  <2>1. order = [n \in 1..Cardinality(D) |-> order[n]]
    OBVIOUS
  <2> HIDE DEF order
  <2> QED BY <1>3, <2>1
<1> HIDE DEF order
<1>6. /\ Lists(order, D)
      /\ \A m, n \in 1..Cardinality(D) : order[m] \in below[order[n]] <=> m < n
  <2>1. Placed(order, below, D)
    <3> HIDE DEF below, D
    <3> QED BY <1>3, <1>5 DEF Placed
  <2> HIDE DEF below, D
  <2> QED BY <1>1, <2>1, PlacedLists
<1>7. \A m, n \in 1..Cardinality(D) : Earlier(groups, s, order[m], order[n]) <=> m < n
  BY <1>3, <1>6
<1> QED BY <1>2, <1>4, <1>6, <1>7 DEF IsSorting

(* What a ranking shows: the first of the sorted groups, all if there is   *)
(* no limit.                                                               *)
Ranking(r, order, groups, s) ==
  /\ IsSorting(order, groups, s)
  /\ DOMAIN r = 1..Len(r) /\ Len(r) \in Nat
  /\ \A n \in DOMAIN r : n \in DOMAIN order /\ r[n] = groups[order[n]]
  /\ s.limit > 0 => Len(r) <= s.limit
  /\ DOMAIN r = DOMAIN order \/ (s.limit > 0 /\ Len(r) = s.limit)

LEMMA BestRanks ==
  ASSUME NEW G, NEW groups \in Seq(G), \A n \in DOMAIN groups : groups[n].value \in Fraction,
         NEW s \in Spec
  PROVE  \E order : Ranking(Best(groups, s), order, groups, s)
<1>1. PICK order : IsSorting(order, groups, s)
  BY SortedSorts
<1> DEFINE all == Sorted(groups, s)
           r == Best(groups, s)
<1>2. /\ all = [n \in DOMAIN order |-> groups[order[n]]]
      /\ DOMAIN order = 1..Len(order) /\ Len(order) \in Nat
      /\ \A n \in 1..Len(order) : order[n] \in DOMAIN groups
  BY <1>1 DEF IsSorting, Lists
<1>3. all \in [1..Len(order) -> G]
  <2>1. \A n \in DOMAIN groups : groups[n] \in G
    OBVIOUS
  <2> HIDE DEF all
  <2> QED BY <1>2, <2>1
<1>4. all \in Seq(G) /\ Len(all) = Len(order) /\ \A n \in 1..Len(order) : all[n] = groups[order[n]]
  <2> HIDE DEF all
  <2> QED BY <1>2, <1>3
<1>5. s.limit \in Int
  BY LimitType
<1>6. r = IF s.limit > 0 /\ s.limit < Len(all) THEN SubSeq(all, 1, s.limit) ELSE all
  BY DEF Best, Cut
<1> HIDE DEF all, r
<1>7. CASE s.limit > 0 /\ s.limit < Len(all)
  <2>1. s.limit \in Nat /\ s.limit <= Len(order) /\ r = SubSeq(all, 1, s.limit)
    BY <1>4, <1>5, <1>6, <1>7
  <2>2. \A n \in 1..s.limit : all[n] \in G
    BY <1>2, <1>3, <2>1
  <2>3. /\ SubSeq(all, 1, s.limit) \in Seq(G)
        /\ Len(SubSeq(all, 1, s.limit)) = IF 1 <= s.limit THEN s.limit - 1 + 1 ELSE 0
        /\ \A n \in 1..(s.limit - 1 + 1) : SubSeq(all, 1, s.limit)[n] = all[1 + n - 1]
    BY <2>1, <2>2, SubSeqProperties
  <2>4. r \in Seq(G) /\ Len(r) = s.limit /\ \A n \in 1..s.limit : r[n] = all[n]
    <3>1. \A n \in 1..s.limit : 1 + n - 1 = n
      BY <1>5
    <3> QED BY <1>5, <1>7, <2>1, <2>3, <3>1
  <2>5. \A n \in 1..s.limit : n \in 1..Len(order)
    BY <1>2, <1>5, <2>1
  <2>6. DOMAIN r = 1..Len(r) /\ Len(r) \in Nat
    BY <2>4
  <2>7. \A n \in DOMAIN r : n \in DOMAIN order /\ r[n] = groups[order[n]]
    BY <1>2, <1>4, <2>4, <2>5, <2>6
  <2>8. /\ s.limit > 0 => Len(r) <= s.limit
        /\ s.limit > 0 /\ Len(r) = s.limit
    BY <1>5, <1>7, <2>4
  <2>9. Ranking(r, order, groups, s)
    BY <1>1, <2>6, <2>7, <2>8 DEF Ranking
  <2> QED BY <2>9 DEF r
<1>8. CASE ~(s.limit > 0 /\ s.limit < Len(all))
  <2>1. r = all /\ DOMAIN r = 1..Len(order) /\ Len(r) = Len(order)
    BY <1>4, <1>6, <1>8
  <2>2. s.limit > 0 => Len(r) <= s.limit
    BY <1>2, <1>4, <1>5, <1>8, <2>1
  <2>3. DOMAIN r = 1..Len(r) /\ Len(r) \in Nat /\ DOMAIN r = DOMAIN order
    BY <1>2, <2>1
  <2>4. \A n \in DOMAIN r : n \in DOMAIN order /\ r[n] = groups[order[n]]
    BY <1>2, <1>4, <2>1
  <2>5. Ranking(r, order, groups, s)
    BY <1>1, <2>2, <2>3, <2>4 DEF Ranking
  <2> QED BY <2>5 DEF r
<1> QED BY <1>7, <1>8

LEMMA RankingKeys ==
  ASSUME NEW r, NEW order, NEW groups, NEW s, Ranking(r, order, groups, s),
         \A m, n \in DOMAIN groups : groups[m].key = groups[n].key => m = n
  PROVE  \A m, n \in DOMAIN r : r[m].key = r[n].key => m = n
<1> SUFFICES ASSUME NEW m \in DOMAIN r, NEW n \in DOMAIN r, r[m].key = r[n].key PROVE m = n
  OBVIOUS
<1>1. /\ m \in DOMAIN order /\ r[m] = groups[order[m]]
      /\ n \in DOMAIN order /\ r[n] = groups[order[n]]
  BY DEF Ranking
<1>2. /\ \A k \in DOMAIN order : order[k] \in DOMAIN groups
      /\ \A j, k \in DOMAIN order : order[j] = order[k] => j = k
  BY DEF Ranking, IsSorting, Lists
<1>3. order[m] = order[n]
  BY <1>1, <1>2
<1> QED BY <1>1, <1>2, <1>3

-----------------------------------------------------------------------------
(* A result by groups.                                                     *)

Group == [key : Texts \cup {None}, count : Nat, value : Fraction]

(* Each group speaks of the rows of S with its key, and each key has a     *)
(* group unless there is a limit.                                          *)
Groups(r, s, S, g) ==
  /\ DOMAIN r = 1..Len(r) /\ Len(r) \in Nat
  /\ s.limit > 0 => Len(r) <= s.limit
  /\ \A m, n \in DOMAIN r : r[m].key = r[n].key => m = n
  /\ \A n \in DOMAIN r :
       LET held == Holding(S, r[n].key)
       IN /\ r[n].count = Cardinality(held)
          /\ r[n].value = GroupValue(s, held)
          /\ s.op = "count" => r[n].value = Whole(Cardinality(held))
          /\ s.op = "sum" => r[n].value = Whole(g[Numeric(s, held)])
  /\ s.limit <= 0 => \A i \in S : \E n \in DOMAIN r : r[n].key = Get(i, "group")

(* The groups of the rows S are listed the best first, and cut at the end. *)
Keys(S) == {Get(i, "group") : i \in S}
Beats(s, S, k, l) ==
  IF s.desc THEN Less(GroupValue(s, Holding(S, l)), GroupValue(s, Holding(S, k)))
  ELSE Less(GroupValue(s, Holding(S, k)), GroupValue(s, Holding(S, l)))
BestKeys(r, s, S) ==
  /\ \A n \in DOMAIN r : r[n].key \in Keys(S)
  /\ \A k \in Keys(S) : (\E n \in DOMAIN r : r[n].key = k) \/ (s.limit > 0 /\ Len(r) = s.limit)
  /\ \A k, l \in Keys(S) : Beats(s, S, k, l) =>
       \A n \in DOMAIN r : r[n].key = l => \E m \in 1..(n - 1) : m \in DOMAIN r /\ r[m].key = k

LEMMA GroupedIsExact ==
  ASSUME rows \in Seq(Row), NEW s \in Spec, NEW g, Sums(g, Weight(s), DOMAIN rows),
         NEW S \in SUBSET DOMAIN rows, NEW p, Lists(p, S)
  PROVE  Groups(Grouped(p, s), s, S, g) /\ BestKeys(Grouped(p, s), s, S)
<1> DEFINE b == FoldLeft(Bucketed, <<>>, p)
           value(n) == IF Scalar(b[n].rows, s) = None THEN Whole(0) ELSE Scalar(b[n].rows, s)
           all == [n \in DOMAIN b |->
                     [key |-> b[n].key, count |-> Len(b[n].rows), value |-> value(n)]]
           r == Grouped(p, s)
           held(n) == Holding(S, b[n].key)
<1>1. r = Best(all, s)
  BY DEF Grouped
<1>2. /\ b \in Seq(Bucket)
      /\ \A m, n \in DOMAIN b : b[m].key = b[n].key => m = n
      /\ \A n \in DOMAIN b : Lists(b[n].rows, held(n)) /\ held(n) # {}
      /\ \A i \in S : \E n \in DOMAIN b : b[n].key = Get(i, "group")
  BY BucketsAreGroups DEF Bucketing
<1>3. DOMAIN b = 1..Len(b) /\ Len(b) \in Nat /\ \A n \in DOMAIN b : b[n].key \in Texts \cup {None}
  <2>1. b \in Seq(Bucket)
    BY <1>2
  <2> HIDE DEF b
  <2>2. DOMAIN b = 1..Len(b) /\ Len(b) \in Nat /\ \A n \in 1..Len(b) : b[n] \in Bucket
    BY <2>1
  <2> QED BY <2>2 DEF Bucket
<1> HIDE DEF b, r
<1>4. ASSUME NEW n \in DOMAIN b
      PROVE  /\ Len(b[n].rows) = Cardinality(held(n)) /\ Len(b[n].rows) \in Nat
             /\ value(n) \in Fraction
             /\ value(n) = GroupValue(s, held(n))
             /\ s.op = "count" => value(n) = Whole(Cardinality(held(n)))
             /\ s.op = "sum" => value(n) = Whole(g[Numeric(s, held(n))])
  <2> DEFINE v == Scalar(b[n].rows, s)
             N == Numeric(s, held(n))
  <2>1. Lists(b[n].rows, held(n)) /\ held(n) \in SUBSET DOMAIN rows
    BY <1>2 DEF Holding
  <2>2. /\ s.op # "count" /\ N = {} => v = None
        /\ Computable(s, held(n)) => v \in Fraction /\ v = Value(s, held(n))
        /\ s.op = "count" => v = Whole(Cardinality(held(n)))
        /\ s.op = "sum" /\ N # {} => v = Whole(g[N])
    BY <2>1, ScalarIsExact
  <2>3. None \notin Fraction /\ Whole(0) \in Fraction
    BY AnalyticsAssumption DEF AnalyticsAssumption, Whole, Fraction
  <2>4. Len(b[n].rows) = Cardinality(held(n)) /\ Len(b[n].rows) \in Nat
    BY <2>1, LengthOfList
  <2>5. g[{}] = 0
    BY DEF Sums
  <2> HIDE DEF v, N, held
  <2>6. value(n) = IF v = None THEN Whole(0) ELSE v
    BY DEF v
  <2> HIDE DEF value
  <2>7. CASE s.op # "count" /\ N = {}
    BY <2>2, <2>3, <2>4, <2>5, <2>6, <2>7 DEF N, Computable, GroupValue
  <2>8. CASE s.op = "count" \/ N # {}
    BY <2>2, <2>3, <2>4, <2>6, <2>8 DEF N, Computable, GroupValue
  <2> QED BY <2>7, <2>8
<1>5. /\ DOMAIN all = DOMAIN b
      /\ \A n \in DOMAIN b : all[n].key = b[n].key /\ all[n].count = Len(b[n].rows) /\ all[n].value = value(n)
  OBVIOUS
<1>6. all \in Seq(Group) /\ \A n \in DOMAIN all : all[n].value \in Fraction
  <2>1. \A n \in DOMAIN b :
          [key |-> b[n].key, count |-> Len(b[n].rows), value |-> value(n)] \in Group
    <3> HIDE DEF value, held
    <3> QED BY <1>3, <1>4 DEF Group
  <2>2. all \in [1..Len(b) -> Group]
    <3> HIDE DEF value
    <3> QED BY <1>3, <2>1
  <2>3. all \in Seq(Group)
    <3> HIDE DEF all
    <3> QED BY <1>3, <2>2
  <2> HIDE DEF all, value, held
  <2> QED BY <1>4, <1>5, <2>3
<1> HIDE DEF all, value, held
<1>7. PICK order : Ranking(r, order, all, s)
  BY <1>1, <1>6, BestRanks
<1>8. \A m, n \in DOMAIN r : r[m].key = r[n].key => m = n
  BY <1>2, <1>5, <1>7, RankingKeys
<1>9. \A n \in DOMAIN r : n \in DOMAIN order /\ r[n] = all[order[n]] /\ order[n] \in DOMAIN b
  BY <1>5, <1>7 DEF Ranking, IsSorting, Lists
<1>10. ASSUME NEW n \in DOMAIN r
       PROVE  /\ r[n].count = Cardinality(Holding(S, r[n].key))
              /\ r[n].value = GroupValue(s, Holding(S, r[n].key))
              /\ s.op = "count" => r[n].value = Whole(Cardinality(Holding(S, r[n].key)))
              /\ s.op = "sum" => r[n].value = Whole(g[Numeric(s, Holding(S, r[n].key))])
  <2>1. order[n] \in DOMAIN b /\ r[n].key = b[order[n]].key
        /\ r[n].count = Len(b[order[n]].rows) /\ r[n].value = value(order[n])
    BY <1>5, <1>9
  <2>2. held(order[n]) = Holding(S, r[n].key)
    BY <2>1 DEF held
  <2> QED BY <1>4, <2>1, <2>2
<1>11. ASSUME s.limit <= 0, NEW i \in S PROVE \E n \in DOMAIN r : r[n].key = Get(i, "group")
  <2>1. PICK m \in DOMAIN b : b[m].key = Get(i, "group")
    BY <1>2
  <2>2. PICK n \in DOMAIN order : order[n] = m
    BY <1>5, <1>7 DEF Ranking, IsSorting, Lists
  <2>3. n \in DOMAIN r
    BY <1>7, <1>11 DEF Ranking
  <2> QED BY <1>5, <1>9, <2>1, <2>2, <2>3
<1>12. DOMAIN r = 1..Len(r) /\ Len(r) \in Nat /\ (s.limit > 0 => Len(r) <= s.limit)
  BY <1>7 DEF Ranking
<1>13. Groups(r, s, S, g)
  BY <1>8, <1>10, <1>11, <1>12 DEF Groups
<1>14. \A n \in DOMAIN r : r[n].key \in Keys(S)
  <2> SUFFICES ASSUME NEW n \in DOMAIN r PROVE r[n].key \in Keys(S)
    OBVIOUS
  <2>1. order[n] \in DOMAIN b /\ r[n].key = b[order[n]].key
    BY <1>5, <1>9
  <2>2. held(order[n]) # {}
    BY <1>2, <2>1 DEF held
  <2> QED BY <2>1, <2>2 DEF held, Holding, Keys
<1>15. \A k \in Keys(S) : \E m \in DOMAIN order : all[order[m]].key = k
  <2> SUFFICES ASSUME NEW i \in S PROVE \E m \in DOMAIN order : all[order[m]].key = Get(i, "group")
    BY DEF Keys
  <2>1. PICK a \in DOMAIN b : b[a].key = Get(i, "group")
    BY <1>2
  <2>2. PICK m \in DOMAIN order : order[m] = a
    BY <1>5, <1>7 DEF Ranking, IsSorting, Lists
  <2> QED BY <1>5, <2>1, <2>2
<1>16. \A k \in Keys(S) : (\E n \in DOMAIN r : r[n].key = k) \/ (s.limit > 0 /\ Len(r) = s.limit)
  <2> SUFFICES ASSUME NEW k \in Keys(S), DOMAIN r = DOMAIN order
               PROVE  \E n \in DOMAIN r : r[n].key = k
    BY <1>7 DEF Ranking
  <2> QED BY <1>9, <1>15
<1>17. ASSUME NEW k \in Keys(S), NEW l \in Keys(S), Beats(s, S, k, l),
              NEW n \in DOMAIN r, r[n].key = l
       PROVE  \E m \in 1..(n - 1) : m \in DOMAIN r /\ r[m].key = k
  <2>1. PICK m \in DOMAIN order : all[order[m]].key = k
    BY <1>15
  <2>2. /\ DOMAIN order = 1..Len(order) /\ Len(order) \in Nat
        /\ order[m] \in DOMAIN b /\ order[n] \in DOMAIN b /\ n \in DOMAIN order
    BY <1>5, <1>7, <1>9 DEF Ranking, IsSorting, Lists
  <2>3. all[order[m]].value = GroupValue(s, Holding(S, k))
        /\ all[order[n]].value = GroupValue(s, Holding(S, l))
    <3>1. \A a \in DOMAIN b : all[a].value = GroupValue(s, Holding(S, all[a].key))
      BY <1>4, <1>5 DEF held
    <3> QED BY <1>9, <1>17, <2>1, <2>2, <3>1
  <2>4. Smaller(all, s, order[m], order[n])
    BY <1>17, <2>3 DEF Beats, Smaller
  <2>5. Earlier(all, s, order[m], order[n])
    BY <2>4, EarlierIs
  <2>6. m < n
    BY <1>7, <2>2, <2>5 DEF Ranking, IsSorting
  <2>7. m \in 1..(n - 1) /\ m \in DOMAIN r
    BY <1>12, <2>2, <2>6
  <2> QED BY <1>9, <2>1, <2>7
<1>18. BestKeys(r, s, S)
  BY <1>14, <1>16, <1>17 DEF BestKeys
<1> QED BY <1>13, <1>18 DEF r

(* The rows whose keys are among the first k.                              *)
UpTo(r, S, k) == {i \in S : \E n \in 1..k : r[n].key = Get(i, "group")}

LEMMA NextGroup ==
  ASSUME NEW r, NEW s, NEW S, NEW g, Groups(r, s, S, g), NEW k \in 1..Len(r)
  PROVE  /\ UpTo(r, S, k) = UpTo(r, S, k - 1) \cup Holding(S, r[k].key)
         /\ UpTo(r, S, k - 1) \cap Holding(S, r[k].key) = {}
<1>1. /\ DOMAIN r = 1..Len(r) /\ Len(r) \in Nat
      /\ \A m, n \in DOMAIN r : r[m].key = r[n].key => m = n
  BY DEF Groups
<1>2. 1..k = (1..(k - 1)) \cup {k}
  BY <1>1
<1>3. \A n \in 1..(k - 1) : n \in DOMAIN r /\ n # k
  BY <1>1
<1>4. UpTo(r, S, k) = UpTo(r, S, k - 1) \cup Holding(S, r[k].key)
  BY <1>2 DEF UpTo, Holding
<1>5. UpTo(r, S, k - 1) \cap Holding(S, r[k].key) = {}
  BY <1>1, <1>3 DEF UpTo, Holding
<1> QED BY <1>4, <1>5

LEMMA AllGroups ==
  ASSUME NEW r, NEW s, NEW S, NEW g, Groups(r, s, S, g), s.limit <= 0
  PROVE  UpTo(r, S, 0) = {} /\ UpTo(r, S, Len(r)) = S
<1>1. /\ DOMAIN r = 1..Len(r)
      /\ \A i \in S : \E n \in DOMAIN r : r[n].key = Get(i, "group")
  BY DEF Groups
<1> QED BY <1>1 DEF UpTo

LEMMA GroupsTotal ==
  ASSUME rows \in Seq(Row), NEW s \in Spec, NEW g, Sums(g, Weight(s), DOMAIN rows),
         NEW S \in SUBSET DOMAIN rows, NEW r, Groups(r, s, S, g),
         s.limit <= 0, s.op \in {"count", "sum"}
  PROVE  Whole(Total([n \in DOMAIN r |-> r[n].value.num])) = Value(s, S)
<1> DEFINE nums == [n \in DOMAIN r |-> r[n].value.num]
           size(T) == IF s.op = "count" THEN Cardinality(T) ELSE g[Numeric(s, T)]
<1>1. DOMAIN r = 1..Len(r) /\ Len(r) \in Nat
  BY DEF Groups
<1>2. IsFiniteSet(DOMAIN rows) /\ Weight(s) \in [DOMAIN rows -> Int]
  BY RowsAreFew, WeightType
<1>3. \A T \in SUBSET S : IsFiniteSet(T) /\ Cardinality(T) \in Nat /\ Numeric(s, T) \in SUBSET DOMAIN rows
  BY <1>2, FS_Subset, FS_CardinalityType DEF Numeric
<1>4. g \in [SUBSET DOMAIN rows -> Int] /\ g[{}] = 0
  BY DEF Sums
<1>5. \A T \in SUBSET S : size(T) \in Int
  BY <1>3, <1>4
<1>6. size({}) = 0
  <2>1. Numeric(s, {}) = {}
    BY DEF Numeric
  <2> QED BY <1>4, <2>1, FS_EmptySet
<1>7. ASSUME NEW A \in SUBSET S, NEW B \in SUBSET S, A \cap B = {}
      PROVE  size(A \cup B) = size(A) + size(B)
  <2>1. CASE s.op = "count"
    <3>1. Cardinality(A \cup B) = Cardinality(A) + Cardinality(B)
      <4>1. Cardinality(A \cup B) = Cardinality(A) + Cardinality(B) - Cardinality(A \cap B)
        BY <1>3, FS_Union
      <4>2. Cardinality(A \cap B) = 0
        BY <1>7, FS_EmptySet
      <4> QED BY <1>3, <4>1, <4>2
    <3> QED BY <2>1, <3>1
  <2>2. CASE s.op # "count"
    <3>1. /\ Numeric(s, A \cup B) = Numeric(s, A) \cup Numeric(s, B)
          /\ Numeric(s, A) \cap Numeric(s, B) = {}
          /\ Numeric(s, A) \in SUBSET DOMAIN rows /\ Numeric(s, B) \in SUBSET DOMAIN rows
      BY <1>7 DEF Numeric
    <3>2. g[Numeric(s, A) \cup Numeric(s, B)] = g[Numeric(s, A)] + g[Numeric(s, B)]
      BY <1>2, <3>1, SumOfUnion
    <3> QED BY <2>2, <3>1, <3>2
  <2> QED BY <2>1, <2>2
<1>8. \A n \in DOMAIN r : nums[n] = size(Holding(S, r[n].key)) /\ nums[n] \in Int
  <2> SUFFICES ASSUME NEW n \in DOMAIN r
               PROVE  nums[n] = size(Holding(S, r[n].key)) /\ nums[n] \in Int
    OBVIOUS
  <2>1. r[n].value = Whole(size(Holding(S, r[n].key)))
    BY DEF Groups
  <2>2. nums[n] = size(Holding(S, r[n].key))
    BY <2>1 DEF Whole
  <2>3. Holding(S, r[n].key) \in SUBSET S
    BY DEF Holding
  <2> HIDE DEF nums, size
  <2> QED BY <1>5, <2>2, <2>3
<1>9. DOMAIN nums = DOMAIN r
  OBVIOUS
<1>10. nums \in Seq(Int) /\ Len(nums) = Len(r)
  <2>1. nums \in [1..Len(r) -> Int]
    BY <1>1, <1>8
  <2> HIDE DEF nums
  <2> QED BY <1>1, <2>1
<1> HIDE DEF nums, size
<1>11. PICK t \in [0..Len(nums) -> Int] :
         /\ t[0] = 0 /\ t[Len(nums)] = Total(nums)
         /\ \A k \in 1..Len(nums) : t[k] = t[k - 1] + nums[k]
  BY <1>10, TotalAdds
<1> DEFINE T == {n \in Nat : n <= Len(r) => t[n] = size(UpTo(r, S, n))}
<1>12. 0 \in T
  <2>1. UpTo(r, S, 0) = {}
    BY AllGroups
  <2> QED BY <1>6, <1>11, <2>1
<1>13. ASSUME NEW n \in Nat, n \in T PROVE n + 1 \in T
  <2> SUFFICES ASSUME n + 1 <= Len(r) PROVE t[n + 1] = size(UpTo(r, S, n + 1))
    OBVIOUS
  <2>1. n + 1 \in 1..Len(r) /\ n <= Len(r) /\ (n + 1) - 1 = n
    BY <1>1
  <2>2. /\ UpTo(r, S, n + 1) = UpTo(r, S, n) \cup Holding(S, r[n + 1].key)
        /\ UpTo(r, S, n) \cap Holding(S, r[n + 1].key) = {}
    BY <2>1, NextGroup
  <2>3. UpTo(r, S, n) \in SUBSET S /\ Holding(S, r[n + 1].key) \in SUBSET S
    BY DEF UpTo, Holding
  <2>4. size(UpTo(r, S, n + 1)) = size(UpTo(r, S, n)) + size(Holding(S, r[n + 1].key))
    BY <1>7, <2>2, <2>3
  <2>5. t[n + 1] = t[n] + nums[n + 1] /\ t[n] = size(UpTo(r, S, n))
    BY <1>10, <1>11, <1>13, <2>1
  <2>6. nums[n + 1] = size(Holding(S, r[n + 1].key))
    BY <1>1, <1>8, <2>1
  <2> QED BY <2>4, <2>5, <2>6
<1>14. \A n \in Nat : n \in T
  <2> HIDE DEF T
  <2> QED BY <1>12, <1>13, UpFromZero
<1>15. t[Len(r)] = size(UpTo(r, S, Len(r)))
  BY <1>1, <1>14
<1>16. Total(nums) = size(S)
  BY <1>10, <1>11, <1>15, AllGroups
<1>17. MapThenSumSet(LAMBDA i : Metric(i, s), Numeric(s, S)) = g[Numeric(s, S)]
  <2>1. Numeric(s, S) \in SUBSET DOMAIN rows /\ \A i \in Numeric(s, S) : Metric(i, s) \in Numbers
    BY DEF Numeric
  <2> QED BY <2>1, SumSetIsSum
<1>18. Whole(size(S)) = Value(s, S)
  BY <1>17 DEF Value, size
<1> QED BY <1>16, <1>18 DEF nums

-----------------------------------------------------------------------------
(* A ranking of rows.                                                      *)

Better(s, i, j) == IF s.desc THEN Metric(i, s) > Metric(j, s) ELSE Metric(i, s) < Metric(j, s)

BestFirst(r, s, ranked) ==
  /\ \A n \in DOMAIN r : r[n].key \in ranked /\ r[n].value = Whole(Metric(r[n].key, s))
  /\ \A i \in ranked : (\E n \in DOMAIN r : r[n].key = i) \/ (s.limit > 0 /\ Len(r) = s.limit)
  /\ \A i, j \in ranked :
       Better(s, i, j) \/ (~Better(s, j, i) /\ i < j) =>
         \A n \in DOMAIN r : r[n].key = j => \E m \in 1..(n - 1) : m \in DOMAIN r /\ r[m].key = i

LEMMA TopRowsAreBest ==
  ASSUME rows \in Seq(Row), NEW s \in Spec, NEW S \in SUBSET DOMAIN rows,
         NEW p, Lists(p, S), Increasing(p)
  PROVE  /\ DOMAIN TopRows(p, s) = 1..Len(TopRows(p, s)) /\ Len(TopRows(p, s)) \in Nat
         /\ s.limit > 0 => Len(TopRows(p, s)) <= s.limit
         /\ \A m, n \in DOMAIN TopRows(p, s) :
              TopRows(p, s)[m].key = TopRows(p, s)[n].key => m = n
         /\ BestFirst(TopRows(p, s), s, Numeric(s, S))
<1> DEFINE q == WithNumber(p, s)
           N == Numeric(s, S)
           all == [n \in DOMAIN q |-> [key |-> q[n], count |-> 1, value |-> Whole(Metric(q[n], s))]]
           r == TopRows(p, s)
           G == [key : Nat, count : {1}, value : Fraction]
<1>1. r = Best(all, s)
  BY DEF TopRows
<1>2. Lists(q, N) /\ Increasing(q) /\ N \in SUBSET DOMAIN rows
  BY WithNumberLists DEF Numeric
<1>3. /\ DOMAIN q = 1..Len(q) /\ Len(q) \in Nat
      /\ \A n \in DOMAIN q : q[n] \in N
      /\ \A m, n \in DOMAIN q : q[m] = q[n] => m = n
      /\ \A i \in N : \E n \in DOMAIN q : q[n] = i
  BY <1>2 DEF Lists
<1>4. \A i \in N : Metric(i, s) \in Int /\ Whole(Metric(i, s)) \in Fraction /\ i \in Nat
  <2>1. \A i \in N : Metric(i, s) \in Int
    BY AnalyticsAssumption DEF AnalyticsAssumption, Numeric
  <2>2. \A n \in Int : Whole(n) \in Fraction
    BY DEF Whole, Fraction
  <2>3. \A i \in N : i \in Nat
    BY <1>2
  <2> QED BY <2>1, <2>2, <2>3
<1> HIDE DEF q, r, N
<1>5. /\ DOMAIN all = DOMAIN q
      /\ \A n \in DOMAIN q : all[n].key = q[n] /\ all[n].value = Whole(Metric(q[n], s))
  OBVIOUS
<1>6. all \in Seq(G)
  <2>1. all \in [1..Len(q) -> G]
    BY <1>3, <1>4
  <2> HIDE DEF all, G
  <2> QED BY <1>3, <2>1
<1> HIDE DEF all, G
<1>7. PICK order : Ranking(r, order, all, s)
  <2>1. \A n \in DOMAIN all : all[n].value \in Fraction
    BY <1>3, <1>4, <1>5
  <2> QED BY <1>1, <1>6, <2>1, BestRanks
<1>8. \A m, n \in DOMAIN r : r[m].key = r[n].key => m = n
  BY <1>3, <1>5, <1>7, RankingKeys
<1>9. /\ DOMAIN r = 1..Len(r) /\ Len(r) \in Nat /\ (s.limit > 0 => Len(r) <= s.limit)
      /\ \A n \in DOMAIN r : n \in DOMAIN order /\ r[n] = all[order[n]]
  BY <1>7 DEF Ranking
<1>10. /\ \A n \in DOMAIN order : order[n] \in DOMAIN q
       /\ \A k \in DOMAIN q : \E n \in DOMAIN order : order[n] = k
       /\ \A m, n \in DOMAIN order : Earlier(all, s, order[m], order[n]) <=> m < n
       /\ DOMAIN order \in SUBSET Nat
       /\ DOMAIN order = 1..Len(order)
  BY <1>5, <1>7 DEF Ranking, IsSorting, Lists
<1>11. \A a, b \in DOMAIN q : Smaller(all, s, a, b) <=> Better(s, q[a], q[b])
  <2> SUFFICES ASSUME NEW a \in DOMAIN q, NEW b \in DOMAIN q
               PROVE  Smaller(all, s, a, b) <=> Better(s, q[a], q[b])
    OBVIOUS
  <2> DEFINE x == Metric(q[a], s)
             y == Metric(q[b], s)
  <2>1. x \in Int /\ y \in Int /\ all[a].value = Whole(x) /\ all[b].value = Whole(y)
    BY <1>3, <1>4, <1>5
  <2>2. Better(s, q[a], q[b]) <=> IF s.desc THEN x > y ELSE x < y
    BY DEF Better
  <2> HIDE DEF x, y
  <2>3. (Less(Whole(x), Whole(y)) <=> x < y) /\ (Less(Whole(y), Whole(x)) <=> y < x)
    BY <2>1 DEF Less, Whole
  <2>4. Smaller(all, s, a, b) <=> IF s.desc THEN Less(Whole(y), Whole(x)) ELSE Less(Whole(x), Whole(y))
    BY <2>1 DEF Smaller
  <2> QED BY <2>1, <2>2, <2>3, <2>4
<1>12. ASSUME NEW i \in N, NEW j \in N, Better(s, i, j) \/ (~Better(s, j, i) /\ i < j),
              NEW n \in DOMAIN r, r[n].key = j
       PROVE  \E m \in 1..(n - 1) : m \in DOMAIN r /\ r[m].key = i
  <2>1. PICK a \in DOMAIN q : q[a] = i
    BY <1>3
  <2>2. n \in DOMAIN order /\ order[n] \in DOMAIN q /\ q[order[n]] = j
    BY <1>5, <1>9, <1>10, <1>12
  <2>3. PICK m \in DOMAIN order : order[m] = a
    BY <1>10, <2>1
  <2>4. Earlier(all, s, a, order[n])
    <3>1. (Smaller(all, s, a, order[n]) <=> Better(s, i, j))
          /\ (Smaller(all, s, order[n], a) <=> Better(s, j, i))
      BY <1>11, <2>1, <2>2
    <3>2. i < j => a < order[n]
      <4>1. \A k, l \in DOMAIN q : k < l => q[k] < q[l]
        BY <1>2 DEF Increasing
      <4>2. a \in Int /\ order[n] \in Int /\ i \in Int /\ j \in Int
        BY <1>3, <1>4, <2>2
      <4>3. order[n] < a => j < i
        BY <2>1, <2>2, <4>1
      <4>4. order[n] = a => j = i
        BY <2>1, <2>2
      <4> QED BY <4>2, <4>3, <4>4
    <3> QED BY <1>12, <3>1, <3>2, EarlierIs
  <2>5. m < n
    BY <1>10, <2>2, <2>3, <2>4
  <2>6. m \in 1..(n - 1) /\ m \in DOMAIN r
    BY <1>9, <1>10, <2>5
  <2>7. r[m].key = i
    BY <1>5, <1>9, <2>1, <2>3, <2>6
  <2> QED BY <2>6, <2>7
<1>13. \A n \in DOMAIN r : r[n].key \in N /\ r[n].value = Whole(Metric(r[n].key, s))
  <2> SUFFICES ASSUME NEW n \in DOMAIN r
               PROVE  r[n].key \in N /\ r[n].value = Whole(Metric(r[n].key, s))
    OBVIOUS
  <2>1. order[n] \in DOMAIN q /\ r[n] = all[order[n]]
    BY <1>9, <1>10
  <2> QED BY <1>3, <1>5, <2>1
<1>14. \A i \in N : (\E n \in DOMAIN r : r[n].key = i) \/ (s.limit > 0 /\ Len(r) = s.limit)
  <2> SUFFICES ASSUME NEW i \in N, DOMAIN r = DOMAIN order
               PROVE  \E n \in DOMAIN r : r[n].key = i
    BY <1>7 DEF Ranking
  <2>1. PICK k \in DOMAIN q : q[k] = i
    BY <1>3
  <2>2. PICK n \in DOMAIN order : order[n] = k
    BY <1>10, <2>1
  <2>3. n \in DOMAIN r /\ r[n].key = i
    BY <1>5, <1>9, <2>1, <2>2
  <2> QED BY <2>3
<1>15. BestFirst(r, s, N)
  BY <1>12, <1>13, <1>14 DEF BestFirst
<1> QED BY <1>8, <1>9, <1>15 DEF r, N

-----------------------------------------------------------------------------
(* Results.                                                                *)

(* The properties, for one request and one result.                         *)
TypeOf(s, r) ==
  /\ r.matched \in 0..Len(rows)
  /\ s.limit > 0 => Len(r.groups) <= s.limit
  /\ r.groups # <<>> => r.value = None
  /\ \A m, n \in DOMAIN r.groups : r.groups[m].key = r.groups[n].key => m = n
ExactOf(s, r) ==
  /\ r.value # None => Computable(s, Selected(s)) /\ r.value = Value(s, Selected(s))
  /\ r.value = None => r.error \/ ByGroup(s) \/ IsTopN(s) \/ ~Computable(s, Selected(s))
  /\ ByGroup(s) => \A n \in DOMAIN r.groups :
       LET members == Members(s, r.groups[n].key)
       IN /\ r.groups[n].count = Cardinality(members)
          /\ r.groups[n].value = GroupValue(s, members)
AddUpOf(s, r) ==
  ByGroup(s) /\ ~r.error /\ s.limit <= 0 /\ s.op \in {"count", "sum"} =>
    Whole(Total([n \in DOMAIN r.groups |-> r.groups[n].value.num])) = Value(s, Selected(s))
BestOf(s, r) ==
  IsTopN(s) /\ ~r.error => BestFirst(r.groups, s, Numeric(s, Selected(s)))
BestGroupsOf(s, r) ==
  ByGroup(s) /\ ~r.error => BestKeys(r.groups, s, Selected(s))
RightOf(s, r) == TypeOf(s, r) /\ ExactOf(s, r) /\ AddUpOf(s, r) /\ BestOf(s, r) /\ BestGroupsOf(s, r)

(* A request that groups ranks no single rows.                             *)
LEMMA GroupIsNoRanking == \A s : ~(ByGroup(s) /\ IsTopN(s))
BY AnalyticsAssumption DEF AnalyticsAssumption, ByGroup, IsTopN

LEMMA ResultIsRight ==
  ASSUME rows \in Seq(Row), NEW s \in Spec, NEW r, r = Result(s)
  PROVE  RightOf(s, r)
<1> DEFINE p == Matched(s)
           S == Selected(s)
<1>1. PICK g : Sums(g, Weight(s), DOMAIN rows)
  BY RowsAreFew, WeightType, SumExists
<1>2. S \in SUBSET DOMAIN rows /\ Lists(p, S) /\ Increasing(p)
  BY MatchedLists
<1>3. Len(p) \in 0..Len(rows)
  <2>1. Len(p) = Cardinality(S) /\ Len(p) \in Nat
    BY <1>2, LengthOfList
  <2>2. Cardinality(S) <= Cardinality(DOMAIN rows)
    BY <1>2, RowsAreFew, FS_Subset
  <2> QED BY <2>1, <2>2, RowsAreFew
<1>4. CASE Rejected(s)
  <2>1. r = [error |-> TRUE, matched |-> 0, groups |-> <<>>, value |-> None]
    BY <1>4 DEF Result
  <2>2. r.error /\ r.matched = 0 /\ r.groups = <<>> /\ r.value = None
    BY <2>1
  <2>3. Len(<<>>) = 0 /\ DOMAIN <<>> = {}
    OBVIOUS
  <2>4. TypeOf(s, r)
    <3>1. 0 \in 0..Len(rows)
      BY RowsAreFew
    <3>2. s.limit > 0 => 0 <= s.limit
      BY LimitType
    <3> QED BY <2>2, <2>3, <3>1, <3>2 DEF TypeOf
  <2> QED BY <2>2, <2>3, <2>4 DEF RightOf, ExactOf, AddUpOf, BestOf, BestGroupsOf
<1>5. CASE ~Rejected(s)
  <2> DEFINE grouped == ByGroup(s) \/ IsTopN(s)
  <2>1. /\ ~r.error /\ r.matched = Len(p)
        /\ r.groups = IF ByGroup(s) THEN Grouped(p, s) ELSE IF IsTopN(s) THEN TopRows(p, s) ELSE <<>>
        /\ r.value = IF grouped THEN None ELSE Scalar(p, s)
    <3>1. r = [error |-> FALSE, matched |-> Len(p),
               groups |-> IF ByGroup(s) THEN Grouped(p, s)
                          ELSE IF IsTopN(s) THEN TopRows(p, s) ELSE <<>>,
               value |-> IF grouped THEN None ELSE Scalar(p, s)]
      BY <1>5 DEF Result
    <3> HIDE DEF p, grouped
    <3> QED BY <3>1
  <2> HIDE DEF p, S
  <2>2. CASE ByGroup(s)
    <3>1. Groups(r.groups, s, S, g) /\ BestKeys(r.groups, s, S)
      BY <1>1, <1>2, <2>1, <2>2, GroupedIsExact
    <3>2. r.value = None
      BY <2>1, <2>2
    <3>3. TypeOf(s, r)
      BY <1>3, <2>1, <3>1, <3>2 DEF TypeOf, Groups
    <3>4. ExactOf(s, r)
      <4>1. ASSUME NEW n \in DOMAIN r.groups
            PROVE  LET members == Members(s, r.groups[n].key)
                   IN /\ r.groups[n].count = Cardinality(members)
                      /\ r.groups[n].value = GroupValue(s, members)
        <5> DEFINE held == Holding(S, r.groups[n].key)
        <5>1. Members(s, r.groups[n].key) = held
          BY DEF Members, Holding, S
        <5> HIDE DEF held
        <5>2. /\ r.groups[n].count = Cardinality(held)
              /\ r.groups[n].value = GroupValue(s, held)
          BY <3>1 DEF Groups, held
        <5> QED BY <5>1, <5>2
      <4>2. ByGroup(s) => \A n \in DOMAIN r.groups :
              LET members == Members(s, r.groups[n].key)
              IN /\ r.groups[n].count = Cardinality(members)
                 /\ r.groups[n].value = GroupValue(s, members)
        BY <4>1
      <4> QED BY <2>2, <3>2, <4>2 DEF ExactOf
    <3>5. AddUpOf(s, r)
      BY <1>1, <1>2, <3>1, GroupsTotal DEF AddUpOf, S
    <3>6. BestOf(s, r)
      BY <2>2, GroupIsNoRanking DEF BestOf
    <3>7. BestGroupsOf(s, r)
      BY <3>1 DEF BestGroupsOf, S
    <3> QED BY <3>3, <3>4, <3>5, <3>6, <3>7 DEF RightOf
  <2>3. CASE IsTopN(s)
    <3>1. ~ByGroup(s) /\ r.groups = TopRows(p, s) /\ r.value = None
      BY <2>1, <2>3, GroupIsNoRanking
    <3>2. /\ s.limit > 0 => Len(TopRows(p, s)) <= s.limit
          /\ \A m, n \in DOMAIN TopRows(p, s) :
               TopRows(p, s)[m].key = TopRows(p, s)[n].key => m = n
          /\ BestFirst(TopRows(p, s), s, Numeric(s, S))
      BY <1>2, TopRowsAreBest
    <3>3. TypeOf(s, r)
      BY <1>3, <2>1, <3>1, <3>2 DEF TypeOf
    <3>4. ExactOf(s, r)
      BY <2>3, <3>1 DEF ExactOf
    <3> QED BY <3>1, <3>2, <3>3, <3>4 DEF RightOf, AddUpOf, BestOf, BestGroupsOf, S
  <2>4. CASE ~ByGroup(s) /\ ~IsTopN(s)
    <3>1. r.groups = <<>> /\ r.value = Scalar(p, s)
      BY <2>1, <2>4
    <3>2. /\ s.op # "count" /\ Numeric(s, S) = {} => Scalar(p, s) = None
          /\ Computable(s, S) => Scalar(p, s) \in Fraction /\ Scalar(p, s) = Value(s, S)
      BY <1>1, <1>2, ScalarIsExact
    <3>3. /\ r.value # None => Computable(s, S) /\ r.value = Value(s, S)
          /\ r.value = None => ~Computable(s, S)
      BY <3>1, <3>2, AnalyticsAssumption DEF AnalyticsAssumption, Computable
    <3>4. Len(<<>>) = 0 /\ DOMAIN <<>> = {} /\ (s.limit > 0 => 0 <= s.limit)
      BY LimitType
    <3>5. TypeOf(s, r)
      BY <1>3, <2>1, <3>1, <3>4 DEF TypeOf
    <3> QED BY <2>4, <3>1, <3>3, <3>5 DEF RightOf, ExactOf, AddUpOf, BestOf, BestGroupsOf, S
  <2> QED BY <2>2, <2>3, <2>4
<1> QED BY <1>4, <1>5

(* What is said of a result holds as long as the rows stay.                *)
LEMMA RowsDecide ==
  ASSUME rows' = rows, NEW s, NEW r
  PROVE  RightOf(s, r) => RightOf(s, r)'
<1>1. \A i, field : Get(i, field)' = Get(i, field)
  BY DEF Get
<1>2. \A i : Metric(i, s)' = Metric(i, s)
  BY <1>1 DEF Metric
<1>3. Selected(s)' = Selected(s) /\ \A k : Members(s, k)' = Members(s, k)
  BY <1>1 DEF Selected, Members
<1>4. \A S : Numeric(s, S)' = Numeric(s, S)
  BY <1>2 DEF Numeric
<1>5. \A S : Computable(s, S)' = Computable(s, S) /\ Value(s, S)' = Value(s, S)
  BY DEF Computable, Value, Numeric, MapThenSumSet, MapThenFoldSet, Metric, Get
<1>6. \A i, j : Better(s, i, j)' <=> Better(s, i, j)
  BY <1>2 DEF Better
<1>7. \A S : GroupValue(s, S)' = GroupValue(s, S)
  BY <1>5 DEF GroupValue
<1>8. TypeOf(s, r) => TypeOf(s, r)'
  BY DEF TypeOf
<1>9. ExactOf(s, r) => ExactOf(s, r)'
  BY <1>3, <1>5, <1>7 DEF ExactOf
<1>10. AddUpOf(s, r) => AddUpOf(s, r)'
  BY <1>3, <1>5 DEF AddUpOf
<1>11. BestOf(s, r) => BestOf(s, r)'
  <2>1. \A q, S : BestFirst(q, s, S)' <=> BestFirst(q, s, S)
    BY <1>2, <1>6 DEF BestFirst
  <2>2. Numeric(s, Selected(s))' = Numeric(s, Selected(s))
    BY <1>3, <1>4
  <2> QED BY <2>1, <2>2 DEF BestOf
<1>12. BestGroupsOf(s, r) => BestGroupsOf(s, r)'
  <2>1. \A S : Keys(S)' = Keys(S) /\ \A k : Holding(S, k)' = Holding(S, k)
    BY <1>1 DEF Keys, Holding
  <2>2. \A S, k, l : Beats(s, S, k, l)' <=> Beats(s, S, k, l)
    BY <1>7, <2>1 DEF Beats
  <2>3. \A q, S : BestKeys(q, s, S)' <=> BestKeys(q, s, S)
    BY <2>1, <2>2 DEF BestKeys
  <2> QED BY <1>3, <2>3 DEF BestGroupsOf
<1> QED BY <1>8, <1>9, <1>10, <1>11, <1>12 DEF RightOf

-----------------------------------------------------------------------------
(* The invariant: the rows are rows, and what was computed is right.       *)

RowsInv   == rows \in Seq(Row)
ResultInv == \A s \in spec, r \in result : RightOf(s, r)

LEMMA AnalyticsInitially == Init => RowsInv /\ ResultInv
<1>1. <<>> \in Seq(Row)
  OBVIOUS
<1> QED BY <1>1 DEF Init, RowsInv, ResultInv

LEMMA AnalyticsKept == RowsInv /\ ResultInv /\ [Next]_analytics => RowsInv' /\ ResultInv'
<1> SUFFICES ASSUME RowsInv, ResultInv, [Next]_analytics PROVE RowsInv' /\ ResultInv'
  OBVIOUS
<1>1. CASE ListRow
  <2>1. RowsInv'
    <3>1. PICK row \in Row : rows' = Append(rows, row)
      BY <1>1 DEF ListRow
    <3> QED BY <3>1, AppendProperties DEF RowsInv
  <2>2. result' = {}
    BY <1>1 DEF ListRow
  <2> QED BY <2>1, <2>2 DEF ResultInv
<1>2. CASE Aggregate
  <2>1. PICK s \in Spec : spec' = {s} /\ result' = {Result(s)}
    BY <1>2 DEF Aggregate
  <2>2. rows' = rows
    BY <1>2 DEF Aggregate
  <2>3. ASSUME NEW r, r = Result(s)
        PROVE  RightOf(s, r)'
    <3>1. RightOf(s, r)
      BY <2>3, ResultIsRight DEF RowsInv
    <3> QED BY <2>2, <3>1, RowsDecide
  <2>4. ResultInv'
    BY <2>1, <2>3 DEF ResultInv
  <2> QED BY <2>2, <2>4 DEF RowsInv
<1>3. CASE UNCHANGED analytics
  <2>1. rows' = rows /\ spec' = spec /\ result' = result
    BY <1>3 DEF analytics
  <2>2. ResultInv'
    BY <2>1, RowsDecide DEF ResultInv
  <2> QED BY <2>1, <2>2 DEF RowsInv
<1> QED BY <1>1, <1>2, <1>3 DEF Next

LEMMA AnalyticsInvariant == AnalyticsSpec => [](RowsInv /\ ResultInv)
BY AnalyticsInitially, AnalyticsKept, PTL DEF AnalyticsSpec

(* A result counts matches among the rows, and its groups are within the   *)
(* limit, each with a key of its own (AnalyticsService.aggregate).         *)
THEOREM AnalyticsTypeCorrect == AnalyticsSpec => []AnalyticsTypeOK
<1>1. RowsInv /\ ResultInv => AnalyticsTypeOK
  BY DEF RowsInv, ResultInv, RightOf, TypeOf, AnalyticsTypeOK
<1> QED BY <1>1, AnalyticsInvariant, PTL

(* A number reported alone is the count, sum, average, least or greatest   *)
(* of exactly the rows that match, and missing when there is none to       *)
(* compute on; so is a group's of the rows with its key, save that it is 0 *)
(* when there is none to compute on (_scalar, _grouped).                   *)
THEOREM NumbersAlwaysExact == AnalyticsSpec => []NumbersAreExact
<1>1. RowsInv /\ ResultInv => NumbersAreExact
  BY DEF ResultInv, RightOf, ExactOf, NumbersAreExact
<1> QED BY <1>1, AnalyticsInvariant, PTL

(* The groups of an uncut count or sum add up to that of all the rows that *)
(* match, in whatever order the buckets were made and sorted (_grouped).   *)
THEOREM GroupsAlwaysAddUp == AnalyticsSpec => []GroupsAddUp
<1>1. RowsInv /\ ResultInv => GroupsAddUp
  BY DEF ResultInv, RightOf, AddUpOf, GroupsAddUp
<1> QED BY <1>1, AnalyticsInvariant, PTL

(* A ranking lists the best rows, the best first, and equal ones as they   *)
(* came (_top_rows).                                                       *)
THEOREM BestAlwaysListed == AnalyticsSpec => []BestAreListed
<1>1. RowsInv /\ ResultInv => BestAreListed
  BY DEF ResultInv, RightOf, BestOf, BestFirst, Better, BestAreListed
<1> QED BY <1>1, AnalyticsInvariant, PTL

(* A ranking of groups lists the best groups, the best first, and leaves   *)
(* out only the others, for any limit (_grouped).                          *)
THEOREM BestGroupsAlwaysListed == AnalyticsSpec => []BestGroupsAreListed
<1>1. ASSUME NEW s, NEW r, BestGroupsOf(s, r), ByGroup(s), ~r.error
      PROVE  LET keys == {Get(i, "group") : i \in Selected(s)}
                 Of(k) == GroupValue(s, Members(s, k))
                 Before(k, l) == IF s.desc THEN Less(Of(l), Of(k)) ELSE Less(Of(k), Of(l))
                 Listed(k, n) == n \in DOMAIN r.groups /\ r.groups[n].key = k
             IN /\ \A n \in DOMAIN r.groups : r.groups[n].key \in keys
                /\ \A k \in keys : \/ \E n \in DOMAIN r.groups : Listed(k, n)
                                   \/ s.limit > 0 /\ Len(r.groups) = s.limit
                /\ \A k, l \in keys : Before(k, l) =>
                     \A n \in DOMAIN r.groups : Listed(l, n) => \E m \in 1..(n - 1) : Listed(k, m)
  <2>1. \A k : Members(s, k) = Holding(Selected(s), k)
    BY DEF Members, Holding
  <2> QED BY <1>1, <2>1 DEF BestGroupsOf, BestKeys, Keys, Beats
<1>2. RowsInv /\ ResultInv => BestGroupsAreListed
  BY <1>1 DEF ResultInv, RightOf, BestGroupsAreListed
<1> QED BY <1>2, AnalyticsInvariant, PTL
=============================================================================

------------------------------ MODULE DataLemmas ------------------------------
(***************************************************************************)
(* Lemmas about data that the proofs of several components need: least and *)
(* greatest keys, for keyset pagination (a page of rows in key order is    *)
(* cut at its greatest key, and the page after it starts at the least key  *)
(* above that), and sums over finite sets, for the books of a tenant.      *)
(*                                                                         *)
(* Facts about all finite sets are proved by the least counterexample: a   *)
(* fact that fails fails for a set of least cardinality, and without one   *)
(* of its elements it holds.                                               *)
(***************************************************************************)
EXTENDS Integers, FiniteSets, Functions, FiniteSetTheorems, TLAPS

-----------------------------------------------------------------------------
(* Order *)

(* A nonempty set of natural numbers has a least element: the order of the *)
(* keys that a page is read in is well-founded.                            *)
LEMMA HasLeast ==
  ASSUME NEW T, T \subseteq Nat, T # {}
  PROVE  \E x \in T : \A y \in T : x <= y
<1> DEFINE R == {ss \in Nat \X Nat : ss[1] < ss[2]}
<1>1. R = OpToRel(<, Nat)
  BY Zenon DEF OpToRel
<1>2. IsWellFoundedOn(OpToRel(<, Nat), Nat)
  BY NatLessThanWellFounded, Zenon
<1>3. IsWellFoundedOn(R, Nat)
  BY <1>1, <1>2, Zenon
<1> HIDE DEF R
<1>4. PICK x \in T : \A y \in T : ~ (<<y, x>> \in R)
  BY <1>3, WFMin
<1>5. ASSUME NEW y \in T
      PROVE  x <= y
  <2>1. x \in Nat /\ y \in Nat
    OBVIOUS
  <2>2. y < x => <<y, x>> \in R
    BY <2>1 DEF R
  <2> QED
    BY <1>4, <2>1, <2>2
<1> QED
  BY <1>5

(* A nonempty bounded set of natural numbers has a greatest element: the   *)
(* key at which a page ends exists.                                        *)
LEMMA HasGreatest ==
  ASSUME NEW n \in Nat, NEW T, T \subseteq 0..n, T # {}
  PROVE  \E x \in T : \A y \in T : y <= x
<1> DEFINE U == {u \in Nat : \A y \in T : y <= u}
<1>1. n \in U
  BY SMT
<1>2. PICK u \in U : \A v \in U : u <= v
  <2>1. U \subseteq Nat /\ U # {}
    BY <1>1
  <2> HIDE DEF U
  <2> QED
    BY <2>1, HasLeast
<1>3. u \in Nat /\ \A y \in T : y \in Nat /\ y <= u
  OBVIOUS
<1>4. u \in T
  <2> SUFFICES ASSUME u \notin T
               PROVE  FALSE
    OBVIOUS
  <2>1. PICK y \in T : TRUE
    OBVIOUS
  <2>2. \A z \in T : z # u /\ z <= u - 1
    BY <1>3
  <2>3. u - 1 \in Nat
    BY <1>3, <2>1, <2>2
  <2>4. u - 1 \in U
    BY <2>2, <2>3
  <2> QED
    BY <1>2, <1>3, <2>4
<1> QED
  BY <1>3, <1>4

-----------------------------------------------------------------------------
(* Sums *)

(* The element that a fold takes first. *)
Pick(s) == CHOOSE x \in s : TRUE

(* g adds f up over the sets of F. *)
Adds(f, F, g) ==
  g = [s \in F |-> IF s = {} THEN 0 ELSE f[Pick(s)] + g[s \ {Pick(s)}]]

(* A sum is the value of a solution of its recursion. *)
LEMMA SumDef == ASSUME NEW f, NEW S PROVE SumFunctionOnSet(f, S) = (CHOOSE g : Adds(f, SUBSET S, g))[S]
BY DEF SumFunctionOnSet, FoldFunctionOnSet, MapThenFoldSet, Adds, Pick

(* The subsets of S with at most n elements. *)
SubsetsUpTo(S, n) == {T \in SUBSET S : Cardinality(T) <= n}

(* A finite set without the element taken first is smaller by one. *)
LEMMA PickFacts ==
  ASSUME NEW S, IsFiniteSet(S), NEW T \in SUBSET S, T # {}
  PROVE  /\ Pick(T) \in T /\ T \ {Pick(T)} \in SUBSET S /\ IsFiniteSet(T)
         /\ Cardinality(T) \in Nat /\ Cardinality(T \ {Pick(T)}) = Cardinality(T) - 1 /\ Cardinality(T) >= 1
<1>1. Pick(T) \in T
  BY DEF Pick
<1>2. IsFiniteSet(T)
  BY FS_Subset
<1>3. Cardinality(T) \in Nat /\ Cardinality(T) # 0
  BY <1>2, FS_CardinalityType, FS_EmptySet
<1>4. Cardinality(T \ {Pick(T)}) = Cardinality(T) - 1
  BY <1>1, <1>2, FS_RemoveElement
<1> QED
  BY <1>1, <1>2, <1>3, <1>4

(* The recursion of the sum has a solution on a finite set. *)
LEMMA AddsExists ==
  ASSUME NEW f, NEW S, IsFiniteSet(S)
  PROVE  \E g : Adds(f, SUBSET S, g)
<1> DEFINE Bad == {n \in Nat : ~ \E g : Adds(f, SubsetsUpTo(S, n), g)}
<1>1. Bad = {}
  <2> SUFFICES ASSUME Bad # {}
               PROVE  FALSE
    OBVIOUS
  <2>1. PICK n \in Bad : \A k \in Bad : n <= k
    <3>1. Bad \subseteq Nat
      OBVIOUS
    <3> HIDE DEF Bad
    <3> QED
      BY <3>1, HasLeast
  <2>2. n \in Nat /\ ~ \E g : Adds(f, SubsetsUpTo(S, n), g)
    OBVIOUS
  <2>3. CASE n = 0
    <3> DEFINE g == [s \in SubsetsUpTo(S, 0) |-> 0]
    <3>1. \A s \in SubsetsUpTo(S, 0) : s = {}
      <4>1. ASSUME NEW s \in SubsetsUpTo(S, 0), s # {}
            PROVE  FALSE
        <5>1. s \in SUBSET S /\ Cardinality(s) <= 0
          BY DEF SubsetsUpTo
        <5>2. Cardinality(s) \in Nat /\ Cardinality(s) >= 1
          BY <4>1, <5>1, PickFacts
        <5> QED
          BY <5>1, <5>2
      <4> QED
        BY <4>1
    <3>2. Adds(f, SubsetsUpTo(S, 0), g)
      BY <3>1 DEF Adds
    <3> QED
      BY <2>2, <2>3, <3>2
  <2>4. CASE n # 0
    <3>1. n - 1 \in Nat /\ n - 1 \notin Bad
      BY <2>1, <2>2, <2>4
    <3>2. PICK h : Adds(f, SubsetsUpTo(S, n - 1), h)
      BY <3>1
    <3> DEFINE g == [s \in SubsetsUpTo(S, n) |-> IF s = {} THEN 0 ELSE f[Pick(s)] + h[s \ {Pick(s)}]]
    <3>3. ASSUME NEW s \in SubsetsUpTo(S, n), s # {}
          PROVE  g[s \ {Pick(s)}] = h[s \ {Pick(s)}]
      <4>1. s \in SUBSET S /\ Cardinality(s) <= n
        BY DEF SubsetsUpTo
      <4> DEFINE t == s \ {Pick(s)}
      <4>2. t \in SUBSET S /\ Cardinality(t) <= n - 1 /\ Cardinality(t) \in Int
        BY <2>2, <3>3, <4>1, PickFacts
      <4>3. t \in SubsetsUpTo(S, n) /\ t \in SubsetsUpTo(S, n - 1)
        BY <2>2, <4>2 DEF SubsetsUpTo
      <4> HIDE DEF t
      <4>4. g[t] = IF t = {} THEN 0 ELSE f[Pick(t)] + h[t \ {Pick(t)}]
        BY <4>3
      <4>5. h[t] = IF t = {} THEN 0 ELSE f[Pick(t)] + h[t \ {Pick(t)}]
        BY <3>2, <4>3 DEF Adds
      <4> QED
        BY <4>4, <4>5 DEF t
    <3>4. \A s \in SubsetsUpTo(S, n) :
            g[s] = IF s = {} THEN 0 ELSE f[Pick(s)] + g[s \ {Pick(s)}]
      <4>1. ASSUME NEW s \in SubsetsUpTo(S, n)
            PROVE  g[s] = IF s = {} THEN 0 ELSE f[Pick(s)] + h[s \ {Pick(s)}]
        OBVIOUS
      <4> HIDE DEF g
      <4> QED
        BY <3>3, <4>1
    <3>5. g = [s \in SubsetsUpTo(S, n) |-> g[s]]
      OBVIOUS
    <3> HIDE DEF g
    <3>6. Adds(f, SubsetsUpTo(S, n), g)
      BY <3>4, <3>5 DEF Adds
    <3> QED
      BY <2>2, <3>6
  <2> QED
    BY <2>3, <2>4
<1>2. Cardinality(S) \in Nat
  BY FS_CardinalityType
<1>3. SubsetsUpTo(S, Cardinality(S)) = SUBSET S
  <2>1. ASSUME NEW T \in SUBSET S
        PROVE  Cardinality(T) <= Cardinality(S)
    BY FS_Subset
  <2> QED
    BY <2>1 DEF SubsetsUpTo
<1> QED
  <2>1. \E g : Adds(f, SubsetsUpTo(S, Cardinality(S)), g)
    BY <1>1, <1>2
  <2> QED
    BY <1>3, <2>1

(* Solutions agree. *)
LEMMA AddsUnique ==
  ASSUME NEW f, NEW S, IsFiniteSet(S), NEW R, IsFiniteSet(R), NEW g, NEW h,
         Adds(f, SUBSET S, g), Adds(f, SUBSET R, h), NEW T \in SUBSET S, T \in SUBSET R
  PROVE  g[T] = h[T]
<1> DEFINE Bad == {n \in Nat : \E U \in SUBSET T : Cardinality(U) = n /\ g[U] # h[U]}
<1>1. Bad = {}
  <2> SUFFICES ASSUME Bad # {}
               PROVE  FALSE
    OBVIOUS
  <2>1. PICK n \in Bad : \A k \in Bad : n <= k
    <3>1. Bad \subseteq Nat
      OBVIOUS
    <3> HIDE DEF Bad
    <3> QED
      BY <3>1, HasLeast
  <2>2. PICK U \in SUBSET T : Cardinality(U) = n /\ g[U] # h[U]
    OBVIOUS
  <2>3. /\ g[U] = IF U = {} THEN 0 ELSE f[Pick(U)] + g[U \ {Pick(U)}]
        /\ h[U] = IF U = {} THEN 0 ELSE f[Pick(U)] + h[U \ {Pick(U)}]
    <3>1. U \in SUBSET S /\ U \in SUBSET R
      OBVIOUS
    <3> QED
      BY <3>1 DEF Adds
  <2>4. U # {}
    BY <2>2, <2>3
  <2>5. /\ U \ {Pick(U)} \in SUBSET T /\ n \in Nat /\ n >= 1 /\ Cardinality(U \ {Pick(U)}) = n - 1
    BY <2>2, <2>4, PickFacts
  <2>6. n - 1 \notin Bad /\ n - 1 \in Nat
    <3> HIDE DEF Bad
    <3> QED
      BY <2>1, <2>5
  <2>7. g[U \ {Pick(U)}] = h[U \ {Pick(U)}]
    BY <2>5, <2>6
  <2> QED
    BY <2>2, <2>3, <2>7
<1>2. IsFiniteSet(T) /\ Cardinality(T) \in Nat
  BY FS_Subset, FS_CardinalityType
<1> QED
  BY <1>1, <1>2

(* The sum, one element at a time. *)
LEMMA SumRecursion ==
  ASSUME NEW f, NEW S, IsFiniteSet(S)
  PROVE  SumFunctionOnSet(f, S) = IF S = {} THEN 0 ELSE f[Pick(S)] + SumFunctionOnSet(f, S \ {Pick(S)})
<1> DEFINE g == CHOOSE g : Adds(f, SUBSET S, g)
           R == S \ {Pick(S)}
           h == CHOOSE h : Adds(f, SUBSET R, h)
<1>1. IsFiniteSet(R) /\ R \subseteq S
  BY FS_RemoveElement
<1>2. Adds(f, SUBSET S, g)
  BY AddsExists
<1>3. Adds(f, SUBSET R, h)
  BY <1>1, AddsExists
<1>4. SumFunctionOnSet(f, S) = g[S] /\ SumFunctionOnSet(f, R) = h[R]
  BY SumDef
<1> HIDE DEF g, h
<1>5. g[S] = IF S = {} THEN 0 ELSE f[Pick(S)] + g[R]
  BY <1>2 DEF Adds
<1>6. g[R] = h[R]
  <2> HIDE DEF R
  <2> QED
    BY <1>1, <1>2, <1>3, AddsUnique
<1> QED
  BY <1>4, <1>5, <1>6

(* A sum of natural numbers is a natural number. *)
LEMMA SumType ==
  ASSUME NEW f, NEW S, IsFiniteSet(S), \A x \in S : f[x] \in Nat
  PROVE  SumFunctionOnSet(f, S) \in Nat
<1> DEFINE Bad == {n \in Nat : \E U \in SUBSET S : Cardinality(U) = n /\ SumFunctionOnSet(f, U) \notin Nat}
<1>1. Bad = {}
  <2> SUFFICES ASSUME Bad # {}
               PROVE  FALSE
    OBVIOUS
  <2>1. PICK n \in Bad : \A k \in Bad : n <= k
    <3>1. Bad \subseteq Nat
      OBVIOUS
    <3> HIDE DEF Bad
    <3> QED
      BY <3>1, HasLeast
  <2>2. PICK U \in SUBSET S : Cardinality(U) = n /\ SumFunctionOnSet(f, U) \notin Nat
    OBVIOUS
  <2>3. IsFiniteSet(U)
    BY FS_Subset
  <2>4. SumFunctionOnSet(f, U) = IF U = {} THEN 0 ELSE f[Pick(U)] + SumFunctionOnSet(f, U \ {Pick(U)})
    BY <2>3, SumRecursion
  <2>5. U # {}
    BY <2>2, <2>4
  <2>6. /\ U \ {Pick(U)} \in SUBSET S /\ n \in Nat /\ n >= 1 /\ Cardinality(U \ {Pick(U)}) = n - 1
        /\ Pick(U) \in U
    BY <2>2, <2>5, PickFacts
  <2>7. n - 1 \notin Bad /\ n - 1 \in Nat
    <3> HIDE DEF Bad
    <3> QED
      BY <2>1, <2>6
  <2>8. SumFunctionOnSet(f, U \ {Pick(U)}) \in Nat /\ f[Pick(U)] \in Nat
    BY <2>6, <2>7
  <2> QED
    BY <2>2, <2>4, <2>5, <2>8
<1>2. Cardinality(S) \in Nat
  BY FS_CardinalityType
<1> QED
  BY <1>1, <1>2

(* The order of the elements does not matter. *)
LEMMA SumRemove ==
  ASSUME NEW f, NEW S, IsFiniteSet(S), \A x \in S : f[x] \in Nat, NEW a \in S
  PROVE  SumFunctionOnSet(f, S) = f[a] + SumFunctionOnSet(f, S \ {a})
<1> DEFINE Bad == {n \in Nat : \E U \in SUBSET S : Cardinality(U) = n /\
                      \E x \in U : SumFunctionOnSet(f, U) # f[x] + SumFunctionOnSet(f, U \ {x})}
<1>1. Bad = {}
  <2> SUFFICES ASSUME Bad # {}
               PROVE  FALSE
    OBVIOUS
  <2>1. PICK n \in Bad : \A k \in Bad : n <= k
    <3>1. Bad \subseteq Nat
      OBVIOUS
    <3> HIDE DEF Bad
    <3> QED
      BY <3>1, HasLeast
  <2>2. PICK U \in SUBSET S, x \in S :
          /\ x \in U /\ Cardinality(U) = n
          /\ SumFunctionOnSet(f, U) # f[x] + SumFunctionOnSet(f, U \ {x})
    OBVIOUS
  <2> DEFINE p == Pick(U)
  <2>3. IsFiniteSet(U) /\ U # {}
    BY <2>2, FS_Subset
  <2>4. SumFunctionOnSet(f, U) = f[p] + SumFunctionOnSet(f, U \ {p})
    BY <2>3, SumRecursion
  <2>5. p # x /\ p \in U
    BY <2>2, <2>3, <2>4, PickFacts
  <2>6. n \in Nat /\ n >= 1
    BY <2>2, <2>3, PickFacts
  <2> HIDE DEF p
  <2>7. n - 1 \notin Bad /\ n - 1 \in Nat
    <3> HIDE DEF Bad
    <3> QED
      BY <2>1, <2>6
  <2>8. ASSUME NEW y \in U
        PROVE  /\ U \ {y} \in SUBSET S /\ IsFiniteSet(U \ {y}) /\ Cardinality(U \ {y}) = n - 1
    BY <2>2, <2>3, FS_RemoveElement
  <2>9. ASSUME NEW y \in U, NEW z \in U \ {y}
        PROVE  SumFunctionOnSet(f, U \ {y}) = f[z] + SumFunctionOnSet(f, (U \ {y}) \ {z})
    BY <2>7, <2>8
  <2>10. (U \ {p}) \ {x} = (U \ {x}) \ {p}
    OBVIOUS
  <2>11. /\ SumFunctionOnSet(f, U \ {p}) = f[x] + SumFunctionOnSet(f, (U \ {p}) \ {x})
         /\ SumFunctionOnSet(f, U \ {x}) = f[p] + SumFunctionOnSet(f, (U \ {p}) \ {x})
    <3>1. x \in U \ {p} /\ p \in U \ {x}
      BY <2>2, <2>5
    <3> QED
      BY <2>5, <2>9, <2>10, <3>1
  <2>12. IsFiniteSet((U \ {p}) \ {x}) /\ \A y \in (U \ {p}) \ {x} : f[y] \in Nat
    BY <2>5, <2>8, FS_RemoveElement
  <2>13. SumFunctionOnSet(f, (U \ {p}) \ {x}) \in Nat /\ f[p] \in Nat /\ f[x] \in Nat
    BY <2>5, <2>12, SumType
  <2> QED
    BY <2>2, <2>4, <2>11, <2>13
<1>2. Cardinality(S) \in Nat
  BY FS_CardinalityType
<1> QED
  BY <1>1, <1>2

(* The sum of an empty set, and of one with another element. *)
LEMMA SumEmpty == ASSUME NEW f PROVE SumFunctionOnSet(f, {}) = 0
BY SumRecursion, FS_EmptySet

LEMMA SumAdd ==
  ASSUME NEW f, NEW S, IsFiniteSet(S), NEW a, a \notin S, f[a] \in Nat, \A x \in S : f[x] \in Nat
  PROVE  SumFunctionOnSet(f, S \cup {a}) = SumFunctionOnSet(f, S) + f[a]
<1> DEFINE U == S \cup {a}
<1>1. IsFiniteSet(U) /\ a \in U /\ U \ {a} = S /\ \A x \in U : f[x] \in Nat
  BY FS_AddElement
<1> HIDE DEF U
<1>2. SumFunctionOnSet(f, U) = f[a] + SumFunctionOnSet(f, U \ {a})
  BY <1>1, SumRemove
<1>3. SumFunctionOnSet(f, S) \in Nat
  BY SumType
<1> QED
  <2>1. SumFunctionOnSet(f, U) = f[a] + SumFunctionOnSet(f, S)
    BY <1>1, <1>2
  <2>2. SumFunctionOnSet(f, U) = SumFunctionOnSet(f, S) + f[a]
    BY <1>3, <2>1
  <2> QED
    BY <2>2 DEF U

(* A sum grows with its terms. *)
LEMMA SumMonotone ==
  ASSUME NEW f, NEW h, NEW S, IsFiniteSet(S),
         \A x \in S : f[x] \in Nat /\ h[x] \in Nat /\ f[x] <= h[x]
  PROVE  SumFunctionOnSet(f, S) <= SumFunctionOnSet(h, S)
<1> DEFINE Bad == {n \in Nat : \E U \in SUBSET S :
                     Cardinality(U) = n /\ ~(SumFunctionOnSet(f, U) <= SumFunctionOnSet(h, U))}
<1>1. Bad = {}
  <2> SUFFICES ASSUME Bad # {}
               PROVE  FALSE
    OBVIOUS
  <2>1. PICK n \in Bad : \A k \in Bad : n <= k
    <3>1. Bad \subseteq Nat
      OBVIOUS
    <3> HIDE DEF Bad
    <3> QED
      BY <3>1, HasLeast
  <2>2. PICK U \in SUBSET S : Cardinality(U) = n /\ ~(SumFunctionOnSet(f, U) <= SumFunctionOnSet(h, U))
    OBVIOUS
  <2> DEFINE p == Pick(U)
             R == U \ {p}
  <2>3. IsFiniteSet(U)
    BY FS_Subset
  <2>4. /\ SumFunctionOnSet(f, U) = IF U = {} THEN 0 ELSE f[p] + SumFunctionOnSet(f, R)
        /\ SumFunctionOnSet(h, U) = IF U = {} THEN 0 ELSE h[p] + SumFunctionOnSet(h, R)
    BY <2>3, SumRecursion
  <2>5. U # {}
    BY <2>2, <2>4
  <2>6. R \in SUBSET S /\ n \in Nat /\ n >= 1 /\ Cardinality(R) = n - 1 /\ p \in U
    BY <2>2, <2>5, PickFacts
  <2>7. n - 1 \notin Bad /\ n - 1 \in Nat
    <3> HIDE DEF Bad, R, p
    <3> QED
      BY <2>1, <2>6
  <2> HIDE DEF R, p
  <2>8. SumFunctionOnSet(f, R) <= SumFunctionOnSet(h, R)
    BY <2>6, <2>7
  <2>9. IsFiniteSet(R) /\ (\A x \in R : f[x] \in Nat /\ h[x] \in Nat)
    BY <2>6, FS_Subset
  <2>10. SumFunctionOnSet(f, R) \in Nat /\ SumFunctionOnSet(h, R) \in Nat
    BY <2>9, SumType
  <2> QED
    BY <2>2, <2>4, <2>5, <2>6, <2>8, <2>10
<1>2. Cardinality(S) \in Nat
  BY FS_CardinalityType
<1> QED
  BY <1>1, <1>2

(* A sum in two parts. *)
LEMMA SumSplit ==
  ASSUME NEW f, NEW S, IsFiniteSet(S), \A x \in S : f[x] \in Nat, NEW B \in SUBSET S
  PROVE  SumFunctionOnSet(f, S) = SumFunctionOnSet(f, B) + SumFunctionOnSet(f, S \ B)
<1> DEFINE Parted(U) == SumFunctionOnSet(f, S) = SumFunctionOnSet(f, U) + SumFunctionOnSet(f, S \ U)
           Bad == {n \in Nat : \E U \in SUBSET B : Cardinality(U) = n /\ ~Parted(U)}
<1>0. SumFunctionOnSet(f, S) \in Nat
  BY SumType
<1>1. Bad = {}
  <2> SUFFICES ASSUME Bad # {}
               PROVE  FALSE
    OBVIOUS
  <2>1. PICK n \in Bad : \A k \in Bad : n <= k
    <3>1. Bad \subseteq Nat
      OBVIOUS
    <3> HIDE DEF Bad
    <3> QED
      BY <3>1, HasLeast
  <2>2. PICK U \in SUBSET B : Cardinality(U) = n /\ ~Parted(U)
    OBVIOUS
  <2> DEFINE p == Pick(U)
             R == U \ {p}
  <2>3. U # {}
    <3>1. S \ {} = S
      OBVIOUS
    <3> QED
      BY <1>0, <2>2, <3>1, SumEmpty
  <2>4. R \in SUBSET B /\ n \in Nat /\ n >= 1 /\ Cardinality(R) = n - 1 /\ p \in U /\ IsFiniteSet(U)
    <3>1. IsFiniteSet(B)
      BY FS_Subset
    <3> QED
      BY <2>2, <2>3, <3>1, PickFacts
  <2>5. n - 1 \notin Bad /\ n - 1 \in Nat
    <3> HIDE DEF Bad, R, p
    <3> QED
      BY <2>1, <2>4
  <2>6. U = R \cup {p} /\ p \notin R /\ S \ R = (S \ U) \cup {p} /\ p \notin S \ U /\ p \in S
    BY <2>4
  <2> HIDE DEF R, p
  <2>7. SumFunctionOnSet(f, S) = SumFunctionOnSet(f, R) + SumFunctionOnSet(f, S \ R)
    BY <2>4, <2>5
  <2>8. IsFiniteSet(R) /\ IsFiniteSet(S \ U)
    BY <2>4, FS_Subset
  <2>9. SumFunctionOnSet(f, R) \in Nat /\ SumFunctionOnSet(f, S \ U) \in Nat
    BY <2>4, <2>8, SumType
  <2>10. SumFunctionOnSet(f, U) = SumFunctionOnSet(f, R) + f[p]
    BY <2>4, <2>6, <2>8, SumAdd
  <2>11. SumFunctionOnSet(f, S \ R) = SumFunctionOnSet(f, S \ U) + f[p]
    BY <2>6, <2>8, SumAdd
  <2> QED
    BY <2>2, <2>6, <2>7, <2>9, <2>10, <2>11
<1>2. IsFiniteSet(B) /\ Cardinality(B) \in Nat
  BY FS_Subset, FS_CardinalityType
<1> QED
  BY <1>1, <1>2

(* A sum over fewer or smaller terms is no greater. *)
LEMMA SumShrinks ==
  ASSUME NEW f, NEW h, NEW S, IsFiniteSet(S), \A x \in S : f[x] \in Nat, NEW T \in SUBSET S,
         \A x \in T : h[x] \in Nat /\ h[x] <= f[x]
  PROVE  SumFunctionOnSet(h, T) <= SumFunctionOnSet(f, S)
<1>1. IsFiniteSet(T) /\ IsFiniteSet(S \ T)
  BY FS_Subset
<1>2. SumFunctionOnSet(h, T) <= SumFunctionOnSet(f, T)
  BY <1>1, SumMonotone
<1>3. SumFunctionOnSet(f, S) = SumFunctionOnSet(f, T) + SumFunctionOnSet(f, S \ T)
  BY SumSplit
<1>4. /\ SumFunctionOnSet(h, T) \in Nat /\ SumFunctionOnSet(f, T) \in Nat
      /\ SumFunctionOnSet(f, S \ T) \in Nat
  BY <1>1, SumType
<1> QED
  BY <1>2, <1>3, <1>4

(* A sum depends only on its terms. *)
LEMMA SumSame ==
  ASSUME NEW f, NEW h, NEW S, IsFiniteSet(S), \A x \in S : f[x] \in Nat /\ h[x] = f[x]
  PROVE  SumFunctionOnSet(h, S) = SumFunctionOnSet(f, S)
<1>1. SumFunctionOnSet(h, S) <= SumFunctionOnSet(f, S) /\ SumFunctionOnSet(f, S) <= SumFunctionOnSet(h, S)
  BY SumMonotone
<1>2. SumFunctionOnSet(h, S) \in Nat /\ SumFunctionOnSet(f, S) \in Nat
  BY SumType
<1> QED
  BY <1>1, <1>2

==============================================================================

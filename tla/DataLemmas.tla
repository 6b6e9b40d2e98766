----------------------------- MODULE DataLemmas -----------------------------
(***************************************************************************)
(* Induction without operators as parameters, and what MapThenSumSet adds  *)
(* up: the lemmas about data that the proofs of the components share.      *)
(***************************************************************************)
EXTENDS Integers, FiniteSets, FiniteSetTheorems, WellFoundedInduction, TLAPS

(* A set of naturals has a least element: among the intervals from zero to *)
(* its elements one holds no other.                                        *)
LEMMA Least ==
    ASSUME NEW T \in SUBSET Nat, T # {}
    PROVE  \E n \in T : \A m \in T : n <= m
<1> DEFINE C == {0..n : n \in T}
<1>1. IsWellFoundedOn(StrictSubsetOrdering(Nat), FiniteSubsetsOf(Nat))
    BY FS_StrictSubsetOrderingWellFounded
<1>2. C \subseteq FiniteSubsetsOf(Nat)
    <2>1. SUFFICES ASSUME NEW n \in T PROVE 0..n \in FiniteSubsetsOf(Nat)
        OBVIOUS
    <2>2. QED
        BY FS_Interval DEF FiniteSubsetsOf
<1>3. C # {}
    OBVIOUS
<1> HIDE DEF C
<1>4. \E x \in C : \A y \in C : ~(<<y, x>> \in StrictSubsetOrdering(Nat))
    BY <1>1, <1>2, <1>3, WFMin, Zenon
<1>5. PICK n \in T : \A y \in C : ~(<<y, 0..n>> \in StrictSubsetOrdering(Nat))
    BY <1>4 DEF C
<1>6. ASSUME NEW m \in T, m < n PROVE FALSE
    <2>1. <<0..m, 0..n>> \notin StrictSubsetOrdering(Nat)
        BY <1>5 DEF C
    <2>2. 0..m \subseteq 0..n /\ n \in 0..n /\ n \notin 0..m
        BY <1>6
    <2>3. QED
        BY <2>1, <2>2 DEF StrictSubsetOrdering
<1>7. QED
    BY <1>6

(* Induction over a set of naturals.                                       *)
LEMMA Induction ==
    ASSUME NEW G, 0 \in G, \A n \in Nat : n \in G => n + 1 \in G
    PROVE  Nat \subseteq G
<1> DEFINE T == Nat \ G
<1>1. SUFFICES ASSUME T # {} PROVE FALSE
    OBVIOUS
<1>2. PICK n \in T : \A m \in T : n <= m
    BY <1>1, Least
<1>3. n - 1 \in Nat /\ n - 1 \notin T
    BY <1>2
<1>4. QED
    BY <1>2, <1>3
-----------------------------------------------------------------------------
Chosen(s) == CHOOSE x \in s : TRUE

(* sum adds F over every subset of S, in the order that is chosen.         *)
IsSumOver(S, F, sum) ==
    /\ IsFiniteSet(S)
    /\ F \in [S -> Int]
    /\ sum = [s \in SUBSET S |->
                 IF s = {} THEN 0 ELSE F[Chosen(s)] + sum[s \ {Chosen(s)}]]

LEMMA SizeFacts ==
    ASSUME NEW S, IsFiniteSet(S), NEW s \in SUBSET S
    PROVE  Cardinality(s) \in Nat /\ (Cardinality(s) = 0 <=> s = {})
<1>1. IsFiniteSet(s)
    BY FS_Subset
<1>2. QED
    BY <1>1, FS_CardinalityType, FS_EmptySet

LEMMA RestFacts ==
    ASSUME NEW S, IsFiniteSet(S), NEW s \in SUBSET S, NEW x \in s
    PROVE  /\ s \ {x} \in SUBSET S
           /\ Cardinality(s) \in Nat /\ Cardinality(s \ {x}) \in Nat
           /\ Cardinality(s \ {x}) = Cardinality(s) - 1
<1>1. IsFiniteSet(s)
    BY FS_Subset
<1>2. QED
    BY <1>1, FS_CardinalityType, FS_RemoveElement

(* There is a sum: it is defined for sets of one more element each time.   *)
LEMMA SumExists ==
    ASSUME NEW S, IsFiniteSet(S), NEW F \in [S -> Int]
    PROVE  \E sum : IsSumOver(S, F, sum)
<1> DEFINE Next(sum, s) == IF s = {} THEN 0 ELSE F[Chosen(s)] + sum[s \ {Chosen(s)}]
           Up(n, sum) == \A s \in SUBSET S : Cardinality(s) <= n => sum[s] = Next(sum, s)
           G == {n \in Nat : \E sum \in [SUBSET S -> Int] : Up(n, sum)}
<1>1. \A s \in SUBSET S : Cardinality(s) \in Nat /\ (Cardinality(s) = 0 <=> s = {})
    BY SizeFacts
<1>2. 0 \in G
    <2> DEFINE none == [s \in SUBSET S |-> 0]
    <2>1. Up(0, none) /\ none \in [SUBSET S -> Int]
        BY <1>1
    <2> HIDE DEF none, Up
    <2>2. QED
        BY <2>1
<1>3. ASSUME NEW n \in Nat, n \in G PROVE n + 1 \in G
    <2>1. PICK sum \in [SUBSET S -> Int] : Up(n, sum)
        BY <1>3
    <2> DEFINE more == [s \in SUBSET S |->
                           IF Cardinality(s) = n + 1 THEN Next(sum, s) ELSE sum[s]]
    <2>2. ASSUME NEW s \in SUBSET S, s # {}
          PROVE  /\ F[Chosen(s)] \in Int
                 /\ s \ {Chosen(s)} \in SUBSET S
                 /\ Cardinality(s \ {Chosen(s)}) = Cardinality(s) - 1
        <3>1. Chosen(s) \in s
            BY <2>2 DEF Chosen
        <3>2. QED
            BY <3>1, RestFacts
    <2>3. ASSUME NEW s \in SUBSET S PROVE Next(sum, s) \in Int
        <3>1. CASE s = {}
            BY <3>1
        <3>2. CASE s # {}
            <4>1. sum[s \ {Chosen(s)}] \in Int /\ F[Chosen(s)] \in Int
                BY <2>1, <2>2, <3>2
            <4>2. QED
                BY <3>2, <4>1
        <3>3. QED
            BY <3>1, <3>2
    <2>4. \A s \in SUBSET S : Cardinality(s) <= n + 1 => more[s] = Next(sum, s)
        BY <1>1, <2>1
    <2>5. \A s \in SUBSET S : Cardinality(s) <= n => more[s] = sum[s]
        BY <1>1
    <2>6. more \in [SUBSET S -> Int]
        BY <2>1, <2>3
    <2> HIDE DEF more
    <2>7. ASSUME NEW s \in SUBSET S, Cardinality(s) <= n + 1
          PROVE  Next(sum, s) = Next(more, s)
        <3>1. CASE s = {}
            BY <3>1
        <3>2. CASE s # {}
            <4>1. more[s \ {Chosen(s)}] = sum[s \ {Chosen(s)}]
                BY <1>1, <2>2, <2>5, <2>7, <3>2
            <4>2. QED
                BY <4>1
        <3>3. QED
            BY <3>1, <3>2
    <2>8. Up(n + 1, more)
        BY <2>4, <2>7
    <2> HIDE DEF Up
    <2>9. QED
        BY <2>6, <2>8
<1>4. Cardinality(S) \in G
    <2>1. Cardinality(S) \in Nat
        BY <1>1
    <2> HIDE DEF G
    <2>2. QED
        BY <2>1, <1>2, <1>3, Induction
<1>5. PICK sum \in [SUBSET S -> Int] : Up(Cardinality(S), sum)
    BY <1>4
<1>6. \A s \in SUBSET S : Cardinality(s) <= Cardinality(S)
    BY FS_Subset
<1>7. \A s \in SUBSET S : sum[s] = Next(sum, s)
    BY <1>5, <1>6
<1>8. QED
    BY <1>5, <1>7 DEF IsSumOver

(* It is a number, and does not depend on the order.                       *)
LEMMA SumFacts ==
    ASSUME NEW S, NEW F, NEW sum, IsSumOver(S, F, sum)
    PROVE  /\ sum[{}] = 0
           /\ \A s : s \subseteq S => /\ sum[s] \in Int
                                     /\ \A y \in s : sum[s] = F[y] + sum[s \ {y}]
<1> DEFINE Good(s) == /\ sum[s] \in Int
                      /\ \A y \in s : sum[s] = F[y] + sum[s \ {y}]
           G == {n \in Nat : \A s \in SUBSET S : Cardinality(s) <= n => Good(s)}
<1> IsFiniteSet(S) /\ F \in [S -> Int]
    BY DEF IsSumOver
<1>1. \A s \in SUBSET S : Cardinality(s) \in Nat /\ (Cardinality(s) = 0 <=> s = {})
    BY SizeFacts
<1>2. /\ sum[{}] = 0
      /\ \A s \in SUBSET S : s # {} => sum[s] = F[Chosen(s)] + sum[s \ {Chosen(s)}]
    BY DEF IsSumOver
<1>3. Good({})
    BY <1>2
<1>4. ASSUME NEW n \in Nat, \A t \in SUBSET S : Cardinality(t) <= n => Good(t),
             NEW s \in SUBSET S, Cardinality(s) = n + 1
      PROVE  Good(s)
    <2> DEFINE c == Chosen(s)
    <2>1. s # {}
        BY <1>1, <1>4
    <2>2. c \in s
        BY <2>1 DEF Chosen
    <2>3. sum[s] = F[c] + sum[s \ {c}]
        BY <1>2, <2>1
    <2> HIDE DEF c
    <2> HIDE DEF Good
    <2>4. ASSUME NEW y \in s
          PROVE  F[y] \in Int /\ s \ {y} \in SUBSET S /\ Good(s \ {y})
        BY <1>4, RestFacts
    <2>5. sum[s] \in Int
        <3>1. F[c] \in Int /\ Good(s \ {c})
            BY <2>2, <2>4
        <3>2. sum[s \ {c}] \in Int
            BY <3>1 DEF Good
        <3>3. QED
            BY <2>3, <3>1, <3>2
    <2>6. ASSUME NEW y \in s, y # c PROVE sum[s] = F[y] + sum[s \ {y}]
        <3>1. sum[s \ {c}] = F[y] + sum[(s \ {c}) \ {y}]
            BY <2>2, <2>4, <2>6 DEF Good
        <3>2. sum[s \ {y}] = F[c] + sum[(s \ {y}) \ {c}]
            BY <2>2, <2>4, <2>6 DEF Good
        <3>3. (s \ {c}) \ {y} = (s \ {y}) \ {c}
            OBVIOUS
        <3>4. sum[(s \ {y}) \ {c}] \in Int
            <4> DEFINE t == s \ {y}
            <4>1. c \in t /\ t \in SUBSET S /\ Cardinality(t) = n
                BY <1>4, <2>2, <2>6, RestFacts
            <4> HIDE DEF t
            <4>2. Cardinality(t \ {c}) <= n /\ t \ {c} \in SUBSET S
                BY <4>1, RestFacts
            <4>3. Good(t \ {c})
                BY <1>4, <4>2
            <4>4. QED
                BY <4>3 DEF Good, t
        <3>5. F[c] \in Int /\ F[y] \in Int
            BY <2>2, <2>4
        <3> DEFINE a == sum[s \ {c}]
                   b == sum[s \ {y}]
                   d == sum[(s \ {y}) \ {c}]
        <3>6. a = F[y] + d /\ b = F[c] + d /\ sum[s] = F[c] + a /\ d \in Int
            BY <2>3, <3>1, <3>2, <3>3, <3>4
        <3> HIDE DEF a, b, d
        <3>7. sum[s] = F[y] + b
            BY <3>5, <3>6
        <3>8. QED
            BY <3>7 DEF b
    <2>7. QED
        BY <2>3, <2>5, <2>6 DEF Good
<1> HIDE DEF Good
<1>5. 0 \in G
    BY <1>1, <1>3
<1>6. ASSUME NEW n \in Nat, n \in G PROVE n + 1 \in G
    <2>1. \A s \in SUBSET S : Cardinality(s) <= n => Good(s)
        BY <1>6
    <2>2. \A s \in SUBSET S : Cardinality(s) <= n + 1 => Good(s)
        BY <1>1, <1>4, <2>1
    <2>3. QED
        BY <2>2
<1>7. ASSUME NEW s \in SUBSET S PROVE Good(s)
    <2>1. Cardinality(s) \in G
        <3> HIDE DEF G
        <3>1. QED
            BY <1>1, <1>5, <1>6, Induction
    <2>2. QED
        BY <1>1, <2>1
<1>8. QED
    BY <1>2, <1>7 DEF Good

(* Sums over more members, of more each, are no less.                      *)
LEMMA SumsOrdered ==
    ASSUME NEW S, NEW F, NEW sumF, IsSumOver(S, F, sumF),
           NEW T, NEW G, NEW sumG, IsSumOver(T, G, sumG),
           S \subseteq T, \A x \in T : G[x] \in Nat, \A x \in S : F[x] <= G[x]
    PROVE  sumF[S] <= sumG[T]
<1> DEFINE Below(t) == sumF[S \cap t] <= sumG[t]
           N == {n \in Nat : \A t \in SUBSET T : Cardinality(t) <= n => Below(t)}
<1>1. /\ sumF[{}] = 0
      /\ \A s : s \subseteq S => /\ sumF[s] \in Int
                                /\ \A y \in s : sumF[s] = F[y] + sumF[s \ {y}]
      /\ sumG[{}] = 0
      /\ \A s : s \subseteq T => /\ sumG[s] \in Int
                                /\ \A y \in s : sumG[s] = G[y] + sumG[s \ {y}]
    BY SumFacts
<1>2. IsFiniteSet(T) /\ \A x \in S : F[x] \in Int
    BY DEF IsSumOver
<1>3. \A t \in SUBSET T : Cardinality(t) \in Nat /\ (Cardinality(t) = 0 <=> t = {})
    BY <1>2, SizeFacts
<1>4. Below({})
    <2>1. S \cap {} = {}
        OBVIOUS
    <2>2. QED
        BY <1>1, <2>1
<1>5. ASSUME NEW t \in SUBSET T, NEW y \in t, Below(t \ {y}) PROVE Below(t)
    <2> DEFINE a == sumF[S \cap (t \ {y})]
               b == sumG[t \ {y}]
               c == sumF[S \cap t]
    <2>1. a <= b /\ G[y] \in Nat
        BY <1>5
    <2>2. sumG[t] = G[y] + b
        BY <1>1
    <2>3. a \in Int /\ b \in Int
        <3>1. S \cap (t \ {y}) \subseteq S /\ t \ {y} \subseteq T
            OBVIOUS
        <3>2. QED
            BY <1>1, <3>1
    <2>4. \/ y \in S /\ c = F[y] + a /\ F[y] \in Int /\ F[y] <= G[y]
          \/ c = a
        <3>1. CASE y \in S
            <4>1. S \cap t \subseteq S /\ y \in S \cap t
                BY <3>1
            <4>2. (S \cap t) \ {y} = S \cap (t \ {y})
                OBVIOUS
            <4>3. sumF[S \cap t] = F[y] + sumF[(S \cap t) \ {y}]
                BY <1>1, <4>1
            <4>4. QED
                BY <1>2, <3>1, <4>2, <4>3
        <3>2. CASE y \notin S
            <4>1. S \cap t = S \cap (t \ {y})
                BY <3>2
            <4>2. QED
                BY <4>1
        <3>3. QED
            BY <3>1, <3>2
    <2> HIDE DEF a, b, c
    <2>5. c <= G[y] + b
        BY <2>1, <2>3, <2>4
    <2>6. QED
        BY <2>2, <2>5 DEF c
<1> HIDE DEF Below
<1>6. 0 \in N
    BY <1>3, <1>4
<1>7. ASSUME NEW n \in Nat, n \in N PROVE n + 1 \in N
    <2>1. ASSUME NEW t \in SUBSET T, Cardinality(t) <= n + 1 PROVE Below(t)
        <3>1. CASE t = {}
            BY <1>4, <3>1
        <3>2. CASE t # {}
            <4>1. PICK y \in t : TRUE
                BY <3>2
            <4>2. t \ {y} \in SUBSET T /\ Cardinality(t \ {y}) <= n
                <5>1. /\ Cardinality(t) \in Nat /\ Cardinality(t \ {y}) \in Nat
                      /\ Cardinality(t \ {y}) = Cardinality(t) - 1
                    BY <1>2, <4>1, RestFacts
                <5>2. QED
                    BY <2>1, <5>1
            <4>3. Below(t \ {y})
                BY <1>7, <4>2
            <4>4. QED
                BY <1>5, <4>1, <4>3
        <3>3. QED
            BY <3>1, <3>2
    <2>2. QED
        BY <2>1
<1>8. Below(T)
    <2>1. Cardinality(T) \in N
        <3>1. Cardinality(T) \in Nat
            BY <1>3
        <3> HIDE DEF N
        <3>2. QED
            BY <1>6, <1>7, <3>1, Induction
    <2>2. QED
        BY <2>1
<1>9. S \cap T = S
    OBVIOUS
<1>10. QED
    BY <1>8, <1>9 DEF Below

(* What F adds up to over S.                                               *)
SumUp(F, S) == (CHOOSE sum : IsSumOver(S, [x \in S |-> F[x]], sum))[S]

LEMMA SumUpFacts ==
    ASSUME NEW S, IsFiniteSet(S), NEW F, \A x \in S : F[x] \in Int
    PROVE  \E sum : IsSumOver(S, [x \in S |-> F[x]], sum) /\ SumUp(F, S) = sum[S]
<1> DEFINE G == [x \in S |-> F[x]]
<1>1. G \in [S -> Int]
    OBVIOUS
<1> HIDE DEF G
<1>2. \E sum : IsSumOver(S, G, sum)
    BY <1>1, SumExists
<1>3. SumUp(F, S) = (CHOOSE sum : IsSumOver(S, G, sum))[S]
    BY DEF SumUp, G
<1>4. IsSumOver(S, G, CHOOSE sum : IsSumOver(S, G, sum))
    BY <1>2
<1>5. QED
    BY <1>3, <1>4 DEF G

LEMMA SumOfNone == ASSUME NEW F PROVE SumUp(F, {}) = 0
<1>1. IsFiniteSet({})
    BY FS_EmptySet
<1>2. PICK sum : IsSumOver({}, [x \in {} |-> F[x]], sum) /\ SumUp(F, {}) = sum[{}]
    BY <1>1, SumUpFacts
<1>3. QED
    BY <1>2, SumFacts

LEMMA SumOrder ==
    ASSUME NEW T, IsFiniteSet(T), NEW S \in SUBSET T, NEW F, NEW G,
           \A x \in T : G[x] \in Nat, \A x \in S : F[x] \in Int /\ F[x] <= G[x]
    PROVE  SumUp(F, S) <= SumUp(G, T)
<1>1. IsFiniteSet(S)
    BY FS_Subset
<1> DEFINE f == [x \in S |-> F[x]]
           g == [x \in T |-> G[x]]
<1>2. /\ \A x \in T : g[x] \in Nat
      /\ \A x \in S : f[x] <= g[x]
    OBVIOUS
<1>3. /\ \E sum : IsSumOver(S, f, sum) /\ SumUp(F, S) = sum[S]
      /\ \E sum : IsSumOver(T, g, sum) /\ SumUp(G, T) = sum[T]
    BY <1>1, SumUpFacts
<1> HIDE DEF f, g
<1>4. QED
    BY <1>2, <1>3, SumsOrdered

(* A member more adds what it is.                                          *)
LEMMA SumOfMore ==
    ASSUME NEW S, IsFiniteSet(S), NEW y, y \notin S, NEW F,
           \A x \in S \cup {y} : F[x] \in Nat
    PROVE  SumUp(F, S \cup {y}) = F[y] + SumUp(F, S)
<1> DEFINE T == S \cup {y}
           f == [x \in S |-> F[x]]
           g == [x \in T |-> F[x]]
<1>1. IsFiniteSet(T)
    BY FS_AddElement
<1>2. /\ y \in T /\ T \ {y} = S /\ S \subseteq T
      /\ g[y] = F[y] /\ \A x \in T : F[x] \in Nat
      /\ \A x \in S : f[x] = g[x] /\ g[x] \in Nat /\ f[x] \in Nat
      /\ g \in [T -> Int]
    OBVIOUS
<1> HIDE DEF T
<1>3. PICK sum : IsSumOver(T, g, sum) /\ SumUp(F, T) = sum[T]
    BY <1>1, <1>2, SumUpFacts
<1>4. PICK part : IsSumOver(S, f, part) /\ SumUp(F, S) = part[S]
    BY <1>2, SumUpFacts
<1> HIDE DEF f, g
<1>5. sum[T] = g[y] + sum[S]
    <2>1. \A s : s \subseteq T => \A z \in s : sum[s] = g[z] + sum[s \ {z}]
        BY <1>3, SumFacts
    <2>2. sum[T] = g[y] + sum[T \ {y}]
        BY <1>2, <2>1
    <2>3. QED
        BY <1>2, <2>2
<1>6. sum[S] = part[S]
    <2> DEFINE rest == [s \in SUBSET S |-> sum[s]]
    <2>1. IsSumOver(S, f, rest)
        <3>1. f \in [S -> Int]
            BY <1>2 DEF f
        <3>2. ASSUME NEW s \in SUBSET S, s # {}
              PROVE  /\ Chosen(s) \in S /\ s \ {Chosen(s)} \in SUBSET S
                     /\ sum[s] = g[Chosen(s)] + sum[s \ {Chosen(s)}]
            <4>1. Chosen(s) \in s
                BY <3>2 DEF Chosen
            <4>2. s \in SUBSET T
                BY <1>2
            <4>3. sum[s] = g[Chosen(s)] + sum[s \ {Chosen(s)}]
                BY <1>3, <3>2, <4>2 DEF IsSumOver
            <4>4. QED
                BY <4>1, <4>3
        <3>3. sum[{}] = 0
            BY <1>3, SumFacts
        <3>4. \A s \in SUBSET S : rest[s] = IF s = {} THEN 0
                                   ELSE f[Chosen(s)] + rest[s \ {Chosen(s)}]
            BY <1>2, <3>2, <3>3
        <3>5. rest = [s \in SUBSET S |-> rest[s]]
            OBVIOUS
        <3> HIDE DEF rest
        <3>6. rest = [s \in SUBSET S |->
                        IF s = {} THEN 0 ELSE f[Chosen(s)] + rest[s \ {Chosen(s)}]]
            BY <3>4, <3>5
        <3>7. QED
            BY <3>1, <3>6 DEF IsSumOver
    <2>2. rest[S] = sum[S]
        OBVIOUS
    <2> HIDE DEF rest
    <2>3. rest[S] <= part[S] /\ part[S] <= rest[S]
        <3>1. \A x \in S : f[x] \in Nat /\ f[x] <= f[x]
            BY <1>2
        <3>2. QED
            BY <1>4, <2>1, <3>1, SumsOrdered
    <2>4. rest[S] \in Int /\ part[S] \in Int
        BY <1>4, <2>1, SumFacts
    <2>5. QED
        BY <2>2, <2>3, <2>4
<1>7. QED
    BY <1>2, <1>3, <1>4, <1>5, <1>6 DEF T

-----------------------------------------------------------------------------
(* The first n terms add up to d, by way of their partial sums p.          *)
AddUpTo(terms, n, d) ==
    \E p \in [0..n -> Int] :
        /\ p[0] = 0 /\ p[n] = d
        /\ \A i \in 1..n : terms[i] \in Int /\ p[i] = p[i - 1] + terms[i]

LEMMA NoTerms ==
    ASSUME NEW terms
    PROVE  AddUpTo(terms, 0, 0)
<1> DEFINE none == [i \in 0..0 |-> 0]
<1>1. none \in [0..0 -> Int] /\ none[0] = 0 /\ 1..0 = {}
    OBVIOUS
<1> HIDE DEF none
<1>2. QED
    BY <1>1 DEF AddUpTo

LEMMA OneMoreTerm ==
    ASSUME NEW terms, NEW n \in Nat, NEW d, AddUpTo(terms, n, d),
           terms[n + 1] \in Int
    PROVE  AddUpTo(terms, n + 1, d + terms[n + 1])
<1>1. PICK p \in [0..n -> Int] :
          /\ p[0] = 0 /\ p[n] = d
          /\ \A i \in 1..n : terms[i] \in Int /\ p[i] = p[i - 1] + terms[i]
    BY DEF AddUpTo
<1> DEFINE c == terms[n + 1]
           r == [i \in 0..n + 1 |-> IF i = n + 1 THEN d + c ELSE p[i]]
<1>2. d \in Int
    BY <1>1
<1>3. r \in [0..n + 1 -> Int]
    <2>1. \A i \in 0..n + 1 : i # n + 1 => i \in 0..n
        OBVIOUS
    <2>2. d + c \in Int
        BY <1>2
    <2>3. QED
        BY <1>1, <2>1, <2>2
<1>4. \A i \in 0..n : r[i] = p[i]
    OBVIOUS
<1>5. r[n + 1] = d + c
    OBVIOUS
<1> HIDE DEF r
<1>6. ASSUME NEW i \in 1..n + 1
      PROVE  terms[i] \in Int /\ r[i] = r[i - 1] + terms[i]
    <2>1. CASE i = n + 1
        <3>1. i - 1 = n /\ n \in 0..n
            BY <2>1
        <3>2. r[i - 1] = d
            BY <1>1, <1>4, <3>1
        <3>3. QED
            BY <1>5, <2>1, <3>2
    <2>2. CASE i # n + 1
        <3>1. i \in 1..n /\ i \in 0..n /\ i - 1 \in 0..n
            BY <2>2
        <3>2. r[i] = p[i] /\ r[i - 1] = p[i - 1]
            BY <1>4, <3>1
        <3>3. terms[i] \in Int /\ p[i] = p[i - 1] + terms[i]
            BY <1>1, <3>1
        <3>4. QED
            BY <3>2, <3>3
    <2>3. QED
        BY <2>1, <2>2
<1>7. r[0] = 0
    BY <1>1, <1>4
<1>8. QED
    BY <1>3, <1>5, <1>6, <1>7 DEF AddUpTo

(* The first n members of q are those of S, each of them once.             *)
NamesOnce(q, n, S) ==
    /\ q \in [1..n -> S]
    /\ \A i, j \in 1..n : q[i] = q[j] => i = j
    /\ \A y \in S : \E i \in 1..n : q[i] = y

(* What they add up to does not depend on their order: it is the sum over  *)
(* the set of them.                                                        *)
LEMMA SumOfTerms ==
    ASSUME NEW S, NEW F, NEW sum, IsSumOver(S, F, sum),
           NEW n \in Nat, NEW q, NamesOnce(q, n, S),
           NEW terms, \A i \in 1..n : terms[i] = F[q[i]],
           NEW d, AddUpTo(terms, n, d)
    PROVE  sum[S] = d
<1>0. PICK p \in [0..n -> Int] :
          /\ p[0] = 0 /\ p[n] = d
          /\ \A i \in 1..n : p[i] = p[i - 1] + F[q[i]]
    BY DEF AddUpTo
<1> q \in [1..n -> S] /\ \A i, j \in 1..n : q[i] = q[j] => i = j
    BY DEF NamesOnce
<1> DEFINE First(k) == {q[i] : i \in 1..k}
           G == {k \in Nat : k <= n => sum[First(k)] = p[k]}
<1>1. /\ sum[{}] = 0
      /\ \A s : s \subseteq S => /\ sum[s] \in Int
                                /\ \A y \in s : sum[s] = F[y] + sum[s \ {y}]
    BY SumFacts
<1> F \in [S -> Int]
    BY DEF IsSumOver
<1>2. 0 \in G
    <2>1. First(0) = {}
        OBVIOUS
    <2>2. QED
        BY <1>0, <1>1, <2>1
<1>3. ASSUME NEW k \in Nat, k \in G PROVE k + 1 \in G
    <2>1. SUFFICES ASSUME k + 1 <= n PROVE sum[First(k + 1)] = p[k + 1]
        OBVIOUS
    <2>2. /\ First(k + 1) \subseteq S
          /\ q[k + 1] \in First(k + 1)
          /\ First(k + 1) \ {q[k + 1]} = First(k)
        <3>1. /\ k + 1 \in 1..n
              /\ \A i \in 1..k + 1 : i \in 1..n
              /\ 1..k + 1 = 1..k \cup {k + 1}
              /\ k + 1 \notin 1..k
            BY <2>1
        <3>2. q[k + 1] \notin First(k)
            BY <3>1
        <3>3. First(k + 1) = First(k) \cup {q[k + 1]}
            BY <3>1
        <3>4. First(k + 1) \subseteq S
            BY <3>1
        <3> HIDE DEF First
        <3>5. QED
            BY <3>2, <3>3, <3>4
    <2> HIDE DEF First
    <2>3. sum[First(k + 1)] = F[q[k + 1]] + sum[First(k)]
        <3> DEFINE z == First(k + 1)
                   y == q[k + 1]
        <3>1. z \subseteq S /\ y \in z /\ z \ {y} = First(k)
            BY <2>2
        <3> HIDE DEF z, y
        <3>2. sum[z] = F[y] + sum[z \ {y}]
            BY <1>1, <3>1, Zenon
        <3>3. QED
            BY <3>1, <3>2 DEF z, y
    <2>4. sum[First(k)] = p[k] /\ p[k + 1] = p[k] + F[q[k + 1]]
        <3>1. k + 1 \in 1..n /\ (k + 1) - 1 = k /\ k <= n
            BY <2>1
        <3>2. p[k + 1] = p[(k + 1) - 1] + F[q[k + 1]]
            BY <1>0, <3>1
        <3>3. QED
            BY <1>3, <3>1, <3>2
    <2>5. sum[First(k)] \in Int /\ F[q[k + 1]] \in Int
        <3>1. First(k) \subseteq S /\ q[k + 1] \in S
            BY <2>2
        <3>2. QED
            BY <1>1, <3>1
    <2>6. QED
        BY <2>3, <2>4, <2>5
<1>4. n \in G
    <2> HIDE DEF G
    <2>1. QED
        BY <1>2, <1>3, Induction
<1>5. S = First(n)
    BY DEF NamesOnce
<1>6. sum[First(n)] = d
    BY <1>0, <1>4
<1>7. QED
    BY <1>5, <1>6
=============================================================================

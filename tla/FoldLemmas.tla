----------------------------- MODULE FoldLemmas -----------------------------
(***************************************************************************)
(* What FoldLeft makes of a sequence, by induction on its length.  The     *)
(* operator that is folded and what is kept of the accumulator are         *)
(* constants: a module about folds takes an instance for each of them.     *)
(* So that an instance brings no more than that, the library's definition  *)
(* of the fold is repeated, and induction is a hypothesis of the lemmas.   *)
(***************************************************************************)
EXTENDS Integers, TLAPS

CONSTANTS
    Op(_, _, _),    \* one step: what it depends on, accumulator, element
    Good(_, _, _)   \* of the accumulator, after a number of elements

(* FoldLeft(LAMBDA acc, x : Op(c, acc, x), base, seq).                     *)
Max(s) == CHOOSE x \in s : \A y \in s : x >= y
Folded(c, base, seq) ==
    LET iter[s \in SUBSET DOMAIN seq] ==
            IF s = {} THEN base ELSE Op(c, iter[s \ {Max(s)}], seq[Max(s)])
    IN  iter[DOMAIN seq]

(* The recursion that FoldLeft is defined by.                              *)
Stepped(c, base, seq, iter, s) ==
    IF s = {} THEN base ELSE Op(c, iter[s \ {Max(s)}], seq[Max(s)])

IsFold(c, base, seq, iter, n) ==
    iter = [s \in SUBSET (1..n) |-> Stepped(c, base, seq, iter, s)]

LEMMA LastIsMax ==
    ASSUME NEW k \in Nat, NEW s \in SUBSET (1..k + 1), k + 1 \in s
    PROVE  Max(s) = k + 1
<1>1. \A y \in s : k + 1 >= y /\ y \in Int
    OBVIOUS
<1>2. Max(s) \in s /\ \A y \in s : Max(s) >= y
    <2>1. \E x \in s : \A y \in s : x >= y
        BY <1>1
    <2>2. QED
        BY <2>1, Zenon DEF Max
<1>3. k + 1 >= Max(s) /\ Max(s) >= k + 1 /\ Max(s) \in Int
    BY <1>1, <1>2
<1>4. \A m \in Int : k + 1 >= m /\ m >= k + 1 => m = k + 1
    OBVIOUS
<1>5. QED
    BY <1>3, <1>4, Zenon

(* There is such a function: it is defined for one more element each time. *)
LEMMA FoldExists ==
    ASSUME \A G \in SUBSET Nat :
               0 \in G /\ (\A k \in Nat : k \in G => k + 1 \in G) => G = Nat,
           NEW c, NEW base, NEW seq, NEW n \in Nat
    PROVE  \E iter : IsFold(c, base, seq, iter, n)
<1> DEFINE G == {k \in Nat : \E iter : IsFold(c, base, seq, iter, k)}
<1>1. 0 \in G
    <2> DEFINE none == [s \in SUBSET (1..0) |-> base]
    <2>1. \A s \in SUBSET (1..0) : Stepped(c, base, seq, none, s) = base
        BY DEF Stepped
    <2>2. IsFold(c, base, seq, none, 0)
        BY <2>1 DEF IsFold
    <2> HIDE DEF none
    <2>3. QED
        BY <2>2
<1>2. ASSUME NEW k \in Nat, k \in G PROVE k + 1 \in G
    <2>1. PICK iter : IsFold(c, base, seq, iter, k)
        BY <1>2
    <2> DEFINE more == [s \in SUBSET (1..k + 1) |->
                           IF k + 1 \in s THEN Op(c, iter[s \ {k + 1}], seq[k + 1])
                           ELSE iter[s]]
    <2>2. ASSUME NEW s \in SUBSET (1..k + 1)
          PROVE  more[s] = Stepped(c, base, seq, more, s)
        <3>1. CASE k + 1 \in s
            <4>1. /\ Max(s) = k + 1
                  /\ s # {}
                  /\ s \ {k + 1} \in SUBSET (1..k + 1)
                  /\ k + 1 \notin s \ {k + 1}
                BY <3>1, LastIsMax
            <4>2. more[s \ {k + 1}] = iter[s \ {k + 1}]
                BY <4>1
            <4>3. more[s] = Op(c, iter[s \ {k + 1}], seq[k + 1])
                BY <3>1
            <4> HIDE DEF more
            <4>4. QED
                BY <4>1, <4>2, <4>3 DEF Stepped
        <3>2. CASE k + 1 \notin s
            <4>1. s \in SUBSET (1..k)
                BY <3>2
            <4>2. /\ s \ {Max(s)} \in SUBSET (1..k + 1)
                  /\ k + 1 \notin s \ {Max(s)}
                BY <3>2
            <4>3. more[s \ {Max(s)}] = iter[s \ {Max(s)}]
                BY <4>2
            <4>4. more[s] = iter[s]
                BY <3>2
            <4> HIDE DEF more
            <4>5. iter[s] = Stepped(c, base, seq, iter, s)
                BY <2>1, <4>1 DEF IsFold
            <4>6. QED
                BY <4>3, <4>4, <4>5 DEF Stepped
        <3>3. QED
            BY <3>1, <3>2
    <2>3. more = [s \in SUBSET (1..k + 1) |-> more[s]]
        OBVIOUS
    <2> HIDE DEF more
    <2>4. IsFold(c, base, seq, more, k + 1)
        BY <2>2, <2>3 DEF IsFold
    <2>5. QED
        BY <2>4
<1>3. n \in G
    <2>0. G \in SUBSET Nat
        OBVIOUS
    <2> HIDE DEF G
    <2>1. QED
        BY <1>1, <1>2, <2>0
<1>4. QED
    BY <1>3

(* What holds of the base, and after each element when it held before it,  *)
(* holds of the fold.                                                      *)
THEOREM FoldKeeps ==
    ASSUME \A G \in SUBSET Nat :
               0 \in G /\ (\A k \in Nat : k \in G => k + 1 \in G) => G = Nat,
           NEW c, NEW base, NEW seq, NEW n \in Nat, DOMAIN seq = 1..n,
           Good(c, 0, base),
           \A i \in 1..n : \A acc :
               Good(c, i - 1, acc) => Good(c, i, Op(c, acc, seq[i]))
    PROVE  Good(c, n, Folded(c, base, seq))
<1> DEFINE iter == CHOOSE f : IsFold(c, base, seq, f, n)
<1>1. Folded(c, base, seq) = iter[1..n]
    BY DEF Folded, IsFold, Stepped
<1>2. IsFold(c, base, seq, iter, n)
    BY FoldExists
<1> HIDE DEF iter
<1> DEFINE G == {k \in Nat : k <= n => Good(c, k, iter[1..k])}
<1>3. 0 \in G
    <2>1. iter[{}] = base
        BY <1>2 DEF IsFold, Stepped
    <2>2. 1..0 = {}
        OBVIOUS
    <2>3. QED
        BY <2>1, <2>2
<1>4. ASSUME NEW k \in Nat, k \in G PROVE k + 1 \in G
    <2>1. SUFFICES ASSUME k + 1 <= n PROVE Good(c, k + 1, iter[1..k + 1])
        OBVIOUS
    <2>2. /\ Max(1..k + 1) = k + 1
          /\ 1..k + 1 # {}
          /\ (1..k + 1) \ {k + 1} = 1..k
          /\ 1..k + 1 \in SUBSET (1..n)
        BY <2>1, LastIsMax
    <2>3. iter[1..k + 1] = Op(c, iter[1..k], seq[k + 1])
        <3> DEFINE s == 1..k + 1
        <3>1. s \in SUBSET (1..n)
            BY <2>2
        <3>2. iter[s] = Stepped(c, base, seq, iter, s)
            BY <1>2, <3>1 DEF IsFold
        <3>3. QED
            BY <2>2, <3>2 DEF Stepped
    <2>4. Good(c, k, iter[1..k]) /\ k + 1 \in 1..n /\ (k + 1) - 1 = k
        BY <1>4, <2>1
    <2>5. QED
        BY <2>3, <2>4
<1>5. n \in G
    <2>0. G \in SUBSET Nat
        OBVIOUS
    <2> HIDE DEF G
    <2>1. QED
        BY <1>3, <1>4, <2>0
<1>6. QED
    BY <1>1, <1>5
=============================================================================

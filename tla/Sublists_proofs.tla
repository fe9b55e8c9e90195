---------------------------- MODULE Sublists_proofs ----------------------------
(***************************************************************************)
(* What Within leaves out and what it keeps, for lists of any length, and  *)
(* the induction over numbers that needs.                                  *)
(***************************************************************************)
EXTENDS Sublists, Integers, SequencesExt, WellFoundedInduction, TLAPS

-----------------------------------------------------------------------------
(* Induction over the natural numbers, for a set of numbers: the theorem   *)
(* of the library is about an operator.                                    *)
LEMMA LessIsWellFounded ==
  \E R : IsWellFoundedOn(R, Nat) /\ \A x, y \in Nat : y < x => <<y, x>> \in R
<1> DEFINE R == OpToRel(<, Nat)
<1>1. IsWellFoundedOn(R, Nat)
  BY NatLessThanWellFounded
<1>2. \A x, y \in Nat : y < x => <<y, x>> \in R
  BY DEF R, OpToRel
<1> HIDE DEF R
<1> QED
  BY <1>1, <1>2, Zenon

LEMMA LeastNumber ==
  ASSUME NEW T \in SUBSET Nat, T # {}
  PROVE  \E x \in T : \A y \in T : x <= y
<1>1. PICK R : IsWellFoundedOn(R, Nat) /\ \A x, y \in Nat : y < x => <<y, x>> \in R
  BY LessIsWellFounded
<1>2. \E x \in T : \A y \in T : ~(<<y, x>> \in R)
  BY <1>1, WFMin
<1>3. \A x, y \in T : ~(<<y, x>> \in R) => x <= y
  BY <1>1
<1> QED
  BY <1>2, <1>3

LEMMA Induction ==
  ASSUME NEW S, 0 \in S, \A n \in Nat : n \in S => n + 1 \in S
  PROVE  \A n \in Nat : n \in S
<1> DEFINE T == Nat \ S
<1> SUFFICES ASSUME T # {} PROVE FALSE
  OBVIOUS
<1>1. PICK x \in T : \A y \in T : x <= y
  BY LeastNumber
<1>2. x # 0 /\ x \in Nat /\ x - 1 \in Nat
  BY <1>1
<1>3. x - 1 \notin T
  BY <1>1, <1>2
<1>4. x - 1 + 1 = x
  BY <1>2
<1> QED
  BY <1>1, <1>2, <1>3, <1>4

-----------------------------------------------------------------------------
(* The loop of Within computes what it says.                               *)
IsKept(kept, s, S, m) ==
  kept = [n \in 0 .. m |->
    IF n = 0 THEN <<>> ELSE IF s[n] \in S THEN Append(kept[n - 1], s[n]) ELSE kept[n - 1]]

KeptBy(s, S, m) == CHOOSE kept : IsKept(kept, s, S, m)

LEMMA WithinIsLoop ==
  ASSUME NEW s, NEW S
  PROVE  Within(s, S) = KeptBy(s, S, Len(s))[Len(s)]
BY DEF Within, KeptBy, IsKept

LEMMA WithinStarts ==
  ASSUME NEW s, NEW S, NEW m \in Nat
  PROVE  \E kept : IsKept(kept, s, S, m)
<1> DEFINE N == {k \in Nat : \E kept : IsKept(kept, s, S, k)}
<1>1. 0 \in N
  <2> DEFINE kept == [n \in 0 .. 0 |-> <<>>]
  <2>1. IsKept(kept, s, S, 0)
    BY DEF IsKept
  <2> HIDE DEF kept
  <2> QED
    BY <2>1
<1>2. ASSUME NEW k \in Nat, k \in N PROVE k + 1 \in N
  <2>1. PICK old : IsKept(old, s, S, k)
    BY <1>2
  <2> DEFINE new == [n \in 0 .. k + 1 |-> IF n <= k THEN old[n]
                       ELSE IF s[n] \in S THEN Append(old[n - 1], s[n]) ELSE old[n - 1]]
             body(f) == [n \in 0 .. k + 1 |->
                IF n = 0 THEN <<>> ELSE IF s[n] \in S THEN Append(f[n - 1], s[n]) ELSE f[n - 1]]
  <2>2. ASSUME NEW n \in 0 .. k + 1 PROVE new[n] = body(new)[n]
    <3>1. CASE n = k + 1
      <4>1. new[n] = IF s[n] \in S THEN Append(old[n - 1], s[n]) ELSE old[n - 1]
        BY <3>1
      <4>2. n # 0 /\ n - 1 \in 0 .. k + 1 /\ n - 1 <= k
        BY <3>1
      <4>3. new[n - 1] = old[n - 1]
        BY <4>2
      <4> QED
        BY <4>1, <4>2, <4>3
    <3>2. CASE n # k + 1 /\ n # 0
      <4>1. n \in 0 .. k /\ n - 1 \in 0 .. k
        BY <3>2
      <4>2. new[n] = old[n] /\ new[n - 1] = old[n - 1]
        BY <4>1
      <4>3. old[n] = IF s[n] \in S THEN Append(old[n - 1], s[n]) ELSE old[n - 1]
        BY <2>1, <4>1, <3>2 DEF IsKept
      <4> QED
        BY <4>2, <4>3, <3>2
    <3>3. CASE n = 0
      <4>1. old[0] = <<>>
        BY <2>1 DEF IsKept
      <4> QED
        BY <4>1, <3>3
    <3> QED
      BY <3>1, <3>2, <3>3
  <2>3. new = body(new)
    BY <2>2
  <2>4. IsKept(new, s, S, k + 1)
    BY <2>3 DEF IsKept
  <2> HIDE DEF new
  <2> QED
    BY <2>4
<1> HIDE DEF N
<1>3. m \in N
  BY <1>1, <1>2, Induction
<1> QED
  BY <1>3 DEF N

LEMMA KeptByIsLoop ==
  ASSUME NEW s, NEW S, NEW m \in Nat
  PROVE  IsKept(KeptBy(s, S, m), s, S, m)
BY WithinStarts DEF KeptBy

LEMMA WithinSteps ==
  ASSUME NEW s, NEW S, Len(s) \in Nat
  PROVE  \E kept :
           /\ Within(s, S) = kept[Len(s)]
           /\ kept[0] = <<>>
           /\ \A n \in Nat : n < Len(s) =>
                kept[n + 1] = IF s[n + 1] \in S THEN Append(kept[n], s[n + 1]) ELSE kept[n]
<1>1. PICK m \in Nat : m = Len(s)
  OBVIOUS
<1>2. PICK kept : kept = KeptBy(s, S, m)
  OBVIOUS
<1>3. kept = [n \in 0 .. m |->
        IF n = 0 THEN <<>> ELSE IF s[n] \in S THEN Append(kept[n - 1], s[n]) ELSE kept[n - 1]]
  BY <1>2, KeptByIsLoop DEF IsKept
<1>4. Within(s, S) = kept[m]
  BY <1>1, <1>2, WithinIsLoop
<1>5. kept[0] = <<>>
  BY <1>3
<1>6. ASSUME NEW n \in Nat, n < m
      PROVE  kept[n + 1] = IF s[n + 1] \in S THEN Append(kept[n], s[n + 1]) ELSE kept[n]
  <2>1. PICK k \in 0 .. m : k = n + 1 /\ k # 0 /\ k - 1 = n
    BY <1>6
  <2>2. kept[k] = IF s[k] \in S THEN Append(kept[k - 1], s[k]) ELSE kept[k - 1]
    BY <1>3, <2>1
  <2> QED
    BY <2>1, <2>2
<1> QED
  BY <1>1, <1>4, <1>5, <1>6

(* Appending adds one member.                                              *)
LEMMA MemberAppended ==
  ASSUME NEW T, NEW q \in Seq(T), NEW e \in T, NEW x
  PROVE  x \in ToSet(Append(q, e)) <=> x \in ToSet(q) \/ x = e
<1>1. PICK a : a = Append(q, e)
  OBVIOUS
<1>2. a \in Seq(T) /\ Len(q) \in Nat /\ Len(a) = Len(q) + 1
  BY <1>1
<1>3. a[Len(q) + 1] = e /\ \A i \in 1 .. Len(q) : a[i] = q[i]
  BY <1>1
<1>4. \A y : y \in ToSet(q) <=> \E i \in 1 .. Len(q) : y = q[i]
  BY DEF ToSet
<1>5. \A y : y \in ToSet(a) <=> \E i \in 1 .. Len(a) : y = a[i]
  BY <1>2 DEF ToSet
<1>6. ASSUME x \in ToSet(a) PROVE x \in ToSet(q) \/ x = e
  <2>1. PICK i \in 1 .. Len(a) : x = a[i]
    BY <1>5, <1>6
  <2>2. i \in 1 .. Len(q) \/ i = Len(q) + 1
    BY <1>2, <2>1
  <2> QED
    BY <1>3, <1>4, <2>1, <2>2
<1>7. ASSUME x \in ToSet(q) PROVE x \in ToSet(a)
  <2>1. PICK i \in 1 .. Len(q) : x = q[i]
    BY <1>4, <1>7
  <2>2. i \in 1 .. Len(a) /\ x = a[i]
    BY <1>2, <1>3, <2>1
  <2> QED
    BY <1>5, <2>2
<1>8. e \in ToSet(a)
  <2>1. Len(q) + 1 \in 1 .. Len(a)
    BY <1>2
  <2> QED
    BY <1>3, <1>5, <2>1
<1> QED
  BY <1>1, <1>6, <1>7, <1>8

(* Exactly the members of s that are in S are kept.                        *)
LEMMA WithinKeeps ==
  ASSUME NEW T, NEW s \in Seq(T), NEW S
  PROVE  /\ Within(s, S) \in Seq(T \cap S)
         /\ ToSet(Within(s, S)) = ToSet(s) \cap S
         /\ Len(Within(s, S)) <= Len(s)
<1>0. Len(s) \in Nat
  OBVIOUS
<1>1. PICK kept :
        /\ Within(s, S) = kept[Len(s)]
        /\ kept[0] = <<>>
        /\ \A n \in Nat : n < Len(s) =>
             kept[n + 1] = IF s[n + 1] \in S THEN Append(kept[n], s[n + 1]) ELSE kept[n]
  BY <1>0, WithinSteps
<1> DEFINE Good(n) == /\ kept[n] \in Seq(T \cap S)
                      /\ \A x : x \in ToSet(kept[n]) <=> x \in S /\ \E i \in 1 .. n : x = s[i]
                      /\ Len(kept[n]) <= n
           N == {n \in Nat : n <= Len(s) => Good(n)}
<1>2. 0 \in N
  <2>1. kept[0] \in Seq(T \cap S) /\ Len(kept[0]) = 0 /\ ToSet(kept[0]) = {}
    BY <1>1 DEF ToSet
  <2> QED
    BY <2>1
<1>3. ASSUME NEW n \in Nat, n \in N PROVE n + 1 \in N
  <2> SUFFICES ASSUME n + 1 <= Len(s) PROVE Good(n + 1)
    OBVIOUS
  <2>1. Good(n) /\ n + 1 \in 1 .. Len(s) /\ n < Len(s) /\ s[n + 1] \in T
    BY <1>0, <1>3
  <2>2. CASE s[n + 1] \in S
    <3>1. kept[n + 1] = Append(kept[n], s[n + 1])
      BY <1>1, <2>1, <2>2
    <3>2. s[n + 1] \in T \cap S /\ kept[n] \in Seq(T \cap S)
      BY <2>1, <2>2
    <3>3. kept[n + 1] \in Seq(T \cap S) /\ Len(kept[n + 1]) = Len(kept[n]) + 1
      BY <3>1, <3>2
    <3>4. ASSUME NEW x PROVE x \in ToSet(kept[n + 1]) <=> x \in ToSet(kept[n]) \/ x = s[n + 1]
      BY <3>1, <3>2, MemberAppended
    <3>5. ASSUME NEW x
          PROVE  (\E i \in 1 .. n + 1 : x = s[i]) <=> (\E i \in 1 .. n : x = s[i]) \/ x = s[n + 1]
      OBVIOUS
    <3>6. \A x : x \in ToSet(kept[n]) <=> x \in S /\ \E i \in 1 .. n : x = s[i]
      BY <2>1
    <3>7. \A x : x \in ToSet(kept[n + 1]) <=> x \in S /\ \E i \in 1 .. n + 1 : x = s[i]
      BY <3>4, <3>5, <3>6, <2>2
    <3> QED
      BY <3>3, <3>7, <2>1
  <2>3. CASE s[n + 1] \notin S
    <3>1. kept[n + 1] = kept[n]
      BY <1>1, <2>1, <2>3
    <3>2. ASSUME NEW x \in S
          PROVE  (\E i \in 1 .. n + 1 : x = s[i]) <=> (\E i \in 1 .. n : x = s[i])
      <4>1. ASSUME NEW i \in 1 .. n + 1, x = s[i] PROVE i \in 1 .. n
        BY <4>1, <2>3
      <4>2. 1 .. n \subseteq 1 .. n + 1
        OBVIOUS
      <4> QED
        BY <4>1, <4>2
    <3>3. \A x : x \in ToSet(kept[n]) <=> x \in S /\ \E i \in 1 .. n : x = s[i]
      BY <2>1
    <3>4. \A x : x \in ToSet(kept[n + 1]) <=> x \in S /\ \E i \in 1 .. n + 1 : x = s[i]
      BY <3>1, <3>2, <3>3
    <3> QED
      BY <3>1, <3>4, <2>1
  <2> QED
    BY <2>2, <2>3
<1> HIDE DEF N
<1>4. Len(s) \in N
  BY <1>0, <1>2, <1>3, Induction
<1>5. Good(Len(s))
  BY <1>0, <1>4 DEF N
<1>6. \A x : x \in ToSet(s) <=> \E i \in 1 .. Len(s) : x = s[i]
  BY DEF ToSet
<1> QED
  BY <1>1, <1>5, <1>6

(* Nothing is left out of a list that has nothing else.                    *)
LEMMA WithinKeepsAll ==
  ASSUME NEW T, NEW s \in Seq(T), NEW S, ToSet(s) \subseteq S
  PROVE  Within(s, S) = s
<1>0. Len(s) \in Nat
  OBVIOUS
<1>1. PICK kept :
        /\ Within(s, S) = kept[Len(s)]
        /\ kept[0] = <<>>
        /\ \A n \in Nat : n < Len(s) =>
             kept[n + 1] = IF s[n + 1] \in S THEN Append(kept[n], s[n + 1]) ELSE kept[n]
  BY <1>0, WithinSteps
<1> DEFINE Good(n) == /\ kept[n] \in Seq(T)
                      /\ Len(kept[n]) = n
                      /\ \A i \in 1 .. n : kept[n][i] = s[i]
           N == {n \in Nat : n <= Len(s) => Good(n)}
<1>2. 0 \in N
  <2>1. kept[0] \in Seq(T) /\ Len(kept[0]) = 0
    BY <1>1
  <2> QED
    BY <2>1
<1>3. ASSUME NEW n \in Nat, n \in N PROVE n + 1 \in N
  <2> SUFFICES ASSUME n + 1 <= Len(s) PROVE Good(n + 1)
    OBVIOUS
  <2>1. Good(n) /\ n + 1 \in 1 .. Len(s) /\ n < Len(s) /\ s[n + 1] \in T
    BY <1>0, <1>3
  <2>2. s[n + 1] \in S
    BY <2>1 DEF ToSet
  <2>3. kept[n + 1] = Append(kept[n], s[n + 1])
    BY <1>1, <2>1, <2>2
  <2>4. kept[n] \in Seq(T) /\ Len(kept[n]) = n /\ \A i \in 1 .. n : kept[n][i] = s[i]
    BY <2>1
  <2>5. kept[n + 1] \in Seq(T) /\ Len(kept[n + 1]) = n + 1
    BY <2>1, <2>3, <2>4
  <2>6. ASSUME NEW i \in 1 .. n + 1 PROVE kept[n + 1][i] = s[i]
    BY <2>1, <2>3, <2>4
  <2> QED
    BY <2>5, <2>6
<1> HIDE DEF N
<1>4. Len(s) \in N
  BY <1>0, <1>2, <1>3, Induction
<1>5. Good(Len(s))
  BY <1>0, <1>4 DEF N
<1> QED
  BY <1>1, <1>5

LEMMA WithinSubset ==
  ASSUME NEW T, NEW s \in Seq(T), NEW S
  PROVE  Within(s, S) \in Seq(T)
<1>1. Within(s, S) \in Seq(T \cap S)
  BY WithinKeeps
<1> QED
  BY <1>1

(* No member comes twice in what is kept of a list in which none does.     *)
LEMMA AppendOnce ==
  ASSUME NEW T, NEW q \in Seq(T), NEW e \in T, IsInjective(q), e \notin ToSet(q)
  PROVE  IsInjective(Append(q, e))
<1>1. PICK a : a = Append(q, e)
  OBVIOUS
<1>2. PICK l \in Nat : l = Len(q)
  OBVIOUS
<1>3. DOMAIN a = 1 .. l + 1 /\ a[l + 1] = e /\ \A i \in 1 .. l : a[i] = q[i]
  BY <1>1, <1>2
<1>4. \A i \in 1 .. l : q[i] # e
  BY <1>2 DEF ToSet
<1>5. \A i, j \in 1 .. l : q[i] = q[j] => i = j
  BY <1>2 DEF IsInjective
<1>6. ASSUME NEW i \in 1 .. l + 1, NEW j \in 1 .. l + 1, a[i] = a[j] PROVE i = j
  BY <1>3, <1>4, <1>5, <1>6
<1>7. IsInjective(a)
  BY <1>3, <1>6 DEF IsInjective
<1> QED
  BY <1>1, <1>7, Zenon

LEMMA WithinOnce ==
  ASSUME NEW T, NEW s \in Seq(T), NEW S, IsInjective(s)
  PROVE  IsInjective(Within(s, S))
<1>0. Len(s) \in Nat
  OBVIOUS
<1>1. PICK kept :
        /\ Within(s, S) = kept[Len(s)]
        /\ kept[0] = <<>>
        /\ \A n \in Nat : n < Len(s) =>
             kept[n + 1] = IF s[n + 1] \in S THEN Append(kept[n], s[n + 1]) ELSE kept[n]
  BY <1>0, WithinSteps
<1> DEFINE Good(n) == /\ kept[n] \in Seq(T) /\ IsInjective(kept[n])
                      /\ \A x \in ToSet(kept[n]) : \E i \in 1 .. n : x = s[i]
           N == {n \in Nat : n <= Len(s) => Good(n)}
<1>2. 0 \in N
  <2>1. kept[0] \in Seq(T) /\ IsInjective(kept[0]) /\ ToSet(kept[0]) = {}
    BY <1>1 DEF ToSet, IsInjective
  <2> QED
    BY <2>1
<1>3. ASSUME NEW n \in Nat, n \in N PROVE n + 1 \in N
  <2> SUFFICES ASSUME n + 1 <= Len(s) PROVE Good(n + 1)
    OBVIOUS
  <2>1. Good(n) /\ n + 1 \in 1 .. Len(s) /\ n < Len(s) /\ s[n + 1] \in T
    BY <1>0, <1>3
  <2>2. PICK q \in Seq(T) : q = kept[n]
    BY <2>1
  <2>3. PICK e \in T : e = s[n + 1]
    BY <2>1
  <2>4. CASE e \in S
    <3>1. kept[n + 1] = Append(q, e)
      BY <1>1, <2>1, <2>2, <2>3, <2>4
    <3>2. e \notin ToSet(q)
      <4> SUFFICES ASSUME e \in ToSet(q) PROVE FALSE
        OBVIOUS
      <4>1. PICK i \in 1 .. n : e = s[i]
        BY <2>1, <2>2
      <4>2. i \in DOMAIN s /\ n + 1 \in DOMAIN s /\ i # n + 1
        BY <1>0, <2>1
      <4> QED
        BY <2>3, <4>1, <4>2 DEF IsInjective
    <3>3. IsInjective(kept[n + 1])
      <4>1. IsInjective(q)
        BY <2>1, <2>2, Zenon
      <4>2. IsInjective(Append(q, e))
        BY <3>2, <4>1, AppendOnce, Zenon
      <4> QED
        BY <3>1, <4>2, Zenon
    <3>4. \A x : x \in ToSet(kept[n + 1]) <=> x \in ToSet(q) \/ x = e
      BY <3>1, MemberAppended
    <3>5. \A x \in ToSet(kept[n + 1]) : \E i \in 1 .. n + 1 : x = s[i]
      BY <2>1, <2>2, <2>3, <3>4
    <3>6. kept[n + 1] \in Seq(T)
      BY <3>1
    <3> QED
      BY <3>3, <3>5, <3>6
  <2>5. CASE e \notin S
    <3>1. kept[n + 1] = kept[n]
      BY <1>1, <2>1, <2>3, <2>5
    <3>2. 1 .. n \subseteq 1 .. n + 1
      OBVIOUS
    <3> QED
      BY <2>1, <3>1, <3>2
  <2> QED
    BY <2>4, <2>5
<1> HIDE DEF N
<1>4. Len(s) \in N
  BY <1>0, <1>2, <1>3, Induction
<1> QED
  BY <1>0, <1>1, <1>4 DEF N
===============================================================================

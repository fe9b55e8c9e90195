---------------------------- MODULE Bwmon_proofs ----------------------------
(***************************************************************************)
(* For every ring size H, every width of the counters and any number of    *)
(* devices, the rings of Bwmon are the charts of BwmonChart.               *)
(***************************************************************************)
EXTENDS Bwmon, TLAPS

-----------------------------------------------------------------------------
(* Remainders.                                                             *)

LEMMA ModRange ==
  ASSUME NEW m \in Int, NEW n \in Nat \ {0}
  PROVE  m % n \in 0 .. n - 1
  BY SMT

LEMMA ModSmall ==
  ASSUME NEW n \in Nat \ {0}, NEW r \in 0 .. n - 1
  PROVE  r % n = r
  BY SMT

LEMMA ModWrap ==
  ASSUME NEW n \in Nat \ {0}, NEW r \in 0 .. n - 1
  PROVE  (r + n) % n = r
  BY SMT

LEMMA DivMod ==
  ASSUME NEW m \in Int, NEW n \in Nat \ {0}
  PROVE  /\ m \div n \in Int
         /\ m = n * (m \div n) + (m % n)
  BY SMT

LEMMA ModUnique ==
  ASSUME NEW n \in Nat \ {0}, NEW q \in Int, NEW r \in 0 .. n - 1
  PROVE  (n * q + r) % n = r
  BY SMT

LEMMA Regroup ==
  ASSUME NEW n \in Int, NEW k \in Int, NEW a \in Int, NEW c \in Int, NEW r \in Int
  PROVE  (k * n) * a + (n * c + r) = n * (k * a + c) + r
  BY SMT

(* The cast to 32 bits forgets that the subtraction was done in 64.        *)
LEMMA ModCast ==
  ASSUME NEW m \in Int, NEW n \in Nat \ {0}, NEW k \in Nat \ {0}
  PROVE  (m % (k * n)) % n = m % n
<1> DEFINE w == k * n
           a == m \div w
           b == m % w
           c == b \div n
           r == b % n
<1>1. w \in Nat \ {0}
  BY SMT
<1> HIDE DEF w
<1>2. a \in Int /\ m = w * a + b
  BY <1>1, DivMod
<1>3. b \in Int
  BY <1>1, ModRange
<1> HIDE DEF a, b
<1>4. c \in Int /\ r \in 0 .. n - 1 /\ b = n * c + r
  BY <1>3, DivMod, ModRange
<1> HIDE DEF c, r
<1>5. m = n * (k * a + c) + r
  <2>1. n \in Int /\ k \in Int /\ r \in Int
    BY <1>4, SMT
  <2>2. (k * n) * a + (n * c + r) = n * (k * a + c) + r
    BY <1>2, <1>4, <2>1, Regroup
  <2> QED
    BY <1>2, <1>4, <2>2 DEF w
<1>6. k * a + c \in Int
  BY <1>2, <1>4, SMT
<1>7. m % n = r
  BY <1>4, <1>5, <1>6, ModUnique
<1> QED
  BY <1>7 DEF r, b, w

(* Positions in the ring of n slots, one step after slot p was written.    *)
LEMMA Wrap ==
  ASSUME NEW n \in Nat \ {0}, NEW x \in Int, 0 <= x, x < n + n
  PROVE  /\ x < n => x % n = x
         /\ x >= n => x % n = x - n
<1>1. CASE x < n
  <2>1. x \in 0 .. n - 1
    BY <1>1
  <2> QED
    BY <1>1, <2>1, ModSmall
<1>2. CASE x >= n
  <2>1. x - n \in 0 .. n - 1
    BY <1>2
  <2>2. ((x - n) + n) % n = x - n
    BY <2>1, ModWrap
  <2>3. (x - n) + n = x
    OBVIOUS
  <2> QED
    BY <1>2, <2>2, <2>3
<1> QED
  BY <1>1, <1>2

LEMMA NextPosition ==
  ASSUME NEW n \in Nat \ {0}, NEW p \in 0 .. n - 1, NEW j \in 0 .. n - 1
  PROVE  /\ j = n - 1 => (((p + 1) % n) + j) % n = p
         /\ j # n - 1 => /\ (((p + 1) % n) + j) % n = (p + (j + 1)) % n
                        /\ (p + (j + 1)) % n # p
<1>1. p + 1 < n => (p + 1) % n = p + 1
  <2>1. p + 1 \in Int /\ 0 <= p + 1 /\ p + 1 < n + n
    OBVIOUS
  <2> QED
    BY <2>1, Wrap
<1>2. p + 1 >= n => (p + 1) % n = p + 1 - n
  <2>1. p + 1 \in Int /\ 0 <= p + 1 /\ p + 1 < n + n
    OBVIOUS
  <2> QED
    BY <2>1, Wrap
<1> DEFINE q == (p + 1) % n
<1> HIDE DEF q
<1>3. q \in 0 .. n - 1 /\ (q = p + 1 \/ (q = 0 /\ p = n - 1))
  BY <1>1, <1>2 DEF q
<1> DEFINE u == q + j
<1>4. u \in Int /\ 0 <= u /\ u < n + n
  BY <1>3
<1> HIDE DEF u
<1>5. /\ u < n => u % n = u
      /\ u >= n => u % n = u - n
  BY <1>4, Wrap
<1> DEFINE s == p + (j + 1)
<1>6. s \in Int /\ 0 <= s /\ s < n + n
  OBVIOUS
<1> HIDE DEF s
<1>7. /\ s < n => s % n = s
      /\ s >= n => s % n = s - n
  BY <1>6, Wrap
<1>8. /\ j = n - 1 => u % n = p
      /\ j # n - 1 => u % n = s % n /\ s % n # p
  BY <1>3, <1>5, <1>7 DEF s, u
<1> QED
  BY <1>8 DEF q, u, s

-----------------------------------------------------------------------------
(* A ring nothing was written to holds zeros.                              *)
Blank ==
  \A d \in Dev \ devices : \A t \in Type : \A j \in Slot : values[d][t][j] = 0

LEMMA PutValueType ==
  ASSUME TypeOK, NEW d \in Dev, NEW t \in Type, NEW value \in Counter
  PROVE  PutValue(d, t, value) \in [Slot -> 0 .. U32 - 1]
<1>1. (value - prev[d][t]) % U64 \in Int
  <2>1. value - prev[d][t] \in Int
    BY BwmonAssumption DEF TypeOK, Counter, U64
  <2>2. U64 \in Nat \ {0}
    BY BwmonAssumption DEF U64
  <2> QED
    BY <2>1, <2>2, ModRange
<1>2. ((value - prev[d][t]) % U64) % U32 \in 0 .. U32 - 1
  BY <1>1, BwmonAssumption, ModRange
<1> QED
  BY <1>2 DEF PutValue, TypeOK

(* TypeOK holds for every H: a device that can be dumped has a position    *)
(* inside its ring, and every entry is an increment modulo 2^32.           *)
THEOREM TypeCorrect == Spec => []TypeOK
<1>1. Init => TypeOK
  <2>1. 0 \in Counter
    <3>1. U64 \in Nat \ {0}
      BY BwmonAssumption DEF U64
    <3> QED
      BY <3>1 DEF Counter
  <2>2. 0 \in 0 .. U32 - 1 /\ -1 \notin Slot
    BY BwmonAssumption DEF Slot
  <2> QED
    BY <2>1, <2>2 DEF Init, TypeOK
<1>2. TypeOK /\ [Next]_vars => TypeOK'
  <2> SUFFICES ASSUME TypeOK, [Next]_vars PROVE TypeOK'
    OBVIOUS
  <2>1. CASE UNCHANGED vars
    BY <2>1 DEF vars, TypeOK
  <2>2. CASE Next
    <3> PICK seen \in SUBSET Dev : \E added \in SUBSET (seen \ devices),
             reading \in [seen -> [Type -> Counter]] : Collect(seen, added, reading)
      BY <2>2 DEF Next
    <3> PICK added \in SUBSET (seen \ devices), reading \in [seen -> [Type -> Counter]] :
             Collect(seen, added, reading)
      OBVIOUS
    <3> DEFINE read == seen \cap devices'
    <3>1. devices' \subseteq Dev
      BY DEF Collect, TypeOK
    <3>2. ASSUME NEW d \in Dev
          PROVE  /\ d \in read => pos'[d] = (pos[d] + 1) % H
                 /\ d \notin read => pos'[d] = pos[d]
                 /\ d \in added => d \in read
                 /\ d \in devices' <=> d \in devices \/ d \in added
      BY DEF Collect, Advance
    <3>3. pos' \in [Dev -> Slot \cup {-1}] /\ \A d \in Dev : pos'[d] = -1 <=> d \notin devices'
      <4>1. ASSUME NEW d \in Dev PROVE (pos[d] + 1) % H \in Slot
        <5>1. pos[d] \in Slot \cup {-1}
          BY DEF TypeOK
        <5>2. pos[d] + 1 \in Int
          BY <5>1 DEF Slot
        <5> QED
          BY <5>2, BwmonAssumption, ModRange DEF Slot
      <4>2. -1 \notin Slot
        BY BwmonAssumption DEF Slot
      <4>3. DOMAIN pos' = Dev /\ pos' = [d \in Dev |-> pos'[d]]
        BY DEF Collect
      <4> QED
        BY <3>2, <4>1, <4>2, <4>3 DEF TypeOK
    <3>4. prev' \in [Dev -> [Type -> Counter]]
      BY DEF Collect, TypeOK
    <3>5. values' \in [Dev -> [Type -> [Slot -> 0 .. U32 - 1]]]
      BY PutValueType DEF Collect, TypeOK
    <3> QED
      BY <3>1, <3>3, <3>4, <3>5 DEF TypeOK
  <2> QED
    BY <2>1, <2>2
<1> QED
  BY <1>1, <1>2, PTL DEF Spec

LEMMA BlankInvariant == Spec => []Blank
<1>1. Init => Blank
  BY DEF Init, Blank
<1>2. TypeOK /\ Blank /\ [Next]_vars => Blank'
  <2> SUFFICES ASSUME TypeOK, Blank, [Next]_vars PROVE Blank'
    OBVIOUS
  <2>1. CASE UNCHANGED vars
    BY <2>1 DEF vars, Blank
  <2>2. CASE Next
    <3> PICK seen \in SUBSET Dev : \E added \in SUBSET (seen \ devices),
             reading \in [seen -> [Type -> Counter]] : Collect(seen, added, reading)
      BY <2>2 DEF Next
    <3> PICK added \in SUBSET (seen \ devices), reading \in [seen -> [Type -> Counter]] :
             Collect(seen, added, reading)
      OBVIOUS
    <3>1. ASSUME NEW d \in Dev \ devices' PROVE d \in Dev \ devices /\ values'[d] = values[d]
      BY DEF Collect
    <3> QED
      BY <3>1 DEF Blank
  <2> QED
    BY <2>1, <2>2
<1> QED
  BY <1>1, <1>2, TypeCorrect, PTL DEF Spec

(* What one tick does to what a dump of one counter shows.                 *)
LEMMA DumpShifts ==
  ASSUME TypeOK, Blank,
         NEW seen \in SUBSET Dev, NEW added \in SUBSET (seen \ devices),
         NEW reading \in [seen -> [Type -> Counter]],
         Collect(seen, added, reading),
         NEW d \in Dev, NEW t \in Type
  PROVE  Dump(d, t)' = IF d \in seen \cap devices
                       THEN Chart!Shifted(Dump(d, t), (reading[d][t] - prev[d][t]) % U32)
                       ELSE Dump(d, t)
<1> DEFINE inc == (reading[d][t] - prev[d][t]) % U32
<1>1. CASE d \in seen \cap devices
  <2>1. pos[d] \in 0 .. H - 1 /\ pos'[d] = (pos[d] + 1) % H
    BY <1>1 DEF Collect, Advance, TypeOK, Slot
  <2>2. values'[d][t] = [values[d][t] EXCEPT ![pos[d]] = inc]
    <3>1. reading[d][t] - prev[d][t] \in Int
      BY <1>1, BwmonAssumption DEF TypeOK, Counter, U64
    <3>2. ((reading[d][t] - prev[d][t]) % U64) % U32 = inc
      BY <3>1, BwmonAssumption, ModCast DEF U64
    <3>3. values'[d][t] = PutValue(d, t, reading[d][t])
      BY <1>1 DEF Collect
    <3>4. pos[d] >= 0
      BY <2>1, BwmonAssumption
    <3> QED
      BY <3>2, <3>3, <3>4 DEF PutValue
  <2>3. values[d][t] \in [Slot -> 0 .. U32 - 1]
    BY DEF TypeOK
  <2>4. ASSUME NEW j \in Slot
        PROVE  Dump(d, t)'[j] = IF j = H - 1 THEN inc ELSE Dump(d, t)[j + 1]
    <3>1. Dump(d, t)'[j] = values'[d][t][(((pos[d] + 1) % H) + j) % H]
      BY <2>1 DEF Dump
    <3>2. CASE j = H - 1
      <4>1. (((pos[d] + 1) % H) + j) % H = pos[d]
        BY <2>1, <3>2, NextPosition, BwmonAssumption DEF Slot
      <4> QED
        BY <2>1, <2>2, <2>3, <3>1, <3>2, <4>1 DEF Slot
    <3>3. CASE j # H - 1
      <4> DEFINE i == (pos[d] + (j + 1)) % H
      <4>1. (((pos[d] + 1) % H) + j) % H = i /\ i # pos[d]
        BY <2>1, <3>3, NextPosition, BwmonAssumption DEF Slot
      <4>2. i \in Slot
        <5>1. pos[d] + (j + 1) \in Int
          BY <2>1, BwmonAssumption DEF Slot
        <5> QED
          BY <5>1, BwmonAssumption, ModRange DEF Slot
      <4>3. j + 1 \in Slot
        BY <3>3, BwmonAssumption DEF Slot
      <4>4. Dump(d, t)[j + 1] = values[d][t][i]
        BY <4>3 DEF Dump
      <4> HIDE DEF i
      <4>5. values'[d][t][i] = values[d][t][i]
        BY <2>2, <2>3, <4>1, <4>2
      <4> QED
        BY <3>1, <3>3, <4>1, <4>4, <4>5
    <3> QED
      BY <3>2, <3>3
  <2>5. Dump(d, t)' = [j \in Slot |-> Dump(d, t)'[j]]
    BY DEF Dump
  <2>6. Chart!Shifted(Dump(d, t), inc) =
          [j \in Slot |-> IF j = H - 1 THEN inc ELSE Dump(d, t)[j + 1]]
    BY DEF Chart!Shifted, Slot
  <2> QED
    BY <1>1, <2>4, <2>5, <2>6
<1>2. CASE d \in added
  <2>1. d \notin devices /\ pos[d] = -1 /\ pos'[d] = (-1 + 1) % H
    BY <1>2 DEF Collect, Advance, TypeOK
  <2>2. values'[d][t] = values[d][t]
    <3>1. ~(pos[d] >= 0)
      BY <2>1
    <3> QED
      BY <1>2, <3>1 DEF Collect, PutValue
  <2>3. \A i \in Int : values[d][t][i % H] = 0
    <3>1. \A i \in Int : i % H \in Slot
      BY BwmonAssumption, ModRange DEF Slot
    <3> QED
      BY <2>1, <3>1 DEF Blank
  <2>4. pos[d] \in Int /\ pos'[d] \in Int
    BY <2>1, BwmonAssumption, ModRange
  <2>5. \A j \in Slot : pos[d] + j \in Int /\ pos'[d] + j \in Int
    BY <2>4 DEF Slot
  <2>6. \A j \in Slot : Dump(d, t)'[j] = Dump(d, t)[j]
    BY <2>2, <2>3, <2>5 DEF Dump
  <2>7. Dump(d, t)' = Dump(d, t)
    BY <2>6 DEF Dump
  <2> QED
    BY <2>1, <2>7
<1>3. CASE d \notin added /\ d \notin seen \cap devices
  <2>1. values'[d] = values[d] /\ pos'[d] = pos[d]
    BY <1>3 DEF Collect
  <2> QED
    BY <1>3, <2>1 DEF Dump
<1> QED
  BY <1>1, <1>2, <1>3

(* ImplementsChart for every H: however long the monitor runs, a dump is   *)
(* the list of the last H increments, oldest first.                        *)
THEOREM RingIsChart == Spec => ImplementsChart
<1>1. Init => Chart!Init
  <2>1. ASSUME Init, NEW d \in Dev, NEW t \in Type
        PROVE  Dump(d, t) = [j \in 0 .. H - 1 |-> 0]
    <3>1. \A j \in Slot : (pos[d] + j) % H \in Slot
      BY <2>1, BwmonAssumption, ModRange DEF Init, Slot
    <3> QED
      BY <2>1, <3>1 DEF Init, Dump, Slot
  <2> QED
    BY <2>1 DEF Init, Chart!Init
<1>2. TypeOK /\ Blank /\ [Next]_vars => [Chart!Next]_(Chart!vars)
  <2> SUFFICES ASSUME TypeOK, Blank, [Next]_vars PROVE [Chart!Next]_(Chart!vars)
    OBVIOUS
  <2>1. CASE UNCHANGED vars
    BY <2>1 DEF vars, Chart!vars, Dump
  <2>2. CASE Next
    <3> PICK seen \in SUBSET Dev : \E added \in SUBSET (seen \ devices),
             reading \in [seen -> [Type -> Counter]] : Collect(seen, added, reading)
      BY <2>2 DEF Next
    <3> PICK added \in SUBSET (seen \ devices), reading \in [seen -> [Type -> Counter]] :
             Collect(seen, added, reading)
      OBVIOUS
    <3>1. ASSUME NEW d \in Dev, NEW t \in Type
          PROVE  Dump(d, t)' = IF d \in seen \cap devices
                               THEN Chart!Shifted(Dump(d, t), (reading[d][t] - prev[d][t]) % U32)
                               ELSE Dump(d, t)
      BY DumpShifts
    <3>2. Chart!Sample(seen, added, reading)
      BY <3>1 DEF Chart!Sample, Collect
    <3>3. reading \in [seen -> [Type -> Counter]]
      OBVIOUS
    <3> QED
      BY <3>2, <3>3 DEF Chart!Next
  <2> QED
    BY <2>1, <2>2
<1> QED
  BY <1>1, <1>2, TypeCorrect, BlankInvariant, PTL DEF Spec, ImplementsChart, Chart!Spec
=============================================================================

----------------------------- MODULE Lists_proofs -----------------------------
(***************************************************************************)
(* What is proved of the lists of packages (Packages), of the sections of  *)
(* a map (CbiSections) and of the parsers of addresses (Addresses), for    *)
(* lists of any length.                                                    *)
(***************************************************************************)
EXTENDS Packages, CbiSections, Addresses, Sublists_proofs, TLAPS

-----------------------------------------------------------------------------
(* Joining the members of a list of lists, step by step.                   *)
IsFlat(flat, seqs, m) ==
  flat = [i \in 1 .. m |-> IF i = 1 THEN seqs[i] ELSE flat[i - 1] \o seqs[i]]

FlatOf(seqs, m) == CHOOSE flat : IsFlat(flat, seqs, m)

LEMMA FlattenSeqIsLoop ==
  ASSUME NEW seqs, Len(seqs) # 0
  PROVE  FlattenSeq(seqs) = FlatOf(seqs, Len(seqs))[Len(seqs)]
BY DEF FlattenSeq, FlatOf, IsFlat

LEMMA FlatStarts ==
  ASSUME NEW seqs, NEW m \in Nat
  PROVE  \E flat : IsFlat(flat, seqs, m)
<1> DEFINE N == {k \in Nat : \E flat : IsFlat(flat, seqs, k)}
<1>1. 0 \in N
  <2> DEFINE flat == [i \in 1 .. 0 |-> <<>>]
  <2>1. IsFlat(flat, seqs, 0)
    BY DEF IsFlat
  <2> HIDE DEF flat
  <2> QED
    BY <2>1
<1>2. ASSUME NEW k \in Nat, k \in N PROVE k + 1 \in N
  <2>1. PICK old : IsFlat(old, seqs, k)
    BY <1>2
  <2> DEFINE new == [i \in 1 .. k + 1 |-> IF i <= k THEN old[i]
                       ELSE IF i = 1 THEN seqs[i] ELSE old[i - 1] \o seqs[i]]
             body(f) == [i \in 1 .. k + 1 |-> IF i = 1 THEN seqs[i] ELSE f[i - 1] \o seqs[i]]
  <2>2. ASSUME NEW i \in 1 .. k + 1 PROVE new[i] = body(new)[i]
    <3>1. CASE i = 1 /\ k = 0
      BY <3>1
    <3>2. CASE i = 1 /\ k # 0
      <4>1. i \in 1 .. k
        BY <3>2
      <4>2. old[i] = seqs[i]
        BY <2>1, <4>1, <3>2 DEF IsFlat
      <4> QED
        BY <3>2, <4>1, <4>2
    <3>3. CASE i # 1 /\ i <= k
      <4>1. i \in 1 .. k /\ i - 1 \in 1 .. k /\ i - 1 \in 1 .. k + 1
        BY <3>3
      <4>2. new[i] = old[i] /\ new[i - 1] = old[i - 1]
        BY <4>1
      <4>3. old[i] = old[i - 1] \o seqs[i]
        BY <2>1, <4>1, <3>3 DEF IsFlat
      <4> QED
        BY <4>2, <4>3, <3>3
    <3>4. CASE i # 1 /\ i = k + 1
      <4>1. i - 1 \in 1 .. k + 1 /\ i - 1 <= k /\ ~(i <= k)
        BY <3>4
      <4>2. new[i] = old[i - 1] \o seqs[i] /\ new[i - 1] = old[i - 1]
        BY <4>1, <3>4
      <4> QED
        BY <4>2, <3>4
    <3> QED
      BY <3>1, <3>2, <3>3, <3>4
  <2>3. new = body(new)
    BY <2>2
  <2>4. IsFlat(new, seqs, k + 1)
    BY <2>3 DEF IsFlat
  <2> HIDE DEF new
  <2> QED
    BY <2>4
<1> HIDE DEF N
<1>3. m \in N
  BY <1>1, <1>2, Induction
<1> QED
  BY <1>3 DEF N

LEMMA FlattenSteps ==
  ASSUME NEW seqs, Len(seqs) \in Nat \ {0}
  PROVE  \E flat :
           /\ FlattenSeq(seqs) = flat[Len(seqs)]
           /\ flat[1] = seqs[1]
           /\ \A i \in Nat : 1 <= i /\ i < Len(seqs) => flat[i + 1] = flat[i] \o seqs[i + 1]
<1>1. PICK m \in Nat \ {0} : m = Len(seqs)
  OBVIOUS
<1>2. PICK flat : flat = FlatOf(seqs, m)
  OBVIOUS
<1>3. IsFlat(flat, seqs, m)
  BY <1>2, FlatStarts DEF FlatOf
<1>4. flat = [i \in 1 .. m |-> IF i = 1 THEN seqs[i] ELSE flat[i - 1] \o seqs[i]]
  BY <1>3 DEF IsFlat
<1>5. FlattenSeq(seqs) = flat[m]
  BY <1>1, <1>2, FlattenSeqIsLoop
<1>6. flat[1] = seqs[1]
  BY <1>4
<1>7. ASSUME NEW i \in Nat, 1 <= i, i < m PROVE flat[i + 1] = flat[i] \o seqs[i + 1]
  <2>1. PICK k \in 1 .. m : k = i + 1 /\ k # 1 /\ k - 1 = i
    BY <1>7
  <2>2. flat[k] = flat[k - 1] \o seqs[k]
    BY <1>4, <2>1
  <2> QED
    BY <2>1, <2>2
<1> QED
  BY <1>1, <1>5, <1>6, <1>7

-----------------------------------------------------------------------------
(* Packages: arithmetic of windows.                                        *)
Multiple(n) == \E k \in Nat : n = k * Limit

LEMMA Times ==
  ASSUME NEW k \in Nat
  PROVE  /\ Limit \in Nat \ {0}
         /\ k * Limit \in Nat
         /\ (k + 1) * Limit = k * Limit + Limit
<1>1. Limit \in Nat \ {0}
  BY PackagesAssumption
<1>2. k * Limit \in Nat
  BY <1>1
<1>3. (k + 1) * Limit = k * Limit + Limit
  BY <1>1
<1> QED
  BY <1>1, <1>2, <1>3

LEMMA TimesGrows ==
  ASSUME NEW k \in Nat, NEW m \in Nat, k <= m
  PROVE  k * Limit <= m * Limit
<1>1. Limit \in Nat \ {0}
  BY PackagesAssumption
<1>2. PICK d \in Nat : m = k + d
  <2>1. m - k \in Nat /\ m = k + (m - k)
    OBVIOUS
  <2> QED
    BY <2>1
<1>3. m * Limit = k * Limit + d * Limit
  BY <1>1, <1>2
<1>4. k * Limit \in Nat /\ d * Limit \in Nat
  BY Times
<1> QED
  BY <1>3, <1>4

LEMMA Division ==
  ASSUME NEW l \in Nat, NEW n \in Nat \ {0}
  PROVE  l \div n \in Nat /\ l % n \in Nat /\ l % n \in 0 .. n - 1 /\ l = n * (l \div n) + (l % n)
  BY SMT

LEMMA Remainder ==
  ASSUME NEW n \in Nat \ {0}, NEW q \in Nat, NEW r \in 0 .. n - 1
  PROVE  (n * q + r) % n = r
  BY SMT

LEMMA MultiplesHaveNoRemainder ==
  ASSUME NEW n, Multiple(n)
  PROVE  n \in Nat /\ n % Limit = 0
<1>1. PICK k \in Nat : n = k * Limit
  BY DEF Multiple
<1>2. Limit \in Nat \ {0} /\ k * Limit \in Nat
  BY Times
<1>3. k * Limit = Limit * k + 0
  BY <1>2
<1>4. (Limit * k + 0) % Limit = 0
  BY <1>2, Remainder
<1> QED
  BY <1>1, <1>2, <1>3, <1>4

(* The pages before and after one.                                         *)
LEMMA Pages ==
  ASSUME NEW n, Multiple(n)
  PROVE  /\ Multiple(n + Limit)
         /\ n > 0 => Multiple(n - Limit)
         /\ Multiple(0)
<1>1. PICK k \in Nat : n = k * Limit
  BY DEF Multiple
<1>2. /\ Limit \in Nat \ {0} /\ k * Limit \in Nat
      /\ (k + 1) * Limit = k * Limit + Limit
  BY Times
<1>3. Multiple(n + Limit)
  <2>1. n + Limit = (k + 1) * Limit /\ k + 1 \in Nat
    BY <1>1, <1>2
  <2> QED
    BY <2>1 DEF Multiple
<1>4. ASSUME n > 0 PROVE Multiple(n - Limit)
  <2>1. k # 0
    BY <1>1, <1>2, <1>4
  <2>2. PICK j \in Nat : k = j + 1
    <3>1. k - 1 \in Nat /\ k = k - 1 + 1
      BY <2>1
    <3> QED
      BY <3>1
  <2>3. j * Limit \in Nat /\ k * Limit = j * Limit + Limit
    BY <2>2, Times
  <2>4. n - Limit = j * Limit
    BY <1>1, <1>2, <2>3
  <2> QED
    BY <2>4 DEF Multiple
<1>5. Multiple(0)
  <2>1. 0 = 0 * Limit
    BY <1>2
  <2> QED
    BY <2>1 DEF Multiple
<1> QED
  BY <1>3, <1>4, <1>5

-----------------------------------------------------------------------------
(* What Lines gives.                                                       *)
LEMMA LinesAre ==
  ASSUME Len(lines) \in Nat, NEW a \in Nat, NEW b \in Nat
  PROVE  /\ Lines(a, b) \in Seq(1 .. Len(lines))
         /\ Len(Lines(a, b)) =
              LET end == IF b < Len(lines) THEN b ELSE Len(lines)
              IN  IF a < end THEN end - a ELSE 0
         /\ \A i \in 1 .. Len(Lines(a, b)) : Lines(a, b)[i] = a + i
<1> DEFINE end == IF b < Len(lines) THEN b ELSE Len(lines)
<1>1. end \in Nat /\ end <= Len(lines)
  OBVIOUS
<1>2. PICK count \in Nat : count = IF a < end THEN end - a ELSE 0
  <2>1. PICK e \in Nat : e = end
    BY <1>1
  <2>2. (IF a < e THEN e - a ELSE 0) \in Nat
    OBVIOUS
  <2> QED
    BY <2>1, <2>2
<1>3. Lines(a, b) = [i \in 1 .. count |-> a + i]
  BY <1>2 DEF Lines
<1>4. \A i \in 1 .. count : a + i \in 1 .. Len(lines)
  BY <1>1, <1>2
<1>5. [i \in 1 .. count |-> a + i] \in Seq(1 .. Len(lines))
      /\ Len([i \in 1 .. count |-> a + i]) = count
  BY <1>4
<1> QED
  BY <1>2, <1>3, <1>5

(* Two windows that meet give what one gives.                              *)
LEMMA SeqsEqual ==
  ASSUME NEW S, NEW p \in Seq(S), NEW q \in Seq(S), Len(p) = Len(q),
         \A i \in 1 .. Len(p) : p[i] = q[i]
  PROVE  p = q
  OBVIOUS

LEMMA ConcatParts ==
  ASSUME NEW S, NEW p \in Seq(S), NEW q \in Seq(S)
  PROVE  /\ p \o q \in Seq(S)
         /\ Len(p \o q) = Len(p) + Len(q)
         /\ \A i \in 1 .. Len(p) : (p \o q)[i] = p[i]
         /\ \A i \in 1 .. Len(q) : (p \o q)[Len(p) + i] = q[i]
  OBVIOUS

LEMMA LinesJoin ==
  ASSUME Len(lines) \in Nat, NEW a \in Nat, NEW b \in Nat, NEW c \in Nat, a <= b, b <= c
  PROVE  Lines(a, b) \o Lines(b, c) = Lines(a, c)
<1>1. PICK p \in Seq(1 .. Len(lines)) : p = Lines(a, b)
  BY LinesAre
<1>2. PICK q \in Seq(1 .. Len(lines)) : q = Lines(b, c)
  BY LinesAre
<1>3. PICK r \in Seq(1 .. Len(lines)) : r = Lines(a, c)
  BY LinesAre
<1>4. /\ Len(p) = LET end == IF b < Len(lines) THEN b ELSE Len(lines)
                  IN  IF a < end THEN end - a ELSE 0
      /\ \A i \in 1 .. Len(p) : p[i] = a + i
  BY <1>1, LinesAre
<1>5. /\ Len(q) = LET end == IF c < Len(lines) THEN c ELSE Len(lines)
                  IN  IF b < end THEN end - b ELSE 0
      /\ \A i \in 1 .. Len(q) : q[i] = b + i
  BY <1>2, LinesAre
<1>6. /\ Len(r) = LET end == IF c < Len(lines) THEN c ELSE Len(lines)
                  IN  IF a < end THEN end - a ELSE 0
      /\ \A i \in 1 .. Len(r) : r[i] = a + i
  BY <1>3, LinesAre
<1>7. PICK s \in Seq(1 .. Len(lines)) :
        /\ s = p \o q
        /\ Len(s) = Len(p) + Len(q)
        /\ \A i \in 1 .. Len(p) : s[i] = p[i]
        /\ \A i \in 1 .. Len(q) : s[Len(p) + i] = q[i]
  <2>1. PICK s : s = p \o q
    OBVIOUS
  <2>2. /\ s \in Seq(1 .. Len(lines))
        /\ Len(s) = Len(p) + Len(q)
        /\ \A i \in 1 .. Len(p) : s[i] = p[i]
        /\ \A i \in 1 .. Len(q) : s[Len(p) + i] = q[i]
    BY <2>1, ConcatParts
  <2> QED
    BY <2>1, <2>2
<1>8. Len(p) \in Nat /\ Len(q) \in Nat
  OBVIOUS
<1>9. Len(s) = Len(r) /\ (Len(q) # 0 => a + Len(p) = b)
  <2>1. PICK l \in Nat, x \in Nat, y \in Nat, z \in Nat, w \in Nat :
          l = Len(lines) /\ x = Len(p) /\ y = Len(q) /\ z = Len(r) /\ w = Len(s)
    OBVIOUS
  <2>2. x = LET end == IF b < l THEN b ELSE l IN IF a < end THEN end - a ELSE 0
    BY <1>4, <2>1
  <2>3. y = LET end == IF c < l THEN c ELSE l IN IF b < end THEN end - b ELSE 0
    BY <1>5, <2>1
  <2>4. z = LET end == IF c < l THEN c ELSE l IN IF a < end THEN end - a ELSE 0
    BY <1>6, <2>1
  <2>5. w = x + y
    BY <1>7, <2>1
  <2>6. w = z /\ (y # 0 => a + x = b)
    BY <2>2, <2>3, <2>4, <2>5
  <2> QED
    BY <2>1, <2>6
<1>10. ASSUME NEW i \in 1 .. Len(s) PROVE s[i] = r[i]
  <2>1. CASE i \in 1 .. Len(p)
    BY <2>1, <1>4, <1>6, <1>7, <1>9
  <2>2. CASE i \notin 1 .. Len(p)
    <3>1. PICK j \in 1 .. Len(q) : i = Len(p) + j
      <4>1. i - Len(p) \in 1 .. Len(q) /\ i = Len(p) + (i - Len(p))
        BY <2>2, <1>7, <1>8
      <4> QED
        BY <4>1
    <3>2. s[i] = b + j /\ a + Len(p) = b
      BY <3>1, <1>5, <1>7, <1>8, <1>9
    <3>3. r[i] = a + i
      BY <1>6, <1>9
    <3>4. PICK x \in Nat : x = Len(p)
      BY <1>8
    <3>5. b = a + x /\ i = x + j /\ j \in Nat
      BY <3>1, <3>2, <3>4
    <3>6. b + j = a + i
      BY <3>4, <3>5
    <3> QED
      BY <3>2, <3>3, <3>6
  <2> QED
    BY <2>1, <2>2
<1>11. s = r
  BY <1>9, <1>10, SeqsEqual
<1> QED
  BY <1>1, <1>2, <1>3, <1>7, <1>11

-----------------------------------------------------------------------------
(* The types of answers and of the windows of a batch.                     *)
Readable == \A n \in DOMAIN lines : lines[n]

LEMMA ParsedType ==
  ASSUME lines \in Seq(BOOLEAN), NEW w \in Seq(1 .. Len(lines))
  PROVE  Parsed(w) \in Seq(1 .. Len(lines)) /\ Len(Parsed(w)) <= Len(w)
BY WithinSubset, WithinKeeps DEF Parsed

LEMMA AllAreParsed ==
  ASSUME lines \in Seq(BOOLEAN), Readable, NEW w \in Seq(1 .. Len(lines))
  PROVE  Parsed(w) = w
<1>1. DOMAIN lines = 1 .. Len(lines)
  OBVIOUS
<1>2. {n \in DOMAIN lines : lines[n]} = 1 .. Len(lines)
  BY <1>1 DEF Readable
<1>3. ToSet(w) \subseteq 1 .. Len(lines)
  BY DEF ToSet
<1> QED
  BY <1>2, <1>3, WithinKeepsAll DEF Parsed

LEMMA WindowType ==
  ASSUME lines \in Seq(BOOLEAN), NEW from \in Nat, NEW count \in Nat
  PROVE  /\ Window(from, count) \in Seq(1 .. Len(lines))
         /\ Size(count) \in 1 .. Limit
<1>1. Limit \in Nat \ {0} /\ Len(lines) \in Nat
  BY PackagesAssumption
<1>2. Size(count) \in 1 .. Limit
  BY <1>1 DEF Size
<1>3. from + Size(count) \in Nat
  BY <1>1, <1>2
<1> QED
  BY <1>1, <1>2, <1>3, LinesAre DEF Window

LEMMA CallsType ==
  ASSUME NEW from \in Nat, NEW end \in Nat
  PROVE  Calls(from, end) \in Nat
<1>1. Limit \in Nat \ {0}
  BY PackagesAssumption
<1>2. CASE from < end
  <2>1. PICK l \in Nat : l = end - from + Limit - 1
    <3>1. end - from + Limit - 1 \in Nat
      BY <1>1, <1>2
    <3> QED
      BY <3>1
  <2>2. l \div Limit \in Nat
    BY <1>1, Division
  <2> QED
    BY <1>2, <2>1, <2>2 DEF Calls
<1>3. CASE ~(from < end)
  BY <1>3 DEF Calls
<1> QED
  BY <1>2, <1>3

LEMMA RestType ==
  ASSUME NEW from \in Nat, NEW end \in Nat
  PROVE  Rest(from, end) \in Seq(Nat \X (1 .. Limit))
<1>1. Limit \in Nat \ {0}
  BY PackagesAssumption
<1>2. PICK m \in Nat : m = Calls(from, end)
  BY CallsType
<1> DEFINE Start(k) == from + (k - 1) * Limit
           Until(k) == IF Start(k) + Limit < end THEN Start(k) + Limit ELSE end
           Call(k) == <<Start(k), IF Until(k) % Limit = 0 THEN Limit ELSE Until(k) % Limit>>
<1>3. ASSUME NEW k \in 1 .. m PROVE Call(k) \in Nat \X (1 .. Limit)
  <2>1. PICK j \in Nat : j = k - 1
    OBVIOUS
  <2>2. j * Limit \in Nat
    BY Times
  <2>3. PICK s \in Nat : s = Start(k)
    BY <2>1, <2>2
  <2>4. PICK u \in Nat : u = Until(k)
    BY <1>1, <2>3
  <2>5. u % Limit \in 0 .. Limit - 1
    BY <1>1, Division
  <2>6. (IF u % Limit = 0 THEN Limit ELSE u % Limit) \in 1 .. Limit
    BY <1>1, <2>5
  <2> HIDE DEF Start, Until
  <2> QED
    BY <2>3, <2>4, <2>6
<1>4. Rest(from, end) = [k \in 1 .. m |-> Call(k)]
  BY <1>2 DEF Rest
<1> HIDE DEF Call
<1>5. [k \in 1 .. m |-> Call(k)] \in Seq(Nat \X (1 .. Limit))
  BY <1>3
<1> QED
  BY <1>4, <1>5

LEMMA EmptySeq ==
  ASSUME NEW S, NEW s \in Seq(S), Len(s) = 0
  PROVE  s = <<>>
OBVIOUS

LEMMA EmptyIsSeq ==
  ASSUME NEW S
  PROVE  <<>> \in Seq(S) /\ Len(<<>>) = 0
OBVIOUS

LEMMA FlattenType ==
  ASSUME NEW T, NEW seqs, seqs \in Seq(Seq(T))
  PROVE  FlattenSeq(seqs) \in Seq(T)
<1>1. PICK m \in Nat : m = Len(seqs)
  OBVIOUS
<1>2. CASE m = 0
  <2>1. FlattenSeq(seqs) = seqs
    BY <1>1, <1>2 DEF FlattenSeq
  <2>2. seqs = <<>>
    BY <1>1, <1>2, EmptySeq
  <2> QED
    BY <2>1, <2>2, EmptyIsSeq
<1>3. CASE m # 0
  <2>1. PICK flat :
          /\ FlattenSeq(seqs) = flat[Len(seqs)]
          /\ flat[1] = seqs[1]
          /\ \A i \in Nat : 1 <= i /\ i < Len(seqs) => flat[i + 1] = flat[i] \o seqs[i + 1]
    BY <1>1, <1>3, FlattenSteps
  <2>2. \A i \in 1 .. m : seqs[i] \in Seq(T)
    BY <1>1
  <2> DEFINE N == {n \in Nat : n < m => flat[n + 1] \in Seq(T)}
  <2>3. 0 \in N
    <3>1. 0 + 1 = 1 /\ 1 \in 1 .. m
      BY <1>3
    <3> QED
      BY <2>1, <2>2, <3>1
  <2>4. ASSUME NEW n \in Nat, n \in N PROVE n + 1 \in N
    <3> SUFFICES ASSUME n + 1 < m PROVE flat[n + 1 + 1] \in Seq(T)
      OBVIOUS
    <3>1. PICK i \in Nat : i = n + 1 /\ 1 <= i /\ i < m /\ i + 1 \in 1 .. m
      OBVIOUS
    <3>2. flat[i] \in Seq(T)
      BY <2>4, <3>1
    <3>3. flat[i + 1] = flat[i] \o seqs[i + 1] /\ seqs[i + 1] \in Seq(T)
      BY <1>1, <2>1, <2>2, <3>1
    <3>4. flat[i + 1] \in Seq(T)
      BY <3>2, <3>3, ConcatParts
    <3> QED
      BY <3>1, <3>4
  <2> HIDE DEF N
  <2>5. \A n \in Nat : n \in N
    BY <2>3, <2>4, Induction
  <2>6. PICK n \in Nat : m = n + 1
    <3>1. m - 1 \in Nat /\ m = m - 1 + 1
      BY <1>3
    <3> QED
      BY <3>1
  <2>7. flat[m] \in Seq(T)
    BY <2>5, <2>6 DEF N
  <2> QED
    BY <1>1, <2>1, <2>7
<1> QED
  BY <1>2, <1>3

-----------------------------------------------------------------------------
(* The invariant of Packages: the types, that offsets are those of pages,  *)
(* and what a batch that nothing has disturbed goes on from.               *)
Wanted == IF limit <= 0 THEN Len(lines) ELSE limit

PackagesTypes ==
  /\ lines \in Seq(BOOLEAN) /\ Len(lines) <= MaxLines
  /\ fetch \in {"none", "first", "batch"} /\ what \in {"installed", "page"}
  /\ Multiple(offset)
  /\ what = "page" => limit = Limit
  /\ what = "installed" => limit = 0 /\ offset = 0
  /\ fetch # "batch" => windows = <<>>
  /\ windows \in Seq(Nat \X (1 .. Limit))
  /\ packages \in Seq(1 .. MaxLines)
  /\ total \in 0 .. MaxLines
  /\ buttons \in Nat \X (0 .. MaxLines) /\ Multiple(buttons[1])

BatchGoesOn ==
  fetch = "batch" /\ ~disturbed /\ Readable =>
    /\ packages = Lines(offset, offset + Limit)
    /\ packages # <<>>
    /\ Len(packages) < Wanted
    /\ windows = Rest(offset + Len(packages), Wanted)

PackagesInv == PackagesTypes /\ BatchGoesOn /\ WindowsMeet

(* What the types say of the numbers.                                      *)
LEMMA PackagesNumbers ==
  ASSUME PackagesTypes
  PROVE  /\ Limit \in Nat \ {0} /\ MaxLines \in Nat
         /\ offset \in Nat /\ limit \in Nat
         /\ Len(lines) \in 0 .. MaxLines
         /\ Wanted \in Nat
<1>1. Limit \in Nat \ {0} /\ MaxLines \in Nat
  BY PackagesAssumption
<1>2. offset \in Nat
  BY MultiplesHaveNoRemainder DEF PackagesTypes
<1>3. limit \in Nat /\ Len(lines) \in 0 .. MaxLines
  BY <1>1 DEF PackagesTypes
<1>4. Wanted \in Nat
  BY <1>1, <1>3 DEF Wanted
<1> QED
  BY <1>1, <1>2, <1>3, <1>4

LEMMA SeqOfWider ==
  ASSUME NEW S, NEW T, S \subseteq T, NEW s \in Seq(S)
  PROVE  s \in Seq(T)
OBVIOUS

LEMMA LinesFit ==
  ASSUME PackagesTypes, NEW s \in Seq(1 .. Len(lines))
  PROVE  s \in Seq(1 .. MaxLines)
<1>1. 1 .. Len(lines) \subseteq 1 .. MaxLines
  BY PackagesNumbers
<1> QED
  BY <1>1, SeqOfWider

(* Both sizes a fetch asks for give windows of Limit lines.                *)
LEMMA FirstWindow ==
  ASSUME PackagesTypes
  PROVE  Window(offset, limit) = Lines(offset, offset + Limit)
<1>1. limit \in {0, Limit} /\ Limit \in Nat \ {0}
  BY PackagesNumbers DEF PackagesTypes
<1>2. Size(limit) = Limit
  BY <1>1 DEF Size
<1> QED
  BY <1>2 DEF Window

-----------------------------------------------------------------------------
(* The types are kept.                                                     *)
LEMMA FirstTypes ==
  ASSUME PackagesTypes, First
  PROVE  PackagesTypes'
<1>1. /\ Limit \in Nat \ {0} /\ MaxLines \in Nat
      /\ offset \in Nat /\ limit \in Nat
      /\ Len(lines) \in 0 .. MaxLines /\ Wanted \in Nat
  BY PackagesNumbers
<1>2. PICK window : window = Window(offset, limit)
  OBVIOUS
<1>3. PICK got : got = Parsed(window)
  OBVIOUS
<1>4. lines \in Seq(BOOLEAN)
  BY DEF PackagesTypes
<1>5. window \in Seq(1 .. Len(lines))
  BY <1>1, <1>2, <1>4, WindowType
<1>6. got \in Seq(1 .. Len(lines)) /\ Len(got) \in Nat
  BY <1>3, <1>4, <1>5, ParsedType
<1>7. got \in Seq(1 .. MaxLines)
  BY <1>6, LinesFit
<1>8. packages' = got /\ total' = IF window = <<>> THEN 0 ELSE Len(lines)
  BY <1>2, <1>3 DEF First
<1>9. /\ lines' = lines /\ what' = what /\ offset' = offset /\ limit' = limit
      /\ IF window = <<>> \/ Len(got) >= Wanted
         THEN Done
         ELSE /\ fetch' = "batch"
              /\ windows' = Rest(offset + Len(got), Wanted)
              /\ UNCHANGED buttons
  BY <1>2, <1>3 DEF First, Wanted
<1>10. total' \in 0 .. MaxLines
  BY <1>1, <1>8
<1>11. /\ fetch' \in {"none", "batch"}
       /\ fetch' # "batch" => windows' = <<>>
       /\ windows' \in Seq(Nat \X (1 .. Limit))
  <2>1. CASE window = <<>> \/ Len(got) >= Wanted
    <3>1. fetch' = "none" /\ windows' = <<>>
      BY <1>9, <2>1 DEF Done
    <3> QED
      BY <3>1, EmptyIsSeq
  <2>2. CASE ~(window = <<>> \/ Len(got) >= Wanted)
    <3>1. offset + Len(got) \in Nat
      BY <1>1, <1>6
    <3>2. fetch' = "batch" /\ windows' = Rest(offset + Len(got), Wanted)
      BY <1>9, <2>2
    <3> QED
      BY <3>1, <3>2, <1>1, RestType
  <2> QED
    BY <2>1, <2>2
<1>12. buttons' \in Nat \X (0 .. MaxLines) /\ Multiple(buttons'[1])
  <2>1. buttons' = <<offset, total'>> \/ buttons' = buttons
    BY <1>9 DEF Done
  <2>2. Multiple(offset) /\ buttons \in Nat \X (0 .. MaxLines) /\ Multiple(buttons[1])
    BY DEF PackagesTypes
  <2>3. CASE buttons' = <<offset, total'>>
    <3>1. buttons'[1] = offset
      BY <2>3
    <3> QED
      BY <2>2, <2>3, <3>1, <1>1, <1>10
  <2> QED
    BY <2>1, <2>2, <2>3
<1>13. Multiple(offset)' /\ (Multiple(buttons[1]))'
  BY <1>9, <1>12 DEF PackagesTypes, Multiple
<1> QED
  BY <1>7, <1>8, <1>9, <1>10, <1>11, <1>12, <1>13 DEF PackagesTypes

LEMMA AnswersType ==
  ASSUME PackagesTypes
  PROVE  FlattenSeq([k \in DOMAIN windows |-> Parsed(Window(windows[k][1], windows[k][2]))])
           \in Seq(1 .. Len(lines))
<1>1. lines \in Seq(BOOLEAN) /\ windows \in Seq(Nat \X (1 .. Limit)) /\ Limit \in Nat
  BY PackagesNumbers DEF PackagesTypes
<1>2. PICK m \in Nat : m = Len(windows) /\ DOMAIN windows = 1 .. m
  BY <1>1
<1>3. ASSUME NEW k \in 1 .. m
      PROVE  Parsed(Window(windows[k][1], windows[k][2])) \in Seq(1 .. Len(lines))
  <2>1. windows[k][1] \in Nat /\ windows[k][2] \in Nat
    BY <1>1, <1>2
  <2>2. Window(windows[k][1], windows[k][2]) \in Seq(1 .. Len(lines))
    BY <2>1, <1>1, WindowType
  <2> QED
    BY <2>2, <1>1, ParsedType
<1> DEFINE got(k) == Parsed(Window(windows[k][1], windows[k][2]))
<1>4. \A k \in 1 .. m : got(k) \in Seq(1 .. Len(lines))
  BY <1>3
<1> HIDE DEF got
<1>5. [k \in 1 .. m |-> got(k)] \in Seq(Seq(1 .. Len(lines)))
  BY <1>4
<1>6. FlattenSeq([k \in 1 .. m |-> got(k)]) \in Seq(1 .. Len(lines))
  BY <1>5, FlattenType
<1> QED
  BY <1>2, <1>6 DEF got

(* The end of a fetch, for whatever it has got.                            *)
LEMMA DoneTypes ==
  ASSUME PackagesTypes, Done, UNCHANGED <<lines, what, offset, limit>>,
         packages' \in Seq(1 .. MaxLines), total' \in 0 .. MaxLines
  PROVE  PackagesTypes'
<1>1. fetch' = "none" /\ windows' = <<>>
  BY DEF Done
<1>2. windows' \in Seq(Nat \X (1 .. Limit))
  BY <1>1, EmptyIsSeq
<1>3. buttons' = <<offset, total'>> \/ buttons' = buttons
  BY DEF Done
<1>4. Multiple(offset) /\ buttons \in Nat \X (0 .. MaxLines) /\ Multiple(buttons[1])
  BY DEF PackagesTypes
<1>5. offset \in Nat
  BY PackagesNumbers
<1>6. buttons' \in Nat \X (0 .. MaxLines) /\ Multiple(buttons'[1])
  <2>1. CASE buttons' = <<offset, total'>>
    <3>1. buttons'[1] = offset
      BY <2>1
    <3> QED
      BY <2>1, <3>1, <1>4, <1>5
  <2> QED
    BY <2>1, <1>3, <1>4
<1>7. Multiple(offset)' /\ (Multiple(buttons[1]))'
  BY <1>4, <1>6 DEF Multiple
<1> QED
  BY <1>1, <1>2, <1>6, <1>7 DEF PackagesTypes

LEMMA BatchTypes ==
  ASSUME PackagesTypes, Batch
  PROVE  PackagesTypes'
<1> DEFINE answers == FlattenSeq([k \in DOMAIN windows |->
                                    Parsed(Window(windows[k][1], windows[k][2]))])
<1>1. packages' = packages \o answers
  <2> DEFINE raw == [k \in DOMAIN windows |-> Window(windows[k][1], windows[k][2])]
  <2>1. \A k \in DOMAIN windows : raw[k] = Window(windows[k][1], windows[k][2])
    OBVIOUS
  <2>2. packages' = packages \o FlattenSeq([k \in DOMAIN windows |-> Parsed(raw[k])])
    BY DEF Batch
  <2> HIDE DEF raw
  <2>3. [k \in DOMAIN windows |-> Parsed(raw[k])]
          = [k \in DOMAIN windows |-> Parsed(Window(windows[k][1], windows[k][2]))]
    BY <2>1
  <2> QED
    BY <2>2, <2>3
<1>2. answers \in Seq(1 .. MaxLines)
  BY AnswersType, LinesFit
<1>3. packages \in Seq(1 .. MaxLines) /\ total \in 0 .. MaxLines
  BY DEF PackagesTypes
<1> HIDE DEF answers
<1>4. packages' \in Seq(1 .. MaxLines)
  BY <1>1, <1>2, <1>3, ConcatParts
<1>5. total' = Len(lines) \/ total' = total
  BY DEF Batch
<1>6. total' \in 0 .. MaxLines
  BY <1>3, <1>5, PackagesNumbers
<1>7. Done /\ UNCHANGED <<lines, what, offset, limit>>
  BY DEF Batch
<1> QED
  BY <1>4, <1>6, <1>7, DoneTypes

LEMMA LoseTypes ==
  ASSUME PackagesTypes, Lose
  PROVE  PackagesTypes'
<1>1. packages \in Seq(1 .. MaxLines) /\ total \in 0 .. MaxLines
  BY DEF PackagesTypes
<1>2. /\ Done /\ UNCHANGED <<lines, what, offset, limit>>
      /\ packages' = packages /\ total' = total
  BY DEF Lose
<1> QED
  BY <1>1, <1>2, DoneTypes

LEMMA FetchTypes ==
  ASSUME PackagesTypes, fetch = "none", NEW whom, NEW from, NEW count, Multiple(from),
         Fetch(whom, from, count),
         \/ whom = "page" /\ count = Limit
         \/ whom = "installed" /\ from = 0 /\ count = 0
  PROVE  PackagesTypes'
<1>1. /\ fetch' = "first" /\ what' = whom /\ offset' = from /\ limit' = count
      /\ packages' = <<>> /\ total' = 0
      /\ UNCHANGED <<lines, windows, buttons>>
  BY DEF Fetch
<1>2. packages' \in Seq(1 .. MaxLines) /\ total' \in 0 .. MaxLines
  BY <1>1, EmptyIsSeq, PackagesNumbers
<1>3. Multiple(offset)' /\ (Multiple(buttons[1]))'
  BY <1>1 DEF PackagesTypes, Multiple
<1>4. windows = <<>>
  BY DEF PackagesTypes
<1>5. "page" # "installed"
  OBVIOUS
<1> QED
  BY <1>1, <1>2, <1>3, <1>4, <1>5 DEF PackagesTypes

LEMMA ChangeTypes ==
  ASSUME PackagesTypes, NEW list \in Seq(BOOLEAN), Len(list) <= MaxLines, Change(list)
  PROVE  PackagesTypes'
<1>1. /\ lines' = list
      /\ UNCHANGED <<fetch, what, offset, limit, windows, packages, total, buttons>>
  BY DEF Change
<1>2. Multiple(offset)' /\ (Multiple(buttons[1]))'
  BY <1>1 DEF PackagesTypes, Multiple
<1> QED
  BY <1>1, <1>2 DEF PackagesTypes

LEMMA ListsChange ==
  ASSUME lines \in Seq(BOOLEAN), Len(lines) <= MaxLines, MaxLines \in Nat
  PROVE  /\ \A readable \in BOOLEAN : Len(lines) < MaxLines =>
              Append(lines, readable) \in Seq(BOOLEAN) /\ Len(Append(lines, readable)) <= MaxLines
         /\ lines # <<>> => Front(lines) \in Seq(BOOLEAN) /\ Len(Front(lines)) <= MaxLines
<1>1. ASSUME NEW readable \in BOOLEAN, Len(lines) < MaxLines
      PROVE  Append(lines, readable) \in Seq(BOOLEAN) /\ Len(Append(lines, readable)) <= MaxLines
  BY <1>1
<1>2. ASSUME lines # <<>>
      PROVE  Front(lines) \in Seq(BOOLEAN) /\ Len(Front(lines)) <= MaxLines
  <2>1. PICK m \in Nat : Len(lines) = m /\ m <= MaxLines /\ m # 0
    BY <1>2
  <2>2. Front(lines) = SubSeq(lines, 1, m - 1)
    BY <2>1 DEF Front
  <2>3. \A i \in 1 .. m - 1 : lines[i] \in BOOLEAN
    BY <2>1
  <2>4. SubSeq(lines, 1, m - 1) = [i \in 1 .. m - 1 |-> lines[i]]
    BY <2>1
  <2>5. [i \in 1 .. m - 1 |-> lines[i]] \in Seq(BOOLEAN)
        /\ Len([i \in 1 .. m - 1 |-> lines[i]]) = m - 1
    BY <2>1, <2>3
  <2> QED
    BY <2>1, <2>2, <2>4, <2>5
<1> QED
  BY <1>1, <1>2

LEMMA PackagesTypesKept ==
  ASSUME PackagesTypes, [PackagesNext]_software
  PROVE  PackagesTypes'
<1>1. CASE First
  BY <1>1, FirstTypes
<1>2. CASE Batch
  BY <1>2, BatchTypes
<1>3. CASE Lose
  BY <1>3, LoseTypes
<1>4. CASE FetchInstalled
  <2>1. fetch = "none" /\ Fetch("installed", 0, 0) /\ Multiple(0)
    BY <1>4, Pages DEF FetchInstalled, PackagesTypes
  <2> QED
    BY <2>1, FetchTypes
<1>5. ASSUME NEW from, FetchPage(from), Multiple(from) PROVE PackagesTypes'
  <2>1. fetch = "none" /\ Fetch("page", from, Limit)
    BY <1>5 DEF FetchPage
  <2> QED
    BY <1>5, <2>1, FetchTypes
<1>6. CASE FetchPage(buttons[1]) \/ FetchPage(0)
  BY <1>5, <1>6, Pages DEF PackagesTypes
<1>7. CASE Previous \/ Following
  <2>1. Multiple(buttons[1])
    BY DEF PackagesTypes
  <2>2. CASE Previous
    BY <2>1, <2>2, <1>5, Pages DEF Previous
  <2>3. CASE Following
    BY <2>1, <2>3, <1>5, Pages DEF Following
  <2> QED
    BY <1>7, <2>2, <2>3
<1>8. lines \in Seq(BOOLEAN) /\ Len(lines) <= MaxLines /\ MaxLines \in Nat
  BY PackagesNumbers DEF PackagesTypes
<1>9. CASE \E readable \in BOOLEAN : Len(lines) < MaxLines /\ Change(Append(lines, readable))
  BY <1>8, <1>9, ListsChange, ChangeTypes
<1>10. CASE lines # <<>> /\ Change(Front(lines))
  BY <1>8, <1>10, ListsChange, ChangeTypes
<1>11. CASE UNCHANGED software
  <2>1. Multiple(offset)' /\ (Multiple(buttons[1]))'
    BY <1>11 DEF PackagesTypes, Multiple, software
  <2> QED
    BY <1>11, <2>1 DEF PackagesTypes, software
<1> QED
  BY <1>1, <1>2, <1>3, <1>4, <1>6, <1>7, <1>9, <1>10, <1>11 DEF PackagesNext

LEMMA BoundedAreSeqs ==
  ASSUME NEW S, NEW n \in Nat, NEW s \in BoundedSeq(S, n)
  PROVE  s \in Seq(S) /\ Len(s) <= n
<1>1. PICK m \in 0 .. n : s \in [1 .. m -> S]
  BY DEF BoundedSeq, SeqOf
<1> QED
  BY <1>1

LEMMA PackagesStart ==
  ASSUME PackagesInit
  PROVE  PackagesInv
<1>1. MaxLines \in Nat
  BY PackagesAssumption
<1>2. lines \in Seq(BOOLEAN) /\ Len(lines) <= MaxLines
  BY <1>1, BoundedAreSeqs DEF PackagesInit
<1>3. Multiple(0)
  <2>1. 0 = 0 * Limit /\ 0 \in Nat
    BY PackagesAssumption
  <2> QED
    BY <2>1 DEF Multiple
<1>4. Multiple(offset) /\ Multiple(buttons[1])
  <2>1. offset = 0 /\ buttons[1] = 0
    BY DEF PackagesInit
  <2> QED
    BY <1>3, <2>1
<1>5. PackagesTypes
  <2>1. windows \in Seq(Nat \X (1 .. Limit)) /\ packages \in Seq(1 .. MaxLines)
    BY EmptyIsSeq DEF PackagesInit
  <2> QED
    BY <1>1, <1>2, <1>4, <2>1 DEF PackagesInit, PackagesTypes
<1>6. BatchGoesOn /\ WindowsMeet
  BY DEF PackagesInit, BatchGoesOn, WindowsMeet
<1> QED
  BY <1>5, <1>6 DEF PackagesInv

-----------------------------------------------------------------------------
(* The first answer is the end of the fetch, or one to go on from.         *)
LEMMA ReadableKept ==
  ASSUME lines' = lines
  PROVE  Readable' <=> Readable
BY DEF Readable

LEMMA AllWereGot ==
  ASSUME PackagesTypes, what = "installed",
         Lines(offset, offset + Limit) = <<>> \/ Len(Lines(offset, offset + Limit)) >= Wanted
  PROVE  Lines(offset, offset + Limit) = Lines(offset, Len(lines))
<1>1. Limit \in Nat \ {0} /\ Len(lines) \in Nat /\ offset = 0 /\ limit = 0
  BY PackagesNumbers DEF PackagesTypes
<1>2. Wanted = Len(lines)
  BY <1>1 DEF Wanted
<1>3. PICK p \in Seq(1 .. Len(lines)) : p = Lines(0, Limit)
  BY <1>1, LinesAre
<1>4. PICK q \in Seq(1 .. Len(lines)) : q = Lines(0, Len(lines))
  BY <1>1, LinesAre
<1>5. PICK l \in Nat : l = Len(lines)
  BY <1>1
<1>6. Len(p) = (IF Limit < l THEN Limit ELSE l) /\ \A i \in 1 .. Len(p) : p[i] = 0 + i
  <2>1. /\ Len(p) = LET end == IF Limit < l THEN Limit ELSE l IN IF 0 < end THEN end - 0 ELSE 0
        /\ \A i \in 1 .. Len(p) : p[i] = 0 + i
    BY <1>1, <1>3, <1>5, LinesAre
  <2>2. (LET end == IF Limit < l THEN Limit ELSE l IN IF 0 < end THEN end - 0 ELSE 0)
          = IF Limit < l THEN Limit ELSE l
    BY <1>1
  <2> QED
    BY <2>1, <2>2
<1>7. Len(q) = l /\ \A i \in 1 .. Len(q) : q[i] = 0 + i
  <2>1. /\ Len(q) = LET end == IF l < l THEN l ELSE l IN IF 0 < end THEN end - 0 ELSE 0
        /\ \A i \in 1 .. Len(q) : q[i] = 0 + i
    BY <1>1, <1>4, <1>5, LinesAre
  <2> QED
    BY <2>1
<1>8. p = <<>> => Len(p) = 0
  OBVIOUS
<1>9. p = <<>> \/ Len(p) >= l
  BY <1>1, <1>2, <1>3, <1>5
<1>10. Len(p) = Len(q)
  BY <1>1, <1>6, <1>7, <1>8, <1>9
<1>11. p = q
  BY <1>6, <1>7, <1>10, SeqsEqual
<1> QED
  BY <1>1, <1>3, <1>4, <1>11

LEMMA FirstMeets ==
  ASSUME PackagesTypes, First
  PROVE  BatchGoesOn' /\ WindowsMeet'
<1>1. lines' = lines /\ what' = what /\ offset' = offset /\ limit' = limit
      /\ disturbed' = disturbed
  BY DEF First
<1>2. SUFFICES ASSUME Readable PROVE BatchGoesOn' /\ WindowsMeet'
  <2>1. Readable' <=> Readable
    BY <1>1, ReadableKept
  <2>2. ASSUME ~Readable PROVE BatchGoesOn' /\ WindowsMeet'
    <3>1. ~Readable'
      BY <2>1, <2>2
    <3>2. BatchGoesOn'
      BY <3>1 DEF BatchGoesOn
    <3>3. WindowsMeet'
      BY <3>1 DEF WindowsMeet, Readable
    <3> QED
      BY <3>2, <3>3
  <2> QED
    BY <2>2
<1>3. /\ Limit \in Nat \ {0} /\ offset \in Nat /\ limit \in Nat
      /\ Len(lines) \in Nat /\ lines \in Seq(BOOLEAN)
  BY PackagesNumbers DEF PackagesTypes
<1>4. PICK w : w = Window(offset, limit)
  OBVIOUS
<1>5. w = Lines(offset, offset + Limit)
  BY <1>4, FirstWindow
<1>6. w \in Seq(1 .. Len(lines))
  BY <1>3, <1>4, WindowType
<1>7. Parsed(w) = w
  BY <1>2, <1>3, <1>6, AllAreParsed
<1>8. packages' = w
  BY <1>4, <1>7 DEF First
<1>9. IF w = <<>> \/ Len(w) >= Wanted
      THEN Done
      ELSE /\ fetch' = "batch"
           /\ windows' = Rest(offset + Len(w), Wanted)
  <2>1. IF w = <<>> \/ Len(Parsed(w)) >= Wanted
        THEN Done
        ELSE /\ fetch' = "batch"
             /\ windows' = Rest(offset + Len(Parsed(w)), Wanted)
    BY <1>4 DEF First, Wanted
  <2> QED
    BY <1>7, <2>1
<1>10. Wanted' = Wanted /\ Lines(offset, offset + Limit)' = Lines(offset, offset + Limit)
  BY <1>1 DEF Wanted, Lines
<1>11. CASE w = <<>> \/ Len(w) >= Wanted
  <2>1. fetch' = "none"
    BY <1>9, <1>11 DEF Done
  <2>2. w = Lines(offset, IF what = "page" THEN offset + Limit ELSE Len(lines))
    <3>1. CASE what = "page"
      BY <1>5, <3>1
    <3>2. CASE what # "page"
      <4>1. what = "installed"
        BY <3>2 DEF PackagesTypes
      <4>2. w = Lines(offset, Len(lines))
        BY <1>5, <1>11, <4>1, AllWereGot
      <4> QED
        BY <3>2, <4>2
    <3> QED
      BY <3>1, <3>2
  <2>3. packages' = Lines(offset, IF what = "page" THEN offset + Limit ELSE Len(lines))'
    BY <1>1, <1>8, <2>2 DEF Lines
  <2> QED
    BY <2>1, <2>3 DEF BatchGoesOn, WindowsMeet
<1>12. CASE ~(w = <<>> \/ Len(w) >= Wanted)
  <2>1. fetch' = "batch" /\ windows' = Rest(offset + Len(w), Wanted)
    BY <1>9, <1>12
  <2>2. Rest(offset' + Len(packages'), Wanted') = Rest(offset + Len(w), Wanted)
    BY <1>1, <1>8, <1>10
  <2>3. Wanted \in Nat /\ Len(w) \in Nat
    BY <1>6, PackagesNumbers
  <2>4. Len(w) < Wanted /\ w # <<>>
    BY <1>12, <2>3
  <2>5. /\ packages' = Lines(offset, offset + Limit)'
        /\ packages' # <<>>
        /\ Len(packages') < Wanted'
        /\ windows' = Rest(offset' + Len(packages'), Wanted')
    BY <1>5, <1>8, <1>10, <2>1, <2>2, <2>4
  <2>6. BatchGoesOn'
    BY <2>5 DEF BatchGoesOn
  <2>7. WindowsMeet'
    BY <2>1 DEF WindowsMeet
  <2> QED
    BY <2>6, <2>7
<1> QED
  BY <1>11, <1>12

-----------------------------------------------------------------------------
(* The batch of a page asks for what is behind the end of the list.        *)
Answers ==
  [k \in DOMAIN windows |-> Parsed(Window(windows[k][1], windows[k][2]))]

LEMMA BatchAppends ==
  ASSUME Batch
  PROVE  packages' = packages \o FlattenSeq(Answers)
<1> DEFINE raw == [k \in DOMAIN windows |-> Window(windows[k][1], windows[k][2])]
<1>1. \A k \in DOMAIN windows : raw[k] = Window(windows[k][1], windows[k][2])
  OBVIOUS
<1>2. packages' = packages \o FlattenSeq([k \in DOMAIN windows |-> Parsed(raw[k])])
  BY DEF Batch
<1> HIDE DEF raw
<1>3. [k \in DOMAIN windows |-> Parsed(raw[k])] = Answers
  BY <1>1 DEF Answers
<1> QED
  BY <1>2, <1>3

LEMMA RestStarts ==
  ASSUME NEW from \in Nat, NEW end \in Nat
  PROVE  /\ DOMAIN Rest(from, end) = 1 .. Calls(from, end)
         /\ \A k \in 1 .. Calls(from, end) : Rest(from, end)[k][1] = from + (k - 1) * Limit
<1>1. PICK m : m = Calls(from, end)
  OBVIOUS
<1> DEFINE Start(k) == from + (k - 1) * Limit
           Until(k) == IF Start(k) + Limit < end THEN Start(k) + Limit ELSE end
           size(k) == IF Until(k) % Limit = 0 THEN Limit ELSE Until(k) % Limit
<1>2. Rest(from, end) = [k \in 1 .. m |-> <<Start(k), size(k)>>]
  BY <1>1 DEF Rest
<1> HIDE DEF Start, size
<1>3. \A k \in 1 .. m : Rest(from, end)[k][1] = Start(k)
  BY <1>2
<1>4. DOMAIN Rest(from, end) = 1 .. m
  BY <1>2
<1> QED
  BY <1>1, <1>3, <1>4 DEF Start

LEMMA NothingBehind ==
  ASSUME PackagesTypes, Readable, NEW end \in Nat, windows = Rest(Len(lines), end)
  PROVE  FlattenSeq(Answers) = <<>>
<1>1. lines \in Seq(BOOLEAN) /\ windows \in Seq(Nat \X (1 .. Limit)) /\ Limit \in Nat
  BY PackagesNumbers DEF PackagesTypes
<1>2. PICK m \in Nat : m = Len(windows) /\ DOMAIN windows = 1 .. m
  BY <1>1
<1>3. PICK l \in Nat : l = Len(lines)
  BY <1>1
<1>4. m = Calls(l, end) /\ \A k \in 1 .. m : windows[k][1] = l + (k - 1) * Limit
  <2>1. DOMAIN windows = 1 .. Calls(l, end) /\ Calls(l, end) \in Nat
    BY <1>3, RestStarts, CallsType
  <2>2. m = Calls(l, end)
    BY <1>2, <2>1
  <2> QED
    BY <1>3, <2>2, RestStarts
<1>5. ASSUME NEW k \in 1 .. m
      PROVE  Parsed(Window(windows[k][1], windows[k][2])) = <<>>
  <2>1. PICK a \in Nat, c \in Nat : a = windows[k][1] /\ c = windows[k][2]
    BY <1>1, <1>2
  <2>2. a >= l
    <3>1. (k - 1) * Limit \in Nat
      <4>1. PICK j \in Nat : j = k - 1
        OBVIOUS
      <4> QED
        BY <4>1, Times
    <3> QED
      BY <1>4, <2>1, <3>1
  <2>3. Window(a, c) \in Seq(1 .. l) /\ Size(c) \in 1 .. Limit
    BY <1>1, <1>3, WindowType
  <2>4. Len(Window(a, c)) = 0
    <3>1. PICK b \in Nat : b = a + Size(c)
      BY <1>1, <2>3
    <3>2. Len(Lines(a, b)) = LET e == IF b < l THEN b ELSE l IN IF a < e THEN e - a ELSE 0
      BY <1>3, LinesAre
    <3>3. Len(Lines(a, b)) = 0
      BY <2>2, <3>2
    <3> QED
      BY <3>1, <3>3 DEF Window
  <2>5. Window(a, c) = <<>>
    BY <2>3, <2>4, EmptySeq
  <2>6. Parsed(<<>>) = <<>>
    BY <1>1, AllAreParsed, EmptyIsSeq
  <2> QED
    BY <2>1, <2>5, <2>6
<1>6. Answers = [k \in 1 .. m |-> <<>>]
  BY <1>2, <1>5 DEF Answers
<1>7. Answers \in Seq(Seq({}))
  BY <1>6
<1>8. FlattenSeq(Answers) \in Seq({})
  BY <1>7, FlattenType
<1>9. \A s \in Seq({}) : s = <<>>
  OBVIOUS
<1> QED
  BY <1>8, <1>9

LEMMA NothingAppended ==
  ASSUME NEW S, NEW s \in Seq(S)
  PROVE  s \o <<>> = s
OBVIOUS

LEMMA PageIsShort ==
  ASSUME PackagesTypes, what = "page", packages = Lines(offset, offset + Limit),
         packages # <<>>, Len(packages) < Wanted
  PROVE  offset + Len(packages) = Len(lines)
<1>1. Limit \in Nat \ {0} /\ Len(lines) \in Nat /\ offset \in Nat /\ limit = Limit
  BY PackagesNumbers DEF PackagesTypes
<1>2. Wanted = Limit
  BY <1>1 DEF Wanted
<1>3. PICK b \in Nat : b = offset + Limit
  BY <1>1
<1>4. PICK l \in Nat : l = Len(lines)
  BY <1>1
<1>5. PICK n \in Nat : n = Len(packages)
  BY <1>1, <1>3, LinesAre
<1>6. n # 0
  <2>1. packages \in Seq(1 .. Len(lines))
    BY <1>1, <1>3, LinesAre
  <2> QED
    BY <2>1, <1>5, EmptySeq
<1>7. n = LET e == IF b < l THEN b ELSE l IN IF offset < e THEN e - offset ELSE 0
  BY <1>1, <1>3, <1>4, <1>5, LinesAre
<1>8. n < Limit
  BY <1>2, <1>5
<1>9. offset + n = l
  BY <1>1, <1>3, <1>6, <1>7, <1>8
<1> QED
  BY <1>4, <1>5, <1>9

(* The batch of what is installed asks for the lines page by page.         *)
LEMMA WindowOfCall ==
  ASSUME PackagesTypes, NEW k \in Nat, NEW u \in Nat,
         LET next == k * Limit + Limit
         IN  k * Limit < Len(lines)
             /\ u = IF next < Len(lines) THEN next ELSE Len(lines)
  PROVE  Window(k * Limit, IF u % Limit = 0 THEN Limit ELSE u % Limit)
           = Lines(k * Limit, (k + 1) * Limit)
<1>1. Limit \in Nat \ {0} /\ Len(lines) \in Nat
  BY PackagesNumbers
<1>2. PICK a \in Nat : a = k * Limit /\ (k + 1) * Limit = a + Limit
  BY Times
<1>3. PICK l \in Nat : l = Len(lines)
  BY <1>1
<1>4. a < l /\ u = IF a + Limit < l THEN a + Limit ELSE l
  BY <1>2, <1>3
<1>5. PICK c \in Nat : c = IF u % Limit = 0 THEN Limit ELSE u % Limit
  <2>1. u % Limit \in Nat
    BY <1>1, Division
  <2>2. PICK rest \in Nat : rest = u % Limit
    BY <2>1
  <2>3. (IF rest = 0 THEN Limit ELSE rest) \in Nat
    BY <1>1
  <2> QED
    BY <2>2, <2>3
<1>6. a = Limit * k
  BY <1>1, <1>2
<1>7. CASE u = a + Limit
  <2>1. PICK j \in Nat : j = k + 1
    OBVIOUS
  <2>2. u = Limit * j + 0
    BY <1>1, <1>2, <1>7, <2>1
  <2>3. u % Limit = 0
    <3>1. 0 \in 0 .. Limit - 1
      BY <1>1
    <3>2. (Limit * j + 0) % Limit = 0
      BY <1>1, <3>1, Remainder
    <3> QED
      BY <2>2, <3>2
  <2>4. c = Limit /\ Size(c) = Limit
    BY <1>1, <1>5, <2>3 DEF Size
  <2>5. Window(a, c) = Lines(a, a + Limit)
    BY <2>4 DEF Window
  <2> QED
    BY <1>2, <1>5, <2>5
<1>8. CASE u # a + Limit
  <2>1. u = l /\ l < a + Limit
    BY <1>1, <1>4, <1>8
  <2>2. PICK r \in 1 .. Limit - 1 : l = a + r
    <3>1. l - a \in 1 .. Limit - 1 /\ l = a + (l - a)
      BY <1>1, <1>4, <2>1
    <3> QED
      BY <3>1
  <2>3. u = Limit * k + r /\ r \in 0 .. Limit - 1
    BY <1>1, <1>6, <2>1, <2>2
  <2>4. u % Limit = r
    BY <1>1, <2>3, Remainder
  <2>5. c = r /\ Size(c) = r
    <3>1. r # 0 /\ r \in 1 .. Limit
      BY <1>1
    <3>2. c = r
      BY <1>5, <2>4, <3>1
    <3> QED
      BY <3>1, <3>2 DEF Size
  <2>6. Window(a, c) = Lines(a, l)
    BY <2>2, <2>5 DEF Window
  <2>7. Lines(a, l) = Lines(a, a + Limit)
    <3>1. ~(a + Limit < Len(lines)) /\ ~(l < Len(lines))
      BY <1>1, <1>3, <2>1
    <3> QED
      BY <3>1 DEF Lines
  <2> QED
    BY <1>2, <1>5, <2>6, <2>7
<1> QED
  BY <1>7, <1>8

LEMMA CallsReachTheEnd ==
  ASSUME NEW l \in Nat, Limit < l
  PROVE  \E m \in Nat \ {0} :
           m = Calls(Limit, l) /\ m * Limit < l /\ l <= (m + 1) * Limit
<1>1. Limit \in Nat \ {0}
  BY PackagesAssumption
<1>2. PICK j \in Nat : j = l - 1
  BY <1>1
<1>3. Calls(Limit, l) = j \div Limit
  <2>1. l - Limit + Limit - 1 = j
    BY <1>1, <1>2
  <2> QED
    BY <2>1 DEF Calls
<1>4. PICK m \in Nat, r \in 0 .. Limit - 1 : m = j \div Limit /\ j = Limit * m + r
  BY <1>1, Division
<1>5. PICK a \in Nat : a = m * Limit /\ (m + 1) * Limit = a + Limit
  BY Times
<1>6. a = Limit * m
  BY <1>1, <1>5
<1>7. j = a + r
  BY <1>4, <1>6
<1>8. a < l /\ l <= a + Limit
  BY <1>1, <1>2, <1>4, <1>7
<1>9. m # 0
  <2>1. m = 0 => a = 0
    BY <1>1, <1>5
  <2> QED
    BY <2>1, <1>1, <1>8
<1> QED
  BY <1>3, <1>4, <1>5, <1>8, <1>9

LEMMA AnswersOfAll ==
  ASSUME PackagesTypes, Readable, Limit < Len(lines), windows = Rest(Limit, Len(lines))
  PROVE  \E m \in Nat \ {0} :
           /\ Len(Answers) = m
           /\ \A k \in 1 .. m : Answers[k] = Lines(k * Limit, (k + 1) * Limit)
           /\ Len(lines) <= (m + 1) * Limit
<1>1. Limit \in Nat \ {0} /\ Len(lines) \in Nat /\ lines \in Seq(BOOLEAN)
  BY PackagesNumbers DEF PackagesTypes
<1>2. PICK l \in Nat : l = Len(lines) /\ Limit < l
  BY <1>1
<1>3. PICK m \in Nat \ {0} : m = Calls(Limit, l) /\ m * Limit < l /\ l <= (m + 1) * Limit
  BY <1>2, CallsReachTheEnd
<1> DEFINE Start(k) == Limit + (k - 1) * Limit
           Until(k) == IF Start(k) + Limit < l THEN Start(k) + Limit ELSE l
           size(k) == IF Until(k) % Limit = 0 THEN Limit ELSE Until(k) % Limit
<1>4. windows = [k \in 1 .. m |-> <<Start(k), size(k)>>]
  BY <1>2, <1>3 DEF Rest
<1>5. ASSUME NEW k \in 1 .. m
      PROVE  Parsed(Window(windows[k][1], windows[k][2])) = Lines(k * Limit, (k + 1) * Limit)
  <2>1. windows[k][1] = Start(k) /\ windows[k][2] = size(k)
    <3> HIDE DEF Start, size
    <3> QED
      BY <1>4
  <2>2. Start(k) = k * Limit
    <3>1. PICK j \in Nat : j = k - 1 /\ k = j + 1
      OBVIOUS
    <3>2. (j + 1) * Limit = j * Limit + Limit /\ j * Limit \in Nat
      BY Times
    <3> QED
      BY <3>1, <3>2, <1>1
  <2>3. k * Limit \in Nat /\ k * Limit <= m * Limit /\ m * Limit \in Nat
        /\ (k + 1) * Limit = k * Limit + Limit
    <3>1. k \in Nat /\ k <= m
      OBVIOUS
    <3> QED
      BY <3>1, Times, TimesGrows
  <2>4. k * Limit < l
    BY <2>3, <1>3
  <2>5. PICK u \in Nat : u = Until(k)
    BY <2>2, <2>3, <1>1
  <2>6. LET next == k * Limit + Limit
        IN  k * Limit < Len(lines)
            /\ u = IF next < Len(lines) THEN next ELSE Len(lines)
    BY <1>2, <2>2, <2>4, <2>5
  <2>7. Window(k * Limit, IF u % Limit = 0 THEN Limit ELSE u % Limit)
           = Lines(k * Limit, (k + 1) * Limit)
    BY <2>6, WindowOfCall
  <2>8. size(k) = IF u % Limit = 0 THEN Limit ELSE u % Limit
    BY <2>5
  <2>9. Lines(k * Limit, (k + 1) * Limit) \in Seq(1 .. Len(lines))
    <3>1. (k + 1) * Limit \in Nat
      BY <2>3, <1>1
    <3> QED
      BY <3>1, <2>3, <1>1, LinesAre
  <2>10. Parsed(Lines(k * Limit, (k + 1) * Limit)) = Lines(k * Limit, (k + 1) * Limit)
    BY <2>9, <1>1, AllAreParsed
  <2> HIDE DEF Start, size
  <2> QED
    BY <2>1, <2>2, <2>7, <2>8, <2>10
<1>6. DOMAIN windows = 1 .. m
  BY <1>4
<1> DEFINE line(k) == Lines(k * Limit, (k + 1) * Limit)
<1>7. Answers = [k \in 1 .. m |-> line(k)]
  BY <1>5, <1>6 DEF Answers
<1> HIDE DEF line
<1>8. Len(Answers) = m /\ \A k \in 1 .. m : Answers[k] = line(k)
  BY <1>7
<1> QED
  BY <1>2, <1>3, <1>8 DEF line

LEMMA AllAreAppended ==
  ASSUME PackagesTypes, Readable, Limit < Len(lines), windows = Rest(Limit, Len(lines)),
         packages = Lines(0, Limit)
  PROVE  packages \o FlattenSeq(Answers) = Lines(0, Len(lines))
<1>1. Limit \in Nat \ {0} /\ Len(lines) \in Nat
  BY PackagesNumbers
<1>2. PICK m \in Nat \ {0} :
        /\ Len(Answers) = m
        /\ \A k \in 1 .. m : Answers[k] = Lines(k * Limit, (k + 1) * Limit)
        /\ Len(lines) <= (m + 1) * Limit
  BY AnswersOfAll
<1>3. PICK flat :
        /\ FlattenSeq(Answers) = flat[m]
        /\ flat[1] = Answers[1]
        /\ \A i \in Nat : 1 <= i /\ i < m => flat[i + 1] = flat[i] \o Answers[i + 1]
  BY <1>2, FlattenSteps
<1> DEFINE N == {n \in Nat : n < m => flat[n + 1] = Lines(Limit, (n + 2) * Limit)}
<1>4. 0 \in N
  <2>1. 1 \in 1 .. m /\ 0 + 1 = 1 /\ 1 + 1 = 2 /\ 0 + 2 = 2
    OBVIOUS
  <2>2. 1 * Limit = Limit
    BY <1>1
  <2>3. Answers[1] = Lines(1 * Limit, (1 + 1) * Limit)
    BY <1>2, <2>1
  <2>4. flat[0 + 1] = Lines(Limit, (0 + 2) * Limit)
    BY <1>3, <2>1, <2>2, <2>3
  <2> QED
    BY <2>4
<1>5. ASSUME NEW n \in Nat, n \in N PROVE n + 1 \in N
  <2> SUFFICES ASSUME n + 1 < m PROVE flat[n + 1 + 1] = Lines(Limit, (n + 1 + 2) * Limit)
    OBVIOUS
  <2>1. PICK i \in Nat : i = n + 1 /\ 1 <= i /\ i < m /\ i + 1 \in 1 .. m
    OBVIOUS
  <2>2. flat[i] = Lines(Limit, (i + 1) * Limit)
    <3>1. n + 2 = i + 1 /\ n < m
      BY <2>1, <1>2
    <3> QED
      BY <1>5, <2>1, <3>1
  <2>3. flat[i + 1] = flat[i] \o Lines((i + 1) * Limit, (i + 1 + 1) * Limit)
    BY <1>2, <1>3, <2>1
  <2>4. PICK b \in Nat, c \in Nat : b = (i + 1) * Limit /\ c = (i + 1 + 1) * Limit
                                    /\ Limit <= b /\ b <= c
    <3>1. PICK d \in Nat : d = i * Limit /\ (i + 1) * Limit = d + Limit
      BY Times
    <3>2. i + 1 \in Nat
      OBVIOUS
    <3>3. (i + 1) * Limit \in Nat /\ (i + 1 + 1) * Limit = (i + 1) * Limit + Limit
      BY <3>2, Times
    <3> QED
      BY <3>1, <3>3, <1>1
  <2>5. Lines(Limit, b) \o Lines(b, c) = Lines(Limit, c)
    BY <1>1, <2>4, LinesJoin
  <2>6. flat[i + 1] = Lines(Limit, c)
    BY <2>2, <2>3, <2>4, <2>5
  <2>7. i + 1 = n + 1 + 1 /\ i + 1 + 1 = n + 1 + 2
    BY <2>1
  <2> QED
    BY <2>4, <2>6, <2>7
<1> HIDE DEF N
<1>6. \A n \in Nat : n \in N
  BY <1>4, <1>5, Induction
<1>7. PICK n \in Nat : m = n + 1 /\ m + 1 = n + 2 /\ n < m
  <2>1. m - 1 \in Nat /\ m = m - 1 + 1 /\ m + 1 = m - 1 + 2 /\ m - 1 < m
    BY <1>2
  <2> QED
    BY <2>1
<1>8. flat[m] = Lines(Limit, (m + 1) * Limit)
  BY <1>6, <1>7 DEF N
<1>9. PICK c \in Nat : c = (m + 1) * Limit /\ Limit <= c /\ Len(lines) <= c
  <2>1. PICK d \in Nat : d = m * Limit /\ (m + 1) * Limit = d + Limit
    BY <1>2, Times
  <2> QED
    BY <2>1, <1>1, <1>2
<1>10. Lines(0, Limit) \o Lines(Limit, c) = Lines(0, c)
  <2>1. 0 \in Nat /\ Limit \in Nat /\ 0 <= Limit
    BY <1>1
  <2> QED
    BY <2>1, <1>1, <1>9, LinesJoin
<1>11. Lines(0, c) = Lines(0, Len(lines))
  <2>1. (IF c < Len(lines) THEN c ELSE Len(lines)) = Len(lines)
    BY <1>1, <1>9
  <2>2. (IF Len(lines) < Len(lines) THEN Len(lines) ELSE Len(lines)) = Len(lines)
    OBVIOUS
  <2> QED
    BY <2>1, <2>2 DEF Lines
<1> QED
  BY <1>3, <1>8, <1>9, <1>10, <1>11

LEMMA BatchMeets ==
  ASSUME PackagesTypes, BatchGoesOn, Batch
  PROVE  BatchGoesOn' /\ WindowsMeet'
<1>1. /\ lines' = lines /\ what' = what /\ offset' = offset /\ disturbed' = disturbed
      /\ fetch = "batch" /\ fetch' = "none"
  BY DEF Batch, Done
<1>2. BatchGoesOn'
  BY <1>1 DEF BatchGoesOn
<1>3. ASSUME ~disturbed, Readable
      PROVE  packages' = Lines(offset, IF what = "page" THEN offset + Limit ELSE Len(lines))
  <2>1. /\ packages = Lines(offset, offset + Limit)
        /\ packages # <<>>
        /\ Len(packages) < Wanted
        /\ windows = Rest(offset + Len(packages), Wanted)
    BY <1>1, <1>3 DEF BatchGoesOn
  <2>2. packages' = packages \o FlattenSeq(Answers)
    BY BatchAppends
  <2>3. /\ Limit \in Nat \ {0} /\ Len(lines) \in Nat /\ Wanted \in Nat
        /\ packages \in Seq(1 .. MaxLines)
    BY PackagesNumbers DEF PackagesTypes
  <2>4. CASE what = "page"
    <3>1. offset + Len(packages) = Len(lines)
      BY <2>1, <2>4, PageIsShort
    <3>2. FlattenSeq(Answers) = <<>>
      BY <1>3, <2>1, <2>3, <3>1, NothingBehind
    <3>3. packages' = packages
      BY <2>2, <2>3, <3>2, NothingAppended
    <3> QED
      BY <2>1, <2>4, <3>3
  <2>5. CASE what # "page"
    <3>1. offset = 0 /\ limit = 0
      BY <2>5 DEF PackagesTypes
    <3>2. Wanted = Len(lines) /\ packages = Lines(0, Limit)
      <4>1. 0 + Limit = Limit
        BY <2>3
      <4> QED
        BY <2>1, <3>1, <4>1 DEF Wanted
    <3>3. PICK l \in Nat, n \in Nat : l = Len(lines) /\ n = Len(packages)
      BY <2>3
    <3>4. n < l
      BY <2>1, <3>2, <3>3
    <3>5. n = LET e == IF Limit < l THEN Limit ELSE l IN IF 0 < e THEN e - 0 ELSE 0
      BY <2>3, <3>2, <3>3, LinesAre
    <3>6. Limit < l /\ n = Limit
      BY <2>3, <3>4, <3>5
    <3>7. windows = Rest(Limit, Len(lines))
      <4>1. offset + Len(packages) = Limit
        BY <2>3, <3>1, <3>3, <3>6
      <4> QED
        BY <2>1, <3>2, <4>1
    <3>8. packages \o FlattenSeq(Answers) = Lines(0, Len(lines))
      BY <1>3, <3>2, <3>3, <3>6, <3>7, AllAreAppended
    <3> QED
      BY <2>2, <2>5, <3>1, <3>8
  <2> QED
    BY <2>4, <2>5
<1>4. ASSUME ~disturbed', \A n \in DOMAIN lines' : lines'[n]
      PROVE  packages' = Lines(offset, IF what = "page" THEN offset + Limit ELSE Len(lines))'
  <2>1. ~disturbed /\ Readable
    BY <1>1, <1>4 DEF Readable
  <2>2. packages' = Lines(offset, IF what = "page" THEN offset + Limit ELSE Len(lines))
    BY <1>3, <2>1
  <2> QED
    BY <1>1, <2>2 DEF Lines
<1>5. WindowsMeet'
  BY <1>4 DEF WindowsMeet
<1> QED
  BY <1>2, <1>5

(* A lost answer and a change of the list spoil what was undisturbed, and  *)
(* a new fetch has nothing yet.                                            *)
LEMMA MeetsElsewhere ==
  ASSUME \/ disturbed' = TRUE
         \/ fetch' = "first"
  PROVE  BatchGoesOn' /\ WindowsMeet'
BY DEF BatchGoesOn, WindowsMeet

LEMMA PackagesKept ==
  ASSUME PackagesInv, [PackagesNext]_software
  PROVE  PackagesInv'
<1>1. PackagesTypes /\ BatchGoesOn /\ WindowsMeet
  BY DEF PackagesInv
<1>2. PackagesTypes'
  BY <1>1, PackagesTypesKept
<1>3. BatchGoesOn' /\ WindowsMeet'
  <2>1. CASE First
    BY <1>1, <2>1, FirstMeets
  <2>2. CASE Batch
    BY <1>1, <2>2, BatchMeets
  <2>3. CASE Lose
    <3>1. disturbed' = TRUE
      BY <2>3 DEF Lose
    <3> QED
      BY <3>1, MeetsElsewhere
  <2>4. CASE FetchInstalled \/ FetchPage(buttons[1]) \/ FetchPage(0) \/ Previous \/ Following
    <3>1. fetch' = "first"
      BY <2>4 DEF FetchInstalled, FetchPage, Previous, Following, Fetch
    <3> QED
      BY <3>1, MeetsElsewhere
  <2>5. CASE \/ Len(lines) < MaxLines /\ \E readable \in BOOLEAN : Change(Append(lines, readable))
             \/ lines # <<>> /\ Change(Front(lines))
    <3>1. disturbed' = TRUE
      BY <2>5 DEF Change
    <3> QED
      BY <3>1, MeetsElsewhere
  <2>6. CASE UNCHANGED software
    BY <1>1, <2>6
      DEF software, BatchGoesOn, WindowsMeet, Readable, Wanted, Lines, Rest, Calls
  <2> QED
    BY <2>1, <2>2, <2>3, <2>4, <2>5, <2>6 DEF PackagesNext
<1> QED
  BY <1>2, <1>3 DEF PackagesInv

LEMMA PackagesAlways == PackagesSpec => []PackagesInv
<1>1. PackagesInit => PackagesInv
  BY PackagesStart
<1>2. PackagesInv /\ [PackagesNext]_software => PackagesInv'
  BY PackagesKept
<1> QED
  BY <1>1, <1>2, PTL DEF PackagesSpec

(* Offsets are those of pages, whatever the user does and however the list *)
(* changes, and what is listed are lines (system.software.js).             *)
THEOREM PackagesTypeCorrect == PackagesSpec => []PackagesTypeOK
<1>1. ASSUME PackagesInv PROVE PackagesTypeOK
  <2>1. PackagesTypes
    BY <1>1 DEF PackagesInv
  <2>2. offset \in Nat /\ offset % Limit = 0 /\ buttons[1] % Limit = 0
    BY <2>1, MultiplesHaveNoRemainder DEF PackagesTypes
  <2>3. limit \in {0, Limit} /\ buttons[2] \in 0 .. MaxLines
    BY <2>1 DEF PackagesTypes
  <2> QED
    BY <2>1, <2>2, <2>3 DEF PackagesTypes, PackagesTypeOK
<1>2. PackagesInv => PackagesTypeOK
  BY <1>1
<1> QED
  BY <1>2, PackagesAlways, PTL

(* For any size of a window and any length of the list, the windows of a   *)
(* fetch that nothing disturbs meet: no package is lost between two of     *)
(* them and none comes twice (_fetchPackages, opkg_parse_list).            *)
THEOREM NoPackageIsLost == PackagesSpec => []WindowsMeet
<1>1. PackagesInv => WindowsMeet
  BY DEF PackagesInv
<1> QED
  BY <1>1, PackagesAlways, PTL

-----------------------------------------------------------------------------
(* CbiSections: the indices the loop visits, step by step.                 *)
IsAfter(after, m) ==
  after = [n \in 0 .. m |->
    IF n = 0 THEN {0}
    ELSE after[n - 1] \cup {NextIndex(i) : i \in {j \in after[n - 1] : j < Len(top)}}]

AfterOf(m) == CHOOSE after : IsAfter(after, m)

LEMMA VisitedIsLoop == Visited = AfterOf(Len(top))[Len(top)]
BY DEF Visited, AfterOf, IsAfter

LEMMA AfterStarts ==
  ASSUME NEW m \in Nat
  PROVE  \E after : IsAfter(after, m)
<1> DEFINE N == {k \in Nat : \E after : IsAfter(after, k)}
           more(s) == s \cup {NextIndex(i) : i \in {j \in s : j < Len(top)}}
<1>0. ASSUME NEW after, NEW k \in Nat
      PROVE  IsAfter(after, k) <=>
               after = [n \in 0 .. k |-> IF n = 0 THEN {0} ELSE more(after[n - 1])]
  BY DEF IsAfter
<1> HIDE DEF more
<1>1. 0 \in N
  <2> DEFINE after == [n \in 0 .. 0 |-> {0}]
  <2>1. after = [n \in 0 .. 0 |-> IF n = 0 THEN {0} ELSE more(after[n - 1])]
    OBVIOUS
  <2> HIDE DEF after
  <2> QED
    BY <1>0, <2>1
<1>2. ASSUME NEW k \in Nat, k \in N PROVE k + 1 \in N
  <2>1. PICK old : old = [n \in 0 .. k |-> IF n = 0 THEN {0} ELSE more(old[n - 1])]
    BY <1>0, <1>2
  <2> DEFINE new == [n \in 0 .. k + 1 |-> IF n <= k THEN old[n] ELSE more(old[n - 1])]
             body(f) == [n \in 0 .. k + 1 |-> IF n = 0 THEN {0} ELSE more(f[n - 1])]
  <2>2. ASSUME NEW n \in 0 .. k + 1 PROVE new[n] = body(new)[n]
    <3>1. CASE n = k + 1
      <4>1. n # 0 /\ n - 1 \in 0 .. k + 1 /\ n - 1 <= k /\ ~(n <= k)
        BY <3>1
      <4>2. new[n - 1] = old[n - 1] /\ new[n] = more(old[n - 1])
        BY <4>1
      <4> QED
        BY <4>1, <4>2
    <3>2. CASE n # k + 1 /\ n # 0
      <4>1. n \in 0 .. k /\ n - 1 \in 0 .. k /\ n - 1 \in 0 .. k + 1
        BY <3>2
      <4>2. new[n] = old[n] /\ new[n - 1] = old[n - 1]
        BY <4>1
      <4>3. old[n] = more(old[n - 1])
        BY <2>1, <4>1, <3>2
      <4> QED
        BY <4>2, <4>3, <3>2
    <3>3. CASE n = 0
      <4>1. old[0] = {0}
        BY <2>1
      <4> QED
        BY <4>1, <3>3
    <3> QED
      BY <3>1, <3>2, <3>3
  <2>3. new = body(new)
    BY <2>2
  <2>4. k + 1 \in Nat
    OBVIOUS
  <2>5. IsAfter(new, k + 1)
    BY <1>0, <2>3, <2>4
  <2> HIDE DEF new
  <2> QED
    BY <2>4, <2>5
<1> HIDE DEF N
<1>3. m \in N
  BY <1>1, <1>2, Induction
<1> QED
  BY <1>3 DEF N

LEMMA VisitedSteps ==
  ASSUME Len(top) \in Nat
  PROVE  \E after :
           /\ Visited = after[Len(top)]
           /\ after[0] = {0}
           /\ \A n \in Nat : n < Len(top) =>
                after[n + 1] =
                  after[n] \cup {NextIndex(i) : i \in {j \in after[n] : j < Len(top)}}
<1>1. PICK m \in Nat : m = Len(top)
  OBVIOUS
<1>2. PICK after : after = AfterOf(m)
  OBVIOUS
<1>3. IsAfter(after, m)
  BY <1>2, AfterStarts DEF AfterOf
<1> DEFINE more(s) == s \cup {NextIndex(i) : i \in {j \in s : j < Len(top)}}
<1>4. after = [n \in 0 .. m |-> IF n = 0 THEN {0} ELSE more(after[n - 1])]
  BY <1>3 DEF IsAfter
<1>5. Visited = after[m]
  BY <1>1, <1>2, VisitedIsLoop
<1> HIDE DEF more
<1>6. after[0] = {0}
  BY <1>4
<1>7. ASSUME NEW n \in Nat, n < m PROVE after[n + 1] = more(after[n])
  <2>1. PICK k \in 0 .. m : k = n + 1 /\ k # 0 /\ k - 1 = n
    BY <1>7
  <2>2. after[k] = more(after[k - 1])
    BY <1>4, <2>1
  <2> QED
    BY <2>1, <2>2
<1>8. \A n \in Nat : n < Len(top) => after[n + 1] = more(after[n])
  BY <1>1, <1>7
<1> QED
  BY <1>1, <1>5, <1>6, <1>8 DEF more

(* Without subsections the loop visits every index there is.               *)
LEMMA FlatVisits ==
  ASSUME Len(top) \in Nat, ~nested
  PROVE  Visited = 0 .. Len(top)
<1>1. PICK l \in Nat : l = Len(top)
  OBVIOUS
<1>2. PICK after :
        /\ Visited = after[l]
        /\ after[0] = {0}
        /\ \A n \in Nat : n < l =>
             after[n + 1] = after[n] \cup {NextIndex(i) : i \in {j \in after[n] : j < l}}
  BY <1>1, VisitedSteps
<1>3. \A i \in Nat : NextIndex(i) = i + 1
  BY DEF NextIndex
<1> DEFINE N == {n \in Nat : n <= l => after[n] = 0 .. n}
<1>4. 0 \in N
  BY <1>2
<1>5. ASSUME NEW n \in Nat, n \in N PROVE n + 1 \in N
  <2> SUFFICES ASSUME n + 1 <= l PROVE after[n + 1] = 0 .. n + 1
    OBVIOUS
  <2>1. after[n] = 0 .. n /\ n < l
    BY <1>5
  <2>2. {j \in after[n] : j < l} = 0 .. n
    BY <2>1
  <2>3. {NextIndex(i) : i \in 0 .. n} = {i + 1 : i \in 0 .. n}
    <3>1. \A i \in 0 .. n : NextIndex(i) = i + 1
      BY <1>3
    <3> DEFINE f(i) == NextIndex(i)
               g(i) == i + 1
    <3>2. \A i \in 0 .. n : f(i) = g(i)
      BY <3>1
    <3> HIDE DEF f, g
    <3>3. {f(i) : i \in 0 .. n} = {g(i) : i \in 0 .. n}
      BY <3>2
    <3> QED
      BY <3>3 DEF f, g
  <2>4. 0 .. n \cup {i + 1 : i \in 0 .. n} = 0 .. n + 1
    <3>1. ASSUME NEW x \in 0 .. n + 1 PROVE x \in 0 .. n \/ \E i \in 0 .. n : x = i + 1
      <4>1. CASE x = n + 1
        BY <4>1
      <4>2. CASE x # n + 1
        BY <4>2
      <4> QED
        BY <4>1, <4>2
    <3>2. \A i \in 0 .. n : i + 1 \in 0 .. n + 1 /\ i \in 0 .. n + 1
      OBVIOUS
    <3> QED
      BY <3>1, <3>2
  <2>5. after[n + 1] = after[n] \cup {NextIndex(i) : i \in {j \in after[n] : j < l}}
    BY <1>2, <2>1
  <2> QED
    BY <2>1, <2>2, <2>3, <2>4, <2>5
<1> HIDE DEF N
<1>6. l \in N
  BY <1>4, <1>5, Induction
<1>7. after[l] = 0 .. l
  BY <1>6 DEF N
<1> QED
  BY <1>1, <1>2, <1>7

(* With one section it visits that one, and then an index behind it.       *)
LEMMA OneIsVisited ==
  ASSUME Len(top) \in Nat, Len(top) <= 1, nested,
         Len(top) = 1 => Len(kids[top[1]]) \in Nat
  PROVE  /\ {j \in Visited : j < Len(top)} = {j \in 0 .. Len(top) : j < Len(top)}
         /\ \E i \in Visited : i >= Len(top)
<1>1. PICK l \in Nat : l = Len(top) /\ l <= 1
  OBVIOUS
<1>2. PICK after :
        /\ Visited = after[l]
        /\ after[0] = {0}
        /\ \A n \in Nat : n < l =>
             after[n + 1] = after[n] \cup {NextIndex(i) : i \in {j \in after[n] : j < l}}
  BY <1>1, VisitedSteps
<1>3. CASE l = 0
  <2>1. Visited = {0}
    BY <1>2, <1>3
  <2> QED
    BY <1>1, <1>3, <2>1
<1>4. CASE l = 1
  <2>1. PICK k \in Nat : k = Len(kids[top[1]])
    BY <1>1, <1>4
  <2>2. NextIndex(0) = k + 1
    <3>1. 0 + 1 = 1
      OBVIOUS
    <3> QED
      BY <2>1, <3>1 DEF NextIndex
  <2>3. after[0 + 1] = {0} \cup {NextIndex(i) : i \in {j \in {0} : j < l}}
    BY <1>2, <1>4
  <2>4. {j \in {0} : j < l} = {0}
    BY <1>4
  <2>5. Visited = {0, k + 1}
    BY <1>2, <1>4, <2>2, <2>3, <2>4
  <2>6. {j \in Visited : j < 1} = {0} /\ {j \in 0 .. 1 : j < 1} = {0}
    BY <2>5
  <2>7. k + 1 \in Visited /\ k + 1 >= 1
    BY <2>5
  <2> QED
    BY <1>1, <1>4, <2>6, <2>7
<1> QED
  BY <1>1, <1>3, <1>4

(* What keeps the types of a map: a flat map has no subsections.           *)
SectionsTypes ==
  /\ top \in Seq(Section)
  /\ kids \in [Section -> Seq(Section)]
  /\ ~nested => \A p \in Section : kids[p] = <<>>
  /\ edited \subseteq Shown /\ wrong \subseteq Section /\ lost \subseteq Section
  /\ panel \in -1 .. Len(top)
  /\ page \in {"open", "closed", "frozen"}

LEMMA ShownAreSections ==
  ASSUME NEW t \in Seq(Section), NEW k \in [Section -> Seq(Section)]
  PROVE  ToSet(t) \subseteq Section /\ KidsOf(k, t) \subseteq Section
<1>1. \A q \in Seq(Section) : ToSet(q) \subseteq Section
  BY DEF ToSet
<1>2. ToSet(t) \subseteq Section
  BY <1>1
<1>3. \A s \in ToSet(t) : ToSet(k[s]) \subseteq Section
  BY <1>1, <1>2
<1> QED
  BY <1>2, <1>3 DEF KidsOf

(* Where the shared counter does no harm the loop ends, and has saved all  *)
(* that is shown.                                                          *)
LEMMA FlatSavesAll ==
  ASSUME SectionsTypes, Len(top) <= 1 \/ ~nested
  PROVE  Ends /\ SavedSections = Shown
<1>1. top \in Seq(Section) /\ kids \in [Section -> Seq(Section)]
  BY DEF SectionsTypes
<1>2. PICK l \in Nat : l = Len(top)
  BY <1>1
<1>3. /\ {j \in Visited : j < l} = {j \in 0 .. l : j < l}
      /\ \E i \in Visited : i >= l
  <2>1. CASE ~nested
    <3>1. Visited = 0 .. l
      BY <1>2, <2>1, FlatVisits
    <3>2. l \in 0 .. l /\ l >= l
      OBVIOUS
    <3> QED
      BY <3>1, <3>2
  <2>2. CASE nested
    <3>1. l <= 1
      BY <1>2, <2>2
    <3>2. l = 1 => Len(kids[top[1]]) \in Nat
      BY <1>1, <1>2
    <3> QED
      BY <1>2, <2>2, <3>1, <3>2, OneIsVisited
  <2> QED
    BY <2>1, <2>2
<1> DEFINE tops == {top[i + 1] : i \in {j \in Visited : j < Len(top)}}
<1>4. tops = ToSet(top)
  <2>1. tops = {top[i + 1] : i \in {j \in 0 .. l : j < l}}
    BY <1>2, <1>3
  <2>2. ToSet(top) = {top[i] : i \in 1 .. l}
    <3>1. DOMAIN top = 1 .. l
      BY <1>1, <1>2
    <3> QED
      BY <3>1 DEF ToSet
  <2>3. \A i \in {j \in 0 .. l : j < l} : i + 1 \in 1 .. l
    OBVIOUS
  <2>4. ASSUME NEW i \in 1 .. l PROVE \E n \in {j \in 0 .. l : j < l} : i = n + 1
    <3>1. i - 1 \in {j \in 0 .. l : j < l} /\ i = i - 1 + 1
      OBVIOUS
    <3> QED
      BY <3>1
  <2> QED
    BY <2>1, <2>2, <2>3, <2>4
<1>5. SavedSections = tops \cup UNION {ToSet(kids[s]) : s \in tops}
  BY DEF SavedSections
<1>6. Ends
  BY <1>2, <1>3 DEF Ends
<1> HIDE DEF tops
<1> QED
  BY <1>4, <1>5, <1>6 DEF Shown, KidsOf

-----------------------------------------------------------------------------
(* The types are kept.                                                     *)
LEMMA PanelIsThere ==
  ASSUME NEW len \in Nat, NEW n \in Int, n >= -1
  PROVE  PanelFor(n, len) \in -1 .. len
<1>1. CASE n < 0
  BY <1>1 DEF PanelFor
<1>2. CASE n >= 0 /\ n >= len
  BY <1>2 DEF PanelFor
<1>3. CASE n >= 0 /\ ~(n >= len)
  BY <1>3 DEF PanelFor
<1> QED
  BY <1>1, <1>2, <1>3

(* Where everything it is called with is well typed.                       *)
LEMMA SaveKeepsTypes ==
  ASSUME SectionsTypes, UNCHANGED nested,
         NEW newtop \in Seq(Section), NEW newkids \in [Section -> Seq(Section)],
         ~nested => \A p \in Section : newkids[p] = <<>>,
         NEW index \in Int, index >= -1,
         page = "open", SaveAndRedraw(newtop, newkids, index)
  PROVE  SectionsTypes'
<1>1. Shown \subseteq Section
  BY ShownAreSections DEF SectionsTypes, Shown
<1>2. CASE Ends
  <2>1. /\ lost'   = lost \cup (edited \ SavedSections)
        /\ edited' = {}
        /\ top' = newtop /\ kids' = newkids
        /\ panel'  = PanelFor(index, Len(newtop))
        /\ wrong'  = wrong \cap (SavedSections \cap (ToSet(newtop) \cup KidsOf(newkids, newtop)))
        /\ page' = page
    BY <1>2 DEF SaveAndRedraw
  <2>2. lost \subseteq Section /\ wrong \subseteq Section /\ edited \subseteq Section
    BY <1>1 DEF SectionsTypes
  <2>3. lost' \subseteq Section /\ wrong' \subseteq Section
    BY <2>1, <2>2
  <2>4. panel' \in -1 .. Len(top')
    BY <2>1, PanelIsThere
  <2> QED
    BY <2>1, <2>3, <2>4 DEF SectionsTypes
<1>3. CASE ~Ends
  <2>1. page' = "frozen" /\ UNCHANGED <<top, kids, edited, wrong, lost, panel>>
    BY <1>3 DEF SaveAndRedraw
  <2> QED
    BY <2>1 DEF SectionsTypes, Shown
<1> QED
  BY <1>2, <1>3

LEMMA SectionsStepTypes ==
  ASSUME SectionsTypes, [SectionsNext]_sections
  PROVE  SectionsTypes'
<1>1. /\ top \in Seq(Section) /\ kids \in [Section -> Seq(Section)]
      /\ panel \in Int /\ panel >= -1
      /\ Len(top) \in Nat
  <2>1. top \in Seq(Section) /\ kids \in [Section -> Seq(Section)]
    BY DEF SectionsTypes
  <2>2. Len(top) \in Nat
    BY <2>1
  <2>3. panel \in -1 .. Len(top)
    BY DEF SectionsTypes
  <2> QED
    BY <2>1, <2>2, <2>3
<1>2. Shown \subseteq Section
  BY <1>1, ShownAreSections DEF Shown
<1>3. CASE UNCHANGED sections
  BY <1>3 DEF sections, SectionsTypes, Shown
<1>4. CASE EditSection /\ UNCHANGED kind
  <2>1. PICK s \in Shown, bad \in BOOLEAN :
          /\ edited' = edited \cup {s}
          /\ wrong'  = IF bad THEN wrong \cup {s} ELSE wrong \ {s}
    BY <1>4 DEF EditSection
  <2>2. UNCHANGED <<top, kids, lost, panel, page, nested>>
    BY <1>4 DEF EditSection, kind
  <2>3. wrong' \subseteq Section
    BY <1>2, <2>1 DEF SectionsTypes
  <2>4. edited' \subseteq Shown
    BY <2>1 DEF SectionsTypes
  <2> QED
    BY <2>2, <2>3, <2>4 DEF SectionsTypes, Shown
<1>5. CASE HandleAdd /\ page = "open" /\ UNCHANGED kind
  <2>1. PICK s \in Unused : SaveAndRedraw(Append(top, s), [kids EXCEPT ![s] = <<>>], -1)
    BY <1>5 DEF HandleAdd
  <2>2. s \in Section
    BY <2>1 DEF Unused
  <2>3. Append(top, s) \in Seq(Section)
    BY <1>1, <2>2
  <2>4. PICK new \in [Section -> Seq(Section)] : new = [kids EXCEPT ![s] = <<>>]
    <3>1. PICK none \in Seq(Section) : none = <<>>
      BY EmptyIsSeq
    <3>2. [kids EXCEPT ![s] = none] \in [Section -> Seq(Section)]
      BY <1>1, <2>2
    <3> QED
      BY <3>1, <3>2
  <2>5. ~nested => \A p \in Section : new[p] = <<>>
    BY <1>1, <2>2, <2>4 DEF SectionsTypes
  <2>6. nested' = nested
    BY <1>5 DEF kind
  <2>7. PICK longer \in Seq(Section), index \in Int :
          longer = Append(top, s) /\ index = -1 /\ index >= -1
    <3>1. -1 \in Int /\ -1 >= -1
      OBVIOUS
    <3>2. PICK longer \in Seq(Section) : longer = Append(top, s)
      BY <2>3
    <3> QED
      BY <3>1, <3>2
  <2>8. SaveAndRedraw(longer, new, index)
    BY <2>1, <2>4, <2>7
  <2> QED
    BY <1>5, <2>5, <2>6, <2>7, <2>8, SaveKeepsTypes
<1>6. CASE HandleAddSub /\ page = "open" /\ UNCHANGED kind
  <2>1. PICK s \in Unused, p \in ToSet(top) :
          nested /\ SaveAndRedraw(top, [kids EXCEPT ![p] = Append(@, s)], panel)
    BY <1>6 DEF HandleAddSub
  <2>2. s \in Section /\ p \in Section
    BY <1>1, <2>1, ShownAreSections DEF Unused
  <2>3. PICK new \in [Section -> Seq(Section)] : new = [kids EXCEPT ![p] = Append(@, s)]
    <3>1. PICK more \in Seq(Section) : more = Append(kids[p], s)
      <4>1. kids[p] \in Seq(Section)
        BY <1>1, <2>2
      <4>2. Append(kids[p], s) \in Seq(Section)
        BY <2>2, <4>1
      <4> QED
        BY <4>2
    <3>2. [kids EXCEPT ![p] = more] \in [Section -> Seq(Section)]
      BY <1>1, <2>2
    <3> QED
      BY <3>1, <3>2
  <2>4. nested' = nested
    BY <1>6 DEF kind
  <2> QED
    BY <1>1, <1>6, <2>1, <2>3, <2>4, SaveKeepsTypes
<1>7. CASE HandleRemove /\ page = "open" /\ UNCHANGED kind
  <2>1. PICK s \in Shown :
          SaveAndRedraw(Within(top, Section \ {s}),
            [p \in Section |-> IF p = s THEN <<>> ELSE Within(kids[p], Section \ {s})], panel)
    BY <1>7 DEF HandleRemove
  <2> DEFINE new == [p \in Section |-> IF p = s THEN <<>> ELSE Within(kids[p], Section \ {s})]
  <2>2. Within(top, Section \ {s}) \in Seq(Section)
    BY <1>1, WithinSubset
  <2>3. \A p \in Section : Within(kids[p], Section \ {s}) \in Seq(Section)
    BY <1>1, WithinSubset
  <2>4. new \in [Section -> Seq(Section)]
    BY <2>3, EmptyIsSeq
  <2>5. ASSUME ~nested, NEW p \in Section PROVE new[p] = <<>>
    <3>1. kids[p] = <<>> /\ <<>> \in Seq(Section)
      BY <2>5, EmptyIsSeq DEF SectionsTypes
    <3>2. ToSet(kids[p]) \subseteq Section \ {s}
      BY <3>1 DEF ToSet
    <3>3. Within(kids[p], Section \ {s}) = <<>>
      BY <3>1, <3>2, WithinKeepsAll
    <3> QED
      BY <3>3
  <2>6. nested' = nested
    BY <1>7 DEF kind
  <2> HIDE DEF new
  <2>7. SaveAndRedraw(Within(top, Section \ {s}), new, panel)
    BY <2>1 DEF new
  <2> QED
    BY <1>1, <1>7, <2>2, <2>4, <2>5, <2>6, <2>7, SaveKeepsTypes
<1>8. CASE HandlePanelCollapse /\ UNCHANGED kind
  <2>1. PICK i \in 1 .. Len(top) : panel' = i - 1
    BY <1>1, <1>8 DEF HandlePanelCollapse
  <2>2. panel' \in -1 .. Len(top)
    BY <1>1, <2>1
  <2>3. UNCHANGED <<top, kids, edited, wrong, lost, page, nested>>
    BY <1>8 DEF HandlePanelCollapse, kind
  <2> QED
    BY <2>2, <2>3 DEF SectionsTypes, Shown
<1>9. CASE HandleSave /\ page = "open" /\ UNCHANGED kind
  <2>1. nested' = nested
    BY <1>9 DEF kind
  <2>2. CASE SaveAndRedraw(top, kids, panel)
    <3>1. ~nested => \A p \in Section : kids[p] = <<>>
      BY DEF SectionsTypes
    <3> QED
      BY <1>1, <1>9, <2>1, <2>2, <3>1, SaveKeepsTypes
  <2>3. CASE ~SaveAndRedraw(top, kids, panel)
    <3>1. /\ lost' \in {lost, lost \cup (edited \ SavedSections), lost \cup edited}
          /\ edited' \in {{}, edited} /\ page' \in {"closed", page}
          /\ UNCHANGED <<top, kids, wrong, panel>>
      BY <1>9, <2>3 DEF HandleSave
    <3>2. lost' \subseteq Section
      BY <1>2, <3>1 DEF SectionsTypes
    <3>3. edited' \subseteq Shown
      BY <3>1 DEF SectionsTypes
    <3>4. page' \in {"open", "closed", "frozen"}
      BY <3>1 DEF SectionsTypes
    <3> QED
      BY <2>1, <3>1, <3>2, <3>3, <3>4 DEF SectionsTypes, Shown
  <2> QED
    BY <2>2, <2>3
<1>10. CASE HandleReset /\ UNCHANGED kind
  <2>1. /\ edited' = {} /\ wrong' = {}
        /\ page' \in {"closed", page}
        /\ panel' = PanelFor(panel, Len(top))
        /\ UNCHANGED <<top, kids, lost, nested>>
    BY <1>10 DEF HandleReset, kind
  <2>2. panel' \in -1 .. Len(top)
    BY <1>1, <2>1, PanelIsThere
  <2> QED
    BY <2>1, <2>2 DEF SectionsTypes, Shown
<1> QED
  BY <1>3, <1>4, <1>5, <1>6, <1>7, <1>8, <1>9, <1>10 DEF SectionsNext

LEMMA SectionsStart ==
  ASSUME SectionsInit
  PROVE  SectionsTypes
<1>1. MaxTop \in Nat /\ MaxKids \in Nat
  BY SectionsAssumption
<1>2. ASSUME NEW n \in Nat, NEW q \in Lists(n) PROVE q \in Seq(Section) /\ Len(q) <= n
  <2>1. q \in BoundedSeq(Section, n)
    BY <1>2 DEF Lists
  <2> QED
    BY <2>1, BoundedAreSeqs
<1>3. top \in Seq(Section)
  BY <1>1, <1>2 DEF SectionsInit
<1>4. PICK n \in Nat : n = IF nested THEN MaxKids ELSE 0
  BY <1>1
<1>5. kids \in [Section -> Lists(n)]
  BY <1>4 DEF SectionsInit
<1>6. \A p \in Section : kids[p] \in Seq(Section) /\ Len(kids[p]) <= n
  BY <1>2, <1>5
<1>7. kids \in [Section -> Seq(Section)]
  BY <1>5, <1>6
<1>8. ASSUME ~nested, NEW p \in Section PROVE kids[p] = <<>>
  <2>1. kids[p] \in Seq(Section) /\ Len(kids[p]) <= 0
    BY <1>4, <1>6, <1>8
  <2>2. Len(kids[p]) = 0
    BY <2>1
  <2> QED
    BY <2>1, <2>2, EmptySeq
<1>9. panel \in -1 .. Len(top)
  <2>1. Len(top) \in Nat /\ 0 \in Int /\ 0 >= -1 /\ panel = PanelFor(0, Len(top))
    BY <1>3 DEF SectionsInit
  <2> QED
    BY <2>1, PanelIsThere
<1> QED
  BY <1>3, <1>7, <1>8, <1>9 DEF SectionsInit, SectionsTypes

LEMMA SectionsAlways == SectionsSpec => []SectionsTypes
<1>1. SectionsInit => SectionsTypes
  BY SectionsStart
<1>2. SectionsTypes /\ [SectionsNext]_sections => SectionsTypes'
  BY SectionsStepTypes
<1> QED
  BY <1>1, <1>2, PTL DEF SectionsSpec

(* Only sections that are shown have edits, and the open panel is one of   *)
(* those drawn (Map.redraw, renderBody).                                   *)
THEOREM SectionsTypeCorrect == SectionsSpec => []SectionsTypeOK
<1>1. SectionsTypes => SectionsTypeOK
  BY ShownAreSections DEF SectionsTypes, SectionsTypeOK
<1> QED
  BY <1>1, SectionsAlways, PTL

-----------------------------------------------------------------------------
(* A step of a flat map, or of one with a single section, loses no edit.   *)
LEMMA FlatStep ==
  ASSUME SectionsTypes, SectionsNext,
         Len(top) <= 1 \/ ~nested, ~modal \/ Valid
  PROVE  lost' = lost /\ page' # "frozen"
<1>1. page = "open"
  BY DEF SectionsNext
<1>2. Ends /\ SavedSections = Shown /\ edited \subseteq Shown
  BY FlatSavesAll DEF SectionsTypes
<1>3. ASSUME NEW newtop, NEW newkids, NEW index, SaveAndRedraw(newtop, newkids, index)
      PROVE  lost' = lost /\ page' # "frozen"
  <2>1. lost' = lost \cup (edited \ SavedSections) /\ page' = page
    BY <1>2, <1>3 DEF SaveAndRedraw
  <2>2. edited \ SavedSections = {}
    BY <1>2
  <2> QED
    BY <1>1, <2>1, <2>2
<1>4. CASE EditSection \/ HandlePanelCollapse \/ HandleReset
  <2>1. lost' = lost /\ (page' = page \/ page' = "closed")
    BY <1>4 DEF EditSection, HandlePanelCollapse, HandleReset
  <2> QED
    BY <1>1, <2>1
<1>5. CASE HandleAdd
  BY <1>3, <1>5 DEF HandleAdd
<1>6. CASE HandleAddSub
  BY <1>3, <1>6 DEF HandleAddSub
<1>7. CASE HandleRemove
  BY <1>3, <1>7 DEF HandleRemove
<1>8. CASE HandleSave
  <2>1. CASE SaveAndRedraw(top, kids, panel)
    BY <1>3, <2>1
  <2>2. CASE Valid /\ page' = "closed" /\ lost' = lost \cup (edited \ SavedSections)
    <3>1. edited \ SavedSections = {}
      BY <1>2
    <3> QED
      BY <2>2, <3>1
  <2>3. CASE ~Valid /\ ~modal /\ UNCHANGED <<page, lost, edited>>
    BY <1>1, <2>3
  <2>4. CASE ~Valid /\ modal
    BY <2>4
  <2> QED
    BY <1>8, <2>1, <2>2, <2>3, <2>4 DEF HandleSave
<1> QED
  BY <1>4, <1>5, <1>6, <1>7, <1>8 DEF SectionsNext

(* For any number of sections: in a map without subsections, and in one    *)
(* with a single section, no save draws over an edit and the loop of       *)
(* save() comes to its end (AbstractSection.save, Map.save, handleAdd).    *)
THEOREM FlatMapsSaveAll == SectionsSpec => FlatEditsSaved
<1>1. SectionsTypes /\ [SectionsNext]_sections => [FlatEditsKept]_sections
  <2>1. ASSUME SectionsTypes, SectionsNext PROVE FlatEditsKept
    BY <2>1, FlatStep DEF FlatEditsKept
  <2> QED
    BY <2>1
<1> QED
  BY <1>1, SectionsAlways, PTL DEF SectionsSpec, FlatEditsSaved

-----------------------------------------------------------------------------
(* Addresses: the bytes of the groups of an address.                       *)
LEMMA TwoBytesEach ==
  ASSUME NEW g \in Seq(Nat)
  PROVE  TwoBytes(g) \in Seq(Int) /\ Len(TwoBytes(g)) = 2 * Len(g)
<1>1. PICK m \in Nat : m = Len(g) /\ DOMAIN g = 1 .. m
  OBVIOUS
<1> DEFINE byte(i) == IF i % 2 = 1 THEN g[(i + 1) \div 2] \div 256 ELSE g[(i + 1) \div 2] % 256
<1>2. ASSUME NEW i \in 1 .. 2 * m PROVE byte(i) \in Int
  <2>1. (i + 1) \div 2 \in 1 .. m
    OBVIOUS
  <2>2. PICK x \in Nat : x = g[(i + 1) \div 2]
    BY <1>1, <2>1
  <2>3. x \div 256 \in Nat /\ x % 256 \in Nat
    BY Division
  <2> QED
    BY <2>2, <2>3
<1>3. TwoBytes(g) = [i \in 1 .. 2 * m |-> byte(i)]
  BY <1>1 DEF TwoBytes
<1> HIDE DEF byte
<1>4. PICK n \in Nat : n = 2 * m
  BY <1>1
<1>5. [i \in 1 .. n |-> byte(i)] \in Seq(Int) /\ Len([i \in 1 .. n |-> byte(i)]) = n
  BY <1>2, <1>4
<1> QED
  BY <1>1, <1>3, <1>4, <1>5

(* One more group leaves the bytes of those before it.                     *)
LEMMA TwoBytesOfMore ==
  ASSUME NEW g \in Seq(Nat), NEW x \in Nat, NEW i \in 1 .. 2 * Len(g)
  PROVE  TwoBytes(Append(g, x))[i] = TwoBytes(g)[i]
<1>1. PICK m \in Nat : m = Len(g) /\ DOMAIN g = 1 .. m
  OBVIOUS
<1>2. PICK h : h = Append(g, x)
  OBVIOUS
<1>3. Len(h) = m + 1 /\ \A k \in 1 .. m : h[k] = g[k]
  BY <1>1, <1>2
<1>4. PICK k \in 1 .. m : k = (i + 1) \div 2
  BY <1>1
<1>5. i \in 1 .. 2 * m /\ i \in 1 .. 2 * (m + 1)
  BY <1>1
<1>6. TwoBytes(g)[i] = IF i % 2 = 1 THEN g[k] \div 256 ELSE g[k] % 256
  BY <1>1, <1>4, <1>5 DEF TwoBytes
<1>7. TwoBytes(h)[i] = IF i % 2 = 1 THEN h[k] \div 256 ELSE h[k] % 256
  BY <1>3, <1>4, <1>5 DEF TwoBytes
<1> QED
  BY <1>2, <1>3, <1>4, <1>6, <1>7

(* What joining three lists gives.                                         *)
LEMMA ThreeJoined ==
  ASSUME NEW l \in Seq(Int), NEW z \in Seq(Int), NEW r \in Seq(Int)
  PROVE  /\ Len(l \o z \o r) = Len(l) + Len(z) + Len(r)
         /\ \A i \in 1 .. Len(l) : (l \o z \o r)[i] = l[i]
         /\ \A i \in 1 .. Len(z) : (l \o z \o r)[Len(l) + i] = z[i]
         /\ \A i \in 1 .. Len(r) : (l \o z \o r)[Len(l) + Len(z) + i] = r[i]
<1>1. PICK p \in Seq(Int) :
        /\ p = l \o z
        /\ Len(p) = Len(l) + Len(z)
        /\ \A i \in 1 .. Len(l) : p[i] = l[i]
        /\ \A i \in 1 .. Len(z) : p[Len(l) + i] = z[i]
  <2>1. PICK s : s = l \o z
    OBVIOUS
  <2>2. /\ s \in Seq(Int)
        /\ Len(s) = Len(l) + Len(z)
        /\ \A i \in 1 .. Len(l) : s[i] = l[i]
        /\ \A i \in 1 .. Len(z) : s[Len(l) + i] = z[i]
    BY <2>1, ConcatParts
  <2> QED
    BY <2>1, <2>2
<1>2. PICK q : q = p \o r
  OBVIOUS
<1>3. /\ Len(q) = Len(p) + Len(r)
      /\ \A i \in 1 .. Len(p) : q[i] = p[i]
      /\ \A i \in 1 .. Len(r) : q[Len(p) + i] = r[i]
  BY <1>2, ConcatParts
<1>4. PICK x \in Nat, y \in Nat, w \in Nat : x = Len(l) /\ y = Len(z) /\ w = Len(r)
  OBVIOUS
<1>5. Len(p) = x + y
  BY <1>1, <1>4
<1>6. \A i \in 1 .. x : i \in 1 .. x + y
  OBVIOUS
<1>7. \A i \in 1 .. y : x + i \in 1 .. x + y
  OBVIOUS
<1>8. \A i \in 1 .. x : q[i] = l[i]
  BY <1>1, <1>3, <1>4, <1>5, <1>6
<1>9. \A i \in 1 .. y : q[x + i] = z[i]
  BY <1>1, <1>3, <1>4, <1>5, <1>7
<1>10. \A i \in 1 .. w : q[x + y + i] = r[i]
  BY <1>3, <1>4, <1>5
<1>11. Len(q) = x + y + w
  BY <1>3, <1>4, <1>5
<1> QED
  BY <1>1, <1>2, <1>4, <1>8, <1>9, <1>10, <1>11

LEMMA GroupsAreNumbers ==
  /\ Groups \subseteq Nat /\ Bytes \subseteq Nat
  /\ \A d \in Dotted : d \in Seq(Int) /\ Len(d) = 4 /\ d[1] \in Nat
  /\ MaskLength \in Nat
<1>1. \A d \in Dotted : d \in Seq(Int) /\ Len(d) = 4 /\ d[1] \in Nat
  <2>1. PICK n \in Nat : n = 4
    OBVIOUS
  <2>2. Dotted \subseteq [1 .. n -> 0 .. 255]
    BY <2>1, AddressesAssumption
  <2>3. ASSUME NEW d \in [1 .. n -> 0 .. 255]
        PROVE  d \in Seq(Int) /\ Len(d) = n /\ d[1] \in Nat
    <3>1. 1 \in 1 .. n /\ \A i \in 1 .. n : d[i] \in Nat
      BY <2>1
    <3>2. d \in [1 .. n -> Int]
      <4>1. \A i \in 1 .. n : d[i] \in Int
        BY <3>1
      <4> QED
        BY <4>1
    <3>3. d \in Seq(Int) /\ Len(d) = n
      BY <3>2
    <3> QED
      BY <3>1, <3>3
  <2> QED
    BY <2>1, <2>2, <2>3
<1> QED
  BY <1>1, AddressesAssumption

(* What an address is made of.                                             *)
LEMMA PartsOfAddress ==
  ASSUME NEW a \in Addresses
  PROVE  /\ a.left \in Seq(Nat) /\ a.right \in Seq(Nat)
         /\ a.gap \in BOOLEAN
         /\ a.dotted \in Seq(Int) /\ Len(a.dotted) \in Nat
         /\ a.dotted # <<>> => Len(a.dotted) = 4 /\ a.dotted[1] \in Nat
<1>1. /\ a.left \in BoundedSeq(Groups, 8) /\ a.right \in BoundedSeq(Groups, 8)
      /\ a.gap \in BOOLEAN /\ a.dotted \in {<<>>} \cup Dotted
  BY DEF Addresses
<1>2. a.left \in Seq(Groups) /\ a.right \in Seq(Groups)
  BY <1>1, BoundedAreSeqs
<1>3. a.left \in Seq(Nat) /\ a.right \in Seq(Nat)
  BY <1>2, SeqOfWider, GroupsAreNumbers
<1>4. a.dotted \in Seq(Int)
  BY <1>1, GroupsAreNumbers, EmptyIsSeq
<1>5. a.dotted # <<>> => Len(a.dotted) = 4 /\ a.dotted[1] \in Nat
  BY <1>1, GroupsAreNumbers
<1> QED
  BY <1>1, <1>3, <1>4, <1>5

(* An address with "::" or without dots is parsed to its 16 bytes.         *)
LEMMA GapIsParsed ==
  ASSUME NEW a \in Addresses, ProperIPv6(a), a.gap \/ a.dotted = <<>>
  PROVE  /\ Len(ParseIPv6(a)) = 16
         /\ \A i \in 1 .. 16 : ParseIPv6(a)[i] = BytesOf(a)[i]
<1>3. /\ a.left \in Seq(Nat) /\ a.right \in Seq(Nat)
      /\ a.gap \in BOOLEAN
      /\ a.dotted \in Seq(Int) /\ Len(a.dotted) \in Nat
  BY PartsOfAddress
<1>4. PICK l \in Seq(Int) : l = TwoBytes(a.left)
  BY <1>3, TwoBytesEach
<1>5. PICK t \in Seq(Int) : t = TwoBytes(a.right)
  BY <1>3, TwoBytesEach
<1>6. PICK x \in Nat, y \in Nat, d \in Nat :
        /\ x = Len(l) /\ y = Len(t) /\ d = Len(a.dotted)
        /\ x = 2 * Len(a.left) /\ y = 2 * Len(a.right)
  <2>1. Len(l) \in Nat /\ Len(t) \in Nat /\ Len(a.dotted) \in Nat
    BY <1>3
  <2>2. Len(l) = 2 * Len(a.left)
    BY <1>3, <1>4, TwoBytesEach
  <2>3. Len(t) = 2 * Len(a.right)
    BY <1>3, <1>5, TwoBytesEach
  <2> QED
    BY <2>1, <2>2, <2>3
<1>7. PICK r \in Seq(Int) : r = t \o a.dotted /\ Len(r) = y + d
  <2>1. PICK q \in Seq(Int) : q = a.dotted
    BY <1>3
  <2>2. t \o q \in Seq(Int) /\ Len(t \o q) = Len(t) + Len(q)
    BY ConcatParts
  <2> QED
    BY <1>6, <2>1, <2>2
<1>8. x + (y + d) <= 16 /\ (r # <<>> => x + (y + d) <= 15)
  <2>1. IF a.gap THEN x + y + d <= 14
        ELSE x + y + d = 16 /\ a.right = <<>> /\ a.dotted = <<>>
    BY <1>6 DEF ProperIPv6
  <2>2. CASE a.gap
    BY <2>1, <2>2
  <2>3. CASE ~a.gap
    <3>1. Len(a.right) = 0 /\ Len(a.dotted) = 0
      BY <2>1, <2>3
    <3>2. y = 0 /\ d = 0
      BY <1>6, <3>1
    <3>3. r = <<>>
      BY <1>7, <3>2, EmptySeq
    <3> QED
      BY <2>1, <2>3, <3>3
  <2> QED
    BY <2>2, <2>3
<1>9. PICK n \in Nat : n = 16 - x - (y + d)
  BY <1>8
<1>10. PICK z \in Seq(Int) : z = [i \in 1 .. n |-> 0] /\ Len(z) = n /\ \A i \in 1 .. n : z[i] = 0
  <2>1. PICK z : z = [i \in 1 .. n |-> 0]
    OBVIOUS
  <2>2. z \in Seq(Int)
    BY <2>1
  <2>3. Len(z) = n
    BY <2>1
  <2>4. \A i \in 1 .. n : z[i] = 0
    BY <2>1
  <2> QED
    BY <2>1, <2>2, <2>3, <2>4
<1>11. PICK b : b = l \o z \o r
  OBVIOUS
<1>12. ParseIPv6(a) = b
  <2>0. LeftGroups(a) = a.left /\ r = IF a.gap THEN TwoBytes(a.right) \o a.dotted ELSE <<>>
    <3>1. LeftGroups(a) = a.left
      BY DEF LeftGroups
    <3>2. CASE a.gap
      BY <1>5, <1>7, <3>1, <3>2
    <3>3. CASE ~a.gap
      <4>1. Len(a.right) = 0 /\ Len(a.dotted) = 0
        BY <3>3 DEF ProperIPv6
      <4>2. Len(r) = 0
        BY <1>6, <1>7, <4>1
      <4> QED
        BY <3>1, <3>3, <4>2, EmptySeq
    <3> QED
      BY <3>2, <3>3
  <2>1. ~((r # <<>> /\ Len(l) + Len(r) > 15) \/ Len(l) > 16)
    <3>1. PICK w \in Nat : w = Len(r) /\ w = y + d
      BY <1>7
    <3>2. x + w <= 16 /\ (r # <<>> => x + w <= 15)
      BY <1>8, <3>1
    <3>3. ~(x > 16) /\ (r # <<>> => ~(x + w > 15))
      BY <3>2
    <3> QED
      BY <1>6, <3>1, <3>3
  <2>2. z = [i \in 1..16 - Len(l) - Len(r) |-> 0]
    BY <1>6, <1>7, <1>9, <1>10
  <2> QED
    BY <1>4, <2>0, <1>11, <2>1, <2>2 DEF ParseIPv6, Joined
<1>13. /\ Len(b) = Len(l) + Len(z) + Len(r)
       /\ \A i \in 1 .. Len(l) : b[i] = l[i]
       /\ \A i \in 1 .. Len(z) : b[Len(l) + i] = z[i]
       /\ \A i \in 1 .. Len(r) : b[Len(l) + Len(z) + i] = r[i]
  BY <1>11, ThreeJoined
<1>14. PICK w \in Nat : w = Len(r) /\ w = y + d
  BY <1>7
<1>15. /\ Len(b) = x + n + w
       /\ \A i \in 1 .. x : b[i] = l[i]
       /\ \A i \in 1 .. n : b[x + i] = 0
       /\ \A i \in 1 .. w : b[x + n + i] = r[i]
  BY <1>6, <1>10, <1>13, <1>14
<1>16. x + n + w = 16 /\ x + n = 16 - w
  BY <1>9, <1>14
<1>17. ASSUME NEW i \in 1 .. 16
       PROVE  b[i] = IF i <= Len(l) THEN l[i]
                     ELSE IF i > 16 - Len(r) THEN r[i - (16 - Len(r))]
                     ELSE 0
  <2>1. CASE i <= x
    <3>1. i \in 1 .. x
      BY <2>1
    <3> QED
      BY <2>1, <3>1, <1>6, <1>15
  <2>2. CASE i > x /\ i > x + n
    <3>1. PICK j \in 1 .. w : i = x + n + j
      <4>1. i - (x + n) \in 1 .. w /\ i = x + n + (i - (x + n))
        BY <2>2, <1>16
      <4> QED
        BY <4>1
    <3>2. b[i] = r[j]
      BY <3>1, <1>15
    <3>3. j = i - (16 - w) /\ ~(i <= x) /\ i > 16 - w
      BY <3>1, <2>2, <1>16
    <3> QED
      BY <3>2, <3>3, <1>6, <1>14
  <2>3. CASE i > x /\ ~(i > x + n)
    <3>1. PICK j \in 1 .. n : i = x + j
      <4>1. i - x \in 1 .. n /\ i = x + (i - x)
        BY <2>3
      <4> QED
        BY <4>1
    <3>2. b[i] = 0
      BY <3>1, <1>15
    <3>3. ~(i <= x) /\ ~(i > 16 - w)
      BY <2>3, <1>16
    <3> QED
      BY <3>2, <3>3, <1>6, <1>14
  <2> QED
    BY <2>1, <2>2, <2>3
<1>18. Len(b) = 16
  BY <1>15, <1>16
<1>19. ASSUME NEW i \in 1 .. 16 PROVE b[i] = BytesOf(a)[i]
  BY <1>4, <1>5, <1>7, <1>17 DEF BytesOf
<1> QED
  BY <1>12, <1>18, <1>19

(* Six groups and four bytes with dots: the groups are parsed, the four    *)
(* bytes are two bytes for the first of them, and two zeros.               *)
LEMMA DottedIsAccepted ==
  ASSUME NEW a \in Addresses, ProperIPv6(a), ~a.gap, a.dotted # <<>>
  PROVE  /\ Len(ParseIPv6(a)) = 16
         /\ \A i \in 1 .. 2 * Len(a.left) : ParseIPv6(a)[i] = BytesOf(a)[i]
<1>1. /\ a.left \in Seq(Nat) /\ a.right = <<>>
      /\ Len(a.dotted) = 4 /\ a.dotted[1] \in Nat
  <2>1. a.right = <<>>
    BY DEF ProperIPv6
  <2> QED
    BY <2>1, PartsOfAddress
<1>2. Len(a.left) = 6
  <2>1. 2 * Len(a.left) + 2 * Len(a.right) + Len(a.dotted) = 16
    BY DEF ProperIPv6
  <2>2. PICK n \in Nat : n = Len(a.left)
    BY <1>1
  <2>3. Len(a.right) = 0
    BY <1>1
  <2>4. 2 * n + 4 = 16
    BY <1>1, <2>1, <2>2, <2>3
  <2>5. n = 6
    BY <2>4
  <2> QED
    BY <2>2, <2>5
<1>3. PICK x \in Nat : x = ReadAsHex(a.dotted[1])
  <2>1. PICK q \in Nat : q = a.dotted[1]
    BY <1>1
  <2>2. ReadAsHex(q) \in Nat
    BY DEF ReadAsHex
  <2> QED
    BY <2>1, <2>2
<1>4. LeftGroups(a) = Append(a.left, x)
  BY <1>3 DEF LeftGroups
<1>5. PICK g \in Seq(Nat) : g = Append(a.left, x) /\ Len(g) = 7
  <2>1. PICK h \in Seq(Nat) : h = a.left
    BY <1>1
  <2>2. Append(h, x) \in Seq(Nat) /\ Len(Append(h, x)) = Len(h) + 1
    OBVIOUS
  <2>3. PICK n \in Nat : n = Len(h)
    OBVIOUS
  <2>4. n = 6
    BY <1>2, <2>1, <2>3
  <2>5. n + 1 = 7
    BY <2>4
  <2>6. Len(Append(h, x)) = 7
    BY <2>2, <2>3, <2>5
  <2> QED
    BY <2>1, <2>2, <2>6
<1>6. PICK l \in Seq(Int) : l = TwoBytes(g) /\ Len(l) = 14
  <2>1. TwoBytes(g) \in Seq(Int) /\ Len(TwoBytes(g)) = 2 * Len(g)
    BY TwoBytesEach
  <2>2. 2 * 7 = 14
    OBVIOUS
  <2> QED
    BY <1>5, <2>1, <2>2
<1>7. PICK z \in Seq(Int) : z = [i \in 1 .. 16 - Len(l) - Len(<<>>) |-> 0] /\ Len(z) = 2
  <2>1. 16 - Len(l) - Len(<<>>) = 2
    BY <1>6
  <2>2. [i \in 1 .. 2 |-> 0] \in Seq(Int) /\ Len([i \in 1 .. 2 |-> 0]) = 2
    OBVIOUS
  <2> QED
    BY <2>1, <2>2
<1>8. PICK e \in Seq(Int) : e = <<>>
  BY EmptyIsSeq
<1>9. PICK b : b = l \o z \o e
  OBVIOUS
<1>10. ParseIPv6(a) = b
  <2>1. Len(<<>>) = 0 /\ ~(Len(l) > 16)
    BY <1>6
  <2> QED
    BY <1>4, <1>5, <1>6, <1>7, <1>8, <1>9, <2>1 DEF ParseIPv6, Joined
<1>11. Len(b) = Len(l) + Len(z) + Len(e) /\ \A i \in 1 .. Len(l) : b[i] = l[i]
  BY <1>9, ThreeJoined
<1>12. Len(b) = 16
  BY <1>6, <1>7, <1>8, <1>11
<1>13. ASSUME NEW i \in 1 .. 2 * Len(a.left) PROVE b[i] = BytesOf(a)[i]
  <2>1. i \in 1 .. 12 /\ i \in 1 .. 14 /\ i \in 1 .. 16
    BY <1>2
  <2>2. b[i] = l[i]
    BY <1>6, <1>11, <2>1
  <2>3. l[i] = TwoBytes(a.left)[i]
    BY <1>1, <1>5, <1>6, TwoBytesOfMore
  <2>4. Len(TwoBytes(a.left)) = 12
    <3>1. Len(TwoBytes(a.left)) = 2 * Len(a.left)
      BY <1>1, TwoBytesEach
    <3>2. PICK n \in Nat : n = Len(a.left)
      BY <1>1
    <3>3. n = 6
      BY <1>2, <3>2
    <3>4. 2 * n = 12
      BY <3>3
    <3> QED
      BY <3>1, <3>2, <3>4
  <2>5. i <= Len(TwoBytes(a.left))
    <3>1. PICK n \in Nat : n = Len(TwoBytes(a.left)) /\ n = 12
      BY <2>4
    <3>2. i <= n
      BY <2>1, <3>1
    <3> QED
      BY <3>1, <3>2
  <2>6. BytesOf(a)[i] = TwoBytes(a.left)[i]
    BY <2>1, <2>5 DEF BytesOf
  <2> QED
    BY <2>2, <2>3, <2>6
<1> QED
  BY <1>10, <1>12, <1>13

LEMMA ProperAreAccepted ==
  ASSUME AddressesInit
  PROVE  ProperIsAccepted
<1> SUFFICES ASSUME given.kind = "address", ProperIPv6(given.of) PROVE ProperIsAccepted
  BY DEF ProperIsAccepted
<1>1. PICK a : a = given.of
  OBVIOUS
<1>2. a \in Addresses
  BY <1>1 DEF AddressesInit
<1>3. CASE a.gap \/ a.dotted = <<>>
  BY <1>1, <1>2, <1>3, GapIsParsed DEF ProperIsAccepted
<1>4. CASE ~(a.gap \/ a.dotted = <<>>)
  <2>1. Len(a.left) \in Nat
    BY <1>2, PartsOfAddress
  <2>2. \A i \in 1 .. 16 : i <= 2 * Len(a.left) => i \in 1 .. 2 * Len(a.left)
    BY <2>1
  <2>3. /\ Len(ParseIPv6(a)) = 16
        /\ \A i \in 1 .. 2 * Len(a.left) : ParseIPv6(a)[i] = BytesOf(a)[i]
    BY <1>1, <1>2, <1>4, DottedIsAccepted
  <2> QED
    BY <1>1, <1>4, <2>2, <2>3 DEF ProperIsAccepted
<1> QED
  BY <1>3, <1>4

-----------------------------------------------------------------------------
(* isNetmask: the first byte that is not 255 decides.                      *)
FirstOther(a) == SelectInSeq(a, LAMBDA b : b # 255)

LEMMA FirstOtherIs ==
  ASSUME NEW n \in Nat, NEW a \in [1 .. n -> Nat]
  PROVE  /\ Len(a) = n
         /\ \/ FirstOther(a) = 0 /\ \A i \in 1 .. n : a[i] = 255
            \/ /\ FirstOther(a) \in 1 .. n /\ a[FirstOther(a)] # 255
               /\ \A i \in 1 .. n : i < FirstOther(a) => a[i] = 255
<1>1. Len(a) = n
  OBVIOUS
<1> DEFINE I == {i \in 1 .. n : a[i] # 255}
<1>2. FirstOther(a) = IF I # {} THEN CHOOSE x \in I : \A y \in I : x <= y ELSE 0
  BY <1>1 DEF FirstOther, SelectInSeq, Min
<1>3. CASE I = {}
  BY <1>1, <1>2, <1>3
<1>4. CASE I # {}
  <2>1. I \in SUBSET Nat
    OBVIOUS
  <2>2. \E x \in I : \A y \in I : x <= y
    <3> HIDE DEF I
    <3> QED
      BY <2>1, <1>4, LeastNumber
  <2>3. PICK c : c = FirstOther(a)
    OBVIOUS
  <2>4. c \in I /\ \A y \in I : c <= y
    <3> HIDE DEF I
    <3> QED
      BY <1>2, <1>4, <2>2, <2>3
  <2>5. ASSUME NEW i \in 1 .. n, i < c PROVE a[i] = 255
    <3>1. ~(c <= i)
      BY <2>4, <2>5
    <3>2. i \notin I
      BY <2>4, <3>1
    <3> QED
      BY <3>2
  <2> QED
    BY <1>1, <2>3, <2>4, <2>5
<1> QED
  BY <1>3, <1>4

(* isNetmask() without its loop.                                           *)
LEMMA NetmaskIs ==
  ASSUME NEW n \in Nat, NEW a \in [1 .. n -> Nat]
  PROVE  IsNetmask(a) <=>
           \/ \A i \in 1 .. n : a[i] = 255
           \/ \E c \in 1 .. n :
                /\ a[c] \in HighBits
                /\ \A i \in 1 .. n : i < c => a[i] = 255
                /\ \A i \in 1 .. n : i > c => a[i] = 0
<1>1. PICK f : f = FirstOther(a)
  OBVIOUS
<1>2. /\ Len(a) = n
      /\ \/ f = 0 /\ \A i \in 1 .. n : a[i] = 255
         \/ /\ f \in 1 .. n /\ a[f] # 255
            /\ \A i \in 1 .. n : i < f => a[i] = 255
  BY <1>1, FirstOtherIs
<1>3. IsNetmask(a) <=>
        \/ f = 0
        \/ /\ a[f] \in HighBits
           /\ \A i \in f + 1..n : a[i] = 0
  BY <1>1, <1>2 DEF IsNetmask, FirstOther
<1>4. 255 \notin HighBits /\ 0 # 255
  BY DEF HighBits
<1>5. CASE f = 0
  BY <1>2, <1>3, <1>5
<1>6. CASE f \in 1 .. n /\ a[f] # 255 /\ \A i \in 1 .. n : i < f => a[i] = 255
  <2>1. ~\A i \in 1 .. n : a[i] = 255
    BY <1>6
  <2>2. (\A i \in f + 1 .. n : a[i] = 0) <=> \A i \in 1 .. n : i > f => a[i] = 0
    BY <1>6
  <2>3. f # 0
    BY <1>6
  <2>4. ASSUME NEW c \in 1 .. n, a[c] \in HighBits,
               \A i \in 1 .. n : i < c => a[i] = 255,
               \A i \in 1 .. n : i > c => a[i] = 0
        PROVE  c = f
    <3>1. a[c] # 255
      BY <1>4, <2>4
    <3>2. ~(c < f)
      BY <1>6, <3>1
    <3>3. ~(f < c)
      BY <1>6, <2>4
    <3> QED
      BY <1>6, <3>2, <3>3
  <2>5. IsNetmask(a) <=> a[f] \in HighBits /\ \A i \in 1 .. n : i > f => a[i] = 0
    BY <1>3, <2>2, <2>3
  <2>6. ASSUME IsNetmask(a)
        PROVE  \E c \in 1 .. n :
                 /\ a[c] \in HighBits
                 /\ \A i \in 1 .. n : i < c => a[i] = 255
                 /\ \A i \in 1 .. n : i > c => a[i] = 0
    BY <1>6, <2>5, <2>6
  <2>7. ASSUME NEW c \in 1 .. n, a[c] \in HighBits,
               \A i \in 1 .. n : i < c => a[i] = 255,
               \A i \in 1 .. n : i > c => a[i] = 0
        PROVE  IsNetmask(a)
    <3>1. c = f
      BY <2>4, <2>7
    <3> QED
      BY <2>5, <2>7, <3>1
  <2> QED
    BY <2>1, <2>6, <2>7
<1> QED
  BY <1>2, <1>5, <1>6

(* The bytes with high bits only are those of the prefixes.                *)
Partial(h) == IF h <= 0 THEN 0 ELSE 256 - 2 ^ (8 - h)

LEMMA PartialBytes ==
  /\ Partial(0) = 0 /\ Partial(1) = 128 /\ Partial(2) = 192 /\ Partial(3) = 224
  /\ Partial(4) = 240 /\ Partial(5) = 248 /\ Partial(6) = 252 /\ Partial(7) = 254
<1>1. /\ 8 - 1 = 7 /\ 8 - 2 = 6 /\ 8 - 3 = 5 /\ 8 - 4 = 4
      /\ 8 - 5 = 3 /\ 8 - 6 = 2 /\ 8 - 7 = 1
  OBVIOUS
<1>2. 2 ^ 7 = 128 /\ 2 ^ 6 = 64 /\ 2 ^ 5 = 32 /\ 2 ^ 4 = 16 /\ 2 ^ 3 = 8 /\ 2 ^ 2 = 4 /\ 2 ^ 1 = 2
  OBVIOUS
<1> QED
  BY <1>1, <1>2 DEF Partial

LEMMA HighBitsArePartial ==
  /\ \A h \in 0 .. 7 : Partial(h) \in HighBits
  /\ \A b \in HighBits : \E h \in 0 .. 7 : b = Partial(h)
<1>1. \A h \in 0 .. 7 : h = 0 \/ h = 1 \/ h = 2 \/ h = 3 \/ h = 4 \/ h = 5 \/ h = 6 \/ h = 7
  OBVIOUS
<1>2. \A h \in 0 .. 7 : Partial(h) \in HighBits
  BY <1>1, PartialBytes DEF HighBits
<1>3. 0 \in 0 .. 7 /\ 1 \in 0 .. 7 /\ 2 \in 0 .. 7 /\ 3 \in 0 .. 7 /\ 4 \in 0 .. 7
      /\ 5 \in 0 .. 7 /\ 6 \in 0 .. 7 /\ 7 \in 0 .. 7
  OBVIOUS
<1>4. \A b \in HighBits : \E h \in 0 .. 7 : b = Partial(h)
  BY <1>3, PartialBytes DEF HighBits
<1> QED
  BY <1>2, <1>4

LEMMA MaskOfIs ==
  ASSUME NEW n \in Nat, NEW a \in [1 .. n -> Nat], NEW bits \in Nat
  PROVE  a = MaskOf(bits, n) <=>
           \A i \in 1 .. n : a[i] = IF bits - 8 * (i - 1) >= 8 THEN 255
                                    ELSE Partial(bits - 8 * (i - 1))
<1> DEFINE byte(i) == IF bits - 8 * (i - 1) >= 8 THEN 255 ELSE Partial(bits - 8 * (i - 1))
<1>1. MaskOf(bits, n) = [i \in 1 .. n |-> byte(i)]
  BY DEF MaskOf, Partial
<1> HIDE DEF byte
<1>2. a = [i \in 1 .. n |-> byte(i)] <=> \A i \in 1 .. n : a[i] = byte(i)
  OBVIOUS
<1>3. a = MaskOf(bits, n) <=> \A i \in 1 .. n : a[i] = byte(i)
  BY <1>1, <1>2
<1> QED
  BY <1>3 DEF byte

LEMMA MasksHavePrefixes ==
  ASSUME NEW n \in Nat, NEW a \in [1 .. n -> Nat]
  PROVE  IsNetmask(a) <=> \E bits \in 0 .. 8 * n : a = MaskOf(bits, n)
<1>0. \A h \in Int : h <= 0 => Partial(h) = 0
  BY DEF Partial
<1>1. ASSUME \A i \in 1 .. n : a[i] = 255
      PROVE  \E bits \in 0 .. 8 * n : a = MaskOf(bits, n)
  <2>1. PICK bits \in 0 .. 8 * n : bits = 8 * n
    <3>1. 8 * n \in 0 .. 8 * n
      OBVIOUS
    <3> QED
      BY <3>1
  <2>2. \A i \in 1 .. n : bits - 8 * (i - 1) >= 8
    BY <2>1
  <2>3. bits \in Nat
    OBVIOUS
  <2>4. a = MaskOf(bits, n)
    <3>1. \A i \in 1 .. n : a[i] = IF bits - 8 * (i - 1) >= 8 THEN 255
                                   ELSE Partial(bits - 8 * (i - 1))
      BY <1>1, <2>2
    <3> QED
      BY <2>3, <3>1, MaskOfIs
  <2> QED
    BY <2>4
<1>2. ASSUME NEW c \in 1 .. n, a[c] \in HighBits,
             \A i \in 1 .. n : i < c => a[i] = 255,
             \A i \in 1 .. n : i > c => a[i] = 0
      PROVE  \E bits \in 0 .. 8 * n : a = MaskOf(bits, n)
  <2>1. PICK h \in 0 .. 7 : a[c] = Partial(h)
    BY <1>2, HighBitsArePartial
  <2>2. PICK bits \in 0 .. 8 * n : bits = 8 * (c - 1) + h
    <3>1. 8 * (c - 1) + h \in 0 .. 8 * n
      OBVIOUS
    <3> QED
      BY <3>1
  <2>3. bits \in Nat
    OBVIOUS
  <2>4. ASSUME NEW i \in 1 .. n
        PROVE  a[i] = IF bits - 8 * (i - 1) >= 8 THEN 255 ELSE Partial(bits - 8 * (i - 1))
    <3>1. PICK k \in Int : k = bits - 8 * (i - 1)
      OBVIOUS
    <3>2. CASE i < c
      <4>1. k >= 8
        BY <2>2, <3>1, <3>2
      <4> QED
        BY <1>2, <3>1, <3>2, <4>1
    <3>3. CASE i = c
      <4>1. k = h /\ ~(k >= 8)
        BY <2>2, <3>1, <3>3
      <4> QED
        BY <2>1, <3>1, <3>3, <4>1
    <3>4. CASE i > c
      <4>1. k <= 0 /\ ~(k >= 8)
        BY <2>2, <3>1, <3>4
      <4>2. Partial(k) = 0
        BY <1>0, <4>1
      <4> QED
        BY <1>2, <3>1, <3>4, <4>1, <4>2
    <3> QED
      BY <3>2, <3>3, <3>4
  <2>5. a = MaskOf(bits, n)
    BY <2>3, <2>4, MaskOfIs
  <2> QED
    BY <2>5
<1>3. ASSUME NEW bits \in 0 .. 8 * n, a = MaskOf(bits, n)
      PROVE  IsNetmask(a)
  <2>1. \A i \in 1 .. n : a[i] = IF bits - 8 * (i - 1) >= 8 THEN 255
                                 ELSE Partial(bits - 8 * (i - 1))
    BY <1>3, MaskOfIs
  <2>2. CASE bits = 8 * n
    <3>1. \A i \in 1 .. n : bits - 8 * (i - 1) >= 8
      BY <2>2
    <3>2. \A i \in 1 .. n : a[i] = 255
      BY <2>1, <3>1
    <3> QED
      BY <3>2, NetmaskIs
  <2>3. CASE bits # 8 * n
    <3>1. PICK q \in Nat, h \in 0 .. 7 : bits = 8 * q + h
      <4>1. /\ bits \div 8 \in Nat /\ bits % 8 \in 0 .. 8 - 1
            /\ bits = 8 * (bits \div 8) + (bits % 8)
        <5>1. bits \in Nat /\ 8 \in Nat \ {0}
          OBVIOUS
        <5> QED
          BY <5>1, Division
      <4>2. 8 - 1 = 7
        OBVIOUS
      <4> QED
        BY <4>1, <4>2
    <3>2. PICK c \in 1 .. n : c = q + 1
      <4>1. q < n
        BY <2>3, <3>1
      <4> QED
        BY <4>1
    <3>3. bits = 8 * (c - 1) + h
      BY <3>1, <3>2
    <3>4. ASSUME NEW i \in 1 .. n
          PROVE  /\ i < c => a[i] = 255
                 /\ i = c => a[i] = Partial(h)
                 /\ i > c => a[i] = 0
      <4>1. PICK k \in Int : k = bits - 8 * (i - 1)
        OBVIOUS
      <4>2. a[i] = IF k >= 8 THEN 255 ELSE Partial(k)
        BY <2>1, <4>1
      <4>3. CASE i < c
        <5>1. k >= 8
          BY <3>3, <4>1, <4>3
        <5> QED
          BY <4>2, <4>3, <5>1
      <4>4. CASE i = c
        <5>1. k = h /\ ~(k >= 8)
          BY <3>3, <4>1, <4>4
        <5> QED
          BY <4>2, <4>4, <5>1
      <4>5. CASE i > c
        <5>1. k <= 0 /\ ~(k >= 8)
          BY <3>3, <4>1, <4>5
        <5>2. Partial(k) = 0
          BY <1>0, <5>1
        <5> QED
          BY <4>2, <4>5, <5>1, <5>2
      <4> QED
        BY <4>3, <4>4, <4>5
    <3>5. a[c] \in HighBits
      BY <3>4, HighBitsArePartial
    <3> QED
      BY <3>4, <3>5, NetmaskIs
  <2> QED
    BY <2>2, <2>3
<1>4. IsNetmask(a) => \E bits \in 0 .. 8 * n : a = MaskOf(bits, n)
  <2>1. ASSUME IsNetmask(a) PROVE \E bits \in 0 .. 8 * n : a = MaskOf(bits, n)
    <3>1. \/ \A i \in 1 .. n : a[i] = 255
          \/ \E c \in 1 .. n :
               /\ a[c] \in HighBits
               /\ \A i \in 1 .. n : i < c => a[i] = 255
               /\ \A i \in 1 .. n : i > c => a[i] = 0
      BY <2>1, NetmaskIs
    <3> QED
      BY <1>1, <1>2, <3>1
  <2> QED
    BY <2>1
<1>5. (\E bits \in 0 .. 8 * n : a = MaskOf(bits, n)) => IsNetmask(a)
  BY <1>3
<1> QED
  BY <1>4, <1>5

LEMMA PrefixesAreMasks ==
  ASSUME AddressesInit
  PROVE  MasksArePrefixes
<1> SUFFICES ASSUME given.kind = "mask" PROVE MasksArePrefixes
  BY DEF MasksArePrefixes
<1>1. PICK a : a = given.of
  OBVIOUS
<1>2. PICK n \in Nat : n = MaskLength
  BY GroupsAreNumbers
<1>3. a \in [1 .. n -> Bytes]
  <2>1. "mask" # "address"
    OBVIOUS
  <2> QED
    BY <1>1, <1>2, <2>1 DEF AddressesInit
<1>4. a \in [1 .. n -> Nat] /\ Len(a) = n
  <2>1. \A i \in 1 .. n : a[i] \in Nat
    BY <1>3, GroupsAreNumbers
  <2>2. a \in [1 .. n -> Nat]
    BY <1>3, <2>1
  <2> QED
    BY <2>2
<1>5. IsNetmask(a) <=> \E bits \in 0 .. 8 * n : a = MaskOf(bits, n)
  BY <1>4, MasksHavePrefixes
<1> QED
  BY <1>1, <1>4, <1>5 DEF MasksArePrefixes

(* For masks of any length and any groups and bytes: isNetmask() is true   *)
(* of the masks of some prefix length and of no other bytes, and           *)
(* parseIPv6() accepts every address there is and gives its 16 bytes, with *)
(* zeros for those left out, but for the bytes with dots that end an       *)
(* address of six groups without "::".                                     *)
THEOREM AddressesAreParsed == AddressesSpec => []AddressesParsed
<1>1. AddressesInit /\ [UNCHANGED given]_given => AddressesInit'
  BY DEF AddressesInit
<1>2. AddressesInit => AddressesParsed
  BY ProperAreAccepted, PrefixesAreMasks DEF AddressesParsed
<1> QED
  BY <1>1, <1>2, PTL DEF AddressesSpec
===============================================================================

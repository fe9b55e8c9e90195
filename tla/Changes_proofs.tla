--------------------------- MODULE Changes_proofs ---------------------------
(***************************************************************************)
(* Theorems about what becomes of changes beside their values: the order   *)
(* of sections (UciOrder), for any finite set of names, and apply()        *)
(* (UciApply), for any finite set of calls and any timeout.                *)
(*                                                                         *)
(* Order.  Whatever is done, the rows are numbered from the top without a  *)
(* gap, as every ranking is (Ranked).  As long as sections were only       *)
(* added, or only removed, since the load, '.index' says what the page     *)
(* shows, and calling sections() again changes nothing (Faithful); if      *)
(* nothing was moved either, this is the order in which the server keeps   *)
(* what it is sent (Natural).  All this needs that the number of a new     *)
(* section, 1000 and more, is above those of the loaded ones: the theorems *)
(* on the order are about packages of at most 1000 sections.               *)
(*                                                                         *)
(* apply().  The argument counts.  A call that holds, or has shown, a      *)
(* positive reply to "confirm" has a claim.  A claim is made in the step   *)
(* in which the device commits what is pending, and what is pending was    *)
(* never committed before: so there are never more claims than commits.    *)
(*                                                                         *)
(* Both.  A step of one leaves the other alone (MCChanges), so every run   *)
(* of the two is a run of each, and what is proved of one holds there too. *)
(***************************************************************************)
EXTENDS MCChanges, FiniteSetTheorems, TLAPS

-----------------------------------------------------------------------------
(* The order of sections.                                                  *)

Shown == Live \cup created

(* No two members of S have the same number.                               *)
Distinct(f, S) == \A s, t \in S : f[s] = f[t] => s = t

(* The two numberings put S in the same order.                             *)
SameOrder(S, f, g) == \A s, t \in S : f[s] < f[t] <=> g[s] < g[t]

(* What is so whatever happens.                                            *)
Shape ==
  /\ OrderTypeOK
  /\ place \in [DOMAIN place -> Nat] /\ Distinct(place, DOMAIN place)
  /\ row \in [Shown -> Nat]
  /\ Distinct(slot, base) /\ Distinct(slot, created)
  /\ \A s \in created : slot[s] < newidx
  /\ phase \in {"idle", "writing"} => base = DOMAIN place
  /\ phase \in {"ordering", "reloading"} => DOMAIN place = Shown
  /\ ~touched => removed = {} /\ created = {}

(* '.index' is the order shown; unless sections were removed it is the     *)
(* number of the row.                                                      *)
Faithful ==
  /\ SameOrder(Shown, row, index)
  /\ "remove" \notin done => removed = {} /\ \A s \in Shown : index[s] = row[s]
  /\ "add" \notin done => created = {}

(* The order in which the server keeps the sections if none was moved.     *)
Before(s, t) ==
  \/ s \in base /\ t \in base /\ place[s] < place[t]
  \/ s \in base /\ t \in created
  \/ s \in created /\ t \in created /\ slot[s] < slot[t]

Natural == \A s, t \in Shown : row[s] < row[t] <=> Before(s, t)

(* What the server holds once it was told.                                 *)
Told == SameOrder(Shown, place, row)

Ordered ==
  /\ Faithful
  /\ (phase \in {"idle", "writing"} /\ ~reorder) => Natural
  /\ phase = "reloading" => Told

OrderInv == Shape /\ (~Mixed => Ordered)

-----------------------------------------------------------------------------
(* Ranking: the number of a member is how many come before it.  R is a set *)
(* of pairs.                                                               *)
Rank(S, R) == [s \in S |-> Cardinality({t \in S : <<t, s>> \in R})]

StrictOrder(S, R) ==
  /\ \A s \in S : <<s, s>> \notin R
  /\ \A s, t \in S : s # t => <<s, t>> \in R \/ <<t, s>> \in R
  /\ \A s, t, u \in S : (<<s, t>> \in R /\ <<t, u>> \in R) => <<s, u>> \in R

(* S is numbered 0, 1, ... by f.                                           *)
Numbered(f, S) == f \in [S -> Nat] /\ {f[s] : s \in S} = 0 .. Cardinality(S) - 1

LEMMA FewerBefore ==
  ASSUME NEW S, IsFiniteSet(S), NEW R, StrictOrder(S, R), NEW s \in S, NEW t \in S,
         <<s, t>> \in R
  PROVE  Cardinality({u \in S : <<u, s>> \in R}) < Cardinality({u \in S : <<u, t>> \in R})
<1> DEFINE A == {u \in S : <<u, s>> \in R}
           B == {u \in S : <<u, t>> \in R}
<1>1. IsFiniteSet(B) /\ Cardinality(B) \in Nat
  BY FS_Subset, FS_CardinalityType
<1>2. A \in SUBSET B
  BY DEF StrictOrder
<1>3. s \in B /\ s \notin A
  BY DEF StrictOrder
<1>4. Cardinality(A) <= Cardinality(B) /\ (Cardinality(B) = Cardinality(A) => B = A)
  BY <1>1, <1>2, FS_Subset
<1>5. IsFiniteSet(A)
  BY <1>1, <1>2, FS_Subset
<1>6. Cardinality(A) \in Nat
  BY <1>5, FS_CardinalityType
<1> QED
  BY <1>1, <1>3, <1>4, <1>6

LEMMA RankOrders ==
  ASSUME NEW S, IsFiniteSet(S), NEW R, StrictOrder(S, R)
  PROVE  /\ Rank(S, R) \in [S -> Nat]
         /\ \A s, t \in S : <<s, t>> \in R <=> Rank(S, R)[s] < Rank(S, R)[t]
<1>1. ASSUME NEW s \in S PROVE Rank(S, R)[s] \in Nat
  <2>1. IsFiniteSet({t \in S : <<t, s>> \in R})
    BY FS_Subset
  <2> QED
    BY <2>1, FS_CardinalityType DEF Rank
<1>2. ASSUME NEW s \in S, NEW t \in S, <<s, t>> \in R PROVE Rank(S, R)[s] < Rank(S, R)[t]
  BY <1>2, FewerBefore DEF Rank
<1>3. ASSUME NEW s \in S, NEW t \in S, Rank(S, R)[s] < Rank(S, R)[t] PROVE <<s, t>> \in R
  <2>1. CASE s = t
    BY <2>1, <1>3, <1>1
  <2>2. CASE <<t, s>> \in R
    BY <2>2, <1>2, <1>3, <1>1
  <2> QED
    BY <2>1, <2>2 DEF StrictOrder
<1> QED
  BY <1>1, <1>2, <1>3 DEF Rank

LEMMA UpTo ==
  ASSUME NEW n \in Nat
  PROVE  IsFiniteSet(0 .. n - 1) /\ Cardinality(0 .. n - 1) = n
<1>1. 0 \in Int /\ n - 1 \in Int
  OBVIOUS
<1> QED
  BY <1>1, FS_Interval

LEMMA RankNumbers ==
  ASSUME NEW S, IsFiniteSet(S), NEW R, StrictOrder(S, R)
  PROVE  Numbered(Rank(S, R), S)
<1> DEFINE f == Rank(S, R)
           n == Cardinality(S)
<1>1. f \in [S -> Nat] /\ \A s, t \in S : <<s, t>> \in R <=> f[s] < f[t]
  BY RankOrders
<1>2. n \in Nat
  BY FS_CardinalityType
<1>3. ASSUME NEW s \in S PROVE f[s] \in 0 .. n - 1
  <2> DEFINE A == {t \in S : <<t, s>> \in R}
  <2>1. A \in SUBSET (S \ {s})
    BY DEF StrictOrder
  <2>2. IsFiniteSet(S \ {s}) /\ Cardinality(S \ {s}) = n - 1
    BY FS_RemoveElement
  <2> HIDE DEF A
  <2>3. Cardinality(A) <= Cardinality(S \ {s}) /\ IsFiniteSet(A)
    BY <2>1, <2>2, FS_Subset
  <2>4. f[s] = Cardinality(A)
    BY DEF Rank, A
  <2> QED
    BY <2>2, <2>3, <2>4, <1>1, <1>2
<1> HIDE DEF f
<1>4. f \in Injection(S, 0 .. n - 1)
  <2>1. f \in [S -> 0 .. n - 1]
    BY <1>1, <1>3
  <2>2. ASSUME NEW s \in S, NEW t \in S, f[s] = f[t] PROVE s = t
    BY <2>2, <1>1 DEF StrictOrder
  <2> QED
    BY <2>1, <2>2 DEF Injection, IsInjective
<1>5. IsFiniteSet(0 .. n - 1) /\ Cardinality(0 .. n - 1) = n
  BY <1>2, UpTo
<1>6. f \in Surjection(S, 0 .. n - 1)
  BY <1>4, <1>5, FS_Injection
<1> QED
  BY <1>1, <1>3, <1>6 DEF Numbered, Surjection, f

(* Numbers without a gap are those of a ranking, so that two numberings    *)
(* that put the set in the same order are one.                             *)
LEMMA NumberedInjective ==
  ASSUME NEW S, IsFiniteSet(S), NEW f, Numbered(f, S)
  PROVE  Distinct(f, S) /\ \A s \in S : f[s] \in 0 .. Cardinality(S) - 1
<1> DEFINE n == Cardinality(S)
<1>1. n \in Nat
  BY FS_CardinalityType
<1>2. IsFiniteSet(0 .. n - 1) /\ Cardinality(0 .. n - 1) = n
  BY <1>1, UpTo
<1>3. \A s \in S : f[s] \in 0 .. n - 1
  BY DEF Numbered
<1>4. f \in Surjection(S, 0 .. n - 1)
  BY <1>3 DEF Numbered, Surjection
<1>5. f \in Injection(S, 0 .. n - 1)
  BY <1>2, <1>4, FS_Surjection
<1> QED
  BY <1>3, <1>5 DEF Distinct, Injection, IsInjective

LEMMA NumberCounts ==
  ASSUME NEW S, IsFiniteSet(S), NEW f, Numbered(f, S), NEW s \in S
  PROVE  f[s] = Cardinality({t \in S : f[t] < f[s]})
<1> DEFINE A == {t \in S : f[t] < f[s]}
           B == 0 .. f[s] - 1
           g == [t \in A |-> f[t]]
<1>1. f[s] \in Nat /\ f[s] <= Cardinality(S) - 1 /\ Cardinality(S) \in Nat
  BY FS_CardinalityType, NumberedInjective
<1>2. IsFiniteSet(A)
  BY FS_Subset
<1>3. Cardinality(B) = f[s]
  BY <1>1, UpTo
<1>4. g \in [A -> B]
  BY <1>1 DEF Numbered
<1>5. g \in Injection(A, B)
  BY <1>4, NumberedInjective DEF Injection, IsInjective, Distinct
<1>6. ASSUME NEW i \in B PROVE \E t \in A : g[t] = i
  <2>1. i \in 0 .. Cardinality(S) - 1
    BY <1>1
  <2>2. PICK t \in S : f[t] = i
    BY <2>1 DEF Numbered
  <2>3. t \in A
    BY <2>2, <1>1
  <2> QED
    BY <2>2, <2>3
<1>7. g \in Surjection(A, B)
  BY <1>4, <1>6 DEF Surjection
<1>8. ExistsBijection(A, B)
  BY <1>5, <1>7 DEF ExistsBijection, Bijection
<1> HIDE DEF A, B
<1>9. Cardinality(A) = Cardinality(B)
  BY <1>2, <1>8, FS_Bijection
<1> QED
  BY <1>3, <1>9 DEF A

(* Counting what is smaller is ranking.                                    *)
LEMMA CountOrders ==
  ASSUME NEW S, IsFiniteSet(S), NEW f, \A s \in S : f[s] \in Nat, Distinct(f, S),
         NEW c, c = [s \in S |-> Cardinality({t \in S : f[t] < f[s]})]
  PROVE  Numbered(c, S) /\ SameOrder(S, f, c)
<1> DEFINE R == {p \in S \X S : f[p[1]] < f[p[2]]}
<1>1. \A s, t \in S : <<s, t>> \in R <=> f[s] < f[t]
  OBVIOUS
<1> HIDE DEF R
<1>2. StrictOrder(S, R)
  <2>1. \A s \in S : ~(f[s] < f[s])
    OBVIOUS
  <2>2. \A s, t \in S : s # t => f[s] < f[t] \/ f[t] < f[s]
    BY DEF Distinct
  <2>3. \A s, t, u \in S : (f[s] < f[t] /\ f[t] < f[u]) => f[s] < f[u]
    OBVIOUS
  <2> QED
    BY <1>1, <2>1, <2>2, <2>3 DEF StrictOrder
<1>3. ASSUME NEW s \in S PROVE {t \in S : f[t] < f[s]} = {t \in S : <<t, s>> \in R}
  BY <1>1
<1>4. c = Rank(S, R)
  BY <1>3 DEF Rank
<1>5. Numbered(Rank(S, R), S)
  BY <1>2, RankNumbers
<1>6. \A s, t \in S : <<s, t>> \in R <=> Rank(S, R)[s] < Rank(S, R)[t]
  BY <1>2, RankOrders
<1> QED
  BY <1>1, <1>4, <1>5, <1>6 DEF SameOrder

LEMMA OneNumbering ==
  ASSUME NEW S, IsFiniteSet(S), NEW f, NEW g, Numbered(f, S), Numbered(g, S),
         SameOrder(S, f, g)
  PROVE  f = g
<1>1. ASSUME NEW s \in S PROVE f[s] = g[s]
  <2>1. {t \in S : f[t] < f[s]} = {t \in S : g[t] < g[s]}
    BY DEF SameOrder
  <2>2. f[s] = Cardinality({t \in S : f[t] < f[s]})
    BY NumberCounts
  <2>3. g[s] = Cardinality({t \in S : g[t] < g[s]})
    BY NumberCounts
  <2> QED
    BY <2>1, <2>2, <2>3
<1> QED
  BY <1>1 DEF Numbered

-----------------------------------------------------------------------------
(* What sections() sorts by orders the sections of two maps, each of which *)
(* has its own order.                                                      *)
Sortable(first, second, idx, slt) ==
  /\ IsFiniteSet(first \cup second)
  /\ idx \in [Sid -> Nat] /\ slt \in [Sid -> Nat] /\ first \cup second \subseteq Sid
  /\ first \cap second = {}
  /\ Distinct(slt, first) /\ Distinct(slt, second)

Pairs(first, second, idx, slt) ==
  {p \in (first \cup second) \X (first \cup second) : SortsBefore(first, idx, slt, p[1], p[2])}

LEMMA PairSorts ==
  ASSUME NEW first, NEW second, NEW idx, NEW slt,
         NEW s \in first \cup second, NEW t \in first \cup second
  PROVE  <<s, t>> \in Pairs(first, second, idx, slt) <=> SortsBefore(first, idx, slt, s, t)
BY DEF Pairs

LEMMA SortIsStrict ==
  ASSUME NEW first, NEW second, NEW idx, NEW slt, Sortable(first, second, idx, slt)
  PROVE  StrictOrder(first \cup second, Pairs(first, second, idx, slt))
<1> DEFINE S == first \cup second
           R == Pairs(first, second, idx, slt)
<1>1. \A s, t \in S : <<s, t>> \in R <=> SortsBefore(first, idx, slt, s, t)
  BY PairSorts
<1>2. \A s \in S : idx[s] \in Nat /\ slt[s] \in Nat
  BY DEF Sortable
<1>3. \A s \in S : ~SortsBefore(first, idx, slt, s, s)
  BY <1>2 DEF SortsBefore
<1>4. ASSUME NEW s \in S, NEW t \in S, s # t
      PROVE  SortsBefore(first, idx, slt, s, t) \/ SortsBefore(first, idx, slt, t, s)
  BY <1>2, <1>4 DEF SortsBefore, Sortable, Distinct
<1>5. ASSUME NEW s \in S, NEW t \in S, NEW u \in S,
             SortsBefore(first, idx, slt, s, t), SortsBefore(first, idx, slt, t, u)
      PROVE  SortsBefore(first, idx, slt, s, u)
  BY <1>2, <1>5 DEF SortsBefore
<1> HIDE DEF R
<1> QED
  BY <1>1, <1>3, <1>4, <1>5 DEF StrictOrder, R

(* The number sections() gives is a rank: it says how they are sorted, and *)
(* there is no gap.                                                        *)
LEMMA RanksSort ==
  ASSUME NEW first, NEW second, NEW idx, NEW slt, Sortable(first, second, idx, slt)
  PROVE  /\ Numbered(Ranks(first, second, idx, slt), first \cup second)
         /\ \A s, t \in first \cup second :
              SortsBefore(first, idx, slt, s, t) <=>
                Ranks(first, second, idx, slt)[s] < Ranks(first, second, idx, slt)[t]
<1> DEFINE S == first \cup second
           R == Pairs(first, second, idx, slt)
<1>1. ASSUME NEW s \in S
      PROVE  {t \in S : SortsBefore(first, idx, slt, t, s)} = {t \in S : <<t, s>> \in R}
  BY PairSorts
<1>2. Ranks(first, second, idx, slt) = Rank(S, R)
  BY <1>1 DEF Ranks, Rank
<1>3. IsFiniteSet(S) /\ StrictOrder(S, R)
  BY SortIsStrict DEF Sortable
<1>4. \A s, t \in S : <<s, t>> \in R <=> SortsBefore(first, idx, slt, s, t)
  BY PairSorts
<1> HIDE DEF S, R
<1>5. Numbered(Rank(S, R), S)
  BY <1>3, RankNumbers
<1>6. \A s, t \in S : <<s, t>> \in R <=> Rank(S, R)[s] < Rank(S, R)[t]
  BY <1>3, RankOrders
<1> QED
  BY <1>2, <1>4, <1>5, <1>6 DEF S

(* Numbering again keeps what can be sorted sortable.                      *)
LEMMA RenumberSorts ==
  ASSUME NEW live, NEW new, NEW idx, NEW slt, Sortable(live, new, idx, slt)
  PROVE  /\ Renumber(live, new, idx, slt) \in [Sid -> Nat]
         /\ Sortable(live, new, Renumber(live, new, idx, slt), slt)
<1> DEFINE r == Ranks(live, new, idx, slt)
<1>1. r \in [live \cup new -> Nat]
  BY RanksSort DEF Numbered
<1>2. idx \in [Sid -> Nat]
  BY DEF Sortable
<1>3. Renumber(live, new, idx, slt) = [s \in Sid |-> IF s \in new THEN r[s] ELSE idx[s]]
  BY DEF Renumber
<1> HIDE DEF r
<1>4. Renumber(live, new, idx, slt) \in [Sid -> Nat]
  BY <1>1, <1>2, <1>3
<1> QED
  BY <1>4 DEF Sortable

(* The rows that are drawn are numbered from the top.                      *)
LEMMA RedrawNumbers ==
  ASSUME NEW live, NEW new, NEW idx, NEW slt, Sortable(live, new, idx, slt),
         Redraw(live, new, idx, slt)
  PROVE  /\ Numbered(row', live \cup new)
         /\ index' \in [Sid -> Nat]
<1>1. row' = Ranks(live, new, idx, slt)
  BY DEF Redraw
<1> DEFINE drawn == Renumber(live, new, idx, slt)
           after == Renumber(live, new, drawn, slt)
<1>2. index' = Renumber(live, new, after, slt)
  BY DEF Redraw
<1>3. Sortable(live, new, drawn, slt)
  BY RenumberSorts
<1> HIDE DEF drawn
<1>4. Sortable(live, new, after, slt)
  BY <1>3, RenumberSorts
<1> HIDE DEF after
<1>5. index' \in [Sid -> Nat]
  BY <1>2, <1>4, RenumberSorts
<1> QED
  BY <1>1, <1>5, RanksSort

(* Where '.index' is the order f, sections() numbers by f; and it changes  *)
(* nothing if the created ones have these numbers already.                 *)
LEMMA RanksFollow ==
  ASSUME NEW live, NEW new, NEW idx, NEW slt, Sortable(live, new, idx, slt),
         NEW f, Numbered(f, live \cup new), SameOrder(live \cup new, f, idx)
  PROVE  Ranks(live, new, idx, slt) = f
<1> DEFINE S == live \cup new
           r == Ranks(live, new, idx, slt)
<1>1. IsFiniteSet(S) /\ S \subseteq Sid /\ idx \in [Sid -> Nat] /\ slt \in [Sid -> Nat]
  BY DEF Sortable
<1>2. f \in [S -> Nat] /\ Distinct(f, S)
  BY <1>1, NumberedInjective DEF Numbered
<1>3. /\ Numbered(r, S)
      /\ \A s, t \in S : SortsBefore(live, idx, slt, s, t) <=> r[s] < r[t]
  BY RanksSort
<1> HIDE DEF S, r
<1>4. ASSUME NEW s \in S, NEW t \in S PROVE SortsBefore(live, idx, slt, s, t) <=> idx[s] < idx[t]
  <2>1. idx[s] \in Nat /\ idx[t] \in Nat /\ f[s] \in Nat /\ f[t] \in Nat
    BY <1>1, <1>2
  <2>9. slt[s] \in Nat
    BY <1>1
  <2>2. (f[s] < f[t] <=> idx[s] < idx[t]) /\ (f[t] < f[s] <=> idx[t] < idx[s])
    BY DEF SameOrder, S
  <2>3. CASE s = t
    BY <2>3, <2>1, <2>9 DEF SortsBefore
  <2>4. CASE s # t
    <3>1. f[s] # f[t]
      BY <2>4, <1>2 DEF Distinct
    <3>2. idx[s] # idx[t]
      BY <3>1, <2>1, <2>2
    <3> QED
      BY <3>2, <2>1 DEF SortsBefore
  <2> QED
    BY <2>3, <2>4
<1>5. SameOrder(S, r, f)
  <2> SUFFICES ASSUME NEW s \in S, NEW t \in S PROVE r[s] < r[t] <=> f[s] < f[t]
    BY DEF SameOrder
  <2>1. f[s] < f[t] <=> idx[s] < idx[t]
    BY DEF SameOrder, S
  <2> QED
    BY <2>1, <1>3, <1>4
<1>6. Numbered(f, S)
  BY DEF S
<1> QED
  BY <1>1, <1>3, <1>5, <1>6, OneNumbering DEF r

LEMMA RenumberKeeps ==
  ASSUME NEW live, NEW new, NEW idx, NEW slt, Sortable(live, new, idx, slt),
         NEW f, Numbered(f, live \cup new), SameOrder(live \cup new, f, idx),
         \A s \in new : idx[s] = f[s]
  PROVE  Renumber(live, new, idx, slt) = idx
<1>1. Ranks(live, new, idx, slt) = f
  BY RanksFollow
<1>2. idx \in [Sid -> Nat]
  BY DEF Sortable
<1> QED
  BY <1>1, <1>2 DEF Renumber

LEMMA RedrawKeeps ==
  ASSUME NEW live, NEW new, NEW idx, NEW slt, Sortable(live, new, idx, slt),
         NEW f, Numbered(f, live \cup new), SameOrder(live \cup new, f, idx),
         \A s \in new : idx[s] = f[s],
         Redraw(live, new, idx, slt)
  PROVE  row' = f /\ index' = idx
<1>1. Ranks(live, new, idx, slt) = f
  BY RanksFollow
<1>2. Renumber(live, new, idx, slt) = idx
  BY RenumberKeeps
<1> QED
  BY <1>1, <1>2 DEF Redraw

-----------------------------------------------------------------------------
(* The parts of Shape, action by action.                                   *)
LEMMA ShapeSorts ==
  ASSUME Shape
  PROVE  /\ Sortable(Live, created, index, slot)
         /\ Sortable(created, base, index, slot)
         /\ Numbered(row, Shown) /\ IsFiniteSet(Shown) /\ Shown \subseteq Sid
<1>1. base \subseteq Sid /\ created \subseteq Sid /\ created \cap base = {}
  BY DEF Shape, OrderTypeOK
<1>2. IsFiniteSet(Live \cup created) /\ IsFiniteSet(created \cup base)
  BY <1>1, SidAssumption, FS_Subset DEF Live
<1>3. index \in [Sid -> Nat] /\ slot \in [Sid -> Nat]
  BY DEF Shape, OrderTypeOK
<1>4. Distinct(slot, Live) /\ Distinct(slot, base) /\ Distinct(slot, created)
  BY DEF Shape, Distinct, Live
<1>5. row \in [Shown -> Nat] /\ {row[s] : s \in DOMAIN row} = 0 .. Cardinality(DOMAIN row) - 1
  BY DEF Shape, OrderTypeOK
<1>6. Numbered(row, Shown)
  BY <1>5 DEF Numbered
<1> QED
  BY <1>1, <1>2, <1>3, <1>4, <1>6 DEF Sortable, Live, Shown

LEMMA NumberedRows ==
  ASSUME NEW f, NEW S, Numbered(f, S)
  PROVE  DOMAIN f = S /\ f \in [S -> Nat] /\ {f[s] : s \in DOMAIN f} = 0 .. Cardinality(DOMAIN f) - 1
BY DEF Numbered

LEMMA AddShape == ASSUME Shape, NEW s \in Sid, HandleAdd(s) PROVE Shape'
<1> DEFINE saved == Renumber(Live, created, index, slot)
           idx   == [saved EXCEPT ![s] = 1000 + newidx]
<1>1. /\ phase = "idle" /\ s \notin base \cup created /\ newidx < MaxNew
      /\ created' = created \cup {s} /\ slot' = [slot EXCEPT ![s] = newidx]
      /\ newidx' = newidx + 1 /\ touched' = TRUE /\ done' = done \cup {"add"}
      /\ UNCHANGED <<place, base, removed, reorder, phase>>
      /\ Redraw(Live, created', idx, slot')
  BY DEF HandleAdd
<1>2. newidx \in Nat /\ MaxNew \in Nat
  BY SidAssumption DEF Shape, OrderTypeOK
<1>3. saved \in [Sid -> Nat]
  BY ShapeSorts, RenumberSorts
<1>4. idx \in [Sid -> Nat]
  BY <1>2, <1>3
<1> HIDE DEF idx
<1>5. slot \in [Sid -> Nat] /\ slot' \in [Sid -> Nat]
  BY <1>1, <1>2 DEF Shape, OrderTypeOK
<1>6. Distinct(slot', base) /\ Distinct(slot', Live)
  BY <1>1, <1>5 DEF Shape, Distinct, Live
<1>7. \A t \in created' : slot'[t] < newidx'
  BY <1>1, <1>2, <1>5 DEF Shape, OrderTypeOK
<1>8. Distinct(slot', created')
  <2> SUFFICES ASSUME NEW t \in created', NEW u \in created', t # u PROVE slot'[t] # slot'[u]
    BY DEF Distinct
  <2>1. \A v \in created : v # s /\ slot'[v] = slot[v] /\ slot[v] < newidx /\ slot[v] \in Nat
    BY <1>1, <1>5 DEF Shape, OrderTypeOK
  <2>2. slot'[s] = newidx
    BY <1>1, <1>5
  <2> QED
    BY <2>1, <2>2, <1>1, <1>2 DEF Shape, Distinct
<1>9. created' \subseteq Sid \ base /\ base \subseteq Sid
  BY <1>1 DEF Shape, OrderTypeOK
<1>10. IsFiniteSet(Live \cup created')
  BY <1>9, SidAssumption, FS_Subset DEF Live
<1>11. Sortable(Live, created', idx, slot')
  BY <1>4, <1>5, <1>6, <1>8, <1>9, <1>10 DEF Sortable, Live
<1>12. Numbered(row', Live \cup created') /\ index' \in [Sid -> Nat]
  BY <1>1, <1>11, RedrawNumbers
<1>13. Live' = Live /\ Shown' = Live \cup created'
  BY <1>1 DEF Live, Shown
<1>14. /\ DOMAIN row' = Live' \cup created' /\ row' \in [Shown' -> Nat]
       /\ {row'[t] : t \in DOMAIN row'} = 0 .. Cardinality(DOMAIN row') - 1
  BY <1>12, <1>13, NumberedRows
<1>15. newidx' \in 0 .. MaxNew
  BY <1>1, <1>2
<1>16. OrderTypeOK'
  BY <1>1, <1>5, <1>9, <1>12, <1>14, <1>15 DEF Shape, OrderTypeOK
<1> QED
  BY <1>1, <1>6, <1>7, <1>8, <1>14, <1>16 DEF Shape

LEMMA RemoveShape == ASSUME Shape, NEW s \in Sid, HandleRemove(s) PROVE Shape'
<1> DEFINE idx == Renumber(Live, created, index, slot)
<1>1. /\ phase = "idle" /\ s \in DOMAIN row
      /\ \/ s \in created /\ created' = created \ {s} /\ removed' = removed
         \/ s \notin created /\ removed' = removed \cup {s} /\ created' = created
      /\ touched' = TRUE /\ done' = done \cup {"remove"}
      /\ UNCHANGED <<place, base, slot, newidx, reorder, phase>>
      /\ Redraw(base \ removed', created', idx, slot)
  BY DEF HandleRemove
<1>2. s \in Shown
  BY <1>1 DEF Shape, OrderTypeOK, Shown
<1>3. created' \subseteq created /\ removed' \subseteq base
  BY <1>1, <1>2 DEF Shape, OrderTypeOK, Shown, Live
<1>4. Sortable(Live, created, idx, slot) /\ IsFiniteSet(Shown)
  BY ShapeSorts, RenumberSorts
<1> HIDE DEF idx
<1>5. base \ removed' \subseteq Live
  BY <1>1 DEF Live
<1>6. IsFiniteSet((base \ removed') \cup created')
  BY <1>3, <1>4, <1>5, FS_Subset DEF Shown
<1>7. Sortable(base \ removed', created', idx, slot)
  BY <1>3, <1>4, <1>5, <1>6 DEF Sortable, Distinct
<1>8. Numbered(row', (base \ removed') \cup created') /\ index' \in [Sid -> Nat]
  BY <1>1, <1>7, RedrawNumbers
<1>9. Live' = base \ removed' /\ Shown' = (base \ removed') \cup created'
  BY <1>1 DEF Live, Shown
<1>10. /\ DOMAIN row' = Live' \cup created' /\ row' \in [Shown' -> Nat]
       /\ {row'[t] : t \in DOMAIN row'} = 0 .. Cardinality(DOMAIN row') - 1
  BY <1>8, <1>9, NumberedRows
<1>11. OrderTypeOK'
  BY <1>1, <1>3, <1>8, <1>10 DEF Shape, OrderTypeOK
<1> QED
  BY <1>1, <1>3, <1>10, <1>11 DEF Shape, Distinct

LEMMA SortShape == ASSUME Shape, NEW s \in Sid, NEW t \in Sid, HandleSort(s, t) PROVE Shape'
<1> DEFINE swapped == [index EXCEPT ![s] = index[t], ![t] = index[s]]
           saved   == Renumber(Live, created, swapped, slot)
<1>1. /\ phase = "idle" /\ reorder' = TRUE
      /\ UNCHANGED <<place, base, removed, created, slot, newidx, touched, phase, done>>
      /\ Redraw(Live, created, saved, slot)
  BY DEF HandleSort
<1>2. index \in [Sid -> Nat]
  BY DEF Shape, OrderTypeOK
<1>3. swapped \in [Sid -> Nat]
  BY <1>2
<1> HIDE DEF swapped
<1>4. Sortable(Live, created, swapped, slot)
  BY <1>3, ShapeSorts DEF Sortable
<1>5. Sortable(Live, created, saved, slot)
  BY <1>4, RenumberSorts
<1> HIDE DEF saved
<1>6. Numbered(row', Shown) /\ index' \in [Sid -> Nat]
  BY <1>1, <1>5, RedrawNumbers DEF Shown
<1>7. Live' = Live /\ Shown' = Shown
  BY <1>1 DEF Live, Shown
<1>8. /\ DOMAIN row' = Live' \cup created' /\ row' \in [Shown' -> Nat]
      /\ {row'[u] : u \in DOMAIN row'} = 0 .. Cardinality(DOMAIN row') - 1
  BY <1>1, <1>6, <1>7, NumberedRows DEF Shown
<1>9. OrderTypeOK'
  BY <1>1, <1>6, <1>8 DEF Shape, OrderTypeOK
<1> QED
  BY <1>1, <1>8, <1>9 DEF Shape

LEMMA SendShape == ASSUME Shape, Send PROVE Shape'
<1>1. Sortable(Live, created, Renumber(Live, created, index, slot), slot)
  BY ShapeSorts, RenumberSorts
<1>2. index' \in [Sid -> Nat]
  BY <1>1, RenumberSorts DEF Send
<1>3. /\ phase = "idle" /\ phase' = "writing"
      /\ UNCHANGED <<place, base, removed, created, slot, newidx, touched, reorder, row, done>>
  BY DEF Send
<1>4. Live' = Live /\ Shown' = Shown
  BY <1>3 DEF Live, Shown
<1>5. OrderTypeOK'
  BY <1>2, <1>3, <1>4 DEF Shape, OrderTypeOK
<1> QED
  BY <1>3, <1>4, <1>5 DEF Shape

(* The server appends the new sections in the order they were made.        *)
LEMMA WriteOrder ==
  ASSUME Shape, Write
  PROVE  /\ place' \in [Shown -> Nat] /\ Distinct(place', Shown)
         /\ \A s, t \in Shown : place'[s] < place'[t] <=> Before(s, t)
<1> DEFINE n == Cardinality(base)
           old == [s \in base |-> Cardinality({t \in base : place[t] < place[s]})]
           new == [s \in created |-> Cardinality({t \in created : slot[t] < slot[s]})]
<1>1. base = DOMAIN place /\ base \subseteq Sid /\ created \subseteq Sid \ base
  BY DEF Write, Shape, OrderTypeOK
<1>2. IsFiniteSet(base) /\ IsFiniteSet(created)
  BY <1>1, SidAssumption, FS_Subset
<1>3. (\A s \in base : place[s] \in Nat) /\ Distinct(place, base)
  BY <1>1 DEF Shape, OrderTypeOK
<1>4. (\A s \in created : slot[s] \in Nat) /\ Distinct(slot, created)
  BY <1>1 DEF Shape, OrderTypeOK
<1>5. place' = [s \in Shown |-> IF s \in created THEN n + new[s] ELSE old[s]]
  <2>1. Shown = (DOMAIN place \ removed) \cup created
    BY <1>1 DEF Shown, Live
  <2> QED
    BY <1>1, <2>1 DEF Write
<1>6. Numbered(old, base) /\ SameOrder(base, place, old)
  BY <1>2, <1>3, CountOrders
<1>7. Numbered(new, created) /\ SameOrder(created, slot, new)
  BY <1>2, <1>4, CountOrders
<1> HIDE DEF old, new
<1>8. n \in Nat /\ (\A s \in base : old[s] \in Nat /\ old[s] < n) /\ Distinct(old, base)
  <2>1. n \in Nat
    BY <1>2, FS_CardinalityType
  <2>2. Distinct(old, base) /\ \A s \in base : old[s] \in 0 .. n - 1
    BY <1>2, <1>6, NumberedInjective
  <2> QED
    BY <2>1, <2>2
<1>9. (\A s \in created : new[s] \in Nat) /\ Distinct(new, created)
  BY <1>2, <1>7, NumberedInjective DEF Numbered
<1> HIDE DEF n
<1>10. \A s \in Shown : s \in created \/ (s \in base /\ s \notin created)
  BY <1>1 DEF Shown, Live
<1>11. place' \in [Shown -> Nat]
  BY <1>5, <1>8, <1>9, <1>10
<1>12. Distinct(place', Shown)
  <2> SUFFICES ASSUME NEW s \in Shown, NEW t \in Shown, place'[s] = place'[t] PROVE s = t
    BY DEF Distinct
  <2>1. CASE s \in created /\ t \in created
    <3>1. n + new[s] = n + new[t] /\ new[s] \in Nat /\ new[t] \in Nat
      BY <2>1, <1>5, <1>9
    <3>2. new[s] = new[t]
      BY <3>1, <1>8
    <3> QED
      BY <3>2, <2>1, <1>9 DEF Distinct
  <2>2. CASE s \in created /\ t \in base /\ t \notin created
    BY <2>2, <1>5, <1>8, <1>9
  <2>3. CASE s \in base /\ s \notin created /\ t \in created
    BY <2>3, <1>5, <1>8, <1>9
  <2>4. CASE s \in base /\ s \notin created /\ t \in base /\ t \notin created
    BY <2>4, <1>5, <1>8 DEF Distinct
  <2> QED
    BY <2>1, <2>2, <2>3, <2>4, <1>10
<1>13. ASSUME NEW s \in Shown, NEW t \in Shown PROVE place'[s] < place'[t] <=> Before(s, t)
  <2>1. CASE s \in created /\ t \in created
    BY <2>1, <1>1, <1>5, <1>7, <1>8, <1>9 DEF SameOrder, Before
  <2>2. CASE s \in created /\ t \in base /\ t \notin created
    BY <2>2, <1>1, <1>5, <1>8, <1>9 DEF Before
  <2>3. CASE s \in base /\ s \notin created /\ t \in created
    BY <2>3, <1>1, <1>5, <1>8, <1>9 DEF Before
  <2>4. CASE s \in base /\ s \notin created /\ t \in base /\ t \notin created
    BY <2>4, <1>1, <1>5, <1>6, <1>8 DEF SameOrder, Before
  <2> QED
    BY <2>1, <2>2, <2>3, <2>4, <1>10
<1> QED
  BY <1>11, <1>12, <1>13

LEMMA WriteShape == ASSUME Shape, Write PROVE Shape'
<1>1. /\ phase' \in {"ordering", "reloading"} /\ reorder' = FALSE
      /\ UNCHANGED <<base, removed, created, index, slot, newidx, touched, row, done>>
  BY DEF Write, staged
<1>2. place' \in [Shown -> Nat] /\ Distinct(place', Shown)
  BY WriteOrder
<1>3. Live' = Live /\ Shown' = Shown
  BY <1>1 DEF Live, Shown
<1>4. DOMAIN place' = Shown /\ Shown \subseteq Sid
  BY <1>2, ShapeSorts
<1>5. OrderTypeOK'
  BY <1>1, <1>2, <1>3, <1>4 DEF Shape, OrderTypeOK
<1> QED
  BY <1>1, <1>2, <1>3, <1>4, <1>5 DEF Shape

LEMMA OrderPlaces ==
  ASSUME Shape, Order
  PROVE  /\ place' \in [Shown -> Nat] /\ Distinct(place', Shown)
         /\ \A s, t \in Shown : place'[s] < place'[t] <=> SortsBefore(created, index, slot, s, t)
<1> DEFINE r == Ranks(created, base, index, slot)
<1>1. Sortable(created, base, index, slot)
  BY ShapeSorts
<1>2. /\ Numbered(r, created \cup base)
      /\ \A s, t \in created \cup base : SortsBefore(created, index, slot, s, t) <=> r[s] < r[t]
  BY <1>1, RanksSort
<1>3. place' = [s \in Shown |-> r[s]] /\ Shown \subseteq created \cup base
  BY DEF Order, Shape, Shown, Live
<1> HIDE DEF r
<1>4. Distinct(r, created \cup base)
  BY <1>1, <1>2, NumberedInjective DEF Sortable
<1> QED
  BY <1>2, <1>3, <1>4 DEF Numbered, Distinct

LEMMA OrderShape == ASSUME Shape, Order PROVE Shape'
<1>1. /\ phase' = "reloading"
      /\ UNCHANGED <<base, removed, created, index, slot, newidx, touched, reorder, row, done>>
  BY DEF Order, staged
<1>2. place' \in [Shown -> Nat] /\ Distinct(place', Shown)
  BY OrderPlaces
<1>3. Live' = Live /\ Shown' = Shown
  BY <1>1 DEF Live, Shown
<1>4. DOMAIN place' = Shown /\ Shown \subseteq Sid
  BY <1>2, ShapeSorts
<1>5. OrderTypeOK'
  BY <1>1, <1>2, <1>3, <1>4 DEF Shape, OrderTypeOK
<1> QED
  BY <1>1, <1>2, <1>3, <1>4, <1>5 DEF Shape

(* A package that is loaded shows the order of the server.                 *)
LEMMA LoadedShape ==
  ASSUME Shape, Loaded, UNCHANGED <<place, newidx, reorder>>, phase' = "idle"
  PROVE  /\ Shape' /\ Live' = DOMAIN place /\ Shown' = DOMAIN place
         /\ SameOrder(DOMAIN place, place, row')
         /\ \A s \in DOMAIN place : index'[s] = row'[s]
<1> DEFINE S == DOMAIN place
           r == [s \in S |-> Cardinality({t \in S : place[t] < place[s]})]
           i == [s \in Sid |-> IF s \in S THEN r[s] ELSE 0]
<1>1. /\ base' = S /\ removed' = {} /\ created' = {}
      /\ index' = i /\ slot' = i
      /\ touched' = FALSE /\ done' = {} /\ row' = r
  BY DEF Loaded
<1>2. S \subseteq Sid /\ (\A s \in S : place[s] \in Nat) /\ Distinct(place, S)
  BY DEF Shape, OrderTypeOK
<1>3. IsFiniteSet(S)
  BY <1>2, SidAssumption, FS_Subset
<1> HIDE DEF S
<1>4. Numbered(r, S) /\ SameOrder(S, place, r)
  BY <1>2, <1>3, CountOrders
<1> HIDE DEF r
<1>5. r \in [S -> Nat] /\ Distinct(r, S)
  BY <1>3, <1>4, NumberedInjective DEF Numbered
<1>6. i \in [Sid -> Nat] /\ \A s \in S : i[s] = r[s]
  BY <1>2, <1>5
<1> HIDE DEF i
<1>7. Live' = S /\ Shown' = S
  BY <1>1 DEF Live, Shown
<1>8. /\ DOMAIN row' = Live' \cup created' /\ row' \in [Shown' -> Nat]
      /\ {row'[u] : u \in DOMAIN row'} = 0 .. Cardinality(DOMAIN row') - 1
  BY <1>1, <1>4, <1>7, NumberedRows
<1>9. Distinct(slot', S)
  BY <1>1, <1>5, <1>6 DEF Distinct
<1>10. Distinct(slot', base') /\ Distinct(slot', created') /\ \A s \in created' : slot'[s] < newidx'
  BY <1>1, <1>9 DEF Distinct
<1>11. OrderTypeOK'
  BY <1>1, <1>2, <1>6, <1>8 DEF Shape, OrderTypeOK, S
<1>12. base' = DOMAIN place'
  BY <1>1 DEF S
<1>13. Shape'
  BY <1>1, <1>8, <1>10, <1>11, <1>12 DEF Shape
<1> QED
  BY <1>1, <1>4, <1>6, <1>7, <1>13 DEF S

(* One that was only reordered stays loaded.                               *)
LEMMA KeptShape == ASSUME Shape, Reload, ~touched PROVE Shape'
<1>1. /\ phase = "reloading" /\ phase' = "idle"
      /\ Redraw(Live, created, Renumber(Live, created, index, slot), slot)
      /\ UNCHANGED <<place, base, removed, created, slot, newidx, reorder, touched, done>>
  BY DEF Reload
<1>2. Sortable(Live, created, Renumber(Live, created, index, slot), slot)
  BY ShapeSorts, RenumberSorts
<1>3. Numbered(row', Shown) /\ index' \in [Sid -> Nat]
  BY <1>1, <1>2, RedrawNumbers DEF Shown
<1>4. Live' = Live /\ Shown' = Shown
  BY <1>1 DEF Live, Shown
<1>5. /\ DOMAIN row' = Live' \cup created' /\ row' \in [Shown' -> Nat]
      /\ {row'[u] : u \in DOMAIN row'} = 0 .. Cardinality(DOMAIN row') - 1
  BY <1>1, <1>3, <1>4, NumberedRows DEF Shown
<1>6. base = DOMAIN place
  BY <1>1 DEF Shape, Shown, Live
<1>7. OrderTypeOK'
  BY <1>1, <1>3, <1>5 DEF Shape, OrderTypeOK
<1> QED
  BY <1>1, <1>5, <1>6, <1>7 DEF Shape

LEMMA ReloadShape == ASSUME Shape, Reload PROVE Shape'
BY LoadedShape, KeptShape DEF Reload

LEMMA ResetShape == ASSUME Shape, Reset PROVE Shape'
BY LoadedShape DEF Reset

LEMMA StepShape == ASSUME Shape, [OrderNext]_ordervars PROVE Shape'
<1>1. ASSUME NEW s \in Sid, HandleAdd(s) \/ HandleRemove(s) PROVE Shape'
  BY <1>1, AddShape, RemoveShape
<1>2. ASSUME NEW s \in Sid, NEW t \in Sid, HandleSort(s, t) PROVE Shape'
  BY <1>2, SortShape
<1>3. CASE Send \/ Write \/ Order \/ Reload \/ Reset
  BY <1>3, SendShape, WriteShape, OrderShape, ReloadShape, ResetShape
<1>4. CASE UNCHANGED ordervars
  <2>1. /\ UNCHANGED <<place, base, removed, created, index, slot, newidx>>
        /\ UNCHANGED <<touched, reorder, row, phase, done>>
    BY <1>4 DEF ordervars, staged
  <2>2. Live' = Live /\ Shown' = Shown
    BY <2>1 DEF Live, Shown
  <2>3. OrderTypeOK'
    BY <2>1, <2>2 DEF Shape, OrderTypeOK
  <2> QED
    BY <2>1, <2>2, <2>3 DEF Shape
<1> QED
  BY <1>1, <1>2, <1>3, <1>4 DEF OrderNext

LEMMA InitShape == ASSUME OrderInit PROVE Shape
<1>1. PICK S \in SUBSET Sid :
        /\ place \in [S -> 0 .. Cardinality(S) - 1]
        /\ \A s, t \in DOMAIN place : place[s] = place[t] => s = t
  BY DEF OrderInit, Packages
<1>2. S = DOMAIN place
  BY <1>1
<1>3. IsFiniteSet(S) /\ Cardinality(S) \in Nat
  BY SidAssumption, FS_Subset, FS_CardinalityType
<1>4. place \in Injection(S, 0 .. Cardinality(S) - 1)
  BY <1>1, <1>2 DEF Injection, IsInjective
<1>5. IsFiniteSet(0 .. Cardinality(S) - 1) /\ Cardinality(0 .. Cardinality(S) - 1) = Cardinality(S)
  BY <1>3, UpTo
<1>6. place \in Surjection(S, 0 .. Cardinality(S) - 1)
  BY <1>4, <1>5, FS_Injection
<1>7. {place[s] : s \in S} = 0 .. Cardinality(S) - 1
  BY <1>1, <1>6 DEF Surjection
<1>8. place \in [S -> Nat]
  BY <1>1
<1>9. /\ base = S /\ removed = {} /\ created = {} /\ newidx = 0 /\ reorder = FALSE
      /\ touched = FALSE /\ row = place /\ phase = "idle" /\ done = {}
      /\ index = [s \in Sid |-> IF s \in S THEN place[s] ELSE 0] /\ slot = index
  BY <1>2 DEF OrderInit
<1>10. index \in [Sid -> Nat] /\ Distinct(slot, S) /\ Distinct(place, S)
  BY <1>1, <1>2, <1>8, <1>9 DEF Distinct
<1>11. Live = S /\ Shown = S
  BY <1>9 DEF Live, Shown
<1>12. OrderTypeOK
  <2>1. newidx \in 0 .. MaxNew
    BY <1>9, SidAssumption
  <2>2. DOMAIN row = Live \cup created /\ {row[s] : s \in DOMAIN row} = 0 .. Cardinality(DOMAIN row) - 1
    BY <1>2, <1>7, <1>9, <1>11
  <2>3. DOMAIN place \subseteq Sid /\ \A s \in DOMAIN place : place[s] \in Nat
    BY <1>2, <1>8
  <2> QED
    BY <1>2, <1>9, <1>10, <2>1, <2>2, <2>3 DEF OrderTypeOK
<1> QED
  BY <1>2, <1>8, <1>9, <1>10, <1>11, <1>12 DEF Shape, Distinct

LEMMA AlwaysShape == OrderSpec => []Shape
BY InitShape, StepShape, PTL DEF OrderSpec

(* The page shows one row per section that is left, numbered from the top, *)
(* whatever was added, removed, moved, sent and loaded before (sections,   *)
(* renderBody).                                                            *)
THEOREM OrderTypeCorrect == OrderSpec => []OrderTypeOK
<1>1. Shape => OrderTypeOK
  BY DEF Shape
<1> QED
  BY <1>1, AlwaysShape, PTL

-----------------------------------------------------------------------------
(* As long as sections were only added or only removed.                    *)
LEMMA RedrawDense ==
  ASSUME NEW live, NEW new, NEW idx, NEW slt, Sortable(live, new, idx, slt),
         NEW f, Numbered(f, live \cup new), SameOrder(live \cup new, f, idx),
         \A s \in live : idx[s] = f[s],
         Redraw(live, new, idx, slt)
  PROVE  row' = f /\ \A s \in live \cup new : index'[s] = f[s]
<1> DEFINE drawn == Renumber(live, new, idx, slt)
           after == Renumber(live, new, drawn, slt)
<1>1. Ranks(live, new, idx, slt) = f
  BY RanksFollow
<1>2. Sortable(live, new, drawn, slt)
  BY RenumberSorts
<1>3. \A s \in live \cup new : drawn[s] = f[s]
  BY <1>1 DEF Renumber, Sortable
<1>4. row' = f /\ index' = Renumber(live, new, after, slt)
  BY <1>1 DEF Redraw
<1> HIDE DEF drawn
<1>5. SameOrder(live \cup new, f, drawn) /\ \A s \in new : drawn[s] = f[s]
  BY <1>3 DEF SameOrder
<1>6. Renumber(live, new, drawn, slt) = drawn
  BY <1>2, <1>5, RenumberKeeps
<1>7. index' = drawn
  BY <1>4, <1>6
<1> QED
  BY <1>3, <1>4, <1>7

LEMMA FaithfulIndex ==
  ASSUME Shape, Faithful
  PROVE  /\ Distinct(row, Shown) /\ Distinct(index, Shown)
         /\ \A s \in Shown : index[s] \in Nat /\ row[s] \in Nat /\ row[s] < Cardinality(Shown)
         /\ Cardinality(Shown) \in Nat
         /\ ~Mixed => \A s \in created : index[s] = row[s]
<1>1. Numbered(row, Shown) /\ IsFiniteSet(Shown) /\ Shown \subseteq Sid
  BY ShapeSorts
<1>2. Cardinality(Shown) \in Nat
  BY <1>1, FS_CardinalityType
<1>3. Distinct(row, Shown) /\ \A s \in Shown : row[s] \in 0 .. Cardinality(Shown) - 1
  BY <1>1, NumberedInjective
<1>4. index \in [Sid -> Nat]
  BY DEF Shape, OrderTypeOK
<1>5. \A s \in Shown : index[s] \in Nat /\ row[s] \in Nat /\ row[s] < Cardinality(Shown)
  BY <1>1, <1>2, <1>3, <1>4
<1>6. Distinct(index, Shown)
  <2> SUFFICES ASSUME NEW s \in Shown, NEW t \in Shown, index[s] = index[t] PROVE s = t
    BY DEF Distinct
  <2>1. ~(index[s] < index[t]) /\ ~(index[t] < index[s])
    BY <1>5
  <2>2. ~(row[s] < row[t]) /\ ~(row[t] < row[s])
    BY <2>1 DEF Faithful, SameOrder
  <2>3. row[s] = row[t]
    BY <2>2, <1>5
  <2> QED
    BY <2>3, <1>3 DEF Distinct
<1>7. ASSUME ~Mixed PROVE \A s \in created : index[s] = row[s]
  <2>1. "remove" \notin done \/ "add" \notin done
    BY <1>7 DEF Mixed, Shape, OrderTypeOK
  <2> QED
    BY <2>1 DEF Faithful, Shown
<1> QED
  BY <1>2, <1>3, <1>5, <1>6, <1>7

(* The added section becomes the last row.                                 *)
LEMMA AddAppends ==
  ASSUME Cardinality(Sid) <= 1000, OrderInv, NEW s \in Sid, HandleAdd(s), ~Mixed'
  PROVE  /\ s \notin Shown /\ Shown' = Shown \cup {s}
         /\ row' = [u \in Shown \cup {s} |-> IF u = s THEN Cardinality(Shown) ELSE row[u]]
         /\ \A u \in Shown' : index'[u] = row'[u]
         /\ "remove" \notin done' /\ removed' = {}
<1> DEFINE n == Cardinality(Shown)
           f == [u \in Shown \cup {s} |-> IF u = s THEN n ELSE row[u]]
           idx == [index EXCEPT ![s] = 1000 + newidx]
<1>1. /\ s \notin base \cup created /\ created' = created \cup {s}
      /\ done' = done \cup {"add"} /\ UNCHANGED <<base, removed>>
      /\ Redraw(Live, created', [Renumber(Live, created, index, slot) EXCEPT ![s] = 1000 + newidx], slot')
  BY DEF HandleAdd
<1>2. "remove" \notin done /\ ~Mixed
  BY <1>1 DEF Mixed, OrderInv, Shape, OrderTypeOK
<1>3. Faithful /\ Shape /\ Shape'
  BY <1>2, AddShape DEF OrderInv, Ordered
<1>4. removed = {} /\ \A u \in Shown : index[u] = row[u]
  BY <1>2, <1>3 DEF Faithful
<1>5. /\ Sortable(Live, created, index, slot) /\ Numbered(row, Shown)
      /\ IsFiniteSet(Shown) /\ Shown \subseteq Sid
  BY <1>3, ShapeSorts
<1>6. Renumber(Live, created, index, slot) = index
  <2>1. \A u \in created : index[u] = row[u]
    BY <1>4 DEF Shown
  <2> QED
    BY <2>1, <1>3, <1>5, RenumberKeeps DEF Faithful, Shown
<1>7. n \in Nat /\ n <= 1000 /\ \A u \in Shown : row[u] \in Nat /\ row[u] < n
  <2>1. Cardinality(Shown) <= Cardinality(Sid) /\ Cardinality(Sid) \in Nat
    BY <1>5, SidAssumption, FS_Subset, FS_CardinalityType
  <2> QED
    BY <2>1, <1>3, FaithfulIndex
<1>8. newidx \in Nat /\ index \in [Sid -> Nat]
  BY <1>3 DEF Shape, OrderTypeOK
<1>9. s \notin Shown /\ Shown' = Shown \cup {s} /\ Live \cup created' = Shown \cup {s} /\ Live' = Live
  BY <1>1 DEF Shown, Live
<1>10. Cardinality(Shown \cup {s}) = n + 1
  BY <1>5, <1>9, FS_AddElement
<1> HIDE DEF n
<1>11. \A u \in Shown : f[u] = row[u]
  BY <1>9
<1>12. f[s] = n
  OBVIOUS
<1>13. f \in [Shown \cup {s} -> Nat]
  BY <1>7
<1> HIDE DEF f
<1>14. Numbered(f, Shown \cup {s})
  <2>1. {row[u] : u \in Shown} = 0 .. n - 1
    BY <1>5 DEF Numbered, n
  <2>2. ASSUME NEW i \in 0 .. n PROVE \E u \in Shown \cup {s} : f[u] = i
    <3>1. CASE i = n
      BY <3>1, <1>12
    <3>2. CASE i # n
      <4>1. i \in 0 .. n - 1
        BY <3>2, <1>7
      <4>2. PICK u \in Shown : row[u] = i
        BY <4>1, <2>1
      <4> QED
        BY <4>2, <1>11
    <3> QED
      BY <3>1, <3>2
  <2>3. ASSUME NEW u \in Shown \cup {s} PROVE f[u] \in 0 .. n
    BY <1>7, <1>11, <1>12
  <2>4. {f[u] : u \in Shown \cup {s}} = 0 .. n
    BY <2>2, <2>3
  <2>5. n = Cardinality(Shown \cup {s}) - 1
    BY <1>7, <1>10
  <2> QED
    BY <1>13, <2>4, <2>5 DEF Numbered
<1>15. idx \in [Sid -> Nat] /\ idx[s] = 1000 + newidx /\ \A u \in Shown : idx[u] = row[u]
  BY <1>4, <1>5, <1>8, <1>9
<1> HIDE DEF idx
<1>16. SameOrder(Shown \cup {s}, f, idx)
  <2> SUFFICES ASSUME NEW u \in Shown \cup {s}, NEW v \in Shown \cup {s}
               PROVE  f[u] < f[v] <=> idx[u] < idx[v]
    BY DEF SameOrder
  <2>1. CASE u = s
    BY <2>1, <1>7, <1>8, <1>9, <1>11, <1>12, <1>15
  <2>2. CASE u # s /\ v = s
    BY <2>2, <1>7, <1>8, <1>9, <1>11, <1>12, <1>15
  <2>3. CASE u # s /\ v # s
    BY <2>3, <1>11, <1>15
  <2> QED
    BY <2>1, <2>2, <2>3
<1>17. Sortable(Live, created', idx, slot')
  <2>1. Distinct(slot', base) /\ Distinct(slot', created') /\ created' \subseteq Sid \ base
    BY <1>1, <1>3 DEF Shape, OrderTypeOK
  <2>2. slot' \in [Sid -> Nat] /\ IsFiniteSet(Live \cup created')
    BY <1>3, <1>5, <1>9, FS_AddElement DEF Shape, OrderTypeOK
  <2> QED
    BY <2>1, <2>2, <1>5, <1>9, <1>15 DEF Sortable, Live, Distinct
<1>18. Redraw(Live, created', idx, slot')
  BY <1>1, <1>6 DEF idx
<1>19. \A u \in Live : idx[u] = f[u]
  BY <1>11, <1>15 DEF Shown
<1>20. row' = f /\ \A u \in Live \cup created' : index'[u] = f[u]
  <2>1. Numbered(f, Live \cup created') /\ SameOrder(Live \cup created', f, idx)
    BY <1>9, <1>14, <1>16
  <2> QED
    BY <2>1, <1>17, <1>18, <1>19, RedrawDense
<1> QED
  BY <1>1, <1>2, <1>4, <1>9, <1>20, ZenonT(60) DEF f, n

LEMMA AddOrdered ==
  ASSUME Cardinality(Sid) <= 1000, OrderInv, NEW s \in Sid, HandleAdd(s), ~Mixed'
  PROVE  Ordered'
<1> DEFINE n == Cardinality(Shown)
<1>1. /\ s \notin Shown /\ Shown' = Shown \cup {s}
      /\ row' = [u \in Shown \cup {s} |-> IF u = s THEN n ELSE row[u]]
      /\ \A u \in Shown' : index'[u] = row'[u]
      /\ "remove" \notin done' /\ removed' = {}
  BY AddAppends
<1>2. /\ phase = "idle" /\ created' = created \cup {s} /\ slot' = [slot EXCEPT ![s] = newidx]
      /\ done' = done \cup {"add"} /\ UNCHANGED <<place, base, removed, reorder, phase>>
  BY DEF HandleAdd
<1>3. Faithful'
  BY <1>1, <1>2 DEF Faithful, SameOrder
<1>4. ~Mixed
  BY <1>2 DEF Mixed, OrderInv, Shape, OrderTypeOK
<1>5. ASSUME ~reorder PROVE Natural'
  <2>1. Natural /\ Shape /\ Faithful
    BY <1>2, <1>4, <1>5 DEF OrderInv, Ordered
  <2>2. n \in Nat /\ \A u \in Shown : row[u] \in Nat /\ row[u] < n
    BY <2>1, FaithfulIndex
  <2> HIDE DEF n
  <2>3. SUFFICES ASSUME NEW u \in Shown \cup {s}, NEW v \in Shown \cup {s}
                 PROVE  row'[u] < row'[v] <=> Before(u, v)'
    BY <1>1 DEF Natural
  <2>4. s \notin base /\ slot'[s] = newidx /\ newidx \in Nat
    BY <1>2, <2>1 DEF Shape, OrderTypeOK, HandleAdd
  <2>5. \A t \in created : t # s /\ slot'[t] = slot[t] /\ slot[t] < newidx /\ slot[t] \in Nat
    BY <1>1, <1>2, <2>1 DEF Shape, OrderTypeOK, Shown
  <2>6. CASE u = s /\ v = s
    BY <2>6, <1>1, <1>2, <2>2, <2>4 DEF Before
  <2>7. CASE u = s /\ v # s
    <3>1. ~(row'[u] < row'[v])
      BY <2>7, <1>1, <2>2
    <3>2. ~Before(u, v)'
      BY <2>7, <1>1, <1>2, <2>4, <2>5 DEF Before
    <3> QED
      BY <3>1, <3>2
  <2>8. CASE u # s /\ v = s
    <3>1. row'[u] < row'[v]
      BY <2>8, <1>1, <2>2
    <3>2. u \in base \/ u \in created
      BY <2>8 DEF Shown, Live
    <3>3. Before(u, v)'
      BY <2>8, <3>2, <1>2, <2>4, <2>5 DEF Before
    <3> QED
      BY <3>1, <3>3
  <2>9. CASE u # s /\ v # s
    <3>1. row'[u] = row[u] /\ row'[v] = row[v] /\ u \in Shown /\ v \in Shown
      BY <2>9, <1>1
    <3>2. row[u] < row[v] <=> Before(u, v)
      BY <3>1, <2>1 DEF Natural
    <3>3. Before(u, v)' <=> Before(u, v)
      BY <2>9, <1>2, <2>5 DEF Before
    <3> QED
      BY <3>1, <3>2, <3>3
  <2> QED
    BY <2>6, <2>7, <2>8, <2>9
<1> QED
  BY <1>2, <1>3, <1>5 DEF Ordered

(* The sections that are left keep their order.                            *)
LEMMA RemoveKeeps ==
  ASSUME OrderInv, NEW s \in Sid, HandleRemove(s), ~Mixed'
  PROVE  /\ Faithful /\ Shape /\ ~Mixed /\ Ordered
         /\ Shown' \subseteq Shown /\ created = {} /\ created' = {} /\ index' = index
         /\ SameOrder(Shown', row', index) /\ SameOrder(Shown', row, row')
<1> DEFINE live == base \ removed'
<1>1. /\ s \in DOMAIN row /\ done' = done \cup {"remove"}
      /\ \/ s \in created /\ created' = created \ {s} /\ removed' = removed
         \/ s \notin created /\ removed' = removed \cup {s} /\ created' = created
      /\ base' = base
      /\ Redraw(live, created', Renumber(Live, created, index, slot), slot)
  BY DEF HandleRemove
<1>2. "add" \notin done /\ ~Mixed
  BY <1>1 DEF Mixed, OrderInv, Shape, OrderTypeOK
<1>3. Faithful /\ Shape /\ Ordered
  BY <1>2 DEF OrderInv, Ordered
<1>4. created = {} /\ created' = {}
  BY <1>1, <1>2, <1>3 DEF Faithful
<1>5. index \in [Sid -> Nat]
  BY <1>3 DEF Shape, OrderTypeOK
<1>6. Renumber(Live, created, index, slot) = index
  BY <1>4, <1>5 DEF Renumber
<1>7. Redraw(live, {}, index, slot)
  BY <1>1, <1>4, <1>6
<1>8. live \subseteq Shown /\ Shown' = live
  BY <1>1, <1>4 DEF Shown, Live
<1>9. row' = Ranks(live, {}, index, slot) /\ index' = index
  BY <1>5, <1>7 DEF Redraw, Renumber
<1>10. Sortable(Live, created, index, slot) /\ IsFiniteSet(Shown) /\ live \subseteq Live
  BY <1>1, <1>3, ShapeSorts DEF Live
<1> HIDE DEF live
<1>11. IsFiniteSet(live)
  BY <1>8, <1>10, FS_Subset
<1>12. Sortable(live, {}, index, slot)
  BY <1>10, <1>11 DEF Sortable, Distinct
<1>13. /\ Numbered(row', live)
       /\ \A u, v \in live : SortsBefore(live, index, slot, u, v) <=> row'[u] < row'[v]
  <2>1. live \cup {} = live
    OBVIOUS
  <2> QED
    BY <2>1, <1>9, <1>12, RanksSort
<1>14. ASSUME NEW u \in live, NEW v \in live
       PROVE  SortsBefore(live, index, slot, u, v) <=> index[u] < index[v]
  <2>1. index[u] \in Nat /\ index[v] \in Nat /\ Distinct(index, Shown)
    BY <1>3, <1>8, FaithfulIndex
  <2>2. slot[u] \in Nat /\ slot[v] \in Nat
    BY <1>3, <1>8, ShapeSorts DEF Sortable
  <2>3. index[u] = index[v] => u = v
    BY <2>1, <1>8 DEF Distinct
  <2> QED
    BY <2>1, <2>2, <2>3 DEF SortsBefore
<1>15. SameOrder(live, row', index)
  BY <1>13, <1>14 DEF SameOrder
<1>16. SameOrder(live, row, row')
  BY <1>3, <1>8, <1>15 DEF Faithful, SameOrder
<1> QED
  BY <1>2, <1>3, <1>4, <1>8, <1>9, <1>15, <1>16

LEMMA RemoveOrdered ==
  ASSUME OrderInv, NEW s \in Sid, HandleRemove(s), ~Mixed' PROVE Ordered'
<1>1. /\ Faithful /\ Shape /\ ~Mixed /\ Ordered
      /\ Shown' \subseteq Shown /\ created = {} /\ created' = {} /\ index' = index
      /\ SameOrder(Shown', row', index) /\ SameOrder(Shown', row, row')
  BY RemoveKeeps
<1>2. /\ phase = "idle" /\ done' = done \cup {"remove"}
      /\ UNCHANGED <<place, base, slot, reorder, phase>>
  BY DEF HandleRemove
<1>3. Faithful'
  BY <1>1, <1>2 DEF Faithful
<1>4. ASSUME ~reorder PROVE Natural'
  <2>1. Natural
    BY <1>1, <1>2, <1>4 DEF Ordered
  <2> SUFFICES ASSUME NEW u \in Shown', NEW v \in Shown'
               PROVE  row'[u] < row'[v] <=> Before(u, v)'
    BY DEF Natural
  <2>2. row[u] < row[v] <=> row'[u] < row'[v]
    BY <1>1 DEF SameOrder
  <2>3. row[u] < row[v] <=> Before(u, v)
    BY <2>1, <1>1 DEF Natural
  <2>4. Before(u, v)' <=> Before(u, v)
    BY <1>1, <1>2 DEF Before
  <2> QED
    BY <2>2, <2>3, <2>4
<1> QED
  BY <1>2, <1>3, <1>4 DEF Ordered

(* Exchanging two rows and their numbers keeps one the order of the other. *)
LEMMA SortExchanges ==
  ASSUME Shape, Faithful, ~Mixed, NEW s \in Sid, NEW t \in Sid, HandleSort(s, t)
  PROVE  /\ row' = [row EXCEPT ![s] = row[t], ![t] = row[s]]
         /\ index' = [index EXCEPT ![s] = index[t], ![t] = index[s]]
         /\ s \in Shown /\ t \in Shown /\ s # t
<1> DEFINE f == [row EXCEPT ![s] = row[t], ![t] = row[s]]
           swapped == [index EXCEPT ![s] = index[t], ![t] = index[s]]
<1>1. /\ s \in DOMAIN row /\ t \in DOMAIN row /\ row[t] = row[s] + 1
      /\ Redraw(Live, created, Renumber(Live, created, swapped, slot), slot)
  BY DEF HandleSort
<1>2. s \in Shown /\ t \in Shown
  BY <1>1 DEF Shape, OrderTypeOK, Shown
<1>3. /\ Sortable(Live, created, index, slot) /\ Numbered(row, Shown) /\ Shown \subseteq Sid
      /\ index \in [Sid -> Nat]
  BY ShapeSorts DEF Shape, OrderTypeOK
<1>4. row \in [Shown -> Nat]
  BY DEF Shape
<1>5. s # t
  BY <1>1, <1>2, <1>4
<1>6. f \in [Shown -> Nat] /\ f[s] = row[t] /\ f[t] = row[s]
      /\ \A u \in Shown : (u # s /\ u # t) => f[u] = row[u]
  BY <1>2, <1>4, <1>5
<1>7. swapped \in [Sid -> Nat] /\ swapped[s] = index[t] /\ swapped[t] = index[s]
      /\ \A u \in Shown : (u # s /\ u # t) => swapped[u] = index[u]
  BY <1>2, <1>3, <1>5
<1> HIDE DEF f, swapped
<1>8. Numbered(f, Shown)
  <2>1. ASSUME NEW u \in Shown PROVE \E v \in Shown : f[v] = row[u]
    BY <1>2, <1>6
  <2>2. ASSUME NEW u \in Shown PROVE \E v \in Shown : row[v] = f[u]
    BY <1>2, <1>6
  <2>3. {f[u] : u \in Shown} = {row[u] : u \in Shown}
    BY <2>1, <2>2
  <2> QED
    BY <2>3, <1>3, <1>6 DEF Numbered
<1>9. SameOrder(Shown, f, swapped)
  <2> SUFFICES ASSUME NEW u \in Shown, NEW v \in Shown
               PROVE  f[u] < f[v] <=> swapped[u] < swapped[v]
    BY DEF SameOrder
  <2>1. \A x, y \in Shown : row[x] < row[y] <=> index[x] < index[y]
    BY DEF Faithful, SameOrder
  <2>2. PICK x \in Shown : f[u] = row[x] /\ swapped[u] = index[x]
    BY <1>2, <1>6, <1>7
  <2>3. PICK y \in Shown : f[v] = row[y] /\ swapped[v] = index[y]
    BY <1>2, <1>6, <1>7
  <2> QED
    BY <2>1, <2>2, <2>3
<1>10. \A u \in created : swapped[u] = f[u]
  <2> SUFFICES ASSUME NEW u \in created PROVE swapped[u] = f[u]
    OBVIOUS
  <2>1. "remove" \notin done
    BY DEF Mixed, Shape, OrderTypeOK, Faithful
  <2>2. \A v \in Shown : index[v] = row[v]
    BY <2>1 DEF Faithful
  <2>3. u \in Shown
    BY DEF Shown
  <2> QED
    BY <2>2, <2>3, <1>2, <1>6, <1>7
<1>11. Sortable(Live, created, swapped, slot)
  BY <1>3, <1>7 DEF Sortable
<1>12. Renumber(Live, created, swapped, slot) = swapped
  BY <1>8, <1>9, <1>10, <1>11, RenumberKeeps DEF Shown
<1>13. row' = f /\ index' = swapped
  BY <1>1, <1>8, <1>9, <1>10, <1>11, <1>12, RedrawKeeps DEF Shown
<1> QED
  BY <1>2, <1>5, <1>13 DEF f, swapped

LEMMA SortOrdered ==
  ASSUME OrderInv, ~Mixed, NEW s \in Sid, NEW t \in Sid, HandleSort(s, t) PROVE Ordered'
<1>1. Shape /\ Faithful
  BY DEF OrderInv, Ordered
<1>2. /\ row' = [row EXCEPT ![s] = row[t], ![t] = row[s]]
      /\ index' = [index EXCEPT ![s] = index[t], ![t] = index[s]]
      /\ s \in Shown /\ t \in Shown /\ s # t
  BY <1>1, SortExchanges
<1>3. /\ phase = "idle" /\ reorder' = TRUE
      /\ UNCHANGED <<base, removed, created, phase, done>>
  BY DEF HandleSort
<1>4. row \in [Shown -> Nat] /\ index \in [Sid -> Nat] /\ Shown \subseteq Sid
  BY <1>1, ShapeSorts DEF Shape, OrderTypeOK
<1>5. Shown' = Shown
  BY <1>3 DEF Shown, Live
<1>6. ASSUME NEW u \in Shown
      PROVE  \E x \in Shown : row'[u] = row[x] /\ index'[u] = index[x]
  BY <1>2, <1>4
<1>7. SameOrder(Shown, row', index')
  <2> SUFFICES ASSUME NEW u \in Shown, NEW v \in Shown
               PROVE  row'[u] < row'[v] <=> index'[u] < index'[v]
    BY DEF SameOrder
  <2>1. PICK x \in Shown : row'[u] = row[x] /\ index'[u] = index[x]
    BY <1>6
  <2>2. PICK y \in Shown : row'[v] = row[y] /\ index'[v] = index[y]
    BY <1>6
  <2> QED
    BY <2>1, <2>2, <1>1 DEF Faithful, SameOrder
<1>8. ASSUME "remove" \notin done PROVE \A u \in Shown : index'[u] = row'[u]
  BY <1>1, <1>6, <1>8 DEF Faithful
<1>9. Faithful'
  BY <1>1, <1>3, <1>5, <1>7, <1>8 DEF Faithful
<1> QED
  BY <1>3, <1>9 DEF Ordered

LEMMA SendOrdered == ASSUME OrderInv, ~Mixed, Send PROVE Ordered'
<1>1. Shape /\ Faithful
  BY DEF OrderInv, Ordered
<1>2. /\ phase = "idle" /\ phase' = "writing"
      /\ UNCHANGED <<place, base, removed, created, slot, reorder, row, done>>
      /\ index' = Renumber(Live, created, Renumber(Live, created, index, slot), slot)
  BY DEF Send
<1>3. Renumber(Live, created, index, slot) = index
  <2>1. Sortable(Live, created, index, slot) /\ Numbered(row, Shown) /\ SameOrder(Shown, row, index)
    BY <1>1, ShapeSorts DEF Faithful
  <2>2. \A s \in created : index[s] = row[s]
    BY <1>1, FaithfulIndex
  <2> QED
    BY <2>1, <2>2, RenumberKeeps DEF Shown
<1>4. index' = index /\ Shown' = Shown
  BY <1>2, <1>3 DEF Shown, Live
<1>5. Faithful'
  BY <1>1, <1>2, <1>4 DEF Faithful
<1>6. ASSUME ~reorder PROVE Natural'
  BY <1>2, <1>4, <1>6 DEF OrderInv, Ordered, Natural, Before
<1> QED
  BY <1>2, <1>5, <1>6 DEF Ordered

LEMMA WriteOrdered == ASSUME OrderInv, ~Mixed, Write PROVE Ordered'
<1>1. /\ phase = "writing" /\ phase' = IF reorder THEN "ordering" ELSE "reloading"
      /\ UNCHANGED <<base, removed, created, index, slot, row, done>>
  BY DEF Write, staged
<1>2. Shown' = Shown
  BY <1>1 DEF Shown, Live
<1>3. Faithful'
  BY <1>1, <1>2 DEF OrderInv, Ordered, Faithful
<1>4. ASSUME phase' = "reloading" PROVE Told'
  <2>1. Natural
    BY <1>1, <1>4 DEF OrderInv, Ordered
  <2>2. \A s, t \in Shown : place'[s] < place'[t] <=> Before(s, t)
    BY WriteOrder DEF OrderInv
  <2> QED
    BY <2>1, <2>2, <1>1, <1>2 DEF Natural, Told, SameOrder
<1> QED
  BY <1>1, <1>3, <1>4 DEF Ordered

LEMMA OrderOrdered == ASSUME OrderInv, ~Mixed, Order PROVE Ordered'
<1>1. Shape /\ Faithful
  BY DEF OrderInv, Ordered
<1>2. phase' = "reloading" /\ UNCHANGED <<base, removed, created, index, slot, row, done>>
  BY DEF Order, staged
<1>3. Shown' = Shown
  BY <1>2 DEF Shown, Live
<1>4. Faithful'
  BY <1>1, <1>2, <1>3 DEF Faithful
<1>5. ASSUME NEW s \in Shown, NEW t \in Shown PROVE place'[s] < place'[t] <=> row[s] < row[t]
  <2>1. place'[s] < place'[t] <=> SortsBefore(created, index, slot, s, t)
    BY <1>1, OrderPlaces
  <2>2. index[s] \in Nat /\ index[t] \in Nat /\ Distinct(index, Shown)
    BY <1>1, FaithfulIndex
  <2>3. slot[s] \in Nat /\ slot[t] \in Nat
    BY <1>1, ShapeSorts DEF Sortable
  <2>4. index[s] = index[t] => s = t
    BY <2>2 DEF Distinct
  <2>5. SortsBefore(created, index, slot, s, t) <=> index[s] < index[t]
    BY <2>2, <2>3, <2>4 DEF SortsBefore
  <2> QED
    BY <2>1, <2>5, <1>1 DEF Faithful, SameOrder
<1>6. Told'
  BY <1>2, <1>3, <1>5 DEF Told, SameOrder
<1> QED
  BY <1>2, <1>4, <1>6 DEF Ordered

LEMMA LoadedOrdered ==
  ASSUME Shape, Loaded, UNCHANGED <<place, newidx, reorder>>, phase' = "idle" PROVE Ordered'
<1>1. /\ Shape' /\ Shown' = DOMAIN place /\ SameOrder(DOMAIN place, place, row')
      /\ \A s \in DOMAIN place : index'[s] = row'[s]
  BY LoadedShape
<1>2. base' = DOMAIN place /\ removed' = {} /\ created' = {}
  BY DEF Loaded
<1>3. Faithful'
  BY <1>1, <1>2 DEF Faithful, SameOrder
<1>4. Natural'
  BY <1>1, <1>2 DEF Natural, Before, SameOrder
<1> QED
  BY <1>3, <1>4 DEF Ordered

(* What the page draws after a save is what it showed before.              *)
LEMMA ReloadShows == ASSUME OrderInv, ~Mixed, Reload PROVE row' = row
<1>1. Shape /\ Faithful /\ Told
  BY DEF OrderInv, Ordered, Reload
<1>2. Numbered(row, Shown) /\ IsFiniteSet(Shown)
  BY <1>1, ShapeSorts
<1>3. CASE touched
  <2>1. Loaded /\ phase' = "idle" /\ UNCHANGED <<place, newidx, reorder>>
    BY <1>3 DEF Reload
  <2>2. /\ Shape' /\ Shown' = DOMAIN place /\ SameOrder(DOMAIN place, place, row')
    BY <2>1, <1>1, LoadedShape
  <2>3. DOMAIN place = Shown
    BY <1>1 DEF Shape, Reload
  <2>4. Numbered(row', Shown)
    BY <2>2, <2>3 DEF Shape, OrderTypeOK, Numbered
  <2>5. SameOrder(Shown, row', row)
    BY <2>2, <2>3, <1>1 DEF Told, SameOrder
  <2> QED
    BY <2>4, <2>5, <1>2, OneNumbering
<1>4. CASE ~touched
  <2>1. created = {} /\ Redraw(Live, created, Renumber(Live, created, index, slot), slot)
    BY <1>1, <1>4 DEF Shape, Reload
  <2>2. /\ Sortable(Live, created, index, slot) /\ SameOrder(Shown, row, index)
        /\ \A s \in created : index[s] = row[s]
    BY <1>1, <2>1, ShapeSorts DEF Faithful
  <2>3. Renumber(Live, created, index, slot) = index
    BY <2>2, <1>2, RenumberKeeps DEF Shown
  <2> QED
    BY <2>1, <2>2, <2>3, <1>2, RedrawKeeps DEF Shown
<1> QED
  BY <1>3, <1>4

LEMMA KeptOrdered == ASSUME OrderInv, ~Mixed, Reload, ~touched PROVE Ordered'
<1>1. Shape /\ Faithful /\ Told
  BY DEF OrderInv, Ordered, Reload
<1>2. /\ phase = "reloading" /\ phase' = "idle"
      /\ UNCHANGED <<place, base, removed, created, done>>
      /\ Redraw(Live, created, Renumber(Live, created, index, slot), slot)
  BY DEF Reload
<1>3. created = {} /\ removed = {}
  BY <1>1 DEF Shape
<1>4. row' = row
  BY ReloadShows
<1>5. index' = index
  BY <1>1, <1>2, <1>3 DEF Redraw, Renumber, Shape, OrderTypeOK
<1>6. Shown' = Shown /\ Shown = base
  BY <1>2, <1>3 DEF Shown, Live
<1>7. Faithful'
  BY <1>1, <1>2, <1>4, <1>5, <1>6 DEF Faithful
<1>8. Natural'
  BY <1>1, <1>2, <1>3, <1>4, <1>6 DEF Told, SameOrder, Natural, Before
<1> QED
  BY <1>2, <1>7, <1>8 DEF Ordered

LEMMA StepOrdered ==
  ASSUME Cardinality(Sid) <= 1000, OrderInv, [OrderNext]_ordervars, ~Mixed' PROVE Ordered'
<1>1. ASSUME NEW s \in Sid, HandleAdd(s) \/ HandleRemove(s) PROVE Ordered'
  BY <1>1, AddOrdered, RemoveOrdered
<1>2. ASSUME NEW s \in Sid, NEW t \in Sid, HandleSort(s, t) PROVE Ordered'
  <2>1. ~Mixed
    BY <1>2 DEF HandleSort, Mixed
  <2> QED
    BY <1>2, <2>1, SortOrdered
<1>3. CASE Send \/ Write \/ Order
  <2>1. ~Mixed
    BY <1>3 DEF Send, Write, Order, Mixed
  <2> QED
    BY <1>3, <2>1, SendOrdered, WriteOrdered, OrderOrdered
<1>4. CASE Reload
  <2>1. CASE touched
    BY <1>4, <2>1, LoadedOrdered DEF Reload, OrderInv
  <2>2. CASE ~touched
    <3>1. ~Mixed
      BY <1>4, <2>2 DEF Reload, Mixed
    <3> QED
      BY <1>4, <2>2, <3>1, KeptOrdered
  <2> QED
    BY <2>1, <2>2
<1>5. CASE Reset
  BY <1>5, LoadedOrdered DEF Reset, OrderInv
<1>6. CASE UNCHANGED ordervars
  <2>1. /\ UNCHANGED <<place, base, removed, created, index, slot>>
        /\ UNCHANGED <<reorder, row, phase, done>>
    BY <1>6 DEF ordervars, staged
  <2>2. Shown' = Shown /\ ~Mixed
    BY <2>1 DEF Live, Shown, Mixed
  <2> QED
    BY <2>1, <2>2 DEF OrderInv, Ordered, Faithful, Natural, Told, Before
<1> QED
  BY <1>1, <1>2, <1>3, <1>4, <1>5, <1>6 DEF OrderNext

LEMMA InitOrdered == ASSUME OrderInit PROVE Ordered
<1>1. Shape
  BY InitShape
<1>2. /\ base = DOMAIN place /\ removed = {} /\ created = {}
      /\ row = place /\ phase = "idle"
      /\ index = [s \in Sid |-> IF s \in DOMAIN place THEN place[s] ELSE 0]
  BY DEF OrderInit
<1>3. Shown = DOMAIN place /\ Shown \subseteq Sid
  BY <1>1, <1>2, ShapeSorts DEF Live, Shown
<1>4. \A s \in Shown : index[s] = row[s]
  BY <1>2, <1>3
<1>5. Faithful
  BY <1>2, <1>4 DEF Faithful, SameOrder
<1>6. Natural
  BY <1>2, <1>3 DEF Natural, Before
<1> QED
  BY <1>2, <1>5, <1>6 DEF Ordered

LEMMA AlwaysOrdered == ASSUME Cardinality(Sid) <= 1000 PROVE OrderSpec => []OrderInv
<1>1. OrderInit => OrderInv
  BY InitShape, InitOrdered DEF OrderInv
<1>2. OrderInv /\ [OrderNext]_ordervars => OrderInv'
  BY StepShape, StepOrdered DEF OrderInv
<1> QED
  BY <1>1, <1>2, PTL DEF OrderSpec

(* Between two loads, whatever mix of adding (or removing) and moving came *)
(* before, a save brings the sections back in the order the page showed    *)
(* (reorderSections, sections), in packages of at most 1000 sections.      *)
THEOREM SavedInOrder == ASSUME Cardinality(Sid) <= 1000 PROVE OrderSpec => SavedOrderIsShown
<1> DEFINE A == (phase = "reloading" /\ phase' = "idle" /\ ~Mixed) => row' = row
<1>1. ASSUME OrderInv, OrderNext PROVE A
  <2>1. ASSUME phase = "reloading", phase' = "idle", ~Mixed PROVE row' = row
    <3>1. Reload
      BY <1>1, <2>1 DEF OrderNext, HandleAdd, HandleRemove, HandleSort, Send, Write, Order, Reset
    <3> QED
      BY <3>1, <1>1, <2>1, ReloadShows
  <2> QED
    BY <2>1
<1>2. OrderInv /\ [OrderNext]_ordervars => [A]_ordervars
  BY <1>1
<1> QED
  BY <1>2, AlwaysOrdered, PTL DEF OrderSpec, SavedOrderIsShown

(* Adding or removing a section leaves the others in the order shown       *)
(* (handleAdd, handleRemove), in packages of at most 1000 sections: the    *)
(* number of an added section, 1000 and more, is above all others.         *)
THEOREM OthersInOrder == ASSUME Cardinality(Sid) <= 1000 PROVE OrderSpec => OthersKeepOrder
<1> DEFINE A == (~Mixed' /\ touched' /\ (created' # created \/ removed' # removed)) =>
                  \A s, t \in DOMAIN row \cap DOMAIN row' : row[s] < row[t] => row'[s] < row'[t]
<1>1. ASSUME OrderInv, OrderNext PROVE A
  <2> SUFFICES ASSUME ~Mixed', touched', created' # created \/ removed' # removed,
                      NEW s \in DOMAIN row, NEW t \in DOMAIN row,
                      s \in DOMAIN row', t \in DOMAIN row', row[s] < row[t]
               PROVE  row'[s] < row'[t]
    BY DEF A
  <2>1. \E u \in Sid : HandleAdd(u) \/ HandleRemove(u)
    BY <1>1 DEF OrderNext, HandleSort, Send, Write, Order, Reload, Reset, Loaded, staged
  <2>2. PICK u \in Sid : HandleAdd(u) \/ HandleRemove(u)
    BY <2>1
  <2>3. s \in Shown /\ t \in Shown
    BY <1>1 DEF OrderInv, Shape, OrderTypeOK, Shown
  <2>4. CASE HandleAdd(u)
    <3>1. /\ u \notin Shown
          /\ row' = [v \in Shown \cup {u} |-> IF v = u THEN Cardinality(Shown) ELSE row[v]]
      BY <2>4, <1>1, AddAppends, ZenonT(60)
    <3> QED
      BY <3>1, <2>3
  <2>5. CASE HandleRemove(u)
    <3>1. Shape' /\ SameOrder(Shown', row, row')
      BY <2>5, <1>1, RemoveKeeps, RemoveShape DEF OrderInv
    <3>2. s \in Shown' /\ t \in Shown'
      BY <3>1 DEF Shape, OrderTypeOK, Shown
    <3> QED
      BY <3>1, <3>2 DEF SameOrder
  <2> QED
    BY <2>2, <2>4, <2>5
<1>2. OrderInv /\ [OrderNext]_ordervars => [A]_ordervars
  BY <1>1
<1> QED
  BY <1>2, AlwaysOrdered, PTL DEF OrderSpec, OthersKeepOrder

(* As long as sections were only added or only removed since the load, a   *)
(* move exchanges the two rows and touches no other (handleSort).          *)
THEOREM MoveExchanges == ASSUME Cardinality(Sid) <= 1000 PROVE OrderSpec => MoveExchangesRows
<1> DEFINE A == \A s, t \in DOMAIN row :
                  (~Mixed /\ HandleSort(s, t)) => row' = [row EXCEPT ![s] = row[t], ![t] = row[s]]
<1>1. ASSUME OrderInv PROVE A
  <2> SUFFICES ASSUME NEW s \in DOMAIN row, NEW t \in DOMAIN row, ~Mixed, HandleSort(s, t)
               PROVE  row' = [row EXCEPT ![s] = row[t], ![t] = row[s]]
    BY DEF A
  <2>1. Shape /\ Faithful
    BY <1>1 DEF OrderInv, Ordered
  <2>2. s \in Sid /\ t \in Sid
    BY <2>1, ShapeSorts DEF Shape, OrderTypeOK, Shown
  <2> QED
    BY <2>1, <2>2, SortExchanges
<1>2. OrderInv /\ [OrderNext]_ordervars => [A]_ordervars
  BY <1>1
<1> QED
  BY <1>2, AlwaysOrdered, PTL DEF OrderSpec, MoveExchangesRows

-----------------------------------------------------------------------------
(* apply()                                                                 *)

(* The calls that report, or are about to report, success.                 *)
Claims == {c \in Call : \/ page[c] = "resolved"
                        \/ page[c] = "confirming" /\ message[c] = "ok"}

(* The changes of these calls have not reached the device.                 *)
Fresh == {c \in Call : \/ page[c] = "idle"
                       \/ page[c] = "applying" /\ message[c] = "sent"}

Settled == committed \cup reverted

(* What makes EachSuccessCommitsOne inductive.                             *)
ApplyInv ==
  /\ TypeOK
  /\ message \in [Call -> {"none", "sent", "ok", "error", "lost"}]
  /\ Fresh \cap (Settled \cup {pending}) = {}
  /\ pending \notin Settled
  /\ Cardinality(Claims) <= Cardinality(committed)

-----------------------------------------------------------------------------
(* The device commits changes it had not committed, while no more claims   *)
(* are made than the one of the call that is told.                         *)
LEMMA CommitPaysForClaim ==
  ASSUME IsFiniteSet(Call), NEW S \in SUBSET Call, NEW T \in SUBSET Call,
         NEW C \in SUBSET Call, NEW c \in Call, NEW p \in Call,
         p \notin C, T \subseteq S \cup {c}, Cardinality(S) <= Cardinality(C)
  PROVE  Cardinality(T) <= Cardinality(C \cup {p})
<1>1. IsFiniteSet(S) /\ IsFiniteSet(C) /\ IsFiniteSet(S \cup {c})
  BY FS_Subset, FS_AddElement
<1>2. Cardinality(C \cup {p}) = Cardinality(C) + 1
  BY <1>1, FS_AddElement
<1>3. Cardinality(S \cup {c}) <= Cardinality(S) + 1
  BY <1>1, FS_AddElement, FS_CardinalityType
<1>4. Cardinality(T) <= Cardinality(S \cup {c})
  BY <1>1, FS_Subset
<1>5. /\ Cardinality(S) \in Nat /\ Cardinality(C) \in Nat
      /\ Cardinality(T) \in Nat /\ Cardinality(S \cup {c}) \in Nat
  BY <1>1, FS_Subset, FS_CardinalityType
<1> QED
  BY <1>2, <1>3, <1>4, <1>5

(* Claims that are withdrawn leave enough commits.                         *)
LEMMA FewerClaims ==
  ASSUME IsFiniteSet(Call), NEW S \in SUBSET Call, NEW T \in SUBSET S,
         NEW n \in Nat, Cardinality(S) <= n
  PROVE  Cardinality(T) <= n
<1>1. IsFiniteSet(S) /\ IsFiniteSet(T) /\ Cardinality(T) <= Cardinality(S)
  BY FS_Subset
<1> QED
  BY <1>1, FS_CardinalityType

(* A step that commits nothing keeps the count, if it makes no claim.      *)
LEMMA CountKept ==
  ASSUME IsFiniteSet(Call), ApplyInv, Claims' \subseteq Claims, UNCHANGED committed
  PROVE  Cardinality(Claims') <= Cardinality(committed')
<1>1. IsFiniteSet(committed)
  BY FS_Subset DEF ApplyInv, TypeOK
<1>2. Cardinality(committed) \in Nat
  BY <1>1, FS_CardinalityType
<1>3. Cardinality(Claims) <= Cardinality(committed)
  BY DEF ApplyInv
<1>4. Claims \in SUBSET Call /\ Claims' \in SUBSET Claims
  BY DEF Claims
<1>5. Cardinality(Claims') <= Cardinality(committed)
  BY <1>2, <1>3, <1>4, FewerClaims
<1> QED
  BY <1>5

(* Whoever reported success has a claim.                                   *)
LEMMA ClaimsArePaid == ASSUME IsFiniteSet(Call), ApplyInv PROVE EachSuccessCommitsOne
<1> DEFINE S == {c \in Call : page[c] = "resolved"}
<1>1. S \in SUBSET Claims /\ Claims \in SUBSET Call
  BY DEF Claims
<1>2. IsFiniteSet(committed) /\ Cardinality(Claims) <= Cardinality(committed)
  BY FS_Subset DEF ApplyInv, TypeOK
<1>3. Cardinality(S) <= Cardinality(committed)
  BY <1>1, <1>2, FewerClaims, FS_CardinalityType
<1> QED
  BY <1>3 DEF EachSuccessCommitsOne

-----------------------------------------------------------------------------
(* Initially no call is made and nothing is pending.                       *)
LEMMA InitInv ==
  ASSUME None \notin Call, Timeout \in Nat, Init
  PROVE  ApplyInv
<1>1. TypeOK
  BY DEF Init, TypeOK, MaxClock, Waiting
<1>2. Claims = {} /\ committed = {}
  BY DEF Init, Claims
<1>3. Cardinality(Claims) <= Cardinality(committed)
  BY <1>2, FS_EmptySet
<1> QED
  BY <1>1, <1>3 DEF Init, ApplyInv, Fresh, Settled

(* Every step of the page, of the network and of the device keeps ApplyInv.     *)
LEMMA NextInv ==
  ASSUME None \notin Call, Timeout \in Nat, IsFiniteSet(Call), ApplyInv, [Next]_vars
  PROVE  ApplyInv'
<1> USE DEF Waiting
<1>1. ASSUME NEW c \in Call, Apply(c) PROVE ApplyInv'
  <2>1. TypeOK'
    BY <1>1 DEF ApplyInv, TypeOK, Apply, device
  <2>2. Claims' \subseteq Claims /\ Fresh' \subseteq Fresh
    BY <1>1 DEF ApplyInv, TypeOK, Apply, Claims, Fresh
  <2>3. Cardinality(Claims') <= Cardinality(committed')
    BY <1>1, <2>2, CountKept DEF Apply, device
  <2> QED
    BY <1>1, <2>1, <2>2, <2>3 DEF ApplyInv, Apply, device, Settled
<1>2. ASSUME NEW c \in Call, ServeApply(c) PROVE ApplyInv'
  <2>1. TypeOK'
    BY <1>2 DEF ApplyInv, TypeOK, ServeApply
  <2>2. Claims' \subseteq Claims /\ Fresh' = Fresh \ {c} /\ c \in Fresh
    BY <1>2 DEF ApplyInv, TypeOK, ServeApply, Claims, Fresh
  <2>3. Cardinality(Claims') <= Cardinality(committed')
    BY <1>2, <2>2, CountKept DEF ServeApply
  <2>4. c \notin Settled
    BY <2>2 DEF ApplyInv
  <2> QED
    BY <1>2, <2>1, <2>2, <2>3, <2>4 DEF ApplyInv, ServeApply, Settled
<1>3. ASSUME NEW c \in Call, ServeConfirm(c) PROVE ApplyInv'
  <2>1. TypeOK'
    BY <1>3 DEF ApplyInv, TypeOK, ServeConfirm, Settled
  <2>2. Fresh' = Fresh
    BY <1>3 DEF ApplyInv, TypeOK, ServeConfirm, Fresh
  <2>3. CASE pending = None
    <3>1. Claims' \subseteq Claims
      BY <1>3, <2>3 DEF ApplyInv, TypeOK, ServeConfirm, Claims
    <3>2. Cardinality(Claims') <= Cardinality(committed')
      BY <1>3, <2>3, <3>1, CountKept DEF ServeConfirm
    <3> QED
      BY <1>3, <2>1, <2>2, <2>3, <3>2 DEF ApplyInv, ServeConfirm, Settled
  <2>4. CASE pending # None
    <3>1. pending \in Call /\ pending \notin committed /\ committed \in SUBSET Call
      BY <2>4 DEF ApplyInv, TypeOK, Settled
    <3>2. committed' = committed \cup {pending} /\ pending' = None /\ UNCHANGED reverted
      BY <1>3, <2>4 DEF ServeConfirm
    <3>3. Claims \in SUBSET Call /\ Claims' \in SUBSET Call /\ Claims' \subseteq Claims \cup {c}
      BY <1>3, <2>4 DEF ApplyInv, TypeOK, ServeConfirm, Claims
    <3>4. Cardinality(Claims) <= Cardinality(committed)
      BY DEF ApplyInv
    <3>5. Cardinality(Claims') <= Cardinality(committed \cup {pending})
      BY <3>1, <3>3, <3>4, CommitPaysForClaim
    <3>6. message' \in [Call -> {"none", "sent", "ok", "error", "lost"}]
      BY <1>3, <2>4 DEF ApplyInv, ServeConfirm
    <3>7. None \notin Settled' /\ None \notin Fresh /\ Settled' = Settled \cup {pending}
      BY <3>1, <3>2 DEF ApplyInv, TypeOK, Settled, Fresh
    <3> QED
      BY <2>1, <2>2, <3>2, <3>5, <3>6, <3>7 DEF ApplyInv
  <2> QED
    BY <2>3, <2>4
<1>4. ASSUME NEW c \in Call, Lose(c) PROVE ApplyInv'
  <2>1. TypeOK'
    BY <1>4 DEF ApplyInv, TypeOK, Lose, device
  <2>2. Claims' \subseteq Claims /\ Fresh' \subseteq Fresh
    BY <1>4 DEF ApplyInv, TypeOK, Lose, Claims, Fresh
  <2>3. Cardinality(Claims') <= Cardinality(committed')
    BY <1>4, <2>2, CountKept DEF Lose, device
  <2> QED
    BY <1>4, <2>1, <2>2, <2>3 DEF ApplyInv, Lose, device, Settled
<1>5. ASSUME NEW c \in Call, Step(c) PROVE ApplyInv'
  <2>1. TypeOK' /\ UNCHANGED device
    BY <1>5 DEF ApplyInv, TypeOK, Step, Confirmed, Applied, TryConfirm, device
  <2>2. Claims' \subseteq Claims /\ Fresh' \subseteq Fresh
    BY <1>5 DEF ApplyInv, TypeOK, Step, Confirmed, Applied, TryConfirm, Claims, Fresh
  <2>3. Cardinality(Claims') <= Cardinality(committed')
    BY <2>1, <2>2, CountKept DEF device
  <2>4. message' \in [Call -> {"none", "sent", "ok", "error", "lost"}]
    BY <1>5 DEF ApplyInv, Step, Confirmed, Applied, TryConfirm
  <2> QED
    BY <2>1, <2>2, <2>3, <2>4 DEF ApplyInv, device, Settled
<1>6. CASE Rollback
  <2>1. TypeOK'
    BY <1>6 DEF ApplyInv, TypeOK, Rollback, Settled
  <2>2. Claims' = Claims /\ Fresh' = Fresh
    BY <1>6 DEF Rollback, Claims, Fresh
  <2>3. Cardinality(Claims') <= Cardinality(committed')
    BY <1>6, <2>2, CountKept DEF Rollback
  <2>4. None \notin Settled' /\ None \notin Fresh /\ Settled' = Settled \cup {pending}
    BY <1>6 DEF ApplyInv, TypeOK, Rollback, Settled, Fresh
  <2> QED
    BY <1>6, <2>1, <2>2, <2>3, <2>4 DEF ApplyInv, Rollback
<1>7. CASE Tick
  <2>1. TypeOK'
    BY <1>7 DEF ApplyInv, TypeOK, Tick, MaxClock
  <2>2. Claims' = Claims /\ Fresh' = Fresh
    BY <1>7 DEF Tick, Claims, Fresh
  <2>3. Cardinality(Claims') <= Cardinality(committed')
    BY <1>7, <2>2, CountKept DEF Tick
  <2> QED
    BY <1>7, <2>1, <2>2, <2>3 DEF ApplyInv, Tick, Settled
<1>8. CASE UNCHANGED vars
  <2>1. TypeOK' /\ Claims' = Claims /\ Fresh' = Fresh
    BY <1>8 DEF ApplyInv, TypeOK, vars, Claims, Fresh
  <2> QED
    BY <1>8, <2>1 DEF ApplyInv, vars, Settled
<1> QED
  BY <1>1, <1>2, <1>3, <1>4, <1>5, <1>6, <1>7, <1>8 DEF Next, Serve

-----------------------------------------------------------------------------
(* Every reachable state of apply() and of the device is well typed, for   *)
(* any finite set of calls and any timeout: the device never both keeps    *)
(* and rolls back the same changes.                                        *)
THEOREM ApplyTypeCorrect ==
  ASSUME None \notin Call, Timeout \in Nat, IsFiniteSet(Call)
  PROVE  Spec => []TypeOK
<1>1. ApplyInv => TypeOK
  BY DEF ApplyInv
<1> QED
  BY <1>1, InitInv, NextInv, PTL DEF Spec

(* However many calls of apply() overlap, and whichever replies are lost,  *)
(* no more of them report success than changes the device has kept.        *)
THEOREM NoFalseSuccess ==
  ASSUME None \notin Call, Timeout \in Nat, IsFiniteSet(Call)
  PROVE  Spec => []EachSuccessCommitsOne
<1>1. ApplyInv => EachSuccessCommitsOne
  BY ClaimsArePaid
<1> QED
  BY <1>1, InitInv, NextInv, PTL DEF Spec

-----------------------------------------------------------------------------
(* The two beside each other.                                              *)

(* Every run of the two is a run of the order and a run of apply().        *)
THEOREM ChangesAreParts == ChangesSpec => OrderSpec /\ Init /\ [][Next]_vars
<1>1. ChangesInit => OrderInit /\ Init
  BY DEF ChangesInit
<1>2. [ChangesNext]_allvars => [OrderNext]_ordervars
  BY DEF ChangesNext, Ordering, Applying, Ended, allvars
<1>3. [ChangesNext]_allvars => [Next]_vars
  BY DEF ChangesNext, Ordering, Applying, Ended, allvars
<1> QED
  BY <1>1, <1>2, <1>3, PTL DEF ChangesSpec, OrderSpec

(* Each keeps its types whichever of them runs (UciOrder, UciApply).       *)
THEOREM ChangesTypeCorrect ==
  ASSUME None \notin Call, Timeout \in Nat, IsFiniteSet(Call)
  PROVE  ChangesSpec => []ChangesTypeOK
<1>1. Init => ApplyInv
  BY InitInv
<1>2. ApplyInv /\ [Next]_vars => ApplyInv'
  BY NextInv
<1>3. Shape /\ ApplyInv => ChangesTypeOK
  BY DEF Shape, ApplyInv, ChangesTypeOK
<1> QED
  BY <1>1, <1>2, <1>3, AlwaysShape, ChangesAreParts, PTL

(* No more calls of apply() report success than changes were kept, and, in *)
(* packages of at most 1000 sections, the order saved is the one shown:    *)
(* in the model of both, as in that of each.                               *)
THEOREM ChangesPartsHold ==
  ASSUME None \notin Call, Timeout \in Nat, IsFiniteSet(Call), Cardinality(Sid) <= 1000
  PROVE  ChangesSpec => /\ []EachSuccessCommitsOne
                        /\ SavedOrderIsShown /\ OthersKeepOrder /\ MoveExchangesRows
<1>1. Init => ApplyInv
  BY InitInv
<1>2. ApplyInv /\ [Next]_vars => ApplyInv'
  BY NextInv
<1>3. ApplyInv => EachSuccessCommitsOne
  BY ClaimsArePaid
<1>4. ChangesSpec => SavedOrderIsShown /\ OthersKeepOrder /\ MoveExchangesRows
  BY ChangesAreParts, SavedInOrder, OthersInOrder, MoveExchanges
<1> QED
  BY <1>1, <1>2, <1>3, <1>4, ChangesAreParts, PTL
=============================================================================

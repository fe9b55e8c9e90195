----------------------------- MODULE Forms_proofs -----------------------------
(***************************************************************************)
(* What is proved of the forms: of the widgets of a section (CbiForm), of  *)
(* the tables of VLANs (SwitchVlan), of the devices of an interface        *)
(* (NetDevices), and of these and the lists of Lists_proofs side by side   *)
(* (FormParts), for every declaration of fields, every switch and every    *)
(* network.                                                                *)
(***************************************************************************)
EXTENDS FormParts, Lists_proofs, FiniteSetTheorems, TLAPS

-----------------------------------------------------------------------------
(* CbiForm: what a field depends on are declared fields (depends).         *)
DepStep(f, a, i) ==
  Depends(a, Option(f).depends[i].dep, Option(f).depends[i].add,
          {Declared[j] : j \in 1 .. Option(f).depends[i].known})

IsFold(it, f, P) ==
  it = [s \in P |-> IF s = {} THEN {} ELSE DepStep(f, it[s \ {Max(s)}], Max(s))]

FoldOf(f, P) == CHOOSE it : IsFold(it, f, P)

UpTo(D, k) == {s \in SUBSET D : Cardinality(s) <= k}

LEMMA DependenciesAreFolded ==
  ASSUME NEW f \in Fields
  PROVE  Dependencies[f] =
           FoldOf(f, SUBSET DOMAIN Option(f).depends)[DOMAIN Option(f).depends]
BY DEF Dependencies, FoldLeft, MapThenFoldSet, FoldOf, IsFold, DepStep

LEMMA MaxIsMember ==
  ASSUME NEW n \in Nat, NEW s \in SUBSET (1 .. n), s # {}
  PROVE  Max(s) \in s
<1> DEFINE T == {m \in Nat : \A y \in s : y <= m}
<1>1. n \in T
  OBVIOUS
<1>2. PICK m \in T : \A y \in T : m <= y
  BY <1>1, LeastNumber
<1>3. m \in s
  <2> SUFFICES ASSUME m \notin s PROVE FALSE
    OBVIOUS
  <2>1. \A y \in s : y \in Nat /\ 1 <= y /\ y <= m /\ y # m
    BY <1>2
  <2>2. m \in Nat /\ m # 0
    <3>1. PICK y \in s : TRUE
      OBVIOUS
    <3>2. y \in Nat /\ 1 <= y /\ y <= m /\ m \in Nat
      BY <1>2, <2>1
    <3> QED
      BY <3>2
  <2>3. m - 1 \in T
    BY <2>1, <2>2
  <2> QED
    BY <1>2, <2>2, <2>3
<1>4. \A y \in s : m >= y
  BY <1>2
<1> QED
  BY <1>3, <1>4 DEF Max

LEMMA UpToIsFinite ==
  ASSUME NEW n \in Nat, NEW k \in Nat, NEW s \in UpTo(1 .. n, k)
  PROVE  IsFiniteSet(s) /\ s \subseteq 1 .. n /\ Cardinality(s) \in Nat /\ Cardinality(s) <= k
<1>1. s \in SUBSET (1 .. n) /\ Cardinality(s) <= k
  BY DEF UpTo
<1>2. IsFiniteSet(1 .. n)
  BY FS_Interval
<1>3. IsFiniteSet(s)
  BY <1>1, <1>2, FS_Subset
<1>4. Cardinality(s) \in Nat
  BY <1>3, FS_CardinalityType
<1> QED
  BY <1>1, <1>3, <1>4

LEMMA Smaller ==
  ASSUME NEW n \in Nat, NEW k \in Nat, NEW s \in UpTo(1 .. n, k + 1), s # {}
  PROVE  s \ {Max(s)} \in UpTo(1 .. n, k) /\ Max(s) \in 1 .. n
<1>1. IsFiniteSet(s) /\ s \in SUBSET (1 .. n) /\ Cardinality(s) \in Nat /\ Cardinality(s) <= k + 1
  BY UpToIsFinite
<1>2. Max(s) \in s
  BY <1>1, MaxIsMember
<1>3. Cardinality(s \ {Max(s)}) = Cardinality(s) - 1
  BY <1>1, <1>2, FS_RemoveElement
<1>4. Cardinality(s \ {Max(s)}) <= k
  BY <1>1, <1>3
<1> QED
  BY <1>1, <1>2, <1>4 DEF UpTo

LEMMA FoldExists ==
  ASSUME NEW f, NEW n \in Nat, NEW m \in Nat
  PROVE  \E it : IsFold(it, f, UpTo(1 .. n, m))
<1> DEFINE N == {k \in Nat : \E it : IsFold(it, f, UpTo(1 .. n, k))}
<1>1. 0 \in N
  <2> DEFINE it == [s \in UpTo(1 .. n, 0) |-> {}]
  <2>1. ASSUME NEW s \in UpTo(1 .. n, 0) PROVE s = {}
    <3>1. IsFiniteSet(s) /\ Cardinality(s) = 0
      BY UpToIsFinite
    <3> QED
      BY <3>1, FS_EmptySet
  <2>2. IsFold(it, f, UpTo(1 .. n, 0))
    BY <2>1 DEF IsFold
  <2> HIDE DEF it
  <2> QED
    BY <2>2
<1>2. ASSUME NEW k \in Nat, k \in N PROVE k + 1 \in N
  <2>1. PICK old : IsFold(old, f, UpTo(1 .. n, k))
    BY <1>2
  <2> DEFINE new == [s \in UpTo(1 .. n, k + 1) |->
                       IF s = {} THEN {} ELSE DepStep(f, old[s \ {Max(s)}], Max(s))]
  <2>2. ASSUME NEW s \in UpTo(1 .. n, k) PROVE s \in UpTo(1 .. n, k + 1) /\ new[s] = old[s]
    <3>1. s \in UpTo(1 .. n, k + 1)
      <4>1. Cardinality(s) \in Nat /\ Cardinality(s) <= k /\ s \subseteq 1 .. n
        BY UpToIsFinite
      <4> QED
        BY <4>1 DEF UpTo
    <3>2. new[s] = IF s = {} THEN {} ELSE DepStep(f, old[s \ {Max(s)}], Max(s))
      BY <3>1
    <3>3. old[s] = IF s = {} THEN {} ELSE DepStep(f, old[s \ {Max(s)}], Max(s))
      BY <2>1 DEF IsFold
    <3> QED
      BY <3>1, <3>2, <3>3
  <2>3. ASSUME NEW s \in UpTo(1 .. n, k + 1)
        PROVE  new[s] = IF s = {} THEN {} ELSE DepStep(f, new[s \ {Max(s)}], Max(s))
    <3>1. CASE s = {}
      BY <3>1
    <3>2. CASE s # {}
      <4>1. s \ {Max(s)} \in UpTo(1 .. n, k)
        BY <3>2, Smaller
      <4>2. new[s \ {Max(s)}] = old[s \ {Max(s)}]
        BY <4>1, <2>2
      <4>3. new[s] = DepStep(f, old[s \ {Max(s)}], Max(s))
        BY <3>2
      <4> QED
        BY <3>2, <4>2, <4>3
    <3> QED
      BY <3>1, <3>2
  <2>4. new = [s \in UpTo(1 .. n, k + 1) |-> new[s]]
    OBVIOUS
  <2> HIDE DEF new
  <2>5. IsFold(new, f, UpTo(1 .. n, k + 1))
    BY <2>3, <2>4 DEF IsFold
  <2> QED
    BY <2>5
<1> HIDE DEF N
<1>3. m \in N
  BY <1>1, <1>2, Induction
<1> QED
  BY <1>3 DEF N

LEMMA WholeIsUpTo ==
  ASSUME NEW n \in Nat
  PROVE  UpTo(1 .. n, n) = SUBSET (1 .. n)
<1>1. ASSUME NEW s \in SUBSET (1 .. n) PROVE Cardinality(s) <= n
  <2>1. IsFiniteSet(1 .. n) /\ Cardinality(1 .. n) = n
    BY FS_Interval
  <2> QED
    BY <2>1, FS_Subset
<1> QED
  BY <1>1 DEF UpTo

LEMMA StepStaysDeclared ==
  ASSUME NEW f \in Fields, NEW a, \A d \in a : DOMAIN d \subseteq Fields,
         NEW i \in DOMAIN Option(f).depends
  PROVE  \A d \in DepStep(f, a, i) : DOMAIN d \subseteq Fields
<1> DEFINE dep == Option(f).depends[i].dep
           add == Option(f).depends[i].add
           before == {Declared[j] : j \in 1 .. Option(f).depends[i].known}
           new == [g \in DOMAIN dep \cap before |-> dep[g]]
<1>1. before \subseteq Fields
  <2>1. Option(f).depends[i] \in ToSet(Option(f).depends)
    BY DEF ToSet
  <2>2. Option(f).depends[i].known \in 0 .. Len(Declared)
    BY <2>1, FieldsAssumption
  <2>3. \A j \in 1 .. Len(Declared) : Declared[j] \in Fields
    BY FieldsAssumption
  <2> QED
    BY <2>2, <2>3
<1>2. DepStep(f, a, i) = Depends(a, dep, add, before)
  BY DEF DepStep
<1> DEFINE merged == {[g \in DOMAIN b \cup DOMAIN new |->
                        IF g \in DOMAIN new THEN new[g] ELSE b[g]] : b \in a}
<1> HIDE DEF before, dep, add
<1>3. DOMAIN new \subseteq Fields
  BY <1>1
<1>4. Depends(a, dep, add, before) =
        IF DOMAIN new = {} THEN a
        ELSE IF ~add \/ a = {} THEN a \cup {new}
        ELSE merged
  BY DEF Depends
<1> HIDE DEF new
<1>5. ASSUME NEW d \in Depends(a, dep, add, before) PROVE DOMAIN d \subseteq Fields
  <2>1. CASE d \in a
    BY <2>1
  <2>2. CASE d = new
    BY <2>2, <1>3
  <2>3. CASE d \in merged
    <3>1. PICK b \in a : d = [g \in DOMAIN b \cup DOMAIN new |->
                               IF g \in DOMAIN new THEN new[g] ELSE b[g]]
      BY <2>3
    <3>2. DOMAIN d = DOMAIN b \cup DOMAIN new
      BY <3>1
    <3> QED
      BY <3>2, <1>3
  <2> HIDE DEF merged
  <2>4. d \in a \/ d = new \/ d \in merged
    BY <1>4
  <2> QED
    BY <2>1, <2>2, <2>3, <2>4
<1> QED
  BY <1>2, <1>5

LEMMA DependenciesDeclared ==
  ASSUME NEW f \in Fields, NEW d \in Dependencies[f]
  PROVE  DOMAIN d \subseteq Fields
<1>1. PICK n \in Nat : DOMAIN Option(f).depends = 1 .. n
  BY FieldsAssumption
<1> DEFINE it == FoldOf(f, SUBSET (1 .. n))
           N == {k \in Nat : \A s \in UpTo(1 .. n, k) : \A e \in it[s] : DOMAIN e \subseteq Fields}
<1>2. IsFold(it, f, UpTo(1 .. n, n))
  <2>1. \E x : IsFold(x, f, UpTo(1 .. n, n))
    BY FoldExists
  <2>2. UpTo(1 .. n, n) = SUBSET (1 .. n)
    BY WholeIsUpTo
  <2>3. \E x : IsFold(x, f, SUBSET (1 .. n))
    BY <2>1, <2>2
  <2>4. IsFold(it, f, SUBSET (1 .. n))
    BY <2>3 DEF FoldOf
  <2> QED
    BY <2>2, <2>4
<1> HIDE DEF it
<1>3. ASSUME NEW s \in UpTo(1 .. n, n)
      PROVE  it[s] = IF s = {} THEN {} ELSE DepStep(f, it[s \ {Max(s)}], Max(s))
  BY <1>2 DEF IsFold
<1>4. 0 \in N
  <2> SUFFICES ASSUME NEW s \in UpTo(1 .. n, 0), NEW e \in it[s] PROVE FALSE
    OBVIOUS
  <2>1. s = {}
    BY UpToIsFinite, FS_EmptySet
  <2>2. s \in UpTo(1 .. n, n)
    BY WholeIsUpTo, <2>1
  <2> QED
    BY <1>3, <2>1, <2>2
<1>5. ASSUME NEW k \in Nat, k \in N PROVE k + 1 \in N
  <2> SUFFICES ASSUME NEW s \in UpTo(1 .. n, k + 1), NEW e \in it[s]
               PROVE  DOMAIN e \subseteq Fields
    OBVIOUS
  <2>1. s \in UpTo(1 .. n, n)
    BY WholeIsUpTo DEF UpTo
  <2>2. CASE s = {}
    BY <1>3, <2>1, <2>2
  <2>3. CASE s # {}
    <3>1. s \ {Max(s)} \in UpTo(1 .. n, k) /\ Max(s) \in 1 .. n
      BY <2>3, Smaller
    <3>2. \A b \in it[s \ {Max(s)}] : DOMAIN b \subseteq Fields
      BY <1>5, <3>1
    <3>3. e \in DepStep(f, it[s \ {Max(s)}], Max(s))
      BY <1>3, <2>1, <2>3
    <3> QED
      BY <1>1, <3>1, <3>2, <3>3, StepStaysDeclared
  <2> QED
    BY <2>2, <2>3
<1> HIDE DEF N
<1>6. n \in N
  BY <1>4, <1>5, Induction
<1>7. 1 .. n \in UpTo(1 .. n, n)
  BY WholeIsUpTo
<1>8. Dependencies[f] = it[1 .. n]
  BY <1>1, DependenciesAreFolded DEF it
<1> QED
  BY <1>6, <1>7, <1>8 DEF N

(* The fields that are validated include those one starts with             *)
(* (handleValidate).                                                       *)
Further(R, failing) == R \cup UNION {Dependents[f] : f \in R \ failing}

IsReached(r, start, failing, m) ==
  r = [n \in 0 .. m |-> IF n = 0 THEN start ELSE Further(r[n - 1], failing)]

ReachedBy(start, failing, m) == CHOOSE r : IsReached(r, start, failing, m)

LEMMA ReachedIsLoop ==
  ASSUME NEW start, NEW failing
  PROVE  Reached(start, failing) = ReachedBy(start, failing, Len(Declared))[Len(Declared)]
BY DEF Reached, ReachedBy, IsReached, Further

LEMMA ReachedStarts ==
  ASSUME NEW start, NEW failing, NEW m \in Nat
  PROVE  \E r : IsReached(r, start, failing, m)
<1> DEFINE N == {k \in Nat : \E r : IsReached(r, start, failing, k)}
<1>1. 0 \in N
  <2> DEFINE r == [n \in 0 .. 0 |-> start]
  <2>1. IsReached(r, start, failing, 0)
    BY DEF IsReached
  <2> HIDE DEF r
  <2> QED
    BY <2>1
<1>2. ASSUME NEW k \in Nat, k \in N PROVE k + 1 \in N
  <2>1. PICK old : IsReached(old, start, failing, k)
    BY <1>2
  <2> DEFINE new == [n \in 0 .. k + 1 |-> IF n <= k THEN old[n] ELSE Further(old[k], failing)]
  <2>2. ASSUME NEW n \in 0 .. k + 1
        PROVE  new[n] = IF n = 0 THEN start ELSE Further(new[n - 1], failing)
    <3>1. CASE n = k + 1
      <4>1. new[n] = Further(old[k], failing) /\ n # 0 /\ n - 1 = k
        BY <3>1
      <4>2. k \in 0 .. k + 1 /\ new[k] = old[k]
        OBVIOUS
      <4> QED
        BY <4>1, <4>2
    <3>2. CASE n # k + 1 /\ n # 0
      <4>1. n \in 0 .. k /\ n - 1 \in 0 .. k
        BY <3>2
      <4>2. new[n] = old[n] /\ new[n - 1] = old[n - 1]
        BY <4>1
      <4>3. old[n] = Further(old[n - 1], failing)
        BY <2>1, <4>1, <3>2 DEF IsReached
      <4> QED
        BY <4>2, <4>3, <3>2
    <3>3. CASE n = 0
      BY <2>1, <3>3 DEF IsReached
    <3> QED
      BY <3>1, <3>2, <3>3
  <2>3. new = [n \in 0 .. k + 1 |-> new[n]]
    OBVIOUS
  <2> HIDE DEF new
  <2>4. IsReached(new, start, failing, k + 1)
    BY <2>2, <2>3 DEF IsReached
  <2> QED
    BY <2>4
<1> HIDE DEF N
<1>3. m \in N
  BY <1>1, <1>2, Induction
<1> QED
  BY <1>3 DEF N

LEMMA StartIsReached ==
  ASSUME NEW start, NEW failing
  PROVE  start \subseteq Reached(start, failing)
<1>1. PICK m \in Nat : m = Len(Declared)
  BY FieldsAssumption
<1>2. PICK r : r = ReachedBy(start, failing, m) /\ IsReached(r, start, failing, m)
  BY ReachedStarts DEF ReachedBy
<1> DEFINE N == {k \in Nat : k <= m => start \subseteq r[k]}
<1>3. 0 \in N
  BY <1>2 DEF IsReached
<1>4. ASSUME NEW k \in Nat, k \in N PROVE k + 1 \in N
  <2> SUFFICES ASSUME k + 1 <= m PROVE start \subseteq r[k + 1]
    OBVIOUS
  <2>1. PICK i \in 0 .. m : i = k + 1 /\ i # 0 /\ i - 1 = k
    OBVIOUS
  <2>2. r[i] = Further(r[i - 1], failing)
    BY <1>2, <2>1 DEF IsReached
  <2>3. r[k] \subseteq r[k + 1]
    BY <2>1, <2>2 DEF Further
  <2>4. start \subseteq r[k]
    BY <1>4
  <2> QED
    BY <2>3, <2>4
<1> HIDE DEF N
<1>5. m \in N
  BY <1>3, <1>4, Induction
<1>6. Reached(start, failing) = r[m]
  BY <1>1, <1>2, ReachedIsLoop
<1> QED
  BY <1>5, <1>6 DEF N

-----------------------------------------------------------------------------
(* CbiForm: what is drawn of a value reads as the value (widget,           *)
(* formvalue), and what is written of a widget is a value again.           *)
Kinds == {"Checkbox", "Input", "List", "Combo", "Button", "Dynamic"}

Holds(f, w) ==
  /\ Kind(f) = "Checkbox" => w \in BOOLEAN
  /\ Kind(f) = "List"     => w \in Offered(f)
  /\ Kind(f) = "Dynamic"  => w \in Seq(ToSet(w))

LEMMA Values ==
  /\ \A b \in BOOLEAN : Type(Bool(b)) = "boolean" /\ Of(Bool(b)) = b
  /\ \A t : Type(Str(t)) = "string" /\ Of(Str(t)) = t
  /\ \A s : Type(List(s)) = "list" /\ Of(List(s)) = s
  /\ Type(Undefined) = "undefined" /\ Of(Undefined) = ""
<1>1. ASSUME NEW b \in BOOLEAN PROVE Type(Bool(b)) = "boolean" /\ Of(Bool(b)) = b
  <2>1. Type(Bool(b)) = "boolean"
    BY DEF Type, Bool
  <2>2. Of(Bool(b)) = b
    BY DEF Of, Bool
  <2> QED
    BY <2>1, <2>2
<1>2. \A t : Type(Str(t)) = "string" /\ Of(Str(t)) = t
  BY DEF Type, Of, Str
<1>3. \A s : Type(List(s)) = "list" /\ Of(List(s)) = s
  BY DEF Type, Of, List
<1>4. Type(Undefined) = "undefined" /\ Of(Undefined) = ""
  BY DEF Type, Of, Undefined
<1> QED
  BY <1>1, <1>2, <1>3, <1>4

LEMMA OwnMembers ==
  ASSUME NEW X, NEW q, q \in Seq(X)
  PROVE  q \in Seq(ToSet(q)) /\ ToSet(q) \subseteq X
<1>1. q = [i \in 1 .. Len(q) |-> q[i]] /\ Len(q) \in Nat
  OBVIOUS
<1>2. \A i \in 1 .. Len(q) : q[i] \in ToSet(q)
  BY DEF ToSet
<1>3. [i \in 1 .. Len(q) |-> q[i]] \in Seq(ToSet(q))
  BY <1>1, <1>2
<1>4. ToSet(q) \subseteq X
  BY DEF ToSet
<1> QED
  BY <1>1, <1>3, <1>4

LEMMA OneBlank == <<"">> \in Seq({""}) /\ ToSet(<<"">>) = {""}
<1>1. <<"">> \in Seq({""}) /\ DOMAIN <<"">> = 1 .. 1 /\ <<"">>[1] = ""
  OBVIOUS
<1>2. ToSet(<<"">>) = {<<"">>[i] : i \in 1 .. 1}
  BY <1>1 DEF ToSet
<1>4. \A n \in Nat : n = 1 => \A i \in 1 .. n : i = 1
  OBVIOUS
<1>3. ASSUME NEW x PROVE x \in ToSet(<<"">>) <=> x = ""
  <2>1. ASSUME x = "" PROVE x \in ToSet(<<"">>)
    <3>1. 1 \in 1 .. 1
      OBVIOUS
    <3>2. <<"">>[1] = x
      BY <1>1, <2>1
    <3> QED
      BY <1>2, <3>1, <3>2
  <2>2. ASSUME x \in ToSet(<<"">>) PROVE x = ""
    <3>1. PICK i \in 1 .. 1 : x = <<"">>[i]
      BY <1>2, <2>2
    <3>2. i = 1
      BY <1>4
    <3> QED
      BY <1>1, <3>1, <3>2
  <2> QED
    BY <2>1, <2>2
<1> QED
  BY <1>1, <1>3

LEMMA FilledIsKept ==
  ASSUME NEW s, Filled(s)
  PROVE  /\ s \in Seq(ToSet(s)) /\ "" \notin ToSet(s)
         /\ Within(s, ToSet(s) \ {""}) = s
<1>1. s \in Seq(ToSet(s) \ {""})
  BY DEF Filled
<1>2. s \in Seq(ToSet(s)) /\ "" \notin ToSet(s)
  <2>1. PICK X : X = ToSet(s) \ {""}
    OBVIOUS
  <2>2. s \in Seq(X)
    BY <1>1, <2>1
  <2>3. s \in Seq(ToSet(s)) /\ ToSet(s) \subseteq X
    BY <2>2, OwnMembers
  <2> QED
    BY <2>1, <2>3
<1>3. ToSet(s) \subseteq ToSet(s) \ {""}
  BY <1>2
<1> QED
  BY <1>2, <1>3, WithinKeepsAll

LEMMA KeptIsFilled ==
  ASSUME NEW s, s \in Seq(ToSet(s))
  PROVE  Filled(Within(s, ToSet(s) \ {""}))
<1> DEFINE q == Within(s, ToSet(s) \ {""})
<1>1. q \in Seq(ToSet(s) \cap (ToSet(s) \ {""}))
  BY WithinKeeps
<1> HIDE DEF q
<1>2. q \in Seq(ToSet(q) \ {""})
  <2>1. q \in Seq(ToSet(q)) /\ ToSet(q) \subseteq ToSet(s) \cap (ToSet(s) \ {""})
    BY <1>1, OwnMembers
  <2>2. ToSet(q) \ {""} = ToSet(q)
    BY <2>1
  <2> QED
    BY <2>1, <2>2
<1> QED
  BY <1>2 DEF Filled, q

LEMMA RowsRead ==
  ASSUME NEW s, Filled(s)
  PROVE  /\ Rows(s) \in Seq(ToSet(Rows(s)))
         /\ Within(Rows(s), ToSet(Rows(s)) \ {""}) = s
<1>1. CASE s = <<>>
  <2>1. Rows(s) = <<"">>
    BY <1>1 DEF Rows
  <2>2. Rows(s) \in Seq(ToSet(Rows(s))) /\ ToSet(Rows(s)) = {""}
    BY <2>1, OneBlank
  <2>3. Within(Rows(s), ToSet(Rows(s)) \ {""}) \in Seq({""} \cap (ToSet(Rows(s)) \ {""}))
    BY <2>2, WithinKeeps
  <2>4. {""} \cap (ToSet(Rows(s)) \ {""}) = {}
    OBVIOUS
  <2>5. ASSUME NEW q \in Seq({}) PROVE q = <<>>
    OBVIOUS
  <2> QED
    BY <1>1, <2>2, <2>3, <2>4, <2>5
<1>2. CASE s # <<>>
  <2>1. Rows(s) = s
    BY <1>2 DEF Rows
  <2> QED
    BY <2>1, FilledIsKept
<1> QED
  BY <1>1, <1>2

(* What the cache can hold beside what the server holds: a list that was   *)
(* emptied, before and after it is drawn.                                  *)
Cached(f, v) == Proper(f, v) \/ (Kind(f) = "Dynamic" /\ v \in {List(<<>>), Emptied})

LEMMA BlankIsNotFilled == ~Filled(<<"">>)
<1>1. SUFFICES ASSUME Filled(<<"">>) PROVE FALSE
  OBVIOUS
<1>2. "" \notin ToSet(<<"">>)
  BY <1>1, FilledIsKept
<1> QED
  BY <1>2, OneBlank

LEMMA EmptiedIs ==
  /\ Type(Emptied) = "list" /\ Of(Emptied) = <<"">> /\ Emptied = List(<<"">>)
  /\ Entries(Emptied) = <<"">> /\ Emptied # Undefined
  /\ Type(List(<<>>)) = "list" /\ Of(List(<<>>)) = <<>> /\ List(<<>>) # Undefined
  /\ Entries(List(<<>>)) = <<>> /\ List(<<>>) # Emptied /\ Entries(Undefined) = <<>>
<1>1. Type(Emptied) = "list" /\ Of(Emptied) = <<"">> /\ Emptied = List(<<"">>)
  BY Values DEF Emptied
<1>2. Type(List(<<>>)) = "list" /\ Of(List(<<>>)) = <<>>
  BY Values
<1>3. Entries(Emptied) = <<"">> /\ Entries(List(<<>>)) = <<>> /\ Entries(Undefined) = <<>>
  BY <1>1, <1>2, Values DEF Entries
<1>4. Emptied # Undefined /\ List(<<>>) # Undefined
  BY <1>1, <1>2, Values
<1>5. <<>> # <<"">>
  OBVIOUS
<1> QED
  BY <1>1, <1>2, <1>3, <1>4, <1>5

LEMMA EmptiedIsStaged ==
  ASSUME NEW f \in Fields
  PROVE  /\ ~Proper(f, Emptied)
         /\ Cached(f, Emptied) => Kind(f) = "Dynamic"
<1>1. \A t : Emptied # Str(t)
  BY EmptiedIs, Values
<1>2. Emptied \notin {Bool(TRUE), Bool(FALSE)}
  BY EmptiedIs, Values
<1>3. ~Proper(f, Emptied)
  BY <1>1, <1>2, EmptiedIs, BlankIsNotFilled DEF Proper
<1> QED
  BY <1>3 DEF Cached

(* The kind of value a field reads, whatever the option is.                *)
LEMMA UciValueProper ==
  ASSUME NEW f \in Fields, NEW u, Cached(f, u)
  PROVE  /\ Kind(f) = "Checkbox" => UciValue(f, u) \in {Bool(TRUE), Bool(FALSE)}
         /\ Kind(f) = "Dynamic"  => /\ UciValue(f, u) = List(Of(UciValue(f, u)))
                                    /\ IF u = Emptied THEN Of(UciValue(f, u)) = <<"">>
                                                      ELSE Filled(Of(UciValue(f, u)))
         /\ Kind(f) \notin {"Checkbox", "Dynamic"} =>
              \/ UciValue(f, u) = Undefined
              \/ UciValue(f, u) = Str(Of(UciValue(f, u))) /\ Of(UciValue(f, u)) # ""
<1> DEFINE v == IF u = Undefined THEN Option(f).initial ELSE u
<1>1. Proper(f, v) \/ (Kind(f) = "Dynamic" /\ v \in {List(<<>>), Emptied})
  BY ValuesAssumption DEF Cached
<1>0. v = Emptied <=> u = Emptied
  <2>1. Option(f).initial # Emptied
    BY ValuesAssumption, EmptiedIsStaged
  <2> QED
    BY <2>1, EmptiedIs
<1>2. Kind(f) \in Kinds
  BY FieldsAssumption DEF Kinds
<1>3. UciValue(f, u) =
        CASE Kind(f) = "Checkbox" ->
               IF Type(v) = "boolean" THEN v ELSE Bool(v = Str(Option(f).enabled))
          [] Kind(f) = "Dynamic"  -> List(Entries(v))
          [] OTHER                -> v
  BY DEF UciValue
<1> HIDE DEF v
<1>4. CASE Kind(f) = "Checkbox"
  <2>1. CASE v \in {Bool(TRUE), Bool(FALSE)}
    <3>1. Type(v) = "boolean"
      BY <2>1, Values
    <3> QED
      BY <1>3, <1>4, <2>1, <3>1
  <2>2. CASE v \notin {Bool(TRUE), Bool(FALSE)}
    <3>1. Type(v) # "boolean"
      <4>1. v = Undefined \/ v = Str(Of(v))
        BY <1>1, <1>4, <2>2 DEF Proper
      <4>2. Type(v) = "undefined" \/ Type(v) = "string"
        BY <4>1, Values
      <4> QED
        BY <4>2
    <3>2. UciValue(f, u) = Bool(v = Str(Option(f).enabled))
      BY <1>3, <1>4, <3>1
    <3>3. CASE v = Str(Option(f).enabled)
      <4>1. UciValue(f, u) = Bool(TRUE)
        BY <3>2, <3>3
      <4> QED
        BY <4>1, <1>4
    <3>4. CASE v # Str(Option(f).enabled)
      <4>1. (v = Str(Option(f).enabled)) = FALSE
        BY <3>4
      <4>2. UciValue(f, u) = Bool(FALSE)
        BY <3>2, <4>1
      <4> QED
        BY <4>2, <1>4
    <3> QED
      BY <3>3, <3>4
  <2> QED
    BY <2>1, <2>2
<1>5. CASE Kind(f) = "Dynamic"
  <2>1. UciValue(f, u) = List(Entries(v))
    BY <1>3, <1>5
  <2>2. IF u = Emptied THEN Entries(v) = <<"">> ELSE Filled(Entries(v))
    <3>1. CASE v = Undefined \/ v = List(<<>>)
      <4>1. Entries(v) = <<>>
        BY <3>1, EmptiedIs
      <4>2. Filled(<<>>)
        BY DEF Filled, ToSet
      <4> QED
        BY <1>0, <3>1, <4>1, <4>2, EmptiedIs
    <3>2. CASE v = List(Of(v)) /\ Filled(Of(v))
      <4>1. Entries(v) = Of(v)
        BY <3>2 DEF Entries, Type, List
      <4>2. v # Emptied
        BY <3>2, EmptiedIs, BlankIsNotFilled
      <4> QED
        BY <1>0, <3>2, <4>1, <4>2
    <3>3. CASE v = Str(Of(v)) /\ Filled(SplitWords[Of(v)])
      <4>1. v # Emptied
        BY <3>3, EmptiedIs, Values
      <4>2. Filled(Entries(v))
        BY <3>3 DEF Entries, Type, Str
      <4> QED
        BY <1>0, <4>1, <4>2
    <3>4. CASE v = Emptied
      BY <1>0, <3>4, EmptiedIs
    <3> QED
      BY <1>1, <1>5, <3>1, <3>2, <3>3, <3>4 DEF Proper
  <2>3. Of(UciValue(f, u)) = Entries(v)
    BY <2>1 DEF Of, List
  <2> QED
    BY <1>5, <2>1, <2>2, <2>3
<1>6. CASE Kind(f) \notin {"Checkbox", "Dynamic"}
  <2>1. UciValue(f, u) = v
    BY <1>3, <1>6
  <2> QED
    BY <1>1, <1>6, <2>1 DEF Proper
<1> QED
  BY <1>4, <1>5, <1>6

LEMMA DrawnReads ==
  ASSUME NEW f \in Fields, NEW u, Cached(f, u), CanShow(f, u), u # Emptied
  PROVE  FormValue(f, Drawn(f, u)) = UciValue(f, u)
<1> DEFINE v == UciValue(f, u)
           t == IF v = Undefined THEN "" ELSE Of(v)
<1>1. Kind(f) \in Kinds
  BY FieldsAssumption DEF Kinds
<1>2. /\ Kind(f) = "Checkbox" => Drawn(f, u) = Of(v)
      /\ Kind(f) \in {"Input", "Combo", "Button"} => Drawn(f, u) = t
      /\ Kind(f) = "List" => Drawn(f, u) = IF t \in Offered(f) THEN t ELSE FirstOf(f)
      /\ Kind(f) = "Dynamic" => Drawn(f, u) = Rows(Of(v))
  BY DEF Drawn
<1>3. ASSUME NEW w
      PROVE  /\ Kind(f) = "Checkbox" => FormValue(f, w) = Bool(w)
             /\ Kind(f) = "Dynamic"  => FormValue(f, w) = List(Within(w, ToSet(w) \ {""}))
             /\ Kind(f) \notin {"Checkbox", "Dynamic"} => FormValue(f, w) = Defined(w)
  BY DEF FormValue
<1>4. PICK x : x = v
  OBVIOUS
<1>5. CASE Kind(f) = "Checkbox"
  <2>1. v = Bool(TRUE) \/ v = Bool(FALSE)
    BY <1>5, UciValueProper
  <2>2. Of(v) \in BOOLEAN /\ Bool(Of(v)) = v
    BY <2>1, Values
  <2> QED
    BY <1>2, <1>3, <1>5, <2>2
<1>6. CASE Kind(f) = "Dynamic"
  <2>1. v = List(Of(v)) /\ Filled(Of(v))
    BY <1>6, UciValueProper
  <2>2. FormValue(f, Drawn(f, u)) = List(Within(Rows(Of(v)), ToSet(Rows(Of(v))) \ {""}))
    BY <1>2, <1>3, <1>6
  <2> QED
    BY <2>1, <2>2, RowsRead
<1>7. CASE Kind(f) \in {"Input", "Combo", "Button", "List"}
  <2>1. v = Undefined \/ (v = Str(Of(v)) /\ Of(v) # "")
    BY <1>7, UciValueProper
  <2>2. Drawn(f, u) = t
    <3>1. CASE Kind(f) # "List"
      BY <1>2, <1>7, <3>1
    <3>2. CASE Kind(f) = "List"
      <4>1. Drawn(f, u) = Of(v)
        BY <3>2 DEF CanShow
      <4> QED
        BY <4>1, Values
    <3> QED
      BY <3>1, <3>2
  <2>3. FormValue(f, Drawn(f, u)) = Defined(t)
    BY <1>3, <1>7, <2>2
  <2>4. PICK q : q = t
    OBVIOUS
  <2>5. FormValue(f, Drawn(f, u)) = Defined(q)
    BY <2>3, <2>4
  <2>6. Defined(q) = v
    BY <2>1, <2>4, Values DEF Defined
  <2> QED
    BY <2>5, <2>6
<1> QED
  BY <1>1, <1>5, <1>6, <1>7 DEF Kinds

(* The blank row reads as nothing.                                         *)
LEMMA EmptiedReads ==
  ASSUME NEW f \in Fields, Kind(f) = "Dynamic"
  PROVE  FormValue(f, Drawn(f, Emptied)) = List(<<>>) /\ UciValue(f, Emptied) = Emptied
<1>1. Cached(f, Emptied)
  BY DEF Cached
<1>2. UciValue(f, Emptied) = List(Of(UciValue(f, Emptied))) /\ Of(UciValue(f, Emptied)) = <<"">>
  BY <1>1, UciValueProper
<1>3. UciValue(f, Emptied) = Emptied
  BY <1>2, EmptiedIs
<1>4. Drawn(f, Emptied) = Rows(<<"">>)
  BY <1>2 DEF Drawn
<1>5. Rows(<<"">>) = <<"">> /\ Rows(<<>>) = <<"">>
  BY DEF Rows
<1>6. Filled(<<>>)
  BY DEF Filled, ToSet
<1>7. Within(<<"">>, ToSet(<<"">>) \ {""}) = <<>>
  BY <1>5, <1>6, RowsRead
<1>8. FormValue(f, <<"">>) = List(Within(<<"">>, ToSet(<<"">>) \ {""}))
  BY DEF FormValue
<1> QED
  BY <1>3, <1>4, <1>5, <1>7, <1>8

LEMMA DrawnHolds ==
  ASSUME NEW f \in Fields, NEW u, Cached(f, u)
  PROVE  Holds(f, Drawn(f, u))
<1>1. CASE Kind(f) = "Checkbox"
  <2>1. Drawn(f, u) = Of(UciValue(f, u))
    BY <1>1 DEF Drawn
  <2>2. UciValue(f, u) = Bool(TRUE) \/ UciValue(f, u) = Bool(FALSE)
    BY <1>1, UciValueProper
  <2>3. Of(UciValue(f, u)) \in BOOLEAN
    BY <2>2, Values
  <2> QED
    BY <1>1, <2>1, <2>3 DEF Holds
<1>2. CASE Kind(f) = "List"
  <2>1. FirstOf(f) \in Offered(f)
    BY <1>2, FieldsAssumption DEF FirstOf, Offered
  <2>2. Drawn(f, u) \in Offered(f)
    BY <1>2, <2>1 DEF Drawn
  <2> QED
    BY <1>2, <2>2 DEF Holds
<1>3. CASE Kind(f) = "Dynamic"
  <2>1. Drawn(f, u) = Rows(Of(UciValue(f, u)))
    BY <1>3 DEF Drawn
  <2>2. CASE Filled(Of(UciValue(f, u)))
    BY <1>3, <2>1, <2>2, RowsRead DEF Holds
  <2>3. CASE Of(UciValue(f, u)) = <<"">>
    <3>1. Drawn(f, u) = <<"">>
      BY <2>1, <2>3 DEF Rows
    <3> QED
      BY <1>3, <3>1, OneBlank DEF Holds
  <2> QED
    BY <1>3, <2>2, <2>3, UciValueProper
<1> QED
  BY <1>1, <1>2, <1>3 DEF Holds

LEMMA FormValueOf ==
  ASSUME NEW f \in Fields, NEW w
  PROVE  /\ Kind(f) = "Checkbox" => FormValue(f, w) = Bool(w)
         /\ Kind(f) = "Dynamic"  => FormValue(f, w) = List(Within(w, ToSet(w) \ {""}))
         /\ Kind(f) \notin {"Checkbox", "Dynamic"} => FormValue(f, w) = Defined(w)
BY DEF FormValue

LEMMA WrittenIsForm ==
  ASSUME NEW f \in Fields, NEW w, Kind(f) # "Checkbox"
  PROVE  Written(f, w) = FormValue(f, w)
BY DEF Written

LEMMA SavedProper ==
  ASSUME NEW f \in Fields, NEW u, Cached(f, u), NEW w, Holds(f, w), NEW hidden \in BOOLEAN
  PROVE  Cached(f, Saved(f, u, w, hidden))
<1>1. Saved(f, u, w, hidden) \in {Undefined, u, Written(f, w)}
  BY DEF Saved
<1>2. Cached(f, Undefined)
  BY DEF Cached, Proper
<1>3. Cached(f, Written(f, w))
  <2>1. CASE Kind(f) = "Checkbox"
    <3>1. PICK a : a = Str(Option(f).enabled)
      OBVIOUS
    <3>2. PICK b : b = Str(Option(f).disabled)
      OBVIOUS
    <3>3. a = Str(Of(a)) /\ b = Str(Of(b))
      BY <3>1, <3>2, Values
    <3>6. w = TRUE \/ w = FALSE
      BY <2>1 DEF Holds
    <3>7. Written(f, w) \in {Undefined, a, b}
      BY <2>1, <3>1, <3>2, <3>6 DEF Written
    <3>8. \A x \in {Undefined, a, b} : Cached(f, x)
      BY <2>1, <3>3 DEF Cached, Proper
    <3> QED
      BY <3>7, <3>8
  <2>2. CASE Kind(f) = "Dynamic"
    <3>1. Written(f, w) = List(Within(w, ToSet(w) \ {""}))
      BY <2>2, WrittenIsForm, FormValueOf
    <3>2. PICK q : q = Within(w, ToSet(w) \ {""})
      OBVIOUS
    <3>3. Filled(q)
      BY <2>2, <3>2, KeptIsFilled DEF Holds
    <3>4. PICK x : x = List(q)
      OBVIOUS
    <3>5. x = List(Of(x)) /\ Of(x) = q
      BY <3>4, Values
    <3>6. CASE q = <<>>
      BY <2>2, <3>1, <3>2, <3>6 DEF Cached
    <3>7. CASE q # <<>>
      <4>1. Proper(f, x)
        BY <2>2, <3>3, <3>5, <3>7 DEF Proper
      <4> QED
        BY <3>1, <3>2, <3>4, <4>1 DEF Cached
    <3> QED
      BY <3>6, <3>7
  <2>3. CASE Kind(f) \notin {"Checkbox", "Dynamic"}
    <3>1. Written(f, w) = Defined(w)
      BY <2>3, WrittenIsForm, FormValueOf
    <3>2. Defined(w) = Undefined \/ (Defined(w) = Str(w) /\ w # "")
      BY DEF Defined
    <3>3. PICK v : v = Defined(w)
      OBVIOUS
    <3>4. v = Undefined \/ (v = Str(Of(v)) /\ Of(v) # "")
      BY <3>2, <3>3, Values
    <3>5. Cached(f, v)
      BY <2>3, <3>4 DEF Cached, Proper
    <3> QED
      BY <3>1, <3>3, <3>5
  <2> QED
    BY <2>1, <2>2, <2>3
<1> QED
  BY <1>1, <1>2, <1>3

(* A field is shown by what its parents hold, and by nothing else.         *)
ParentsRight(f, w) ==
  \A g \in Fields : f \in Dependents[g] => Failing(g, w[g]) = {}

Shows(f, w, hidden) ==
  ParentsRight(f, w) => (f \notin hidden <=> Satisfied(f, w))

LEMMA ParentsAreDeclared ==
  ASSUME NEW f \in Fields, NEW d \in Dependencies[f], NEW g \in DOMAIN d
  PROVE  g \in Fields /\ f \in Dependents[g]
<1>1. g \in Fields
  BY DependenciesDeclared
<1> QED
  BY <1>1 DEF Dependents

LEMMA ShowsReadsParents ==
  ASSUME NEW f \in Fields, NEW w, NEW x, NEW hidden,
         \A g \in Fields : f \in Dependents[g] => w[g] = x[g],
         Shows(f, w, hidden)
  PROVE  Shows(f, x, hidden)
<1>1. ParentsRight(f, x) => ParentsRight(f, w)
  BY DEF ParentsRight
<1>2. ASSUME NEW d \in Dependencies[f], NEW g \in DOMAIN d
      PROVE  w[g] = x[g]
  BY ParentsAreDeclared
<1>3. Satisfied(f, w) <=> Satisfied(f, x)
  BY <1>2 DEF Satisfied
<1> QED
  BY <1>1, <1>3 DEF Shows

(* Without a parent a field is shown whatever the form holds.              *)
LEMMA RootsAreShown ==
  ASSUME NEW f \in Fields, NEW w, \A g \in Fields : f \notin Dependents[g]
  PROVE  Satisfied(f, w)
<1>1. ASSUME NEW d \in Dependencies[f] PROVE DOMAIN d = {}
  BY ParentsAreDeclared
<1> QED
  BY <1>1 DEF Satisfied

(* After a validation a field is shown as its parents say if it was before *)
(* or if one of them was among those validated.                            *)
LEMMA ValidatedShows ==
  ASSUME NEW start \in SUBSET Fields, NEW w, NEW hidden, NEW mark, NEW err,
         \A f \in Fields : (\A g \in start : f \notin Dependents[g]) => Shows(f, w, hidden)
  PROVE  \A f \in Fields : Shows(f, w, Validated(start, w, hidden, mark, err).disabled)
<1> DEFINE failing == {f \in Fields : Failing(f, w[f]) # {}}
           T == Toggled(Reached(start, failing), failing)
<1>1. Validated(start, w, hidden, mark, err).disabled
        = (hidden \ T) \cup {f \in T : ~Satisfied(f, w)}
  BY DEF Validated
<1>2. \A g \in start \ failing : Dependents[g] \subseteq T
  BY StartIsReached DEF Toggled
<1>3. \A g \in start : g \in Fields /\ (g \notin failing <=> Failing(g, w[g]) = {})
  OBVIOUS
<1> SUFFICES ASSUME NEW f \in Fields, ParentsRight(f, w)
             PROVE  f \notin Validated(start, w, hidden, mark, err).disabled <=> Satisfied(f, w)
  BY DEF Shows
<1> HIDE DEF T, failing
<1>4. CASE f \in T
  BY <1>1, <1>4
<1>5. CASE f \notin T
  <2>1. \A g \in start : f \notin Dependents[g]
    BY <1>2, <1>3, <1>5 DEF ParentsRight
  <2>2. f \notin hidden <=> Satisfied(f, w)
    BY <2>1 DEF Shows
  <2> QED
    BY <1>1, <1>5, <2>2
<1> QED
  BY <1>4, <1>5

LEMMA AllValidatedShow ==
  ASSUME NEW w, NEW hidden, NEW mark, NEW err,
         \A f \in Fields : hidden = {} \/ Shows(f, w, hidden)
  PROVE  \A f \in Fields : Shows(f, w, Validated(Fields, w, hidden, mark, err).disabled)
<1>1. ASSUME NEW f \in Fields, \A g \in Fields : f \notin Dependents[g]
      PROVE  Shows(f, w, hidden)
  BY <1>1, RootsAreShown DEF Shows
<1> QED
  BY <1>1, ValidatedShows

-----------------------------------------------------------------------------
(* CbiForm: the invariant.  The cache holds values, the widgets hold what  *)
(* their kind can, and every field is shown as its parents say.            *)
FormInv ==
  /\ \A f \in Fields : Cached(f, uci[f])
  /\ widget = [f \in Fields |-> widget[f]]
  /\ \A f \in Fields : Holds(f, widget[f])
  /\ \A f \in Fields : Shows(f, widget, disabled)

(* Drawing a form puts the blank row of an emptied list into the cache and *)
(* leaves everything else there as it is.                                  *)
LEMMA AfterDrawIs ==
  ASSUME NEW f \in Fields, NEW u, Cached(f, u)
  PROVE  /\ AfterDraw(u) = IF u = List(<<>>) THEN Emptied ELSE u
         /\ u = List(<<>>) => Kind(f) = "Dynamic"
         /\ Cached(f, AfterDraw(u))
<1>0. Kind(f) \in Kinds
  BY FieldsAssumption DEF Kinds
<1>1. Type(u) = "list" => Kind(f) = "Dynamic" /\ u = List(Of(u))
  <2>1. CASE Proper(f, u)
    <3>1. u \in {Undefined, Bool(TRUE), Bool(FALSE)} \/ u = Str(Of(u)) => Type(u) # "list"
      BY Values
    <3> QED
      BY <1>0, <2>1, <3>1 DEF Proper, Kinds
  <2>2. CASE Kind(f) = "Dynamic" /\ u \in {List(<<>>), Emptied}
    BY <2>2, EmptiedIs
  <2> QED
    BY <2>1, <2>2 DEF Cached
<1>2. CASE u = List(<<>>)
  <2>1. Rows(<<>>) = <<"">>
    BY DEF Rows
  <2>2. AfterDraw(u) = Emptied
    BY <1>2, <2>1, EmptiedIs DEF AfterDraw
  <2> QED
    BY <1>1, <1>2, <2>2, EmptiedIs DEF Cached
<1>3. CASE u # List(<<>>)
  <2>1. AfterDraw(u) = u
    <3>1. CASE Type(u) = "list"
      <4>1. Of(u) # <<>> /\ u = List(Of(u))
        BY <1>1, <1>3, <3>1
      <4>2. Rows(Of(u)) = Of(u)
        BY <4>1 DEF Rows
      <4> QED
        BY <3>1, <4>1, <4>2 DEF AfterDraw
    <3>2. CASE Type(u) # "list"
      BY <3>2 DEF AfterDraw
    <3> QED
      BY <3>1, <3>2
  <2> QED
    BY <1>3, <2>1
<1> QED
  BY <1>2, <1>3

LEMMA DrawnInv ==
  ASSUME NEW shown, \A f \in Fields : Cached(f, shown[f]), Render(shown)
  PROVE  FormInv'
<1>0. \A f \in Fields : Cached(f, uci'[f])
  BY AfterDrawIs DEF Render
<1>1. widget' = [f \in Fields |-> Drawn(f, shown[f])]
  BY DEF Render
<1>2. disabled' = Validated(Fields, widget', {}, Unmarked, {}).disabled
  BY DEF Render, Marks
<1>3. \A f \in Fields : Holds(f, widget'[f])
  BY <1>1, DrawnHolds
<1>4. \A f \in Fields : Shows(f, widget', disabled')
  BY <1>2, AllValidatedShow
<1>5. widget' = [f \in Fields |-> widget'[f]]
  BY <1>1
<1> QED
  BY <1>0, <1>3, <1>4, <1>5 DEF FormInv

LEMMA AfterSaveProper ==
  ASSUME FormInv, NEW hidden
  PROVE  \A f \in Fields : Cached(f, AfterSave(hidden)[f])
<1> SUFFICES ASSUME NEW f \in Fields PROVE Cached(f, AfterSave(hidden)[f])
  OBVIOUS
<1>1. PICK h \in BOOLEAN : h = (f \in hidden)
  <2>1. CASE f \in hidden
    <3>1. TRUE = (f \in hidden)
      BY <2>1
    <3> QED
      BY <3>1
  <2>2. CASE f \notin hidden
    <3>1. FALSE = (f \in hidden)
      BY <2>2
    <3> QED
      BY <3>1
  <2> QED
    BY <2>1, <2>2
<1>2. AfterSave(hidden)[f] = Saved(f, uci[f], widget[f], h)
  BY <1>1 DEF AfterSave
<1>3. Cached(f, uci[f]) /\ Holds(f, widget[f])
  BY DEF FormInv
<1> QED
  BY <1>2, <1>3, SavedProper

(* What is loaded again after a save is what was saved, but for the lists  *)
(* that were emptied.                                                      *)
LEMMA ReloadedProper ==
  ASSUME FormInv, NEW hidden
  PROVE  \A f \in Fields : Cached(f, Reloaded(AfterSave(hidden)[f]))
<1>1. \A f \in Fields : Cached(f, Undefined)
  BY DEF Cached, Proper
<1> QED
  BY <1>1, AfterSaveProper DEF Reloaded

LEMMA EditInv ==
  ASSUME FormInv, NEW f \in Fields, NEW w, Holds(f, w), Edit(f, w)
  PROVE  FormInv'
<1>1. /\ uci' = uci
      /\ widget' = [widget EXCEPT ![f] = w]
      /\ disabled' = Validated({f}, widget', disabled, marked, error).disabled
  BY DEF Edit, Marks
<1>2. widget' = [g \in Fields |-> IF g = f THEN w ELSE widget[g]]
  BY <1>1 DEF FormInv
<1>3. \A g \in Fields : Holds(g, widget'[g])
  BY <1>2 DEF FormInv
<1>4. ASSUME NEW h \in Fields, h \notin Dependents[f]
      PROVE  Shows(h, widget', disabled)
  <2>1. \A g \in Fields : h \in Dependents[g] => widget[g] = widget'[g]
    BY <1>2, <1>4
  <2>2. Shows(h, widget, disabled)
    BY DEF FormInv
  <2> QED
    BY <2>1, <2>2, ShowsReadsParents
<1>5. \A h \in Fields : Shows(h, widget', disabled')
  BY <1>1, <1>4, ValidatedShows
<1>6. widget' = [g \in Fields |-> widget'[g]]
  BY <1>2
<1>7. \A g \in Fields : Cached(g, uci'[g])
  BY <1>1 DEF FormInv
<1> QED
  BY <1>3, <1>5, <1>6, <1>7 DEF FormInv

(* No field hangs on the rows of a list.                                   *)
LEMMA RowsInv ==
  ASSUME FormInv, NEW f \in Fields, Kind(f) = "Dynamic", NEW rows, rows \in Seq(ToSet(rows)),
         widget' = [widget EXCEPT ![f] = rows], uci' = uci, disabled' = disabled
  PROVE  FormInv'
<1>1. widget' = [g \in Fields |-> IF g = f THEN rows ELSE widget[g]]
  BY DEF FormInv
<1>2. Holds(f, rows)
  BY DEF Holds
<1>3. \A g \in Fields : Holds(g, widget'[g])
  BY <1>1, <1>2 DEF FormInv
<1>4. Dependents[f] = {}
  BY FieldsAssumption
<1>5. ASSUME NEW h \in Fields PROVE Shows(h, widget', disabled')
  <2>1. \A g \in Fields : h \in Dependents[g] => widget[g] = widget'[g]
    BY <1>1, <1>4
  <2>2. Shows(h, widget, disabled)
    BY DEF FormInv
  <2> QED
    BY <2>1, <2>2, ShowsReadsParents
<1>6. widget' = [g \in Fields |-> widget'[g]]
  BY <1>1
<1>7. \A g \in Fields : Cached(g, uci'[g])
  BY DEF FormInv
<1> QED
  BY <1>3, <1>5, <1>6, <1>7 DEF FormInv

(* The rows of a list stay a list when one is typed into, added or taken.  *)
LEMMA RowTyped ==
  ASSUME NEW s, s \in Seq(ToSet(s)), NEW i \in DOMAIN s, NEW t
  PROVE  [s EXCEPT ![i] = t] \in Seq(ToSet([s EXCEPT ![i] = t]))
<1>1. PICK X : X = ToSet(s) \cup {t}
  OBVIOUS
<1>2. s \in Seq(X) /\ t \in X
  BY <1>1, OwnMembers
<1>3. [s EXCEPT ![i] = t] \in Seq(X)
  BY <1>2
<1> QED
  BY <1>3, OwnMembers

LEMMA MoreMembers ==
  ASSUME NEW s, s \in Seq(ToSet(s)), NEW X, ToSet(s) \subseteq X
  PROVE  s \in Seq(X)
<1>1. s = [k \in 1 .. Len(s) |-> s[k]] /\ Len(s) \in Nat
  OBVIOUS
<1>2. \A k \in 1 .. Len(s) : s[k] \in X
  BY DEF ToSet
<1>3. [k \in 1 .. Len(s) |-> s[k]] \in Seq(X)
  BY <1>1, <1>2
<1> QED
  BY <1>1, <1>3

LEMMA RowAdded ==
  ASSUME NEW s, s \in Seq(ToSet(s)), NEW i \in DOMAIN s, NEW t
  PROVE  InsertAt(s, i + 1, t) \in Seq(ToSet(InsertAt(s, i + 1, t)))
<1>1. PICK X : X = ToSet(s) \cup {t}
  OBVIOUS
<1>2. s \in Seq(X)
  BY <1>1, MoreMembers
<1>3. i \in 1 .. Len(s) /\ Len(s) \in Nat /\ (i + 1) - 1 = i
  BY <1>2
<1>4. PICK a : a = SubSeq(s, 1, (i + 1) - 1)
  OBVIOUS
<1>5. PICK b : b = SubSeq(s, i + 1, Len(s))
  OBVIOUS
<1>6. a \in Seq(X)
  BY <1>2, <1>3, <1>4
<1>7. b \in Seq(X)
  BY <1>2, <1>3, <1>5
<1>8. <<t>> \in Seq(X)
  BY <1>1
<1>9. PICK c : c = a \o <<t>>
  OBVIOUS
<1>11. c \in Seq(X)
  BY <1>6, <1>8, <1>9
<1>12. InsertAt(s, i + 1, t) = c \o b
  BY <1>4, <1>5, <1>9 DEF InsertAt
<1>13. PICK d : d = c \o b
  OBVIOUS
<1>14. d \in Seq(X)
  BY <1>7, <1>11, <1>13
<1>10. InsertAt(s, i + 1, t) \in Seq(X)
  BY <1>12, <1>13, <1>14
<1> QED
  BY <1>10, OwnMembers

LEMMA RowTaken ==
  ASSUME NEW s, s \in Seq(ToSet(s)), NEW i \in DOMAIN s
  PROVE  RemoveAt(s, i) \in Seq(ToSet(RemoveAt(s, i)))
<1>1. PICK X : X = ToSet(s)
  OBVIOUS
<1>2. s \in Seq(X) /\ i \in 1 .. Len(s) /\ Len(s) \in Nat
  BY <1>1
<1>3. SubSeq(s, 1, i - 1) \in Seq(X) /\ SubSeq(s, i + 1, Len(s)) \in Seq(X)
  BY <1>2
<1>4. RemoveAt(s, i) \in Seq(X)
  BY <1>3 DEF RemoveAt
<1> QED
  BY <1>4, OwnMembers

LEMMA RowsAreRows ==
  ASSUME NEW s, s \in Seq(ToSet(s))
  PROVE  Rows(s) \in Seq(ToSet(Rows(s)))
BY OneBlank DEF Rows

LEMMA FormInvInit == Init => FormInv
<1> SUFFICES ASSUME Init PROVE FormInv
  OBVIOUS
<1>1. \A f \in Fields : Cached(f, uci[f])
  BY ValuesAssumption DEF Init, Cached
<1>2. widget = [f \in Fields |-> Drawn(f, uci[f])]
  BY DEF Init
<1>3. disabled = Validated(Fields, widget, {}, Unmarked, {}).disabled
  BY DEF Init
<1>4. \A f \in Fields : Holds(f, widget[f])
  BY <1>1, <1>2, DrawnHolds
<1>5. \A f \in Fields : Shows(f, widget, disabled)
  BY <1>3, AllValidatedShow
<1>6. widget = [f \in Fields |-> widget[f]]
  BY <1>2
<1> QED
  BY <1>1, <1>4, <1>5, <1>6 DEF FormInv

LEMMA FormInvStep == FormInv /\ [Next]_vars => FormInv'
<1> SUFFICES ASSUME FormInv, [Next]_vars PROVE FormInv'
  OBVIOUS
<1>1. ASSUME NEW f \in Fields, Click(f) PROVE FormInv'
  <2>1. widget[f] \in BOOLEAN
    BY <1>1 DEF FormInv, Holds, Click
  <2>2. PICK w : w = ~widget[f]
    OBVIOUS
  <2>3. Holds(f, w)
    BY <1>1, <2>1, <2>2 DEF Holds, Click
  <2> QED
    BY <1>1, <2>2, <2>3, EditInv DEF Click
<1>2. ASSUME NEW f \in Fields, TypeInto(f) PROVE FormInv'
  <2>1. PICK t : Edit(f, t)
    BY <1>2 DEF TypeInto
  <2>2. Holds(f, t)
    BY <1>2 DEF Holds, TypeInto
  <2> QED
    BY <2>1, <2>2, EditInv
<1>3. ASSUME NEW f \in Fields, Choose(f) PROVE FormInv'
  <2>1. PICK t \in Offered(f) : Edit(f, t)
    BY <1>3 DEF Choose
  <2>2. Holds(f, t)
    BY <1>3 DEF Holds, Choose
  <2> QED
    BY <2>1, <2>2, EditInv
<1>4. ASSUME NEW f \in Fields, Combine(f) PROVE FormInv'
  <2>1. PICK t : Edit(f, t)
    BY <1>4 DEF Combine
  <2>2. Holds(f, t)
    BY <1>4 DEF Holds, Combine
  <2> QED
    BY <2>1, <2>2, EditInv
<1>5. ASSUME NEW f \in Fields, TypeRow(f) PROVE FormInv'
  <2>1. Kind(f) = "Dynamic"
    BY <1>5 DEF TypeRow
  <2>2. PICK i, t : i \in DOMAIN widget[f] /\ widget' = [widget EXCEPT ![f] = [widget[f] EXCEPT ![i] = t]]
    BY <1>5 DEF TypeRow
  <2>3. widget[f] \in Seq(ToSet(widget[f]))
    BY <2>1 DEF FormInv, Holds
  <2>4. PICK rows : rows = [widget[f] EXCEPT ![i] = t]
    OBVIOUS
  <2>5. rows \in Seq(ToSet(rows))
    BY <2>2, <2>3, <2>4, RowTyped
  <2>6. uci' = uci /\ disabled' = disabled
    BY <1>5 DEF TypeRow
  <2> QED
    BY <2>1, <2>2, <2>4, <2>5, <2>6, RowsInv
<1>6. ASSUME NEW f \in Fields, NEW s, Kind(f) = "Dynamic", s \in Seq(ToSet(s)), Redraw(f, s)
      PROVE  FormInv'
  <2>1. PICK rows : rows = Rows(s)
    OBVIOUS
  <2>2. rows \in Seq(ToSet(rows))
    BY <1>6, <2>1, RowsAreRows
  <2>3. widget' = [widget EXCEPT ![f] = rows] /\ uci' = uci /\ disabled' = disabled
    BY <1>6, <2>1 DEF Redraw
  <2> QED
    BY <1>6, <2>2, <2>3, RowsInv
<1>7. ASSUME NEW f \in Fields, AddRow(f) PROVE FormInv'
  <2>1. widget[f] \in Seq(ToSet(widget[f]))
    BY <1>7 DEF FormInv, Holds, AddRow
  <2>2. PICK i \in DOMAIN widget[f] : Redraw(f, InsertAt(widget[f], i + 1, ""))
    BY <1>7 DEF AddRow
  <2> QED
    BY <1>6, <1>7, <2>1, <2>2, RowAdded DEF AddRow
<1>8. ASSUME NEW f \in Fields, DeleteRow(f) PROVE FormInv'
  <2>1. widget[f] \in Seq(ToSet(widget[f]))
    BY <1>8 DEF FormInv, Holds, DeleteRow
  <2>2. PICK i \in DOMAIN widget[f] : Redraw(f, RemoveAt(widget[f], i))
    BY <1>8 DEF DeleteRow
  <2> QED
    BY <1>6, <1>8, <2>1, <2>2, RowTaken DEF DeleteRow
<1>9. CASE Resave
  BY <1>9, AfterSaveProper, DrawnInv DEF Resave
<1>10. CASE Send
  <2>1. PICK form : form = Validated(Fields, widget, disabled, marked, error)
    OBVIOUS
  <2>2. CASE Render([f \in Fields |-> Reloaded(AfterSave(form.disabled)[f])])
    <3>1. PICK shown : shown = [f \in Fields |-> Reloaded(AfterSave(form.disabled)[f])]
      OBVIOUS
    <3>2. \A f \in Fields : Cached(f, shown[f])
      BY <3>1, ReloadedProper
    <3> QED
      BY <2>2, <3>1, <3>2, DrawnInv
  <2>3. CASE Marks(form) /\ UNCHANGED <<uci, widget>>
    <3>1. disabled' = form.disabled /\ uci' = uci /\ widget' = widget
      BY <2>3 DEF Marks
    <3>2. \A f \in Fields : Shows(f, widget, disabled)
      BY DEF FormInv
    <3>3. \A f \in Fields : Shows(f, widget, form.disabled)
      BY <2>1, <3>2, AllValidatedShow
    <3> QED
      BY <3>1, <3>3 DEF FormInv
  <2> QED
    BY <1>10, <2>1, <2>2, <2>3 DEF Send
<1>11. CASE Reset
  <2>1. PICK u \in Stored : Render(u)
    BY <1>11 DEF Reset
  <2>2. \A f \in Fields : Cached(f, u[f])
    BY ValuesAssumption DEF Cached
  <2> QED
    BY <2>1, <2>2, DrawnInv
<1>12. CASE Press
  BY <1>12, DrawnInv DEF Press, FormInv
<1>13. CASE UNCHANGED vars
  BY <1>13 DEF FormInv, vars
<1> QED
  BY <1>1, <1>2, <1>3, <1>4, <1>5, <1>7, <1>8, <1>9, <1>10, <1>11, <1>12, <1>13 DEF Next, EditSome

(* What holds of a form at every moment: its widgets hold values of their  *)
(* kinds, no field that hangs on nothing is hidden, and every other one is *)
(* shown as its alternatives ask, up to the fields that are wrong.         *)
THEOREM FormInvariant == Spec => []FormInv
<1>1. Init => FormInv
  BY FormInvInit
<1>2. FormInv /\ [Next]_vars => FormInv'
  BY FormInvStep
<1> QED
  BY <1>1, <1>2, PTL DEF Spec

(* After any mix of edits, saves, resets and redraws, whatever the fields  *)
(* of a section and however they hang on each other, a field is shown      *)
(* exactly when one of its alternatives is met by what the form holds,     *)
(* unless a field it hangs on is wrong itself (toggle, handleValidate).    *)
THEOREM ShownAsDeclared == Spec => []ShownIffDependsOn
<1>1. FormInv => ShownIffDependsOn
  BY DEF FormInv, Shows, ParentsRight, ShownIffDependsOn
<1> QED
  BY <1>1, FormInvariant, PTL

(* A field that was not edited is not written when the form is saved: what *)
(* its widget draws reads as what it was drawn from, for every kind of     *)
(* widget; only a list whose emptying is staged, and whose blank row was   *)
(* drawn into the cache, is written as empty once more (widget, _redraw,   *)
(* formvalue, changed, save).                                              *)
THEOREM IdleSaves == Spec => []IdleSaveWritesNothing
<1>1. FormInv => IdleSaveWritesNothing
  <2> SUFFICES ASSUME FormInv, NEW f \in Fields, CanShow(f, uci[f]), widget[f] = Drawn(f, uci[f])
               PROVE  Saved(f, uci[f], widget[f], FALSE)
                        = IF uci[f] = Emptied THEN List(<<>>) ELSE uci[f]
    BY DEF IdleSaveWritesNothing
  <2>1. Cached(f, uci[f])
    BY DEF FormInv
  <2>2. CASE uci[f] # Emptied
    <3>1. ~Changed(f, uci[f], widget[f])
      BY <2>1, <2>2, DrawnReads DEF Changed
    <3> QED
      BY <2>2, <3>1 DEF Saved
  <2>3. CASE uci[f] = Emptied
    <3>1. Kind(f) = "Dynamic"
      BY <2>1, <2>3, EmptiedIsStaged
    <3>2. FormValue(f, widget[f]) = List(<<>>) /\ UciValue(f, uci[f]) = Emptied
      BY <2>3, <3>1, EmptiedReads
    <3>3. Changed(f, uci[f], widget[f])
      BY <3>2, EmptiedIs DEF Changed
    <3>4. Written(f, widget[f]) = List(<<>>)
      BY <3>1, <3>2, WrittenIsForm
    <3> QED
      BY <2>3, <3>3, <3>4 DEF Saved
  <2> QED
    BY <2>2, <2>3
<1> QED
  BY <1>1, FormInvariant, PTL

(* What a save writes of a shown field is read back as what it held.       *)
LEMMA SavedReads ==
  ASSUME NEW f \in Fields, NEW u, Cached(f, u), NEW w, Holds(f, w)
  PROVE  \/ /\ UciValue(f, Saved(f, u, w, FALSE)) = FormValue(f, w)
            /\ CanShow(f, Saved(f, u, w, FALSE))
         \/ FormValue(f, w) = Undefined /\ Option(f).initial # Undefined
<1>1. PICK x : x = Saved(f, u, w, FALSE)
  OBVIOUS
<1>2. SUFFICES ASSUME ~(FormValue(f, w) = Undefined /\ Option(f).initial # Undefined)
               PROVE  UciValue(f, x) = FormValue(f, w)
  <2>1. ASSUME UciValue(f, x) = FormValue(f, w), Kind(f) = "List"
        PROVE  Drawn(f, x) = Of(UciValue(f, x))
    <3>1. UciValue(f, x) = Defined(w)
      BY <2>1, FormValueOf
    <3>2. Of(UciValue(f, x)) = w
      BY <3>1, Values DEF Defined
    <3>3. w \in Offered(f)
      BY <2>1 DEF Holds
    <3>4. PICK v : v = UciValue(f, x)
      OBVIOUS
    <3>5. (IF v = Undefined THEN "" ELSE Of(v)) = w
      BY <3>2, <3>4, Values
    <3>6. Drawn(f, x) = w
      BY <2>1, <3>3, <3>4, <3>5 DEF Drawn
    <3> QED
      BY <3>2, <3>6
  <2> QED
    BY <1>1, <1>2, <2>1 DEF CanShow
<1>3. CASE ~Changed(f, u, w)
  <2>1. x = u
    BY <1>1, <1>3 DEF Saved
  <2> QED
    BY <1>3, <2>1 DEF Changed
<1>4. CASE Changed(f, u, w) /\ Kind(f) = "Checkbox"
  <2>1. x = Written(f, w) /\ FormValue(f, w) = Bool(w) /\ w \in BOOLEAN
    BY <1>1, <1>4, FormValueOf DEF Saved, Holds
  <2>2. PICK initial : initial = Option(f).initial
    OBVIOUS
  <2>3. PICK y : y = IF x = Undefined THEN initial ELSE x
    OBVIOUS
  <2>4. UciValue(f, x) = IF Type(y) = "boolean" THEN y ELSE Bool(y = Str(Option(f).enabled))
    BY <1>4, <2>2, <2>3 DEF UciValue
  <2>5. CASE Option(f).optional /\ LooselyEqual(w, initial)
    <3>1. x = Undefined
      BY <1>4, <2>1, <2>2, <2>5 DEF Written
    <3>2. UciValue(f, Undefined) = Bool(w)
      BY <1>4, <2>1, <2>2, <2>5, CheckboxAssumption
    <3> QED
      BY <2>1, <3>1, <3>2
  <2>6. CASE ~(Option(f).optional /\ LooselyEqual(w, initial))
    <3>1. PICK a : a = Option(f).enabled
      OBVIOUS
    <3>2. PICK b : b = Option(f).disabled
      OBVIOUS
    <3>3. a # b
      BY <1>4, <3>1, <3>2, FieldsAssumption
    <3>4. x = Str(IF w THEN a ELSE b)
      BY <1>4, <2>1, <2>2, <2>6, <3>1, <3>2 DEF Written
    <3>5. \A t : Str(t) # Undefined /\ Type(Str(t)) # "boolean"
      BY Values
    <3>6. y = x /\ Type(x) # "boolean"
      BY <2>3, <3>4, <3>5
    <3>7. UciValue(f, x) = Bool(x = Str(a))
      BY <2>4, <3>1, <3>6
    <3>8. CASE w = TRUE
      <4>1. x = Str(a)
        BY <3>4, <3>8
      <4>2. UciValue(f, x) = Bool(TRUE)
        BY <3>7, <4>1
      <4> QED
        BY <2>1, <3>8, <4>2
    <3>9. CASE w = FALSE
      <4>1. x = Str(b)
        BY <3>4, <3>9
      <4>2. Str(b) # Str(a)
        <5>1. Of(Str(b)) = b /\ Of(Str(a)) = a
          BY Values
        <5> QED
          BY <3>3, <5>1
      <4>3. (x = Str(a)) = FALSE
        BY <4>1, <4>2
      <4>4. UciValue(f, x) = Bool(FALSE)
        BY <3>7, <4>3
      <4> QED
        BY <2>1, <3>9, <4>4
    <3> QED
      BY <2>1, <3>8, <3>9
  <2> QED
    BY <2>5, <2>6
<1>5. CASE Changed(f, u, w) /\ Kind(f) # "Checkbox"
  <2>1. x = FormValue(f, w)
    BY <1>1, <1>5, WrittenIsForm DEF Saved
  <2>2. CASE Kind(f) = "Dynamic"
    <3>1. PICK s : x = List(s)
      BY <2>1, <2>2, FormValueOf
    <3>2. x # Undefined /\ Entries(x) = s
      BY <3>1 DEF Entries, Type, Of, List, Undefined
    <3>3. UciValue(f, x) = List(Entries(x))
      BY <2>2, <3>2 DEF UciValue
    <3> QED
      BY <2>1, <3>1, <3>2, <3>3
  <2>3. CASE Kind(f) # "Dynamic"
    <3>1. UciValue(f, x) = IF x = Undefined THEN Option(f).initial ELSE x
      BY <1>5, <2>3 DEF UciValue
    <3> QED
      BY <1>2, <2>1, <3>1
  <2> QED
    BY <2>2, <2>3
<1> QED
  BY <1>3, <1>4, <1>5

(* Whatever is typed, chosen or clicked survives the redraw of a form that *)
(* an added, removed or moved section costs: what a shown field held       *)
(* before it holds afterwards; only a field with an initial value that was *)
(* emptied gets that value back (handleAdd, handleRemove, handleSort).     *)
THEOREM EditsSurviveRedraw == Spec => RedrawKeepsEdits
<1>1. ASSUME FormInv PROVE RedrawKeeps
  <2> SUFFICES ASSUME Resave, NEW f \in Fields \ disabled
               PROVE  \/ FormValue(f, widget'[f]) = FormValue(f, widget[f])
                      \/ FormValue(f, widget[f]) = Undefined /\ Option(f).initial # Undefined
    BY DEF RedrawKeeps
  <2>1. Cached(f, uci[f]) /\ Holds(f, widget[f])
    BY <1>1 DEF FormInv
  <2>2. PICK x : x = Saved(f, uci[f], widget[f], FALSE)
    OBVIOUS
  <2>3. (f \in disabled) = FALSE
    OBVIOUS
  <2>4. AfterSave(disabled)[f] = x
    BY <2>2, <2>3 DEF AfterSave
  <2>5. widget'[f] = Drawn(f, x)
    BY <2>4 DEF Resave, Render
  <2>6. Cached(f, x)
    BY <2>1, <2>2, SavedProper
  <2>7. CASE UciValue(f, x) = FormValue(f, widget[f]) /\ CanShow(f, x)
    <3>1. x # Emptied
      <4>1. SUFFICES ASSUME x = Emptied PROVE FALSE
        OBVIOUS
      <4>2. Kind(f) = "Dynamic"
        BY <2>6, <4>1, EmptiedIsStaged
      <4>3. PICK q : q = Within(widget[f], ToSet(widget[f]) \ {""})
        OBVIOUS
      <4>4. FormValue(f, widget[f]) = List(q) /\ Filled(q)
        BY <2>1, <4>2, <4>3, FormValueOf, KeptIsFilled DEF Holds
      <4>5. List(q) = List(<<"">>)
        BY <2>7, <4>1, <4>2, <4>4, EmptiedReads, EmptiedIs
      <4>6. Of(List(q)) = q /\ Of(List(<<"">>)) = <<"">>
        BY Values
      <4>7. q = <<"">>
        BY <4>5, <4>6
      <4> QED
        BY <4>4, <4>7, BlankIsNotFilled
    <3> QED
      BY <2>5, <2>6, <2>7, <3>1, DrawnReads
  <2> QED
    BY <2>1, <2>2, <2>7, SavedReads
<1>2. FormInv => [RedrawKeeps]_vars
  BY <1>1
<1> QED
  BY <1>2, FormInvariant, PTL DEF RedrawKeepsEdits

-----------------------------------------------------------------------------
(* CbiForm: the types.  What is drawn, typed or read from the cache stays  *)
(* among the texts of its field, and validation marks elements there are.  *)
LEMMA ReachedIsDeclared ==
  ASSUME NEW start \in SUBSET Fields, NEW failing
  PROVE  Reached(start, failing) \subseteq Fields
<1>1. PICK m \in Nat : m = Len(Declared)
  BY FieldsAssumption
<1>2. PICK r : r = ReachedBy(start, failing, m) /\ IsReached(r, start, failing, m)
  BY ReachedStarts DEF ReachedBy
<1> DEFINE N == {k \in Nat : k <= m => r[k] \subseteq Fields}
<1>3. 0 \in N
  BY <1>2 DEF IsReached
<1>4. ASSUME NEW k \in Nat, k \in N PROVE k + 1 \in N
  <2> SUFFICES ASSUME k + 1 <= m PROVE r[k + 1] \subseteq Fields
    OBVIOUS
  <2>1. PICK i \in 0 .. m : i = k + 1 /\ i # 0 /\ i - 1 = k
    OBVIOUS
  <2>2. r[i] = Further(r[i - 1], failing)
    BY <1>2, <2>1 DEF IsReached
  <2>3. r[k + 1] = Further(r[k], failing)
    BY <2>1, <2>2
  <2>4. r[k] \subseteq Fields
    BY <1>4
  <2>5. \A f \in Fields : Dependents[f] \subseteq Fields
    BY DEF Dependents
  <2> QED
    BY <2>3, <2>4, <2>5 DEF Further
<1> HIDE DEF N
<1>5. m \in N
  BY <1>3, <1>4, Induction
<1>6. Reached(start, failing) = r[m]
  BY <1>1, <1>2, ReachedIsLoop
<1> QED
  BY <1>5, <1>6 DEF N

LEMMA FailingTyped ==
  ASSUME NEW f \in Fields, NEW w
  PROVE  MarksTyped(f, w, Failing(f, w))
BY DEF MarksTyped, Failing

LEMMA MarksAreNumbers ==
  ASSUME NEW f \in Fields, NEW w, WidgetTyped(f, w), NEW marks, MarksTyped(f, w, marks)
  PROVE  marks \in SUBSET Nat
<1>1. CASE Kind(f) = "Dynamic"
  <2>1. PICK T : T = TextsOf(f)
    OBVIOUS
  <2>2. w \in Seq(T)
    BY <1>1, <2>1 DEF WidgetTyped
  <2>3. DOMAIN w \subseteq Nat
    BY <2>2
  <2> QED
    BY <1>1, <2>3 DEF MarksTyped
<1>2. CASE Kind(f) # "Dynamic"
  BY <1>2 DEF MarksTyped
<1> QED
  BY <1>1, <1>2

(* Validation marks the fields it reaches anew and leaves the others.      *)
LEMMA ValidatedTyped ==
  ASSUME NEW start \in SUBSET Fields, NEW w, NEW hidden \in SUBSET Fields,
         NEW mark \in [Fields -> SUBSET Nat], NEW err \in SUBSET Fields,
         \A f \in Fields : WidgetTyped(f, w[f]),
         \A f \in Fields \ start : MarksTyped(f, w[f], mark[f])
  PROVE  LET form == Validated(start, w, hidden, mark, err)
         IN  /\ \A f \in Fields : MarksTyped(f, w[f], form.marked[f])
             /\ form.marked \in [Fields -> SUBSET Nat]
             /\ form.disabled \subseteq Fields
             /\ form.error \subseteq Fields
<1> DEFINE failing == {f \in Fields : Failing(f, w[f]) # {}}
           R == Reached(start, failing)
           T == Toggled(R, failing)
           form == Validated(start, w, hidden, mark, err)
<1>1. /\ form.disabled = (hidden \ T) \cup {f \in T : ~Satisfied(f, w)}
      /\ form.marked = [f \in Fields |-> IF f \in R THEN Failing(f, w[f]) ELSE mark[f]]
      /\ form.error = (err \ R) \cup (R \cap failing)
  BY DEF Validated
<1>2. start \subseteq R /\ R \subseteq Fields
  BY StartIsReached, ReachedIsDeclared
<1>3. T \subseteq Fields
  <2>1. \A f \in Fields : Dependents[f] \subseteq Fields
    BY DEF Dependents
  <2> HIDE DEF R, failing
  <2> QED
    BY <1>2, <2>1 DEF Toggled
<1> HIDE DEF R, T, form, failing
<1>4. ASSUME NEW f \in Fields PROVE MarksTyped(f, w[f], form.marked[f])
  <2>1. CASE f \in R
    BY <1>1, <2>1, FailingTyped
  <2>2. CASE f \notin R
    <3>1. form.marked[f] = mark[f] /\ f \in Fields \ start
      BY <1>1, <1>2, <2>2
    <3> QED
      BY <3>1
  <2> QED
    BY <2>1, <2>2
<1>5. \A f \in Fields : form.marked[f] \in SUBSET Nat
  BY <1>4, MarksAreNumbers
<1>6. form.marked \in [Fields -> SUBSET Nat]
  <2>1. form.marked = [f \in Fields |-> form.marked[f]]
    BY <1>1
  <2> QED
    BY <1>5, <2>1
<1>7. form.disabled \subseteq Fields
  BY <1>1, <1>3
<1>8. form.error \subseteq Fields
  BY <1>1, <1>2
<1> QED
  BY <1>4, <1>6, <1>7, <1>8 DEF form

(* What a save leaves in the cache until the form is drawn.                *)
Staged(f, u) == OptionTyped(f, u) \/ (Kind(f) = "Dynamic" /\ u = List(<<>>))

(* The value a field reads is made of its texts.                           *)
LEMMA ReadTexts ==
  ASSUME NEW f \in Fields, NEW u, Cached(f, u), Staged(f, u)
  PROVE  /\ Kind(f) = "Dynamic" => Of(UciValue(f, u)) \in Seq(TextsOf(f))
         /\ Kind(f) \notin {"Checkbox", "Dynamic"} =>
              UciValue(f, u) = Undefined \/ Of(UciValue(f, u)) \in TextsOf(f)
<1> DEFINE v == IF u = Undefined THEN Option(f).initial ELSE u
<1>2. UciValue(f, u) =
        CASE Kind(f) = "Checkbox" ->
               IF Type(v) = "boolean" THEN v ELSE Bool(v = Str(Option(f).enabled))
          [] Kind(f) = "Dynamic"  -> List(Entries(v))
          [] OTHER                -> v
  BY DEF UciValue
<1>3. \/ v \in Held(f)
      \/ CASE Kind(f) = "Checkbox" -> v \in {Str(Option(f).enabled), Str(Option(f).disabled)}
           [] Kind(f) = "Dynamic"  -> \/ u = Emptied
                                      \/ v = List(<<>>)
                                      \/ v = List(Of(v)) /\ Of(v) \in Seq(TextsOf(f) \ {""})
           [] OTHER                -> v \in {Str(t) : t \in TextsOf(f) \ {""}}
  BY DEF OptionTyped, Held, Staged
<1> HIDE DEF v
<1>4. ASSUME Kind(f) = "Dynamic" PROVE Of(UciValue(f, u)) \in Seq(TextsOf(f))
  <2>1. Of(UciValue(f, u)) = Entries(v)
    BY <1>2, <1>4, Values
  <2>4. CASE u = Emptied
    <3>1. Of(UciValue(f, u)) = <<"">>
      BY <1>4, <2>4, UciValueProper
    <3>2. PICK q : q = <<"">>
      OBVIOUS
    <3>3. q \in Seq(ToSet(q)) /\ ToSet(q) \subseteq TextsOf(f)
      BY <3>2, OneBlank DEF TextsOf
    <3>4. q \in Seq(TextsOf(f))
      BY <3>3, MoreMembers
    <3> QED
      BY <3>1, <3>2, <3>4
  <2>5. CASE v = List(<<>>)
    <3>1. Entries(v) = <<>>
      BY <2>5, Values DEF Entries
    <3>2. PICK T : T = TextsOf(f)
      OBVIOUS
    <3>3. <<>> \in Seq(T)
      OBVIOUS
    <3> QED
      BY <2>1, <3>1, <3>2, <3>3
  <2>2. CASE v \in Held(f) /\ u # Emptied
    <3>1. ToSet(Entries(v)) \subseteq TextsOf(f)
      BY <1>4, <2>2 DEF TextsOf
    <3>2. Entries(v) \in Seq(ToSet(Entries(v)))
      <4>1. Filled(Of(UciValue(f, u)))
        BY <1>4, <2>2, UciValueProper
      <4>2. Filled(Entries(v))
        BY <4>1, <2>1
      <4> QED
        BY <4>2, FilledIsKept
    <3> QED
      BY <2>1, <3>1, <3>2, MoreMembers
  <2>3. CASE v = List(Of(v)) /\ Of(v) \in Seq(TextsOf(f) \ {""})
    <3>1. Entries(v) = Of(v)
      <4>1. Type(v) = "list"
        BY <2>3, Values
      <4> QED
        BY <4>1 DEF Entries
    <3>2. PICK T : T = TextsOf(f)
      OBVIOUS
    <3>3. PICK q : q = Of(v)
      OBVIOUS
    <3>4. q \in Seq(T \ {""})
      BY <2>3, <3>2, <3>3
    <3>5. q \in Seq(ToSet(q)) /\ ToSet(q) \subseteq T \ {""}
      BY <3>4, OwnMembers
    <3>6. Of(v) \in Seq(T)
      BY <3>3, <3>5, MoreMembers
    <3> QED
      BY <2>1, <3>1, <3>2, <3>6
  <2> QED
    BY <1>3, <1>4, <2>2, <2>3, <2>4, <2>5
<1>5. ASSUME Kind(f) \notin {"Checkbox", "Dynamic"}
      PROVE  UciValue(f, u) = Undefined \/ Of(UciValue(f, u)) \in TextsOf(f)
  <2>1. UciValue(f, u) = v
    BY <1>2, <1>5
  <2>2. CASE v \in Held(f)
    <3>1. Of(v) \in {Of(x) : x \in Held(f)}
      BY <2>2
    <3>2. Of(v) \in TextsOf(f)
      BY <1>5, <3>1 DEF TextsOf
    <3> QED
      BY <2>1, <3>2
  <2>3. CASE v \in {Str(t) : t \in TextsOf(f) \ {""}}
    <3>1. PICK t \in TextsOf(f) \ {""} : v = Str(t)
      BY <2>3
    <3>2. Of(v) = t
      BY <3>1, Values
    <3> QED
      BY <2>1, <3>1, <3>2
  <2> QED
    BY <1>3, <1>5, <2>2, <2>3
<1> QED
  BY <1>4, <1>5

LEMMA RowsTyped ==
  ASSUME NEW T, "" \in T, NEW s, s \in Seq(T)
  PROVE  Rows(s) \in Seq(T) /\ Rows(s) # <<>>
<1>1. <<"">> \in Seq(T)
  <2>1. ToSet(<<"">>) \subseteq T /\ <<"">> \in Seq(ToSet(<<"">>))
    BY OneBlank
  <2> QED
    BY <2>1, MoreMembers
<1>2. <<"">> # <<>>
  OBVIOUS
<1> QED
  BY <1>1, <1>2 DEF Rows

LEMMA WidgetDrawn ==
  ASSUME NEW f \in Fields, NEW u, Cached(f, u), Staged(f, u)
  PROVE  WidgetTyped(f, Drawn(f, u))
<1> DEFINE v == UciValue(f, u)
           t == IF v = Undefined THEN "" ELSE Of(v)
<1>1. Kind(f) \in Kinds
  BY FieldsAssumption DEF Kinds
<1>2. "" \in TextsOf(f) /\ Offered(f) \subseteq TextsOf(f)
  BY DEF TextsOf
<1>3. Holds(f, Drawn(f, u))
  BY DrawnHolds
<1>4. CASE Kind(f) = "Checkbox"
  BY <1>3, <1>4 DEF Holds, WidgetTyped
<1>5. CASE Kind(f) = "List"
  <2>1. Drawn(f, u) \in TextsOf(f)
    BY <1>2, <1>3, <1>5 DEF Holds
  <2> QED
    BY <1>5, <2>1 DEF WidgetTyped
<1>6. CASE Kind(f) \in {"Input", "Combo", "Button"}
  <2>1. Drawn(f, u) = t
    BY <1>6 DEF Drawn
  <2>2. v = Undefined \/ Of(v) \in TextsOf(f)
    BY <1>6, ReadTexts
  <2>3. Drawn(f, u) \in TextsOf(f)
    BY <1>2, <2>1, <2>2
  <2> QED
    BY <1>6, <2>3 DEF WidgetTyped
<1>7. CASE Kind(f) = "Dynamic"
  <2>1. Drawn(f, u) = Rows(Of(v))
    BY <1>7 DEF Drawn
  <2>2. Of(v) \in Seq(TextsOf(f))
    BY <1>7, ReadTexts
  <2>3. Drawn(f, u) \in Seq(TextsOf(f)) /\ Drawn(f, u) # <<>>
    BY <1>2, <2>1, <2>2, RowsTyped
  <2> QED
    BY <1>7, <2>3 DEF WidgetTyped
<1> QED
  BY <1>1, <1>4, <1>5, <1>6, <1>7 DEF Kinds

LEMMA SavedTexts ==
  ASSUME NEW f \in Fields, NEW u, OptionTyped(f, u),
         NEW w, WidgetTyped(f, w), Holds(f, w), NEW hidden \in BOOLEAN
  PROVE  Staged(f, Saved(f, u, w, hidden))
<1>1. Saved(f, u, w, hidden) \in {Undefined, u, Written(f, w)}
  BY DEF Saved
<1>2. Staged(f, Undefined) /\ Staged(f, u)
  BY DEF OptionTyped, Staged
<1>3. Staged(f, Written(f, w))
  <2>1. CASE Kind(f) = "Checkbox"
    <3>1. PICK a : a = Str(Option(f).enabled)
      OBVIOUS
    <3>2. PICK b : b = Str(Option(f).disabled)
      OBVIOUS
    <3>5. w = TRUE \/ w = FALSE
      BY <2>1 DEF Holds
    <3>6. Written(f, w) \in {Undefined, a, b}
      BY <2>1, <3>1, <3>2, <3>5 DEF Written
    <3> QED
      BY <2>1, <3>1, <3>2, <3>6 DEF OptionTyped, Staged
  <2>2. CASE Kind(f) = "Dynamic"
    <3>1. PICK q : q = Within(w, ToSet(w) \ {""})
      OBVIOUS
    <3>2. Written(f, w) = List(q)
      BY <2>2, <3>1, WrittenIsForm, FormValueOf
    <3>3. PICK T : T = TextsOf(f)
      OBVIOUS
    <3>4. w \in Seq(T)
      BY <2>2, <3>3 DEF WidgetTyped
    <3>5. ToSet(w) \subseteq T
      BY <3>4, OwnMembers
    <3>6. w \in Seq(ToSet(w))
      BY <3>4, OwnMembers
    <3>7. PICK Y : Y = ToSet(w) \cap (ToSet(w) \ {""})
      OBVIOUS
    <3>8. q \in Seq(Y) /\ Y \subseteq T \ {""}
      BY <3>1, <3>5, <3>6, <3>7, WithinKeeps
    <3>9. q \in Seq(ToSet(q)) /\ ToSet(q) \subseteq T \ {""}
      BY <3>8, OwnMembers
    <3>10. q \in Seq(T \ {""})
      BY <3>9, MoreMembers
    <3>11. PICK x : x = Written(f, w)
      OBVIOUS
    <3>12. x = List(q) /\ Of(x) = q /\ x = List(Of(x)) /\ Of(x) \in Seq(TextsOf(f) \ {""})
      BY <3>2, <3>3, <3>10, <3>11, Values
    <3>13. Staged(f, x)
      BY <2>2, <3>12 DEF OptionTyped, Staged
    <3> QED
      BY <3>11, <3>13
  <2>3. CASE Kind(f) \notin {"Checkbox", "Dynamic"}
    <3>1. Written(f, w) = Defined(w)
      BY <2>3, WrittenIsForm, FormValueOf
    <3>2. w \in TextsOf(f)
      BY <2>3 DEF WidgetTyped
    <3>3. Defined(w) = Undefined \/ (Defined(w) = Str(w) /\ w \in TextsOf(f) \ {""})
      BY <3>2 DEF Defined
    <3> QED
      BY <2>3, <3>1, <3>3 DEF OptionTyped, Staged
  <2> QED
    BY <2>1, <2>2, <2>3
<1> QED
  BY <1>1, <1>2, <1>3

LEMMA DrawnTypes ==
  ASSUME NEW shown, \A f \in Fields : Cached(f, shown[f]) /\ Staged(f, shown[f]), Render(shown)
  PROVE  TypeOK'
<1>0. ASSUME NEW f \in Fields PROVE OptionTyped(f, uci'[f])
  <2>1. uci'[f] = AfterDraw(shown[f])
    BY DEF Render
  <2>2. CASE shown[f] = List(<<>>)
    <3>1. uci'[f] = Emptied /\ Kind(f) = "Dynamic"
      BY <2>1, <2>2, AfterDrawIs
    <3> QED
      BY <3>1 DEF OptionTyped
  <2>3. CASE shown[f] # List(<<>>)
    <3>1. uci'[f] = shown[f]
      BY <2>1, <2>3, AfterDrawIs
    <3> QED
      BY <2>3, <3>1 DEF Staged
  <2> QED
    BY <2>2, <2>3
<1>1. widget' = [f \in Fields |-> Drawn(f, shown[f])]
  BY DEF Render
<1>2. PICK w : w = widget'
  OBVIOUS
<1>3. \A f \in Fields : WidgetTyped(f, w[f])
  BY <1>1, <1>2, WidgetDrawn
<1>4. PICK form : form = Validated(Fields, w, {}, Unmarked, {})
  OBVIOUS
<1>5. Unmarked \in [Fields -> SUBSET Nat]
  BY DEF Unmarked
<1>6. /\ \A f \in Fields : MarksTyped(f, w[f], form.marked[f])
      /\ form.marked \in [Fields -> SUBSET Nat]
      /\ form.disabled \subseteq Fields
      /\ form.error \subseteq Fields
  BY <1>3, <1>4, <1>5, ValidatedTyped
<1>7. disabled' = form.disabled /\ marked' = form.marked /\ error' = form.error
  BY <1>2, <1>4 DEF Render, Marks
<1> QED
  BY <1>0, <1>2, <1>3, <1>6, <1>7 DEF TypeOK

LEMMA SavedTypes ==
  ASSUME FormInv, TypeOK, NEW hidden
  PROVE  \A f \in Fields : Staged(f, AfterSave(hidden)[f])
<1> SUFFICES ASSUME NEW f \in Fields PROVE Staged(f, AfterSave(hidden)[f])
  OBVIOUS
<1>1. PICK h \in BOOLEAN : h = (f \in hidden)
  <2>1. CASE f \in hidden
    <3>1. TRUE = (f \in hidden)
      BY <2>1
    <3> QED
      BY <3>1
  <2>2. CASE f \notin hidden
    <3>1. FALSE = (f \in hidden)
      BY <2>2
    <3> QED
      BY <3>1
  <2> QED
    BY <2>1, <2>2
<1>2. AfterSave(hidden)[f] = Saved(f, uci[f], widget[f], h)
  BY <1>1 DEF AfterSave
<1>3. OptionTyped(f, uci[f]) /\ WidgetTyped(f, widget[f]) /\ Holds(f, widget[f])
  BY DEF FormInv, TypeOK
<1> QED
  BY <1>2, <1>3, SavedTexts

LEMMA EditTypes ==
  ASSUME FormInv, TypeOK, NEW f \in Fields, NEW w, WidgetTyped(f, w), Edit(f, w)
  PROVE  TypeOK'
<1>1. /\ uci' = uci
      /\ widget' = [widget EXCEPT ![f] = w]
  BY DEF Edit
<1>2. widget' = [g \in Fields |-> IF g = f THEN w ELSE widget[g]]
  BY <1>1 DEF FormInv
<1>3. PICK new : new = widget'
  OBVIOUS
<1>4. PICK form : form = Validated({f}, new, disabled, marked, error)
  OBVIOUS
<1>5. \A g \in Fields : WidgetTyped(g, new[g])
  BY <1>2, <1>3 DEF TypeOK
<1>6. \A g \in Fields \ {f} : MarksTyped(g, new[g], marked[g])
  BY <1>2, <1>3 DEF TypeOK
<1>7. marked \in [Fields -> SUBSET Nat] /\ disabled \in SUBSET Fields /\ error \in SUBSET Fields
  BY DEF TypeOK
<1>8. {f} \in SUBSET Fields
  OBVIOUS
<1>9. /\ \A g \in Fields : MarksTyped(g, new[g], form.marked[g])
      /\ form.marked \in [Fields -> SUBSET Nat]
      /\ form.disabled \subseteq Fields
      /\ form.error \subseteq Fields
  BY <1>4, <1>5, <1>6, <1>7, <1>8, ValidatedTyped
<1>10. disabled' = form.disabled /\ marked' = form.marked /\ error' = form.error
  BY <1>3, <1>4 DEF Edit, Marks
<1>11. \A g \in Fields : OptionTyped(g, uci'[g])
  BY <1>1 DEF TypeOK
<1> QED
  BY <1>3, <1>5, <1>9, <1>10, <1>11 DEF TypeOK

(* The rows of one list and their marks change, the rest of the form stays.*)
LEMMA RowsTypes ==
  ASSUME FormInv, TypeOK, NEW f \in Fields, Kind(f) = "Dynamic",
         NEW rows, rows \in Seq(TextsOf(f)), rows # <<>>, NEW marks, marks \subseteq DOMAIN rows,
         widget' = [widget EXCEPT ![f] = rows], marked' = [marked EXCEPT ![f] = marks],
         uci' = uci, disabled' = disabled, error' \in {error, error \cup {f}, error \ {f}}
  PROVE  TypeOK'
<1>1. widget' = [g \in Fields |-> IF g = f THEN rows ELSE widget[g]]
  BY DEF FormInv
<1>2. marked \in [Fields -> SUBSET Nat]
  BY DEF TypeOK
<1>3. marked' = [g \in Fields |-> IF g = f THEN marks ELSE marked[g]]
  BY <1>2
<1>4. WidgetTyped(f, rows) /\ MarksTyped(f, rows, marks)
  BY DEF WidgetTyped, MarksTyped
<1>5. \A g \in Fields : WidgetTyped(g, widget'[g]) /\ MarksTyped(g, widget'[g], marked'[g])
  BY <1>1, <1>3, <1>4 DEF TypeOK
<1>6. \A g \in Fields : marked'[g] \in SUBSET Nat
  BY <1>5, MarksAreNumbers
<1>7. marked' \in [Fields -> SUBSET Nat]
  <2>1. marked' = [g \in Fields |-> marked'[g]]
    BY <1>3
  <2> QED
    BY <1>6, <2>1
<1>8. disabled' \subseteq Fields /\ error' \subseteq Fields
  BY DEF TypeOK
<1>9. \A g \in Fields : OptionTyped(g, uci'[g])
  BY DEF TypeOK
<1> QED
  BY <1>5, <1>7, <1>8, <1>9 DEF TypeOK

LEMMA RowsWithin ==
  ASSUME NEW T, NEW t \in T, NEW s, s \in Seq(T), NEW i \in DOMAIN s
  PROVE  InsertAt(s, i + 1, t) \in Seq(T) /\ RemoveAt(s, i) \in Seq(T)
<1>1. i \in 1 .. Len(s) /\ Len(s) \in Nat /\ (i + 1) - 1 = i
  OBVIOUS
<1>2. InsertAt(s, i + 1, t) \in Seq(T)
  <2>1. PICK a : a = SubSeq(s, 1, (i + 1) - 1)
    OBVIOUS
  <2>2. PICK b : b = SubSeq(s, i + 1, Len(s))
    OBVIOUS
  <2>3. a \in Seq(T)
    BY <1>1, <2>1
  <2>4. b \in Seq(T)
    BY <1>1, <2>2
  <2>5. <<t>> \in Seq(T)
    OBVIOUS
  <2>6. PICK c : c = a \o <<t>>
    OBVIOUS
  <2>7. c \in Seq(T)
    BY <2>3, <2>5, <2>6
  <2>8. InsertAt(s, i + 1, t) = c \o b
    BY <2>1, <2>2, <2>6 DEF InsertAt
  <2>9. PICK d : d = c \o b
    OBVIOUS
  <2>10. d \in Seq(T)
    BY <2>4, <2>7, <2>9
  <2> QED
    BY <2>8, <2>9, <2>10
<1>3. RemoveAt(s, i) \in Seq(T)
  <2>1. SubSeq(s, 1, i - 1) \in Seq(T) /\ SubSeq(s, i + 1, Len(s)) \in Seq(T)
    BY <1>1
  <2> QED
    BY <2>1 DEF RemoveAt
<1> QED
  BY <1>2, <1>3

LEMMA TypesInit == ASSUME Init PROVE TypeOK
<1>1. \A f \in Fields : Cached(f, uci[f]) /\ Staged(f, uci[f]) /\ OptionTyped(f, uci[f])
  BY ValuesAssumption DEF Init, OptionTyped, StoredFor, Cached, Staged
<1>2. widget = [f \in Fields |-> Drawn(f, uci[f])]
  BY DEF Init
<1>3. \A f \in Fields : WidgetTyped(f, widget[f])
  BY <1>1, <1>2, WidgetDrawn
<1>4. PICK form : form = Validated(Fields, widget, {}, Unmarked, {})
  OBVIOUS
<1>5. Unmarked \in [Fields -> SUBSET Nat]
  BY DEF Unmarked
<1>6. /\ \A f \in Fields : MarksTyped(f, widget[f], form.marked[f])
      /\ form.marked \in [Fields -> SUBSET Nat]
      /\ form.disabled \subseteq Fields
      /\ form.error \subseteq Fields
  BY <1>3, <1>4, <1>5, ValidatedTyped
<1>7. disabled = form.disabled /\ marked = form.marked /\ error = form.error
  BY <1>4 DEF Init
<1> QED
  BY <1>1, <1>3, <1>6, <1>7 DEF TypeOK

LEMMA TypesStep == ASSUME FormInv, TypeOK, [Next]_vars PROVE TypeOK'
<1>1. ASSUME NEW f \in Fields, Click(f) PROVE TypeOK'
  <2>1. widget[f] \in BOOLEAN
    BY <1>1 DEF FormInv, Holds, Click
  <2>2. PICK w : w = ~widget[f]
    OBVIOUS
  <2>3. WidgetTyped(f, w)
    BY <1>1, <2>1, <2>2 DEF WidgetTyped, Click
  <2> QED
    BY <1>1, <2>2, <2>3, EditTypes DEF Click
<1>2. ASSUME NEW f \in Fields, NEW t, Kind(f) \notin {"Checkbox", "Dynamic"},
             t \in Typed[f] \cup Offered(f), Edit(f, t)
      PROVE  TypeOK'
  <2>1. t \in TextsOf(f)
    BY <1>2 DEF TextsOf
  <2>2. WidgetTyped(f, t)
    BY <1>2, <2>1 DEF WidgetTyped
  <2> QED
    BY <1>2, <2>2, EditTypes
<1>3. ASSUME NEW f \in Fields, TypeInto(f) \/ Choose(f) \/ Combine(f) PROVE TypeOK'
  BY <1>2, <1>3 DEF TypeInto, Choose, Combine
<1>4. ASSUME NEW f \in Fields, Kind(f) = "Dynamic"
      PROVE  widget[f] \in Seq(TextsOf(f)) /\ widget[f] # <<>> /\ marked[f] \subseteq DOMAIN widget[f]
  BY <1>4 DEF TypeOK, WidgetTyped, MarksTyped
<1>5. \A f \in Fields : "" \in TextsOf(f) /\ Typed[f] \subseteq TextsOf(f)
  BY DEF TextsOf
<1>6. ASSUME NEW f \in Fields, TypeRow(f) PROVE TypeOK'
  <2>1. Kind(f) = "Dynamic" /\ uci' = uci /\ disabled' = disabled
    BY <1>6 DEF TypeRow
  <2>2. PICK i \in DOMAIN widget[f], t \in Typed[f] :
          /\ widget' = [widget EXCEPT ![f] = [widget[f] EXCEPT ![i] = t]]
          /\ marked' = [marked EXCEPT ![f] = IF t \in Option(f).rejects THEN marked[f] \cup {i}
                                             ELSE marked[f] \ {i}]
          /\ error' \in {error, error \cup {f}, error \ {f}}
    BY <1>6 DEF TypeRow
  <2>3. PICK s : s = widget[f]
    OBVIOUS
  <2>4. PICK T : T = TextsOf(f)
    OBVIOUS
  <2>5. PICK rows : rows = [s EXCEPT ![i] = t]
    OBVIOUS
  <2>6. s \in Seq(T) /\ s # <<>> /\ i \in DOMAIN s /\ t \in T
    BY <1>4, <1>5, <2>1, <2>2, <2>3, <2>4
  <2>7. rows \in Seq(T) /\ DOMAIN rows = DOMAIN s
    BY <2>5, <2>6
  <2>8. rows # <<>>
    BY <2>6, <2>7
  <2>9. PICK marks : marks = IF t \in Option(f).rejects THEN marked[f] \cup {i}
                             ELSE marked[f] \ {i}
    OBVIOUS
  <2>10. marks \subseteq DOMAIN rows
    BY <1>4, <2>1, <2>3, <2>6, <2>7, <2>9
  <2>11. widget' = [widget EXCEPT ![f] = rows] /\ marked' = [marked EXCEPT ![f] = marks]
    BY <2>2, <2>3, <2>5, <2>9
  <2> QED
    BY <2>1, <2>2, <2>4, <2>7, <2>8, <2>10, <2>11, RowsTypes
<1>7. ASSUME NEW f \in Fields, NEW s, Kind(f) = "Dynamic", s \in Seq(TextsOf(f)), Redraw(f, s)
      PROVE  TypeOK'
  <2>1. PICK rows : rows = Rows(s)
    OBVIOUS
  <2>2. rows \in Seq(TextsOf(f)) /\ rows # <<>>
    BY <1>5, <1>7, <2>1, RowsTyped
  <2>3. /\ widget' = [widget EXCEPT ![f] = rows] /\ marked' = [marked EXCEPT ![f] = {}]
        /\ uci' = uci /\ disabled' = disabled /\ error' = error
    BY <1>7, <2>1 DEF Redraw
  <2>4. {} \subseteq DOMAIN rows
    OBVIOUS
  <2> QED
    BY <1>7, <2>2, <2>3, <2>4, RowsTypes
<1>8. ASSUME NEW f \in Fields, AddRow(f) PROVE TypeOK'
  <2>1. Kind(f) = "Dynamic"
    BY <1>8 DEF AddRow
  <2>2. PICK i \in DOMAIN widget[f] : Redraw(f, InsertAt(widget[f], i + 1, ""))
    BY <1>8 DEF AddRow
  <2>3. InsertAt(widget[f], i + 1, "") \in Seq(TextsOf(f))
    BY <1>4, <1>5, <2>1, RowsWithin
  <2> QED
    BY <1>7, <2>1, <2>2, <2>3
<1>9. ASSUME NEW f \in Fields, DeleteRow(f) PROVE TypeOK'
  <2>1. Kind(f) = "Dynamic"
    BY <1>9 DEF DeleteRow
  <2>2. PICK i \in DOMAIN widget[f] : Redraw(f, RemoveAt(widget[f], i))
    BY <1>9 DEF DeleteRow
  <2>3. RemoveAt(widget[f], i) \in Seq(TextsOf(f))
    BY <1>4, <1>5, <2>1, RowsWithin
  <2> QED
    BY <1>7, <2>1, <2>2, <2>3
<1>10. CASE Resave
  BY <1>10, AfterSaveProper, SavedTypes, DrawnTypes DEF Resave
<1>11. CASE Send
  <2>1. PICK form : form = Validated(Fields, widget, disabled, marked, error)
    OBVIOUS
  <2>2. CASE Render([f \in Fields |-> Reloaded(AfterSave(form.disabled)[f])])
    <3>1. PICK shown : shown = [f \in Fields |-> Reloaded(AfterSave(form.disabled)[f])]
      OBVIOUS
    <3>2. \A f \in Fields : Cached(f, shown[f])
      BY <3>1, ReloadedProper
    <3>3. \A f \in Fields : Staged(f, Undefined)
      BY DEF Staged, OptionTyped
    <3>4. \A f \in Fields : Staged(f, shown[f])
      BY <3>1, <3>3, SavedTypes DEF Reloaded
    <3> QED
      BY <2>2, <3>1, <3>2, <3>4, DrawnTypes
  <2>3. CASE Marks(form) /\ UNCHANGED <<uci, widget>>
    <3>1. disabled' = form.disabled /\ marked' = form.marked /\ error' = form.error
      BY <2>3 DEF Marks
    <3>2. /\ marked \in [Fields -> SUBSET Nat]
          /\ disabled \in SUBSET Fields /\ error \in SUBSET Fields
          /\ \A f \in Fields : WidgetTyped(f, widget[f])
      BY DEF TypeOK
    <3>3. /\ \A f \in Fields : MarksTyped(f, widget[f], form.marked[f])
          /\ form.marked \in [Fields -> SUBSET Nat]
          /\ form.disabled \subseteq Fields
          /\ form.error \subseteq Fields
      BY <2>1, <3>2, ValidatedTyped
    <3>4. uci' = uci /\ widget' = widget
      BY <2>3
    <3> QED
      BY <3>1, <3>3, <3>4 DEF TypeOK
  <2> QED
    BY <1>11, <2>1, <2>2, <2>3 DEF Send
<1>12. CASE Reset
  <2>1. PICK u \in Stored : Render(u)
    BY <1>12 DEF Reset
  <2>2. \A f \in Fields : Cached(f, u[f]) /\ Staged(f, u[f])
    BY ValuesAssumption DEF OptionTyped, StoredFor, Cached, Staged
  <2> QED
    BY <2>1, <2>2, DrawnTypes
<1>13. CASE Press
  <2>1. \A f \in Fields : Cached(f, uci[f]) /\ Staged(f, uci[f])
    BY DEF FormInv, TypeOK, Staged
  <2> QED
    BY <1>13, <2>1, DrawnTypes DEF Press
<1>14. CASE UNCHANGED vars
  BY <1>14 DEF TypeOK, vars
<1> QED
  BY <1>1, <1>3, <1>6, <1>8, <1>9, <1>10, <1>11, <1>12, <1>13, <1>14 DEF Next, EditSome

(* The cache and the widgets of a form stay within the texts of its fields *)
(* whatever is edited, saved, reset and drawn again: a list never loses    *)
(* its last row, the only empty text in the cache is the blank row drawn   *)
(* into a list that was emptied, and validation marks no row that is gone  *)
(* (L.cbi.AbstractValue and the widgets derived from it).                  *)
THEOREM FormTypeCorrect == Spec => []TypeOK
<1>1. Init => FormInv /\ TypeOK
  BY FormInvInit, TypesInit
<1>2. FormInv /\ TypeOK /\ [Next]_vars => (FormInv /\ TypeOK)'
  BY FormInvStep, TypesStep
<1> QED
  BY <1>1, <1>2, PTL DEF Spec

-----------------------------------------------------------------------------
(* SwitchVlan: the type of its state is its inductive invariant.           *)
Names  == {s.name : s \in ToSet(Switches)}
States == {"n", "u", "t"}
Rules(row) == [id : DOMAIN Value, port : [PortsOf(SwitchOf(row)) -> States]]

LEMMA LastIsMember ==
  ASSUME NEW X, NEW q \in Seq(X), q # <<>>
  PROVE  Last(q) \in ToSet(q)
<1>1. Len(q) \in DOMAIN q
  OBVIOUS
<1>2. Last(q) = q[Len(q)]
  BY DEF Last
<1> QED
  BY <1>1, <1>2 DEF ToSet

LEMMA SharedIsSwitch ==
  shared \in ToSet(Switches)
<1>1. PICK X : X = ToSet(Switches)
  OBVIOUS
<1>2. Switches \in Seq(X) /\ Switches # <<>>
  BY <1>1, SwitchesAssumption
<1>3. Last(Switches) \in ToSet(Switches)
  BY <1>2, LastIsMember
<1> QED
  BY <1>3 DEF shared

LEMMA RowHasSwitch ==
  ASSUME NEW row \in Row
  PROVE  SwitchOf(row) \in ToSet(Switches) /\ SwitchOf(row).name = row.device
<1>1. \E s \in ToSet(Switches) : s.name = row.device
  BY DEF Row
<1> QED
  BY <1>1 DEF SwitchOf

LEMMA SwitchIsFound ==
  ASSUME NEW row \in Row, NEW s \in ToSet(Switches), row.device = s.name
  PROVE  SwitchOf(row) = s
BY RowHasSwitch, SwitchesAssumption

LEMMA IdIsText ==
  ASSUME NEW row \in Row
  PROVE  IdOf(row) \in DOMAIN Value
<1>1. shared.vid \in {"vlan", "vid"}
  BY SharedIsSwitch, SwitchesAssumption
<1>2. row.vlan \in DOMAIN Value /\ row.vid \in DOMAIN Value
  BY DEF Row
<1>3. row[shared.vid] \in DOMAIN Value
  <2>1. CASE shared.vid = "vlan"
    BY <1>2, <2>1
  <2>2. CASE shared.vid = "vid"
    BY <1>2, <2>2
  <2> QED
    BY <1>1, <2>1, <2>2
<1> QED
  BY <1>2, <1>3 DEF IdOf

(* The state of a port is read from the first word that names it.          *)
ReadFrom(state, ws, p) ==
  \/ state = "n" /\ \A w \in ToSet(ws) : w.port # p
  \/ \E w \in ToSet(ws) : /\ w \in Words /\ w.port = p
                          /\ w.mark = "" => state = "u"
                          /\ w.mark # "" => state = w.mark

LEMMA PortIsRead ==
  ASSUME NEW ws \in Seq(Words), NEW row, row.ports = ws, NEW p
  PROVE  ReadFrom(PortOf(row, p), ws, p)
<1>1. PICK S : S = {w \in ToSet(ws) : w.port = p}
  OBVIOUS
<1>2. PICK words : words = Within(ws, S)
  OBVIOUS
<1>3. words \in Seq(Words \cap S) /\ ToSet(words) = ToSet(ws) \cap S
  BY <1>2, WithinKeeps
<1>4. PortOf(row, p) =
        IF words = <<>> THEN "n" ELSE IF words[1].mark = "" THEN "u" ELSE words[1].mark
  BY <1>1, <1>2 DEF PortOf
<1>5. CASE words # <<>>
  <2>1. 1 \in DOMAIN words /\ words[1] \in Words
    BY <1>3, <1>5
  <2>2. words[1] \in ToSet(words)
    BY <2>1 DEF ToSet
  <2>3. PICK w \in ToSet(ws) : w = words[1]
    BY <1>3, <2>2
  <2>4. w \in Words /\ w.port = p
    BY <1>1, <1>3, <2>1, <2>2, <2>3
  <2>5. PortOf(row, p) = IF w.mark = "" THEN "u" ELSE w.mark
    BY <1>4, <1>5, <2>3
  <2> QED
    BY <2>4, <2>5 DEF ReadFrom
<1>6. CASE words = <<>>
  <2>1. ToSet(words) = {}
    BY <1>6 DEF ToSet
  <2>2. \A w \in ToSet(ws) : w.port # p
    BY <1>1, <1>3, <2>1
  <2> QED
    BY <1>4, <1>6, <2>2 DEF ReadFrom
<1> QED
  BY <1>5, <1>6

LEMMA TablesTyped ==
  ASSUME NEW u, u \in [DOMAIN u -> Row]
  PROVE  /\ DOMAIN TablesOf(u) = DOMAIN u
         /\ \A sid \in DOMAIN u : TablesOf(u)[sid] \in Rules(u[sid])
<1>1. DOMAIN TablesOf(u) = DOMAIN u
  BY DEF TablesOf
<1>2. ASSUME NEW sid \in DOMAIN u PROVE TablesOf(u)[sid] \in Rules(u[sid])
  <2>1. PICK row \in Row : row = u[sid]
    OBVIOUS
  <2>2. TablesOf(u)[sid] = [id |-> IdOf(row), port |-> [p \in PortsOf(SwitchOf(row)) |-> PortOf(row, p)]]
    BY <2>1 DEF TablesOf
  <2>3. IdOf(row) \in DOMAIN Value
    BY IdIsText
  <2>4. \A p : PortOf(row, p) \in States
    <3>1. PICK ws \in Seq(Words) : ws = row.ports
      BY DEF Row
    <3> SUFFICES ASSUME NEW p PROVE PortOf(row, p) \in States
      OBVIOUS
    <3>2. \/ PortOf(row, p) = "n"
          \/ \E w \in Words : /\ w.mark = "" => PortOf(row, p) = "u"
                              /\ w.mark # "" => PortOf(row, p) = w.mark
      <4>1. PICK state : state = PortOf(row, p)
        OBVIOUS
      <4>2. ReadFrom(state, ws, p)
        BY <3>1, <4>1, PortIsRead
      <4> QED
        BY <4>1, <4>2 DEF ReadFrom
    <3>3. \A w \in Words : w.mark \in {"", "u", "t"}
      BY DEF Words
    <3> QED
      BY <3>2, <3>3 DEF States
  <2>5. [p \in PortsOf(SwitchOf(row)) |-> PortOf(row, p)] \in [PortsOf(SwitchOf(row)) -> States]
    BY <2>4
  <2> QED
    BY <2>1, <2>2, <2>3, <2>5 DEF Rules
<1> QED
  BY <1>1, <1>2

(* The ports that are written are those of the last switch that are not    *)
(* off, each once.                                                         *)
StateOf(fields, p) == IF p \in DOMAIN fields.port THEN fields.port[p] ELSE "undefined"
MarkOf(fields, p)  == IF StateOf(fields, p) = "u" THEN "" ELSE "t"

LEMMA PortsWritten ==
  ASSUME NEW fields
  PROVE  /\ NewPorts(fields) \in Seq(Words)
         /\ ToSet(NewPorts(fields)) =
              {[port |-> p, mark |-> MarkOf(fields, p)]
                 : p \in {q \in PortsOf(shared) : StateOf(fields, q) # "n"}}
<1>1. PICK k \in Nat : k = shared.ports
  BY SharedIsSwitch, SwitchesAssumption
<1>2. PICK all : all = [i \in 1 .. k |-> i - 1]
  OBVIOUS
<1>3. all \in Seq(Nat)
  BY <1>2
<1>4. ToSet(all) = PortsOf(shared)
  <2>1. \A p : p \in ToSet(all) <=> \E i \in 1 .. k : p = i - 1
    BY <1>2 DEF ToSet
  <2>2. ASSUME NEW p PROVE p \in 0 .. k - 1 <=> \E i \in 1 .. k : p = i - 1
    <3>1. ASSUME p \in 0 .. k - 1 PROVE \E i \in 1 .. k : p = i - 1
      <4>1. p + 1 \in 1 .. k /\ p = (p + 1) - 1
        BY <3>1
      <4> QED
        BY <4>1
    <3>2. ASSUME \E i \in 1 .. k : p = i - 1 PROVE p \in 0 .. k - 1
      BY <3>2
    <3> QED
      BY <3>1, <3>2
  <2>3. PortsOf(shared) = 0 .. k - 1
    BY <1>1 DEF PortsOf
  <2> QED
    BY <2>1, <2>2, <2>3
<1>5. PICK S : S = {p \in Nat : StateOf(fields, p) # "n"}
  OBVIOUS
<1>6. PICK chosen : chosen = Within(all, S)
  OBVIOUS
<1>7. chosen \in Seq(Nat \cap S) /\ ToSet(chosen) = ToSet(all) \cap S
  BY <1>3, <1>6, WithinKeeps
<1>8. NewPorts(fields) = [i \in DOMAIN chosen |-> [port |-> chosen[i], mark |-> MarkOf(fields, chosen[i])]]
  BY <1>1, <1>2, <1>5, <1>6 DEF NewPorts, StateOf, MarkOf
<1>9. \A p \in Nat : [port |-> p, mark |-> MarkOf(fields, p)] \in Words
  BY DEF MarkOf, Words
<1>10. DOMAIN chosen = 1 .. Len(chosen) /\ Len(chosen) \in Nat /\ \A i \in 1 .. Len(chosen) : chosen[i] \in Nat
  BY <1>7
<1>11. NewPorts(fields) \in Seq(Words)
  BY <1>8, <1>9, <1>10
<1>12. ASSUME NEW w
       PROVE  w \in ToSet(NewPorts(fields)) <=>
                \E p \in ToSet(chosen) : w = [port |-> p, mark |-> MarkOf(fields, p)]
  BY <1>8 DEF ToSet
<1>13. ToSet(chosen) = {q \in PortsOf(shared) : StateOf(fields, q) # "n"}
  <2>1. PortsOf(shared) \subseteq Nat
    BY <1>1 DEF PortsOf
  <2> QED
    BY <1>4, <1>5, <1>7, <2>1
<1> QED
  BY <1>11, <1>12, <1>13

(* A saved row keeps its switch, its ports are those of the fields, and it *)
(* shows the id of its field if that is a number.                          *)
LEMMA RowSaved ==
  ASSUME NEW row \in Row, NEW fields, fields \in Rules(row)
  PROVE  /\ SavedRow(row, fields) \in Row
         /\ SavedRow(row, fields).device = row.device
         /\ SavedRow(row, fields).ports = NewPorts(fields)
         /\ Alike(SwitchOf(row)) /\ Value[fields.id] # NaN => IdOf(SavedRow(row, fields)) = fields.id
<1>1. PICK ws \in Seq(Words) : ws = NewPorts(fields)
  BY PortsWritten
<1>2. PICK x : x = fields.id
  OBVIOUS
<1>3. x \in DOMAIN Value
  BY <1>2 DEF Rules
<1>4. PICK ported : ported = [row EXCEPT !.ports = ws]
  OBVIOUS
<1>5. /\ ported \in Row
      /\ ported.device = row.device /\ ported.ports = ws
      /\ ported.vlan = row.vlan /\ ported.vid = row.vid
  BY <1>4 DEF Row
<1>6. SwitchOf(row).vid \in {"vlan", "vid"} /\ shared.vid \in {"vlan", "vid"}
  BY RowHasSwitch, SharedIsSwitch, SwitchesAssumption
<1>7. PICK k \in {"vlan", "vid"} : k = SwitchOf(row).vid
  BY <1>6
<1>8. SavedRow(row, fields) = IF IdOf(row) = x THEN ported ELSE [ported EXCEPT ![k] = x]
  BY <1>1, <1>2, <1>4, <1>7 DEF SavedRow
<1>9. CASE IdOf(row) = x
  <2>1. IdOf(ported) = IdOf(row)
    <3>1. CASE shared.vid = "vlan"
      BY <1>5, <3>1 DEF IdOf
    <3>2. CASE shared.vid = "vid"
      BY <1>5, <3>2 DEF IdOf
    <3> QED
      BY <1>6, <3>1, <3>2
  <2> QED
    BY <1>1, <1>2, <1>5, <1>8, <1>9, <2>1
<1>10. CASE IdOf(row) # x
  <2>1. PICK new : new = [ported EXCEPT ![k] = x]
    OBVIOUS
  <2>2. new \in Row /\ new.device = ported.device /\ new.ports = ported.ports /\ new[k] = x
    <3>1. CASE k = "vlan"
      BY <1>3, <1>5, <2>1, <3>1 DEF Row
    <3>2. CASE k = "vid"
      BY <1>3, <1>5, <2>1, <3>2 DEF Row
    <3> QED
      BY <3>1, <3>2
  <2>3. ASSUME Alike(SwitchOf(row)), Value[x] # NaN PROVE IdOf(new) = x
    <3>1. shared.vid = k
      BY <1>7, <2>3 DEF Alike
    <3> QED
      BY <2>2, <2>3, <3>1 DEF IdOf
  <2> QED
    BY <1>1, <1>2, <1>5, <1>8, <1>10, <2>1, <2>2, <2>3
<1> QED
  BY <1>9, <1>10

LEMMA SavedTyped ==
  ASSUME SwitchTypeOK
  PROVE  /\ DOMAIN SavedVlans = DOMAIN vlans /\ SavedVlans \in [DOMAIN vlans -> Row]
         /\ \A sid \in DOMAIN vlans : /\ vlans[sid] \in Row /\ table[sid] \in Rules(vlans[sid])
                                      /\ SavedVlans[sid] = SavedRow(vlans[sid], table[sid])
<1>1. vlans \in [DOMAIN vlans -> Row]
  BY DEF SwitchTypeOK
<1>2. \A sid \in DOMAIN vlans : vlans[sid] \in Row /\ table[sid] \in Rules(vlans[sid])
  BY <1>1 DEF SwitchTypeOK, Rules, States
<1>3. SavedVlans = [sid \in DOMAIN vlans |-> SavedRow(vlans[sid], table[sid])]
  BY DEF SavedVlans
<1>4. \A sid \in DOMAIN vlans : SavedRow(vlans[sid], table[sid]) \in Row
  BY <1>2, RowSaved
<1> QED
  BY <1>2, <1>3, <1>4

(* What the fields of a row held is what they show once it is drawn again. *)
LEMMA PortsShown ==
  ASSUME NEW row \in Row, NEW fields, fields \in Rules(row), Alike(SwitchOf(row)),
         NEW again, again.ports = NewPorts(fields),
         NEW p \in PortsOf(SwitchOf(row))
  PROVE  PortOf(again, p) = fields.port[p]
<1>1. PICK ws \in Seq(Words) : ws = NewPorts(fields)
  BY PortsWritten
<1>2. PICK state : state = fields.port[p]
  OBVIOUS
<1>3. p \in DOMAIN fields.port /\ state \in States
  BY <1>2 DEF Rules
<1>4. StateOf(fields, p) = state /\ MarkOf(fields, p) = IF state = "u" THEN "" ELSE "t"
  BY <1>2, <1>3 DEF StateOf, MarkOf
<1>5. p \in PortsOf(shared)
  BY DEF Alike, PortsOf
<1>6. \A w : w \in ToSet(ws) <=>
        \E q \in PortsOf(shared) : StateOf(fields, q) # "n" /\ w = [port |-> q, mark |-> MarkOf(fields, q)]
  BY <1>1, PortsWritten
<1>7. ASSUME NEW w \in ToSet(ws), w.port = p PROVE state # "n" /\ w.mark = MarkOf(fields, p)
  <2>1. PICK q \in PortsOf(shared) : StateOf(fields, q) # "n" /\ w = [port |-> q, mark |-> MarkOf(fields, q)]
    BY <1>6
  <2>2. q = p
    BY <1>7, <2>1
  <2> QED
    BY <1>4, <2>1, <2>2
<1>8. CASE PortOf(again, p) = "n" /\ \A w \in ToSet(ws) : w.port # p
  <2>1. ASSUME state # "n" PROVE FALSE
    <3>1. [port |-> p, mark |-> MarkOf(fields, p)] \in ToSet(ws)
      BY <1>4, <1>5, <1>6, <2>1
    <3> QED
      BY <1>8, <3>1
  <2> QED
    BY <1>2, <1>8, <2>1
<1>9. ASSUME NEW w \in ToSet(ws), w.port = p,
             w.mark = "" => PortOf(again, p) = "u", w.mark # "" => PortOf(again, p) = w.mark
      PROVE  PortOf(again, p) = fields.port[p]
  <2>1. state # "n" /\ w.mark = IF state = "u" THEN "" ELSE "t"
    BY <1>4, <1>7, <1>9
  <2> QED
    BY <1>2, <1>3, <1>9, <2>1 DEF States
<1>10. \/ PortOf(again, p) = "n" /\ \A w \in ToSet(ws) : w.port # p
       \/ \E w \in ToSet(ws) : /\ w.port = p
                               /\ w.mark = "" => PortOf(again, p) = "u"
                               /\ w.mark # "" => PortOf(again, p) = w.mark
  <2>1. again.ports = ws
    BY <1>1
  <2>2. PICK read : read = PortOf(again, p)
    OBVIOUS
  <2>3. ReadFrom(read, ws, p)
    BY <2>1, <2>2, PortIsRead
  <2> QED
    BY <2>2, <2>3 DEF ReadFrom
<1> QED
  BY <1>8, <1>9, <1>10

LEMMA SavedShown ==
  ASSUME SwitchTypeOK, NEW sid \in DOMAIN vlans, Alike(SwitchOf(vlans[sid]))
  PROVE  /\ TablesOf(SavedVlans)[sid].port = table[sid].port
         /\ Value[table[sid].id] # NaN => TablesOf(SavedVlans)[sid].id = table[sid].id
<1>1. PICK row \in Row : row = vlans[sid]
  BY SavedTyped
<1>2. PICK fields : fields = table[sid]
  OBVIOUS
<1>3. PICK again : again = SavedRow(row, fields)
  OBVIOUS
<1>4. fields \in Rules(row) /\ SavedVlans[sid] = again /\ sid \in DOMAIN SavedVlans
  BY <1>1, <1>2, <1>3, SavedTyped
<1>5. again \in Row /\ again.device = row.device /\ again.ports = NewPorts(fields)
  BY <1>3, <1>4, RowSaved
<1>6. PICK s \in ToSet(Switches) : s = SwitchOf(row)
  BY RowHasSwitch
<1>7. SwitchOf(again) = s
  <2>1. s.name = again.device
    BY <1>5, <1>6, RowHasSwitch
  <2> QED
    BY <1>5, <2>1, SwitchIsFound
<1>8. TablesOf(SavedVlans)[sid] =
        [id |-> IdOf(again), port |-> [p \in PortsOf(s) |-> PortOf(again, p)]]
  BY <1>4, <1>7 DEF TablesOf
<1>9. \A p \in PortsOf(s) : PortOf(again, p) = fields.port[p]
  BY <1>1, <1>4, <1>5, <1>6, PortsShown
<1>10. fields.port = [p \in PortsOf(s) |-> fields.port[p]]
  BY <1>4, <1>6 DEF Rules
<1>11. TablesOf(SavedVlans)[sid].port = table[sid].port
  BY <1>2, <1>8, <1>9, <1>10
<1>12. Value[fields.id] # NaN => IdOf(again) = fields.id
  BY <1>1, <1>3, <1>4, RowSaved
<1> QED
  BY <1>2, <1>8, <1>11, <1>12

LEMMA DrawnTyped ==
  ASSUME NEW u, u \in [DOMAIN u -> Row], DOMAIN u \subseteq VlanSid, DrawTables(u),
         server' \in [DOMAIN server' -> Row], DOMAIN server' \subseteq VlanSid,
         edits' \in 0 .. MaxEdits, steps' \in 0 .. MaxSteps
  PROVE  SwitchTypeOK'
<1>1. vlans' = u /\ table' = TablesOf(u)
  BY DEF DrawTables
<1>2. DOMAIN table' = DOMAIN u /\ \A sid \in DOMAIN u : table'[sid] \in Rules(u[sid])
  BY <1>1, TablesTyped
<1> QED
  BY <1>1, <1>2 DEF SwitchTypeOK, Rules, States

LEMMA FieldsTyped ==
  ASSUME SwitchTypeOK, NEW sid \in DOMAIN vlans, NEW fields, fields \in Rules(vlans[sid]),
         EditFields(sid, fields)
  PROVE  SwitchTypeOK'
<1>1. /\ table' = [table EXCEPT ![sid] = fields]
      /\ vlans' = vlans /\ server' = server /\ steps' = steps
      /\ edits < MaxEdits /\ edits' = edits + 1
  BY DEF EditFields
<1>2. DOMAIN table' = DOMAIN vlans /\ \A t \in DOMAIN vlans : table'[t] \in Rules(vlans[t])
  BY <1>1, SavedTyped DEF SwitchTypeOK
<1>3. edits' \in 0 .. MaxEdits
  <2>1. MaxEdits \in Nat
    BY SwitchesAssumption
  <2>2. edits \in 0 .. MaxEdits
    BY DEF SwitchTypeOK
  <2> QED
    BY <1>1, <2>1, <2>2
<1> QED
  BY <1>1, <1>2, <1>3 DEF SwitchTypeOK, Rules, States

LEMMA SwitchTypeInit == SwitchInit => SwitchTypeOK
<1> SUFFICES ASSUME SwitchInit PROVE SwitchTypeOK
  OBVIOUS
<1>1. server \in [DOMAIN server -> Row] /\ DOMAIN server \subseteq VlanSid
  BY SwitchesAssumption DEF SwitchInit
<1>2. DOMAIN table = DOMAIN server /\ \A sid \in DOMAIN server : table[sid] \in Rules(server[sid])
  BY <1>1, TablesTyped DEF SwitchInit
<1>3. vlans = server /\ edits = 0 /\ steps = 0
  BY DEF SwitchInit
<1>4. edits \in 0 .. MaxEdits /\ steps \in 0 .. MaxSteps
  <2>1. MaxEdits \in Nat /\ MaxSteps \in Nat
    BY SwitchesAssumption
  <2> QED
    BY <1>3, <2>1
<1> QED
  BY <1>1, <1>2, <1>3, <1>4 DEF SwitchTypeOK, Rules, States

(* What "Add VLAN entry" makes: the saved rows, and perhaps a new one.     *)
NewRow(s, j) == [device |-> s.name, vlan |-> Numeral[j], vid |-> "", ports |-> <<>>]
WithRow(new, row) == [sid \in DOMAIN vlans \cup {new} |-> IF sid # new THEN SavedVlans[sid] ELSE row]

LEMMA AddedRow ==
  ASSUME SwitchTypeOK, NEW s \in ToSet(Switches), AddVlan(s)
  PROVE  \/ DrawTables(SavedVlans)
         \/ \E new \in VlanSid \ DOMAIN vlans, j \in Free(s) : DrawTables(WithRow(new, NewRow(s, j)))
<1>1. CASE Free(s) = {}
  BY <1>1 DEF AddVlan
<1>2. CASE Free(s) # {}
  <2>1. PICK new \in VlanSid \ DOMAIN vlans :
          DrawTables(WithRow(new, NewRow(s, CHOOSE i \in Free(s) : \A k \in Free(s) : i <= k)))
    BY <1>2, Zenon DEF AddVlan, WithRow, NewRow
  <2>2. Free(s) \subseteq Nat
    <3>1. shared.vlans \in Nat
      BY SharedIsSwitch, SwitchesAssumption
    <3> QED
      BY <3>1 DEF Free
  <2>3. \E i \in Free(s) : \A k \in Free(s) : i <= k
    BY <1>2, <2>2, LeastNumber
  <2>4. (CHOOSE i \in Free(s) : \A k \in Free(s) : i <= k) \in Free(s)
    BY <2>3
  <2> QED
    BY <2>1, <2>4
<1> QED
  BY <1>1, <1>2

LEMMA NewRowTyped ==
  ASSUME NEW s \in ToSet(Switches), NEW j \in Free(s)
  PROVE  NewRow(s, j) \in Row /\ j \in 1 .. shared.vlans - 1 /\ Value[Numeral[j]] = j
<1>1. j \in 1 .. shared.vlans - 1
  BY DEF Free
<1>2. Numeral[j] \in DOMAIN Value /\ Value[Numeral[j]] = j /\ "" \in DOMAIN Value
  BY <1>1, SwitchesAssumption
<1>3. <<>> \in Seq(Words)
  OBVIOUS
<1>4. s.name \in {t.name : t \in ToSet(Switches)}
  OBVIOUS
<1>5. NewRow(s, j) \in Row
  BY <1>2, <1>3, <1>4 DEF NewRow, Row
<1> QED
  BY <1>1, <1>2, <1>5

LEMMA WithRowTyped ==
  ASSUME SwitchTypeOK, NEW new \in VlanSid \ DOMAIN vlans, NEW row \in Row
  PROVE  /\ WithRow(new, row) \in [DOMAIN vlans \cup {new} -> Row]
         /\ DOMAIN WithRow(new, row) = DOMAIN vlans \cup {new}
         /\ DOMAIN WithRow(new, row) \subseteq VlanSid
         /\ WithRow(new, row)[new] = row
         /\ \A sid \in DOMAIN vlans : WithRow(new, row)[sid] = SavedVlans[sid]
<1>1. \A sid \in DOMAIN vlans : SavedVlans[sid] \in Row
  BY SavedTyped
<1>2. DOMAIN vlans \subseteq VlanSid
  BY DEF SwitchTypeOK
<1> QED
  BY <1>1, <1>2 DEF WithRow

LEMMA PressTyped ==
  ASSUME SwitchTypeOK, PressButton
  PROVE  edits' \in 0 .. MaxEdits /\ steps' \in 0 .. MaxSteps
<1>1. MaxSteps \in Nat
  BY SwitchesAssumption
<1>2. steps \in 0 .. MaxSteps /\ edits \in 0 .. MaxEdits
  BY DEF SwitchTypeOK
<1>3. steps < MaxSteps /\ steps' = steps + 1 /\ edits' = edits
  BY DEF PressButton
<1> QED
  BY <1>1, <1>2, <1>3

LEMMA SwitchTypeStep == SwitchTypeOK /\ [SwitchNext]_switchvars => SwitchTypeOK'
<1> SUFFICES ASSUME SwitchTypeOK, [SwitchNext]_switchvars PROVE SwitchTypeOK'
  OBVIOUS
<1>0. /\ vlans \in [DOMAIN vlans -> Row] /\ DOMAIN vlans \subseteq VlanSid
      /\ server \in [DOMAIN server -> Row] /\ DOMAIN server \subseteq VlanSid
  BY DEF SwitchTypeOK
<1>1. SavedVlans \in [DOMAIN SavedVlans -> Row] /\ DOMAIN SavedVlans \subseteq VlanSid
  BY <1>0, SavedTyped
<1>2. ASSUME NEW sid \in DOMAIN vlans, EditId(sid) PROVE SwitchTypeOK'
  <2>1. PICK t \in TypedIds : EditFields(sid, [table[sid] EXCEPT !.id = t])
    BY <1>2 DEF EditId
  <2>2. t \in DOMAIN Value
    BY SwitchesAssumption
  <2>3. table[sid] \in Rules(vlans[sid])
    BY SavedTyped
  <2>4. [table[sid] EXCEPT !.id = t] \in Rules(vlans[sid])
    BY <2>2, <2>3 DEF Rules
  <2> QED
    BY <2>1, <2>4, FieldsTyped
<1>3. ASSUME NEW sid \in DOMAIN vlans, EditPort(sid) PROVE SwitchTypeOK'
  <2>1. PICK p \in DOMAIN table[sid].port, state \in {"n", "u", "t"} :
          EditFields(sid, [table[sid] EXCEPT !.port[p] = state])
    BY <1>3 DEF EditPort
  <2>2. table[sid] \in Rules(vlans[sid]) /\ state \in States
    BY SavedTyped DEF States
  <2>3. [table[sid] EXCEPT !.port[p] = state] \in Rules(vlans[sid])
    BY <2>1, <2>2 DEF Rules
  <2> QED
    BY <2>1, <2>3, FieldsTyped
<1>4. ASSUME NEW sid \in DOMAIN vlans, RemoveVlan(sid) PROVE SwitchTypeOK'
  <2>1. PICK u : u = [i \in DOMAIN vlans \ {sid} |-> SavedVlans[i]]
    OBVIOUS
  <2>2. u \in [DOMAIN u -> Row] /\ DOMAIN u \subseteq VlanSid
    BY <1>0, <2>1, SavedTyped
  <2>3. DrawTables(u) /\ server' = server /\ PressButton
    BY <1>4, <2>1 DEF RemoveVlan
  <2> QED
    BY <1>0, <2>2, <2>3, PressTyped, DrawnTyped
<1>5. ASSUME NEW s \in ToSet(Switches), AddVlan(s) PROVE SwitchTypeOK'
  <2>1. server' = server /\ PressButton
    BY <1>5 DEF AddVlan
  <2>2. CASE DrawTables(SavedVlans)
    BY <1>0, <1>1, <2>1, <2>2, PressTyped, DrawnTyped
  <2>3. CASE \E new \in VlanSid \ DOMAIN vlans, j \in Free(s) : DrawTables(WithRow(new, NewRow(s, j)))
    <3>1. PICK new \in VlanSid \ DOMAIN vlans, j \in Free(s) : DrawTables(WithRow(new, NewRow(s, j)))
      BY <2>3
    <3>2. PICK row \in Row : row = NewRow(s, j)
      BY NewRowTyped
    <3>3. PICK u : u = WithRow(new, row)
      OBVIOUS
    <3>4. u \in [DOMAIN u -> Row] /\ DOMAIN u \subseteq VlanSid
      BY <3>3, WithRowTyped
    <3> QED
      BY <1>0, <2>1, <3>1, <3>2, <3>3, <3>4, PressTyped, DrawnTyped
  <2> QED
    BY <1>5, <2>2, <2>3, AddedRow
<1>6. CASE SendVlans
  <2>1. PressButton /\ DrawTables(SavedVlans) /\ server' = SavedVlans
    BY <1>6 DEF SendVlans
  <2> QED
    BY <1>1, <2>1, PressTyped, DrawnTyped
<1>7. CASE SendElsewhere
  <2>1. PressButton /\ DrawTables(vlans) /\ server' = vlans
    BY <1>7 DEF SendElsewhere
  <2> QED
    BY <1>0, <2>1, PressTyped, DrawnTyped
<1>8. CASE ResetVlans
  <2>1. PressButton /\ DrawTables(server) /\ server' = server
    BY <1>8 DEF ResetVlans
  <2> QED
    BY <1>0, <2>1, PressTyped, DrawnTyped
<1>9. CASE UNCHANGED switchvars
  BY <1>9 DEF switchvars, SwitchTypeOK
<1> QED
  BY <1>2, <1>3, <1>4, <1>5, <1>6, <1>7, <1>8, <1>9 DEF SwitchNext

(* The tables hold what they are drawn with, of the kinds their fields     *)
(* have, and the cache and the server hold rows.                           *)
THEOREM SwitchTyped == SwitchSpec => []SwitchTypeOK
<1>1. SwitchInit => SwitchTypeOK
  BY SwitchTypeInit
<1>2. SwitchTypeOK /\ [SwitchNext]_switchvars => SwitchTypeOK'
  BY SwitchTypeStep
<1> QED
  BY <1>1, <1>2, PTL DEF SwitchSpec

(* For any switches, any number of ports and any rows: whatever was        *)
(* edited, a table that is saved and drawn again shows what it showed, on  *)
(* each switch that is like the last one of the page.                      *)
THEOREM TablesSurviveSave == SwitchSpec => []VlansSavedAsShown
<1>1. SwitchTypeOK => VlansSavedAsShown
  <2> SUFFICES ASSUME SwitchTypeOK, NEW s \in ToSet(Switches), Alike(s), NEW sid \in VlanRows(vlans, s)
               PROVE  /\ TablesOf(SavedVlans)[sid].port = table[sid].port
                      /\ Value[table[sid].id] # NaN => TablesOf(SavedVlans)[sid].id = table[sid].id
    BY DEF VlansSavedAsShown
  <2>1. sid \in DOMAIN vlans /\ vlans[sid].device = s.name
    BY DEF VlanRows
  <2>2. SwitchOf(vlans[sid]) = s
    BY <2>1, SavedTyped, SwitchIsFound
  <2> QED
    BY <2>1, <2>2, SavedShown
<1> QED
  BY <1>1, SwitchTyped, PTL

LEMMA IdIsVlan ==
  ASSUME NEW row, shared.vid = "vlan"
  PROVE  IdOf(row) = row.vlan
BY DEF IdOf

LEMMA SoundAfterSave ==
  ASSUME SwitchTypeOK, NEW s \in ToSet(Switches), Alike(s), s.vid = "vlan",
         SoundIds(s, vlans, table), NEW a \in VlanRows(vlans, s)
  PROVE  /\ a \in DOMAIN vlans /\ SavedVlans[a].device = s.name
         /\ IdOf(SavedVlans[a]) = table[a].id
         /\ SavedVlans[a].vlan = table[a].id
<1>1. a \in DOMAIN vlans /\ vlans[a].device = s.name
  BY DEF VlanRows
<1>2. SwitchOf(vlans[a]) = s
  BY <1>1, SavedTyped, SwitchIsFound
<1>3. PICK n \in Nat : n = s.vlans
  BY SwitchesAssumption
<1>4. Value[table[a].id] # NaN
  BY <1>3 DEF SoundIds, NaN
<1>5. TablesOf(SavedVlans)[a].id = table[a].id
  BY <1>1, <1>2, <1>4, SavedShown
<1>6. TablesOf(SavedVlans)[a].id = IdOf(SavedVlans[a])
  BY <1>1, SavedTyped DEF TablesOf
<1>7. SavedVlans[a].device = s.name
  BY <1>1, SavedTyped, RowSaved
<1>8. SavedVlans[a].vlan = IdOf(SavedVlans[a])
  BY IdIsVlan DEF Alike
<1> QED
  BY <1>1, <1>5, <1>6, <1>7, <1>8

(* "Add VLAN entry" never makes a table wrong that was right, whatever was *)
(* typed before it and not saved: the id it picks is in the range of the   *)
(* switch and no other row of it shows the same number, as long as the     *)
(* numbers it shows are written as the page writes them.                   *)
THEOREM AddedVlanIsValid == SwitchSpec => AddedIsValid
<1>1. ASSUME SwitchTypeOK, NEW s \in ToSet(Switches), AddVlan(s), Alike(s), s.vid = "vlan",
             PlainIds(s), SoundIds(s, vlans, table)
      PROVE  SoundIds(s, vlans', table')
  <2>0. DOMAIN SavedVlans = DOMAIN vlans
    BY <1>1, SavedTyped
  <2>1. ASSUME NEW a \in DOMAIN vlans, SavedVlans[a].device = s.name
        PROVE  a \in VlanRows(vlans, s)
    BY <1>1, <2>1, SavedTyped, RowSaved DEF VlanRows
  <2>2. \A a \in VlanRows(vlans, s) :
          /\ IdOf(SavedVlans[a]) = table[a].id /\ SavedVlans[a].vlan = table[a].id
          /\ Value[table[a].id] \in 1 .. s.vlans - 1
          /\ \A b \in VlanRows(vlans, s) \ {a} : Value[table[a].id] # Value[table[b].id]
    BY <1>1, SoundAfterSave DEF SoundIds
  <2>3. CASE DrawTables(SavedVlans)
    <3>1. vlans' = SavedVlans /\ table' = TablesOf(SavedVlans)
      BY <2>3 DEF DrawTables
    <3>2. \A a \in VlanRows(vlans', s) : a \in VlanRows(vlans, s) /\ table'[a].id = table[a].id
      BY <2>0, <2>1, <2>2, <3>1 DEF VlanRows, TablesOf
    <3> QED
      BY <2>2, <3>2 DEF SoundIds
  <2>4. CASE \E new \in VlanSid \ DOMAIN vlans, j \in Free(s) : DrawTables(WithRow(new, NewRow(s, j)))
    <3>1. PICK new \in VlanSid \ DOMAIN vlans, j \in Free(s) : DrawTables(WithRow(new, NewRow(s, j)))
      BY <2>4
    <3>2. PICK row \in Row : row = NewRow(s, j)
      BY NewRowTyped
    <3>3. PICK u : u = WithRow(new, row)
      OBVIOUS
    <3>4. vlans' = u /\ table' = TablesOf(u)
      BY <3>1, <3>2, <3>3 DEF DrawTables
    <3>5. /\ DOMAIN u = DOMAIN vlans \cup {new} /\ u[new] = row
          /\ \A a \in DOMAIN vlans : u[a] = SavedVlans[a]
      <4>1. SwitchTypeOK
        BY <1>1
      <4>2. /\ DOMAIN WithRow(new, row) = DOMAIN vlans \cup {new}
            /\ WithRow(new, row)[new] = row
            /\ \A sid \in DOMAIN vlans : WithRow(new, row)[sid] = SavedVlans[sid]
        BY <4>1, new \in VlanSid \ DOMAIN vlans, row \in Row, WithRowTyped
      <4> QED
        BY <3>3, <4>2
    <3>6. \A a \in DOMAIN u : table'[a].id = IdOf(u[a])
      BY <3>4 DEF TablesOf
    <3>7. table'[new].id = Numeral[j]
      <4>1. shared.vid = "vlan"
        BY <1>1 DEF Alike
      <4>2. IdOf(row) = row.vlan
        BY <4>1, IdIsVlan
      <4>3. row.vlan = Numeral[j]
        BY <3>2 DEF NewRow
      <4> QED
        BY <3>5, <3>6, <4>2, <4>3
    <3>8. ASSUME NEW a \in VlanRows(vlans', s), a # new
          PROVE  a \in VlanRows(vlans, s) /\ table'[a].id = table[a].id
      <4>1. a \in DOMAIN vlans /\ u[a].device = s.name
        BY <3>4, <3>5, <3>8 DEF VlanRows
      <4>2. a \in VlanRows(vlans, s)
        BY <2>1, <3>5, <4>1
      <4> QED
        BY <2>2, <3>5, <3>6, <4>1, <4>2
    <3>9. ASSUME NEW a \in VlanRows(vlans', s), a # new
          PROVE  Value[table'[a].id] # Value[Numeral[j]]
      <4>1. Numeral[j] \notin Used(s)
        BY DEF Free
      <4>2. a \in VlanRows(vlans, s) /\ table'[a].id = table[a].id
            /\ SavedVlans[a].vlan = table[a].id
        BY <2>2, <3>8, <3>9
      <4>3. table[a].id # Numeral[j]
        BY <4>1, <4>2 DEF Used
      <4>4. PICK k \in 1 .. s.vlans - 1 : table[a].id = Numeral[k]
        BY <1>1, <4>2 DEF PlainIds
      <4>5. Value[Numeral[k]] = k
        <5>1. s.vlans = shared.vlans
          BY <1>1 DEF Alike
        <5> QED
          BY <5>1, SwitchesAssumption
      <4>6. Value[Numeral[j]] = j
        BY NewRowTyped
      <4> QED
        BY <4>2, <4>3, <4>4, <4>5, <4>6
    <3>10. Value[Numeral[j]] \in 1 .. s.vlans - 1
      BY <1>1, NewRowTyped DEF Alike
    <3>11. ASSUME NEW a \in VlanRows(vlans', s)
           PROVE  /\ Value[table'[a].id] \in 1 .. s.vlans - 1
                  /\ \A b \in VlanRows(vlans', s) \ {a} :
                       Value[table'[a].id] # Value[table'[b].id]
      <4>1. CASE a = new
        BY <3>7, <3>9, <3>10, <4>1
      <4>2. CASE a # new
        <5>1. a \in VlanRows(vlans, s) /\ table'[a].id = table[a].id
          BY <3>8, <4>2
        <5>2. ASSUME NEW b \in VlanRows(vlans', s) \ {a}
              PROVE  Value[table'[a].id] # Value[table'[b].id]
          <6>1. CASE b = new
            BY <3>7, <3>9, <4>2, <6>1
          <6>2. CASE b # new
            BY <2>2, <3>8, <5>1, <6>2
          <6> QED
            BY <6>1, <6>2
        <5> QED
          BY <2>2, <5>1, <5>2
      <4> QED
        BY <4>1, <4>2
    <3> QED
      BY <3>11 DEF SoundIds
  <2> QED
    BY <1>1, <2>3, <2>4, AddedRow
<1>2. SwitchTypeOK => [AddKeepsSound]_switchvars
  BY <1>1 DEF AddKeepsSound
<1> QED
  BY <1>2, SwitchTyped, PTL DEF AddedIsValid

-----------------------------------------------------------------------------
(* NetDevices: what an interface has, devices, in its option or in the     *)
(* wifi sections, and the two loops of setDevices().                       *)
Opts == [ifname : Seq(known), network : [Wifi -> SUBSET Net]]

LEMMA WifiIsNamed ==
  ASSUME NEW d \in Device
  PROVE  /\ KindOf(d) = "wifi" <=> \E w \in Wifi : d = WifiDev(w)
         /\ \A w \in Wifi : KindOf(d) = "wifi" /\ d[2] = w <=> d = WifiDev(w)
         /\ KindOf(d) = "bridge" <=> \E n \in Net : d = BridgeOf(n)
         /\ KindOf(d) = "wifi" => d[2] \in Wifi
         /\ KindOf(d) = "bridge" => d[2] \in Net /\ d = BridgeOf(d[2])
         /\ d # NoDevice
<1>1. /\ \A p : PortDev(p)[1] = "ethernet" /\ PortDev(p)[2] = p
      /\ \A w : WifiDev(w)[1] = "wifi" /\ WifiDev(w)[2] = w
      /\ \A n : BridgeOf(n)[1] = "bridge" /\ BridgeOf(n)[2] = n
      /\ NoDevice[1] = "none"
  BY DEF PortDev, WifiDev, BridgeOf, NoDevice
<1>2. \/ \E p \in Port : d = PortDev(p)
      \/ \E w \in Wifi : d = WifiDev(w)
      \/ \E n \in Net : d = BridgeOf(n)
  BY DEF Device
<1>3. CASE \E p \in Port : d = PortDev(p)
  BY <1>1, <1>3 DEF KindOf
<1>4. CASE \E w \in Wifi : d = WifiDev(w)
  BY <1>1, <1>4 DEF KindOf
<1>5. CASE \E n \in Net : d = BridgeOf(n)
  BY <1>1, <1>5 DEF KindOf
<1> QED
  BY <1>2, <1>3, <1>4, <1>5

LEMMA DetachedStep ==
  ASSUME known \subseteq Device, NEW opts \in Opts, NEW d \in Device, NEW n \in Net
  PROVE  /\ Detached(opts, d, n) \in Opts
         /\ ToSet(Detached(opts, d, n).ifname) = ToSet(opts.ifname) \ {d}
         /\ \A w \in Wifi : \A m : m \in Detached(opts, d, n).network[w] <=>
                                 m \in opts.network[w] /\ ~(m = n /\ d = WifiDev(w))
<1>1. PICK s \in Seq(known) : s = opts.ifname
  BY DEF Opts
<1>2. PICK nw \in [Wifi -> SUBSET Net] : nw = opts.network
  BY DEF Opts
<1>3. PICK t : t = Within(s, ToSet(s) \ {d})
  OBVIOUS
<1>4. t \in Seq(known) /\ ToSet(t) = ToSet(s) \ {d}
  <2>1. t \in Seq(known \cap (ToSet(s) \ {d})) /\ ToSet(t) = ToSet(s) \cap (ToSet(s) \ {d})
    BY <1>3, WithinKeeps
  <2>2. t \in Seq(known)
    BY <1>3, WithinSubset
  <2> QED
    BY <2>1, <2>2
<1>5. PICK new : new = IF KindOf(d) = "wifi" THEN [nw EXCEPT ![d[2]] = nw[d[2]] \ {n}] ELSE nw
  OBVIOUS
<1>6. new \in [Wifi -> SUBSET Net]
  BY <1>5, WifiIsNamed
<1>7. \A w \in Wifi : \A m : m \in new[w] <=> m \in nw[w] /\ ~(m = n /\ d = WifiDev(w))
  <2>1. CASE KindOf(d) = "wifi"
    <3>1. new = [nw EXCEPT ![d[2]] = nw[d[2]] \ {n}]
      BY <1>5, <2>1
    <3>2. \A w \in Wifi : d[2] = w <=> d = WifiDev(w)
      BY <2>1, WifiIsNamed
    <3> QED
      BY <3>1, <3>2
  <2>2. CASE KindOf(d) # "wifi"
    <3>1. new = nw
      BY <1>5, <2>2
    <3>2. \A w \in Wifi : d # WifiDev(w)
      BY <2>2, WifiIsNamed
    <3> QED
      BY <3>1, <3>2
  <2> QED
    BY <2>1, <2>2
<1>8. opts = [ifname |-> s, network |-> nw]
  BY <1>1, <1>2 DEF Opts
<1>9. Detached(opts, d, n) = [ifname |-> t, network |-> new]
  <2>1. CASE KindOf(d) = "wifi"
    <3>1. new = [nw EXCEPT ![d[2]] = nw[d[2]] \ {n}]
      BY <1>5, <2>1
    <3> QED
      BY <1>3, <1>8, <2>1, <3>1 DEF Detached
  <2>2. CASE KindOf(d) # "wifi"
    <3>1. new = nw
      BY <1>5, <2>2
    <3> QED
      BY <1>3, <1>8, <2>2, <3>1 DEF Detached
  <2> QED
    BY <2>1, <2>2
<1> QED
  BY <1>1, <1>2, <1>4, <1>6, <1>7, <1>9 DEF Opts

LEMMA AttachedStep ==
  ASSUME known \subseteq Device, NEW opts \in Opts, NEW d \in known, NEW n \in Net
  PROVE  /\ Attached(opts, d, n) \in Opts
         /\ ToSet(Attached(opts, d, n).ifname)
              = ToSet(opts.ifname) \cup (IF KindOf(d) = "wifi" THEN {} ELSE {d})
         /\ \A w \in Wifi : \A m : m \in Attached(opts, d, n).network[w] <=>
                                 m \in opts.network[w] \/ (m = n /\ d = WifiDev(w))
<1>1. PICK s \in Seq(known) : s = opts.ifname
  BY DEF Opts
<1>2. PICK nw \in [Wifi -> SUBSET Net] : nw = opts.network
  BY DEF Opts
<1>3. opts = [ifname |-> s, network |-> nw] /\ d \in Device
  BY <1>1, <1>2 DEF Opts
<1>4. CASE KindOf(d) = "wifi"
  <2>1. PICK new : new = [nw EXCEPT ![d[2]] = nw[d[2]] \cup {n}]
    OBVIOUS
  <2>2. new \in [Wifi -> SUBSET Net]
    BY <1>3, <1>4, <2>1, WifiIsNamed
  <2>3. \A w \in Wifi : d[2] = w <=> d = WifiDev(w)
    BY <1>3, <1>4, WifiIsNamed
  <2>4. \A w \in Wifi : \A m : m \in new[w] <=> m \in nw[w] \/ (m = n /\ d = WifiDev(w))
    BY <2>1, <2>3
  <2>5. Attached(opts, d, n) = [ifname |-> s, network |-> new]
    BY <1>3, <1>4, <2>1 DEF Attached
  <2> QED
    BY <1>1, <1>2, <1>4, <2>2, <2>4, <2>5 DEF Opts
<1>5. CASE KindOf(d) # "wifi"
  <2>1. PICK t : t = IF d \notin ToSet(s) THEN Append(s, d) ELSE s
    OBVIOUS
  <2>2. t \in Seq(known) /\ ToSet(t) = ToSet(s) \cup {d}
    <3>1. CASE d \notin ToSet(s)
      <4>1. t = Append(s, d)
        BY <2>1, <3>1
      <4>2. \A x : x \in ToSet(t) <=> x \in ToSet(s) \/ x = d
        BY <4>1, MemberAppended
      <4> QED
        BY <4>1, <4>2
    <3>2. CASE d \in ToSet(s)
      BY <2>1, <3>2
    <3> QED
      BY <3>1, <3>2
  <2>3. Attached(opts, d, n) = [ifname |-> t, network |-> nw]
    BY <1>3, <1>5, <2>1 DEF Attached
  <2>4. \A w \in Wifi : d # WifiDev(w)
    BY <1>3, <1>5, WifiIsNamed
  <2> QED
    BY <1>1, <1>2, <1>5, <2>2, <2>3, <2>4 DEF Opts
<1> QED
  BY <1>4, <1>5

(* The loops, one step at a time.                                          *)
Detaches(r, opts, old, n, m) ==
  r = [i \in 0 .. m |-> IF i = 0 THEN opts ELSE Detached(r[i - 1], old[i], n)]

DetachLoop(opts, old, n, m) == CHOOSE r : Detaches(r, opts, old, n, m)

LEMMA DetachIsLoop ==
  ASSUME NEW opts, NEW old, NEW n
  PROVE  AllDetached(opts, old, n) = DetachLoop(opts, old, n, Len(old))[Len(old)]
BY DEF AllDetached, DetachLoop, Detaches

LEMMA DetachStarts ==
  ASSUME NEW opts, NEW old, NEW n, NEW m \in Nat
  PROVE  \E r : Detaches(r, opts, old, n, m)
<1> DEFINE N == {k \in Nat : \E r : Detaches(r, opts, old, n, k)}
<1>1. 0 \in N
  <2> DEFINE r == [i \in 0 .. 0 |-> opts]
  <2>1. Detaches(r, opts, old, n, 0)
    BY DEF Detaches
  <2> HIDE DEF r
  <2> QED
    BY <2>1
<1>2. ASSUME NEW k \in Nat, k \in N PROVE k + 1 \in N
  <2>1. PICK f : Detaches(f, opts, old, n, k)
    BY <1>2
  <2> DEFINE new == [i \in 0 .. k + 1 |-> IF i <= k THEN f[i] ELSE Detached(f[k], old[k + 1], n)]
  <2>2. ASSUME NEW i \in 0 .. k + 1
        PROVE  new[i] = IF i = 0 THEN opts ELSE Detached(new[i - 1], old[i], n)
    <3>1. CASE i = k + 1
      <4>1. new[i] = Detached(f[k], old[i], n) /\ i # 0 /\ i - 1 = k
        BY <3>1
      <4>2. k \in 0 .. k + 1 /\ new[k] = f[k]
        OBVIOUS
      <4> QED
        BY <4>1, <4>2
    <3>2. CASE i # k + 1 /\ i # 0
      <4>1. i \in 0 .. k /\ i - 1 \in 0 .. k
        BY <3>2
      <4>2. new[i] = f[i] /\ new[i - 1] = f[i - 1]
        BY <4>1
      <4>3. f[i] = Detached(f[i - 1], old[i], n)
        BY <2>1, <4>1, <3>2 DEF Detaches
      <4> QED
        BY <4>2, <4>3, <3>2
    <3>3. CASE i = 0
      BY <2>1, <3>3 DEF Detaches
    <3> QED
      BY <3>1, <3>2, <3>3
  <2>3. new = [i \in 0 .. k + 1 |-> new[i]]
    OBVIOUS
  <2> HIDE DEF new
  <2>4. Detaches(new, opts, old, n, k + 1)
    BY <2>2, <2>3 DEF Detaches
  <2> QED
    BY <2>4
<1> HIDE DEF N
<1>3. m \in N
  BY <1>1, <1>2, Induction
<1> QED
  BY <1>3 DEF N

LEMMA AllDetachedDoes ==
  ASSUME known \subseteq Device, NEW opts \in Opts, NEW old \in Seq(Device), NEW n \in Net
  PROVE  /\ AllDetached(opts, old, n) \in Opts
         /\ ToSet(AllDetached(opts, old, n).ifname) = ToSet(opts.ifname) \ ToSet(old)
         /\ \A w \in Wifi : \A m : m \in AllDetached(opts, old, n).network[w] <=>
                                 m \in opts.network[w] /\ ~(m = n /\ WifiDev(w) \in ToSet(old))
<1>1. PICK l \in Nat : l = Len(old)
  OBVIOUS
<1>2. PICK r : r = DetachLoop(opts, old, n, l)
  OBVIOUS
<1>3. Detaches(r, opts, old, n, l)
  BY <1>2, DetachStarts DEF DetachLoop
<1> DEFINE Gone(i, d) == \E j \in 1 .. i : old[j] = d
           Good(i) == /\ r[i] \in Opts
                      /\ \A x : x \in ToSet(r[i].ifname) <=> x \in ToSet(opts.ifname) /\ ~Gone(i, x)
                      /\ \A w \in Wifi : \A m : m \in r[i].network[w] <=>
                                              m \in opts.network[w] /\ ~(m = n /\ Gone(i, WifiDev(w)))
           N == {i \in Nat : i <= l => Good(i)}
<1>4. 0 \in N
  <2>1. r[0] = opts
    BY <1>3 DEF Detaches
  <2>2. \A d : ~Gone(0, d)
    OBVIOUS
  <2> HIDE DEF Gone
  <2> QED
    BY <2>1, <2>2
<1>5. ASSUME NEW i \in Nat, i \in N PROVE i + 1 \in N
  <2> SUFFICES ASSUME i + 1 <= l PROVE Good(i + 1)
    OBVIOUS
  <2>1. PICK k \in 0 .. l : k = i + 1 /\ k # 0 /\ k - 1 = i
    OBVIOUS
  <2>2. r[k] = Detached(r[i], old[k], n)
    BY <1>3, <2>1 DEF Detaches
  <2>3. PICK d \in Device : d = old[k]
    BY <1>1, <2>1
  <2>4. PICK x \in Opts : x = r[i]
    BY <1>5
  <2>5. \A e : Gone(k, e) <=> Gone(i, e) \/ e = d
    <3> SUFFICES ASSUME NEW e PROVE Gone(k, e) <=> Gone(i, e) \/ e = d
      OBVIOUS
    <3>1. \A j \in 1 .. k : j \in 1 .. i \/ j = k
      BY <2>1
    <3>2. k \in 1 .. k /\ 1 .. i \subseteq 1 .. k
      BY <2>1
    <3> QED
      BY <2>3, <3>1, <3>2
  <2>6. Good(i)
    BY <1>5
  <2> HIDE DEF Gone
  <2>7. /\ r[k] \in Opts
        /\ ToSet(r[k].ifname) = ToSet(x.ifname) \ {d}
        /\ \A w \in Wifi : \A m : m \in r[k].network[w] <=> m \in x.network[w] /\ ~(m = n /\ d = WifiDev(w))
    <3>1. PICK y : y = Detached(x, d, n)
      OBVIOUS
    <3>2. r[k] = y
      BY <2>2, <2>3, <2>4, <3>1
    <3>3. /\ y \in Opts
          /\ ToSet(y.ifname) = ToSet(x.ifname) \ {d}
          /\ \A w \in Wifi : \A m : m \in y.network[w] <=> m \in x.network[w] /\ ~(m = n /\ d = WifiDev(w))
      BY <3>1, DetachedStep, Zenon
    <3> QED
      BY <3>2, <3>3
  <2>8. Good(k)
    BY <2>4, <2>5, <2>6, <2>7
  <2> HIDE DEF Good
  <2> QED
    BY <2>1, <2>8
<1> HIDE DEF N
<1>6. l \in N
  BY <1>4, <1>5, Induction
<1>7. Good(l)
  BY <1>6 DEF N
<1>8. \A d : d \in ToSet(old) <=> Gone(l, d)
  BY <1>1 DEF ToSet
<1>9. AllDetached(opts, old, n) = r[l]
  BY <1>1, <1>2, DetachIsLoop
<1> HIDE DEF Gone
<1> QED
  BY <1>7, <1>8, <1>9

Taken(opts, d, n) == IF d \in known THEN Attached(opts, d, n) ELSE opts

TakenIn(new, opts, d, n) ==
  /\ new \in Opts
  /\ \A x : x \in ToSet(new.ifname) <=>
            x \in ToSet(opts.ifname) \/ (x = d /\ x \in known /\ KindOf(x) # "wifi")
  /\ \A w \in Wifi : \A m : m \in new.network[w] <=>
                          m \in opts.network[w] \/ (m = n /\ d = WifiDev(w) /\ d \in known)

LEMMA TakenStep ==
  ASSUME known \subseteq Device, NEW opts \in Opts, NEW d, NEW n \in Net
  PROVE  TakenIn(Taken(opts, d, n), opts, d, n)
<1>1. CASE d \in known
  <2>1. PICK y : y = Attached(opts, d, n)
    OBVIOUS
  <2>2. /\ y \in Opts
        /\ ToSet(y.ifname) = ToSet(opts.ifname) \cup (IF KindOf(d) = "wifi" THEN {} ELSE {d})
        /\ \A w \in Wifi : \A m : m \in y.network[w] <=> m \in opts.network[w] \/ (m = n /\ d = WifiDev(w))
    BY <1>1, <2>1, AttachedStep, Zenon
  <2>3. Taken(opts, d, n) = y
    BY <1>1, <2>1 DEF Taken
  <2> QED
    BY <1>1, <2>2, <2>3 DEF TakenIn
<1>2. CASE d \notin known
  BY <1>2 DEF Taken, TakenIn
<1> QED
  BY <1>1, <1>2

Attaches(r, opts, chosen, n, m) ==
  r = [i \in 0 .. m |-> IF i = 0 THEN opts ELSE Taken(r[i - 1], chosen[i], n)]

AttachLoop(opts, chosen, n, m) == CHOOSE r : Attaches(r, opts, chosen, n, m)

LEMMA AttachIsLoop ==
  ASSUME NEW opts, NEW chosen, NEW n
  PROVE  AllAttached(opts, chosen, n) = AttachLoop(opts, chosen, n, Len(chosen))[Len(chosen)]
BY DEF AllAttached, AttachLoop, Attaches, Taken

LEMMA AttachStarts ==
  ASSUME NEW opts, NEW chosen, NEW n, NEW m \in Nat
  PROVE  \E r : Attaches(r, opts, chosen, n, m)
<1> DEFINE N == {k \in Nat : \E r : Attaches(r, opts, chosen, n, k)}
<1>1. 0 \in N
  <2> DEFINE r == [i \in 0 .. 0 |-> opts]
  <2>1. Attaches(r, opts, chosen, n, 0)
    BY DEF Attaches
  <2> HIDE DEF r
  <2> QED
    BY <2>1
<1>2. ASSUME NEW k \in Nat, k \in N PROVE k + 1 \in N
  <2>1. PICK f : Attaches(f, opts, chosen, n, k)
    BY <1>2
  <2> DEFINE new == [i \in 0 .. k + 1 |-> IF i <= k THEN f[i] ELSE Taken(f[k], chosen[k + 1], n)]
  <2>2. ASSUME NEW i \in 0 .. k + 1
        PROVE  new[i] = IF i = 0 THEN opts ELSE Taken(new[i - 1], chosen[i], n)
    <3>1. CASE i = k + 1
      <4>1. new[i] = Taken(f[k], chosen[i], n) /\ i # 0 /\ i - 1 = k
        BY <3>1
      <4>2. k \in 0 .. k + 1 /\ new[k] = f[k]
        OBVIOUS
      <4> QED
        BY <4>1, <4>2
    <3>2. CASE i # k + 1 /\ i # 0
      <4>1. i \in 0 .. k /\ i - 1 \in 0 .. k
        BY <3>2
      <4>2. new[i] = f[i] /\ new[i - 1] = f[i - 1]
        BY <4>1
      <4>3. f[i] = Taken(f[i - 1], chosen[i], n)
        BY <2>1, <4>1, <3>2 DEF Attaches
      <4> QED
        BY <4>2, <4>3, <3>2
    <3>3. CASE i = 0
      BY <2>1, <3>3 DEF Attaches
    <3> QED
      BY <3>1, <3>2, <3>3
  <2>3. new = [i \in 0 .. k + 1 |-> new[i]]
    OBVIOUS
  <2> HIDE DEF new
  <2>4. Attaches(new, opts, chosen, n, k + 1)
    BY <2>2, <2>3 DEF Attaches
  <2> QED
    BY <2>4
<1> HIDE DEF N
<1>3. m \in N
  BY <1>1, <1>2, Induction
<1> QED
  BY <1>3 DEF N

LEMMA AllAttachedDoes ==
  ASSUME known \subseteq Device, NEW opts \in Opts, NEW chosen, Len(chosen) \in Nat, DOMAIN chosen = 1 .. Len(chosen), NEW n \in Net
  PROVE  /\ AllAttached(opts, chosen, n) \in Opts
         /\ \A x : x \in ToSet(AllAttached(opts, chosen, n).ifname) <=>
                   x \in ToSet(opts.ifname) \/ (x \in ToSet(chosen) /\ x \in known /\ KindOf(x) # "wifi")
         /\ \A w \in Wifi : \A m : m \in AllAttached(opts, chosen, n).network[w] <=>
                                 m \in opts.network[w]
                                   \/ (m = n /\ WifiDev(w) \in ToSet(chosen) /\ WifiDev(w) \in known)
<1>1. PICK l \in Nat : l = Len(chosen)
  OBVIOUS
<1>2. PICK r : r = AttachLoop(opts, chosen, n, l)
  OBVIOUS
<1>3. Attaches(r, opts, chosen, n, l)
  BY <1>2, AttachStarts DEF AttachLoop
<1> DEFINE Chosen(i, d) == \E j \in 1 .. i : chosen[j] = d
           Good(i) == /\ r[i] \in Opts
                      /\ \A x : x \in ToSet(r[i].ifname) <=> x \in ToSet(opts.ifname) \/ (Chosen(i, x) /\ x \in known /\ KindOf(x) # "wifi")
                      /\ \A w \in Wifi : \A m : m \in r[i].network[w] <=>
                                m \in opts.network[w]
                                  \/ (m = n /\ Chosen(i, WifiDev(w)) /\ WifiDev(w) \in known)
           N == {i \in Nat : i <= l => Good(i)}
<1>4. 0 \in N
  <2>1. r[0] = opts
    BY <1>3 DEF Attaches
  <2>2. \A d : ~Chosen(0, d)
    OBVIOUS
  <2> HIDE DEF Chosen
  <2> QED
    BY <2>1, <2>2
<1>5. ASSUME NEW i \in Nat, i \in N PROVE i + 1 \in N
  <2> SUFFICES ASSUME i + 1 <= l PROVE Good(i + 1)
    OBVIOUS
  <2>1. PICK k \in 0 .. l : k = i + 1 /\ k # 0 /\ k - 1 = i
    OBVIOUS
  <2>2. r[k] = Taken(r[i], chosen[k], n)
    BY <1>3, <2>1 DEF Attaches
  <2>3. PICK d : d = chosen[k]
    BY <1>1, <2>1
  <2>4. PICK x \in Opts : x = r[i]
    BY <1>5
  <2>5. \A e : Chosen(k, e) <=> Chosen(i, e) \/ e = d
    <3> SUFFICES ASSUME NEW e PROVE Chosen(k, e) <=> Chosen(i, e) \/ e = d
      OBVIOUS
    <3>1. \A j \in 1 .. k : j \in 1 .. i \/ j = k
      BY <2>1
    <3>2. k \in 1 .. k /\ 1 .. i \subseteq 1 .. k
      BY <2>1
    <3> QED
      BY <2>3, <3>1, <3>2
  <2>6. Good(i)
    BY <1>5
  <2> HIDE DEF Chosen
  <2>7. /\ r[k] \in Opts
        /\ \A z : z \in ToSet(r[k].ifname) <=>
                  z \in ToSet(x.ifname) \/ (z = d /\ z \in known /\ KindOf(z) # "wifi")
        /\ \A w \in Wifi : \A m : m \in r[k].network[w] <=>
                                m \in x.network[w] \/ (m = n /\ d = WifiDev(w) /\ d \in known)
    <3>1. PICK y : y = Taken(x, d, n)
      OBVIOUS
    <3>2. r[k] = y
      BY <2>2, <2>3, <2>4, <3>1
    <3>3. TakenIn(y, x, d, n)
      BY <3>1, TakenStep
    <3> QED
      BY <3>2, <3>3 DEF TakenIn
  <2>8. Good(k)
    BY <2>4, <2>5, <2>6, <2>7
  <2> HIDE DEF Good
  <2> QED
    BY <2>1, <2>8
<1> HIDE DEF N
<1>6. l \in N
  BY <1>4, <1>5, Induction
<1>7. Good(l)
  BY <1>6 DEF N
<1>8. \A d : d \in ToSet(chosen) <=> Chosen(l, d)
  BY <1>1 DEF ToSet
<1>9. AllAttached(opts, chosen, n) = r[l]
  BY <1>1, <1>2, AttachIsLoop
<1> HIDE DEF Chosen
<1> QED
  BY <1>7, <1>8, <1>9

-----------------------------------------------------------------------------
(* NetDevices: the invariant.  The options and the cache name devices      *)
(* there are objects for, among them every wifi section, and what was      *)
(* refreshed since the last change is what the configuration says.         *)
NetInv ==
  /\ known \subseteq Device
  /\ \A w \in Wifi : WifiDev(w) \in known
  /\ bridged \subseteq Net
  /\ ifname \in [Net -> Seq(known)]
  /\ network \in [Wifi -> SUBSET Net]
  /\ ports \in [Net -> Seq(known)]
  /\ l2dev \in [Net -> Device \cup {NoDevice}]
  /\ "devices" \in fresh =>
       \A n \in bridged : BridgeOf(n) \in known /\ ToSet(ports[n]) = Members(n)
  /\ "interfaces" \in fresh => \A n \in Net : l2dev[n] = LowerDevice(n)

LEMMA SortedIs ==
  ASSUME NEW D, D \subseteq Device
  PROVE  Sorted(D) \in Seq(D) /\ ToSet(Sorted(D)) = D
<1>1. PICK s \in Seq(Device) : s = Order
  BY NetAssumption
<1>2. PICK t : t = Within(s, D)
  OBVIOUS
<1>3. t \in Seq(Device \cap D) /\ ToSet(t) = ToSet(s) \cap D
  BY <1>2, WithinKeeps
<1>4. Device \cap D = D /\ ToSet(s) \cap D = D
  BY <1>1, NetAssumption
<1>5. Sorted(D) = t
  BY <1>1, <1>2 DEF Sorted
<1> QED
  BY <1>3, <1>4, <1>5

LEMMA SeqGrows ==
  ASSUME NEW S, NEW T, S \subseteq T, NEW s \in Seq(S)
  PROVE  s \in Seq(T)
OBVIOUS

(* The wifi sections of an interface, whatever else there is.              *)
LEMMA WifiMembers ==
  ASSUME NEW devs, devs \subseteq Device, \A w \in Wifi : WifiDev(w) \in devs, NEW n, NEW nw
  PROVE  /\ WifiOf(n, nw, devs) = {WifiDev(w) : w \in {v \in Wifi : n \in nw[v]}}
         /\ WifiOf(n, nw, devs) \subseteq devs
<1>1. ASSUME NEW d PROVE d \in WifiOf(n, nw, devs) <=> \E w \in Wifi : n \in nw[w] /\ d = WifiDev(w)
  <2>1. ASSUME d \in WifiOf(n, nw, devs) PROVE \E w \in Wifi : n \in nw[w] /\ d = WifiDev(w)
    <3>1. d \in Device /\ KindOf(d) = "wifi" /\ n \in nw[d[2]]
      BY <2>1 DEF WifiOf
    <3>2. PICK w \in Wifi : w = d[2]
      BY <3>1, WifiIsNamed
    <3> QED
      BY <3>1, <3>2, WifiIsNamed
  <2>2. ASSUME NEW w \in Wifi, n \in nw[w], d = WifiDev(w) PROVE d \in WifiOf(n, nw, devs)
    <3>1. d \in devs /\ d \in Device
      BY <2>2
    <3>2. KindOf(d) = "wifi" /\ d[2] = w
      BY <2>2, <3>1, WifiIsNamed
    <3> QED
      BY <2>2, <3>1, <3>2 DEF WifiOf
  <2> QED
    BY <2>1, <2>2
<1> QED
  BY <1>1 DEF WifiOf

LEMMA WifiIsStill ==
  ASSUME NetInv, known' \subseteq Device, known \subseteq known', network' = network, NEW n
  PROVE  WifiOf(n, network', known') = WifiOf(n, network, known)
<1>1. PICK devs : devs = known'
  OBVIOUS
<1>2. devs \subseteq Device /\ \A w \in Wifi : WifiDev(w) \in devs
  BY <1>1 DEF NetInv
<1>3. WifiOf(n, network, devs) = {WifiDev(w) : w \in {v \in Wifi : n \in network[v]}}
  BY <1>2, WifiMembers
<1>4. WifiOf(n, network, known) = {WifiDev(w) : w \in {v \in Wifi : n \in network[v]}}
  BY WifiMembers DEF NetInv
<1> QED
  BY <1>1, <1>3, <1>4

LEMMA MembersAreKnown ==
  ASSUME NetInv, NEW n \in Net
  PROVE  Members(n) \subseteq known /\ Members(n) \subseteq Device /\ NoDevice \notin Members(n)
<1>1. PICK s \in Seq(known) : s = ifname[n]
  BY DEF NetInv
<1>2. ToSet(s) \subseteq known
  BY OwnMembers
<1>3. WifiOf(n, network, known) \subseteq known
  BY DEF WifiOf
<1>4. Members(n) \subseteq known
  BY <1>1, <1>2, <1>3 DEF Members, MembersOf
<1>5. Members(n) \subseteq Device
  BY <1>4 DEF NetInv
<1> QED
  BY <1>4, <1>5, WifiIsNamed

LEMMA FirstOfBoth ==
  ASSUME NEW S, NEW a \in Seq(S), NEW b \in Seq(S)
  PROVE  /\ a \o b = <<>> <=> ToSet(a) \cup ToSet(b) = {}
         /\ a \o b # <<>> => (a \o b)[1] \in ToSet(a) \cup ToSet(b)
<1>1. CASE a = <<>>
  <2>1. a \o b = b /\ ToSet(a) = {}
    BY <1>1 DEF ToSet
  <2>2. b # <<>> => b[1] \in ToSet(b)
    <3>1. b # <<>> => 1 \in DOMAIN b
      OBVIOUS
    <3> QED
      BY <3>1 DEF ToSet
  <2>3. b = <<>> => ToSet(b) = {}
    BY DEF ToSet
  <2> QED
    BY <2>1, <2>2, <2>3
<1>2. CASE a # <<>>
  <2>1. 1 \in DOMAIN a
    BY <1>2
  <2>2. a[1] \in ToSet(a)
    BY <2>1 DEF ToSet
  <2>3. (a \o b)[1] = a[1] /\ a \o b # <<>>
    BY <1>2
  <2> QED
    BY <2>2, <2>3
<1> QED
  BY <1>1, <1>2

LEMMA LowerIsMember ==
  ASSUME NetInv, NEW n \in Net
  PROVE  /\ LowerDevice(n) \in Device \cup {NoDevice}
         /\ n \in bridged => LowerDevice(n) = BridgeOf(n)
         /\ n \notin bridged => IF Members(n) = {} THEN LowerDevice(n) = NoDevice
                                ELSE LowerDevice(n) \in Members(n)
<1>1. PICK s \in Seq(known) : s = ifname[n]
  BY DEF NetInv
<1>2. PICK D : D = WifiOf(n, network, known)
  OBVIOUS
<1>3. D \subseteq known /\ known \subseteq Device
  BY <1>2 DEF WifiOf, NetInv
<1>4. PICK t : t = Sorted(D)
  OBVIOUS
<1>5. t \in Seq(D) /\ ToSet(t) = D
  BY <1>3, <1>4, SortedIs
<1>6. t \in Seq(known)
  BY <1>3, <1>5, SeqGrows
<1>7. PICK all : all = s \o t
  OBVIOUS
<1>8. LowerDevice(n) = IF n \in bridged THEN BridgeOf(n) ELSE IF all = <<>> THEN NoDevice ELSE all[1]
  BY <1>1, <1>2, <1>4, <1>7 DEF LowerDevice
<1>9. Members(n) = ToSet(s) \cup ToSet(t)
  BY <1>1, <1>2, <1>5 DEF Members, MembersOf
<1>10. /\ all = <<>> <=> Members(n) = {}
       /\ all # <<>> => all[1] \in Members(n)
  BY <1>6, <1>7, <1>9, FirstOfBoth
<1>11. BridgeOf(n) \in Device
  BY DEF Device
<1>12. Members(n) \subseteq Device
  BY MembersAreKnown
<1> QED
  BY <1>8, <1>10, <1>11, <1>12

(* What a list can be set to: devices there are objects for, or none.      *)
LEMMA ChosenIs ==
  ASSUME NetInv, NEW n \in Net, NEW bridge \in BOOLEAN, NEW chosen \in FormValues(n, bridge)
  PROVE  /\ Len(chosen) \in Nat /\ DOMAIN chosen = 1 .. Len(chosen)
         /\ ToSet(chosen) \subseteq known \cup {NoDevice}
<1>1. PICK S : S = known \cup {NoDevice}
  OBVIOUS
<1>2. chosen \in Seq(S)
  <2>1. ASSUME NEW d \in S PROVE <<d>> \in Seq(S)
    OBVIOUS
  <2>2. CASE chosen = <<NoDevice>>
    BY <1>1, <2>1, <2>2
  <2>3. CASE \E d \in Listed(n, FALSE) : chosen = <<d>>
    <3>1. Listed(n, FALSE) = S
      BY <1>1 DEF Listed
    <3> QED
      BY <2>1, <2>3, <3>1
  <2>4. CASE \E D \in SUBSET Listed(n, TRUE) : chosen = Sorted(D)
    <3>1. PICK D : D \subseteq Listed(n, TRUE) /\ chosen = Sorted(D)
      BY <2>4
    <3>2. D \subseteq known /\ D \subseteq Device /\ D \subseteq S
      BY <1>1, <3>1 DEF Listed, NetInv
    <3>3. chosen \in Seq(D)
      BY <3>1, <3>2, SortedIs
    <3> QED
      BY <3>2, <3>3, SeqGrows
  <2> QED
    BY <2>2, <2>3, <2>4 DEF FormValues
<1>3. ToSet(chosen) \subseteq S
  BY <1>2, OwnMembers
<1> QED
  BY <1>1, <1>2, <1>3

LEMMA OldIs ==
  ASSUME NetInv, NEW n \in Net
  PROVE  OldDevices(n) \in Seq(Device)
<1>1. known \subseteq Device /\ l2dev[n] \in Device \cup {NoDevice}
  BY DEF NetInv
<1>2. CASE l2dev[n] \notin known
  BY <1>2 DEF OldDevices
<1>3. CASE l2dev[n] \in known /\ KindOf(l2dev[n]) = "bridge"
  <2>1. PICK d \in Device : d = l2dev[n]
    BY <1>1, <1>3
  <2>2. d[2] \in Net
    BY <1>3, <2>1, WifiIsNamed
  <2>3. PICK s \in Seq(known) : s = ports[d[2]]
    BY <2>2 DEF NetInv
  <2>4. OldDevices(n) = s
    BY <1>3, <2>1, <2>3 DEF OldDevices
  <2> QED
    BY <1>1, <2>4, SeqGrows
<1>4. CASE l2dev[n] \in known /\ KindOf(l2dev[n]) # "bridge"
  <2>1. PICK d \in Device : d = l2dev[n]
    BY <1>1, <1>4
  <2>2. OldDevices(n) = <<d>>
    BY <1>4, <2>1 DEF OldDevices
  <2> QED
    BY <2>2
<1> QED
  BY <1>2, <1>3, <1>4

(* setDevices() leaves the other interfaces alone.  This one loses the     *)
(* devices of the cache that were not chosen, and gets those that were.    *)
SetRight(set, n, chosen) ==
  LET got  == MembersOf(n, set.ifname, set.network)
      want == ToSet(chosen) \ {NoDevice}
  IN  /\ set \in Opts
      /\ \A w \in Wifi : \A m : m # n => (m \in set.network[w] <=> m \in network[w])
      /\ got \ want = Members(n) \ (ToSet(OldDevices(n)) \cup want)
      /\ ToSet(OldDevices(n)) \subseteq Members(n) => want \subseteq got

LEMMA SetDevicesDoes ==
  ASSUME NetInv, NEW n \in Net, NEW bridge \in BOOLEAN, NEW chosen \in FormValues(n, bridge)
  PROVE  SetRight(SetDevices(n, chosen), n, chosen)
<1>1. PICK opts : opts = [ifname |-> ifname[n], network |-> network]
  OBVIOUS
<1>2. opts \in Opts /\ known \subseteq Device
  BY <1>1 DEF Opts, NetInv
<1>3. PICK old \in Seq(Device) : old = OldDevices(n)
  BY OldIs
<1>4. NoDevice \notin known
  BY <1>2, WifiIsNamed
<1>5. ToSet(chosen) \subseteq known \cup {NoDevice}
  BY ChosenIs
<1>6. CASE old = chosen
  <2>1. SetDevices(n, chosen) = opts
    BY <1>1, <1>3, <1>6 DEF SetDevices
  <2>2. opts.ifname = ifname[n] /\ opts.network = network
    BY <1>1
  <2>3. MembersOf(n, opts.ifname, opts.network) = Members(n)
    BY <2>2 DEF Members
  <2>4. NoDevice \notin Members(n)
    BY MembersAreKnown
  <2>5. ToSet(chosen) \ {NoDevice} = ToSet(old)
    <3>1. ToSet(old) \subseteq Device
      BY OwnMembers
    <3> QED
      BY <1>6, <3>1, WifiIsNamed
  <2>6. /\ Members(n) \ ToSet(old) = Members(n) \ (ToSet(old) \cup ToSet(old))
        /\ ToSet(old) \subseteq Members(n) => ToSet(old) \subseteq Members(n)
    OBVIOUS
  <2> QED
    BY <1>2, <1>3, <2>1, <2>2, <2>3, <2>5, <2>6 DEF SetRight
<1>7. CASE old # chosen
  <2>1. PICK bare : bare = AllDetached(opts, old, n)
    OBVIOUS
  <2>2. bare \in Opts /\ ToSet(bare.ifname) = ToSet(opts.ifname) \ ToSet(old)
    BY <1>2, <2>1, AllDetachedDoes
  <2>3. \A w \in Wifi : \A m : m \in bare.network[w] <=>
                             m \in opts.network[w] /\ ~(m = n /\ WifiDev(w) \in ToSet(old))
    BY <1>2, <2>1, AllDetachedDoes
  <2>4. PICK set : set = AllAttached(bare, chosen, n)
    OBVIOUS
  <2>5. /\ set \in Opts
        /\ \A x : x \in ToSet(set.ifname) <=>
                  x \in ToSet(bare.ifname) \/ (x \in ToSet(chosen) /\ x \in known /\ KindOf(x) # "wifi")
    BY <1>2, <2>2, <2>4, ChosenIs, AllAttachedDoes
  <2>6. \A w \in Wifi : \A m : m \in set.network[w] <=>
                             m \in bare.network[w]
                               \/ (m = n /\ WifiDev(w) \in ToSet(chosen) /\ WifiDev(w) \in known)
    BY <1>2, <2>2, <2>4, ChosenIs, AllAttachedDoes
  <2>7. SetDevices(n, chosen) = set
    BY <1>1, <1>3, <1>7, <2>1, <2>4 DEF SetDevices
  <2>8. \A w \in Wifi : \A m : m # n => (m \in set.network[w] <=> m \in network[w])
    BY <1>1, <2>3, <2>6
  <2>9. WifiOf(n, network, known) = {WifiDev(v) : v \in {v \in Wifi : n \in network[v]}}
    BY WifiMembers DEF NetInv
  <2>10. WifiOf(n, set.network, known) = {WifiDev(w) : w \in {v \in Wifi : n \in set.network[v]}}
    BY WifiMembers DEF NetInv
  <2>11. ASSUME NEW w \in Wifi
         PROVE  n \in set.network[w] <=>
                  \/ WifiDev(w) \in WifiOf(n, network, known) /\ WifiDev(w) \notin ToSet(old)
                  \/ WifiDev(w) \in ToSet(chosen)
    <3>1. WifiDev(w) \in known
      BY DEF NetInv
    <3>2. WifiDev(w) \in WifiOf(n, network, known) <=> n \in network[w]
      BY <2>9 DEF WifiDev
    <3> QED
      BY <1>1, <2>3, <2>6, <3>1, <3>2
  <2>12. ASSUME NEW x
         PROVE  x \in WifiOf(n, set.network, known) <=>
                  \/ x \in WifiOf(n, network, known) /\ x \notin ToSet(old)
                  \/ x \in ToSet(chosen) /\ x \in known /\ KindOf(x) = "wifi"
    <3>1. ASSUME x \in WifiOf(n, set.network, known)
          PROVE  \/ x \in WifiOf(n, network, known) /\ x \notin ToSet(old)
                 \/ x \in ToSet(chosen) /\ x \in known /\ KindOf(x) = "wifi"
      <4>1. x \in known /\ KindOf(x) = "wifi"
        BY <3>1 DEF WifiOf
      <4>2. PICK w \in Wifi : n \in set.network[w] /\ x = WifiDev(w)
        BY <2>10, <3>1
      <4> QED
        BY <2>11, <4>1, <4>2
    <3>2. ASSUME x \in WifiOf(n, network, known) /\ x \notin ToSet(old)
          PROVE  x \in WifiOf(n, set.network, known)
      <4>1. PICK w \in Wifi : n \in network[w] /\ x = WifiDev(w)
        BY <2>9, <3>2
      <4>2. n \in set.network[w]
        BY <2>11, <3>2, <4>1
      <4> QED
        BY <2>10, <4>1, <4>2
    <3>3. ASSUME x \in ToSet(chosen) /\ x \in known /\ KindOf(x) = "wifi"
          PROVE  x \in WifiOf(n, set.network, known)
      <4>1. x \in Device
        BY <1>2, <3>3
      <4>2. PICK w \in Wifi : x = WifiDev(w)
        BY <3>3, <4>1, WifiIsNamed
      <4>3. n \in set.network[w]
        BY <2>11, <3>3, <4>2
      <4> QED
        BY <2>10, <4>2, <4>3
    <3> QED
      BY <3>1, <3>2, <3>3
  <2>13. \A x : x \in MembersOf(n, set.ifname, set.network) <=>
                  \/ x \in Members(n) /\ x \notin ToSet(old)
                  \/ x \in ToSet(chosen) /\ x \in known
    <3>1. \A x : x \in Members(n) <=> x \in ToSet(opts.ifname) \/ x \in WifiOf(n, network, known)
      BY <1>1 DEF Members, MembersOf
    <3>2. \A x : x \in MembersOf(n, set.ifname, set.network) <=>
                   x \in ToSet(set.ifname) \/ x \in WifiOf(n, set.network, known)
      BY DEF MembersOf
    <3> QED
      BY <2>2, <2>5, <2>12, <3>1, <3>2
  <2>14. \A x : x \in ToSet(chosen) \ {NoDevice} <=> x \in ToSet(chosen) /\ x \in known
    BY <1>4, <1>5
  <2>15. /\ MembersOf(n, set.ifname, set.network) \ (ToSet(chosen) \ {NoDevice})
              = Members(n) \ (ToSet(old) \cup (ToSet(chosen) \ {NoDevice}))
         /\ ToSet(chosen) \ {NoDevice} \subseteq MembersOf(n, set.ifname, set.network)
    BY <2>13, <2>14
  <2> QED
    BY <1>3, <2>5, <2>7, <2>8, <2>15 DEF SetRight
<1> QED
  BY <1>6, <1>7

(* The option of an interface names devices there are objects for.         *)
LEMMA NamedIsDevice ==
  ASSUME bridged \subseteq Net, \A n \in Net : ToSet(ifname[n]) \subseteq Device
  PROVE  /\ Named \subseteq Device
         /\ \A w \in Wifi : WifiDev(w) \in Named
         /\ \A n \in bridged : BridgeOf(n) \in Named
         /\ \A n \in Net : ToSet(ifname[n]) \subseteq Named
<1>1. PICK P : P = {PortDev(p) : p \in Plugged}
  OBVIOUS
<1>2. PICK W : W = {WifiDev(w) : w \in Wifi}
  OBVIOUS
<1>3. PICK I : I = UNION {ToSet(ifname[n]) : n \in Net}
  OBVIOUS
<1>4. PICK B : B = {BridgeOf(n) : n \in bridged}
  OBVIOUS
<1>5. Named = P \cup W \cup B \cup I
  BY Zenon, <1>1, <1>2, <1>3, <1>4 DEF Named
<1>6. P \subseteq Device
  BY <1>1, NetAssumption DEF Device
<1>7. W \subseteq Device /\ B \subseteq Device
  BY <1>2, <1>4 DEF Device
<1>8. I \subseteq Device
  BY <1>3
<1>9. Named \subseteq Device
  BY <1>5, <1>6, <1>7, <1>8
<1>10. \A w \in Wifi : WifiDev(w) \in Named
  BY <1>2, <1>5
<1>11. \A n \in bridged : BridgeOf(n) \in Named
  BY <1>4, <1>5
<1>12. ASSUME NEW n \in Net PROVE ToSet(ifname[n]) \subseteq Named
  <2>1. ToSet(ifname[n]) \subseteq I
    BY <1>3
  <2> QED
    BY <1>5, <2>1
<1> QED
  BY <1>9, <1>10, <1>11, <1>12

LEMMA PortsAreMembers ==
  ASSUME NEW devs, devs \subseteq Device, NEW n, NEW nw, NEW names, ToSet(names) \subseteq devs
  PROVE  /\ Sorted(ToSet(names) \cup WifiOf(n, nw, devs)) \in Seq(devs)
         /\ ToSet(Sorted(ToSet(names) \cup WifiOf(n, nw, devs))) = ToSet(names) \cup WifiOf(n, nw, devs)
<1>1. PICK D : D = ToSet(names) \cup WifiOf(n, nw, devs)
  OBVIOUS
<1>2. D \subseteq devs /\ D \subseteq Device
  BY <1>1 DEF WifiOf
<1>3. Sorted(D) \in Seq(D) /\ ToSet(Sorted(D)) = D
  BY <1>2, SortedIs
<1>4. Sorted(D) \in Seq(devs)
  BY <1>2, <1>3, SeqGrows
<1> QED
  BY <1>1, <1>3, <1>4

LEMMA LoadedPorts ==
  ASSUME NetInv, DevicesLoaded, UNCHANGED netconfig
  PROVE  /\ known \subseteq known' /\ known' \subseteq Device /\ ports' \in [Net -> Seq(known')]
         /\ \A n \in bridged : BridgeOf(n) \in known' /\ ToSet(ports'[n]) = MembersOf(n, ifname[n], network)'
<1>1. known' = known \cup Named
  BY DEF DevicesLoaded
<1>2. ifname' = ifname /\ bridged' = bridged /\ network' = network
  BY DEF netconfig
<1>3. known \subseteq Device /\ bridged \subseteq Net
  BY DEF NetInv
<1>4. \A n \in Net : ToSet(ifname[n]) \subseteq known
  <2>1. \A n \in Net : ifname[n] \in Seq(known)
    BY DEF NetInv
  <2> QED
    BY <2>1, OwnMembers
<1>5. Named \subseteq Device /\ \A n \in bridged : BridgeOf(n) \in Named
  BY <1>3, <1>4, NamedIsDevice
<1>6. PICK devs : devs = known'
  OBVIOUS
<1>7. devs \subseteq Device /\ known \subseteq devs
  BY <1>1, <1>3, <1>5, <1>6
<1>8. ASSUME NEW n \in Net
      PROVE  /\ Sorted(ToSet(ifname[n]) \cup WifiOf(n, network, devs)) \in Seq(devs)
             /\ ToSet(Sorted(ToSet(ifname[n]) \cup WifiOf(n, network, devs)))
                  = ToSet(ifname[n]) \cup WifiOf(n, network, devs)
  BY <1>4, <1>7, PortsAreMembers
<1>9. ports' = [n \in Net |-> IF n \in bridged THEN Sorted(ToSet(ifname[n]) \cup WifiOf(n, network, devs))
                              ELSE ports[n]]
  BY <1>6 DEF DevicesLoaded
<1>10. \A n \in Net : ports[n] \in Seq(devs)
  <2>1. \A n \in Net : ports[n] \in Seq(known)
    BY DEF NetInv
  <2> QED
    BY <1>7, <2>1, SeqGrows
<1>11. ports' \in [Net -> Seq(devs)]
  BY <1>8, <1>9, <1>10
<1>12. ASSUME NEW n \in bridged
       PROVE  ToSet(ports'[n]) = MembersOf(n, ifname[n], network)'
  <2>1. n \in Net
    BY <1>3
  <2>2. ports'[n] = Sorted(ToSet(ifname[n]) \cup WifiOf(n, network, devs))
    BY <1>9, <2>1
  <2>3. MembersOf(n, ifname[n], network)' = ToSet(ifname[n]) \cup WifiOf(n, network, devs)
    BY <1>2, <1>6 DEF MembersOf
  <2> QED
    BY <1>8, <2>1, <2>2, <2>3
<1> QED
  BY <1>1, <1>5, <1>6, <1>7, <1>11, <1>12

LEMMA NetInvInit == NetInit => NetInv
<1> SUFFICES ASSUME NetInit PROVE NetInv
  OBVIOUS
<1>1. PICK P : P = {PortDev(p) : p \in Port}
  OBVIOUS
<1>2. P \subseteq Device
  BY <1>1 DEF Device
<1>3. ifname \in [Net -> Seq(P)]
  <2>1. ifname \in [Net -> {s \in BoundedSeq(P, Initial) : IsInjective(s)}]
    BY <1>1 DEF NetInit
  <2>2. BoundedSeq(P, Initial) \subseteq Seq(P)
    BY NetAssumption DEF BoundedSeq, SeqOf
  <2> QED
    BY <2>1, <2>2
<1>4. \A n \in Net : ifname[n] \in Seq(ToSet(ifname[n])) /\ ToSet(ifname[n]) \subseteq P
  BY <1>3, OwnMembers
<1>5. bridged \subseteq Net /\ network \in [Wifi -> SUBSET Net] /\ known = Named
  BY DEF NetInit
<1>6. /\ Named \subseteq Device
      /\ \A w \in Wifi : WifiDev(w) \in Named
      /\ \A n \in bridged : BridgeOf(n) \in Named
      /\ \A n \in Net : ToSet(ifname[n]) \subseteq Named
  BY <1>2, <1>4, <1>5, NamedIsDevice
<1>7. \A n \in Net : ifname[n] \in Seq(known)
  BY <1>4, <1>5, <1>6, MoreMembers
<1>8. ASSUME NEW n \in Net
      PROVE  /\ Sorted(ToSet(ifname[n]) \cup WifiOf(n, network, known)) \in Seq(known)
             /\ ToSet(Sorted(ToSet(ifname[n]) \cup WifiOf(n, network, known))) = Members(n)
  <2>1. ToSet(ifname[n]) \subseteq known /\ known \subseteq Device
    BY <1>5, <1>6
  <2> QED
    BY <2>1, PortsAreMembers DEF Members, MembersOf
<1>9. ports = [n \in Net |-> IF n \in bridged THEN Sorted(ToSet(ifname[n]) \cup WifiOf(n, network, known))
                             ELSE <<>>]
  BY DEF NetInit
<1>10. ports \in [Net -> Seq(known)]
  <2>1. ASSUME NEW n \in Net PROVE ports[n] \in Seq(known)
    <3>1. CASE n \in bridged
      BY <1>8, <1>9, <3>1
    <3>2. CASE n \notin bridged
      <4>1. ports[n] = <<>>
        BY <1>9, <3>2
      <4> QED
        BY <4>1
    <3> QED
      BY <3>1, <3>2
  <2>2. ports = [n \in Net |-> ports[n]]
    BY <1>9
  <2> QED
    BY <2>1, <2>2
<1>11. \A n \in bridged : BridgeOf(n) \in known /\ ToSet(ports[n]) = Members(n)
  BY <1>5, <1>6, <1>8, <1>9
<1>12. l2dev = [n \in Net |-> LowerDevice(n)]
  BY DEF NetInit
<1>13. ifname \in [Net -> Seq(known)]
  BY <1>3, <1>7
<1>14. \A n \in Net : LowerDevice(n) \in Device \cup {NoDevice}
  <2> SUFFICES ASSUME NEW n \in Net PROVE LowerDevice(n) \in Device \cup {NoDevice}
    OBVIOUS
  <2>1. PICK t : t = Sorted(WifiOf(n, network, known))
    OBVIOUS
  <2>2. WifiOf(n, network, known) \subseteq known /\ known \subseteq Device
    BY <1>5, <1>6 DEF WifiOf
  <2>3. t \in Seq(Device)
    BY <2>1, <2>2, SortedIs, SeqGrows
  <2>4. ifname[n] \in Seq(Device)
    BY <1>7, <2>2, SeqGrows
  <2>5. PICK all : all = ifname[n] \o t
    OBVIOUS
  <2>6. all \in Seq(Device)
    BY <2>3, <2>4, <2>5
  <2>7. LowerDevice(n) = IF n \in bridged THEN BridgeOf(n) ELSE IF all = <<>> THEN NoDevice ELSE all[1]
    BY <2>1, <2>5 DEF LowerDevice
  <2>8. all # <<>> => all[1] \in Device
    BY <2>6
  <2>9. BridgeOf(n) \in Device
    BY DEF Device
  <2> QED
    BY <2>7, <2>8, <2>9
<1>15. l2dev \in [Net -> Device \cup {NoDevice}] /\ \A n \in Net : l2dev[n] = LowerDevice(n)
  BY <1>12, <1>14
<1> QED
  BY <1>5, <1>6, <1>10, <1>11, <1>13, <1>15 DEF NetInv

(* With the same configuration and more objects everything is as it was.   *)
LEMMA SameWithMore ==
  ASSUME NetInv, UNCHANGED netconfig, known \subseteq known', known' \subseteq Device
  PROVE  /\ ifname' \in [Net -> Seq(known')] /\ bridged' \subseteq Net
         /\ network' \in [Wifi -> SUBSET Net] /\ \A w \in Wifi : WifiDev(w) \in known'
         /\ \A n : LowerDevice(n)' = LowerDevice(n) /\ Members(n)' = Members(n)
<1>1. ifname' = ifname /\ bridged' = bridged /\ network' = network
  BY DEF netconfig
<1>2. \A n \in Net : ifname[n] \in Seq(known')
  <2>1. \A n \in Net : ifname[n] \in Seq(known)
    BY DEF NetInv
  <2> QED
    BY <2>1, SeqGrows
<1>3. \A n : WifiOf(n, network', known') = WifiOf(n, network, known)
  BY <1>1, WifiIsStill
<1>4. \A n : LowerDevice(n)' = LowerDevice(n)
  BY <1>1, <1>3 DEF LowerDevice
<1>5. \A n : Members(n)' = Members(n)
  BY <1>1, <1>3 DEF Members, MembersOf
<1>6. ifname' \in [Net -> Seq(known')]
  BY <1>1, <1>2 DEF NetInv
<1> QED
  BY <1>1, <1>4, <1>5, <1>6 DEF NetInv

LEMMA NetInvStep == NetInv /\ [NetNext]_netvars => NetInv'
<1> SUFFICES ASSUME NetInv, [NetNext]_netvars PROVE NetInv'
  OBVIOUS
<1>1. CASE RefreshDevices
  <2>1. DevicesLoaded /\ UNCHANGED netconfig /\ l2dev' = l2dev /\ fresh' = fresh \cup {"devices"}
    BY <1>1 DEF RefreshDevices
  <2>2. /\ known \subseteq known' /\ known' \subseteq Device /\ ports' \in [Net -> Seq(known')]
        /\ \A n \in bridged : BridgeOf(n) \in known' /\ ToSet(ports'[n]) = MembersOf(n, ifname[n], network)'
    BY <2>1, LoadedPorts
  <2>3. /\ ifname' \in [Net -> Seq(known')] /\ bridged' \subseteq Net
        /\ network' \in [Wifi -> SUBSET Net] /\ \A w \in Wifi : WifiDev(w) \in known'
        /\ \A n : LowerDevice(n)' = LowerDevice(n)
    BY <2>1, <2>2, SameWithMore
  <2>4. \A n \in bridged' : BridgeOf(n) \in known' /\ ToSet(ports'[n]) = Members(n)'
    <3>1. bridged' = bridged
      BY <2>1 DEF netconfig
    <3> QED
      BY <2>2, <3>1 DEF Members
  <2>5. l2dev' \in [Net -> Device \cup {NoDevice}]
        /\ ("interfaces" \in fresh' => \A n \in Net : l2dev'[n] = LowerDevice(n)')
    BY <2>1, <2>3 DEF NetInv
  <2> QED
    BY <2>2, <2>3, <2>4, <2>5 DEF NetInv
<1>2. CASE RefreshInterfaces
  <2>1. /\ l2dev' = [n \in Net |-> LowerDevice(n)] /\ fresh' = fresh \cup {"interfaces"}
        /\ UNCHANGED netconfig /\ known' = known /\ ports' = ports
    BY <1>2 DEF RefreshInterfaces
  <2>2. known \subseteq known' /\ known' \subseteq Device
    BY <2>1 DEF NetInv
  <2>3. /\ ifname' \in [Net -> Seq(known')] /\ bridged' \subseteq Net
        /\ network' \in [Wifi -> SUBSET Net] /\ \A w \in Wifi : WifiDev(w) \in known'
        /\ \A n : LowerDevice(n)' = LowerDevice(n) /\ Members(n)' = Members(n)
    BY <2>1, <2>2, SameWithMore
  <2>4. l2dev' \in [Net -> Device \cup {NoDevice}] /\ \A n \in Net : l2dev'[n] = LowerDevice(n)'
    BY <2>1, <2>3, LowerIsMember
  <2>5. "devices" \in fresh' => \A n \in bridged' : BridgeOf(n) \in known' /\ ToSet(ports'[n]) = Members(n)'
    <3>1. bridged' = bridged /\ ("devices" \in fresh' <=> "devices" \in fresh)
      BY <2>1 DEF netconfig
    <3> QED
      BY <2>1, <2>3, <3>1 DEF NetInv
  <2>6. ports' \in [Net -> Seq(known')]
    BY <2>1 DEF NetInv
  <2> QED
    BY <2>2, <2>3, <2>4, <2>5, <2>6 DEF NetInv
<1>3. CASE HandleKeydown
  <2>1. PICK p \in Port : known' = known \cup {PortDev(p)}
    BY <1>3 DEF HandleKeydown
  <2>2. UNCHANGED netconfig /\ ports' = ports /\ l2dev' = l2dev /\ fresh' = fresh
    BY <1>3 DEF HandleKeydown
  <2>3. known \subseteq known' /\ known' \subseteq Device
    <3>1. PortDev(p) \in Device
      BY DEF Device
    <3> QED
      BY <2>1, <3>1 DEF NetInv
  <2>4. /\ ifname' \in [Net -> Seq(known')] /\ bridged' \subseteq Net
        /\ network' \in [Wifi -> SUBSET Net] /\ \A w \in Wifi : WifiDev(w) \in known'
        /\ \A n : LowerDevice(n)' = LowerDevice(n) /\ Members(n)' = Members(n)
    BY <2>2, <2>3, SameWithMore
  <2>5. ports' \in [Net -> Seq(known')]
    <3>1. ports \in [Net -> Seq(known)]
      BY DEF NetInv
    <3>2. \A n \in Net : ports[n] \in Seq(known')
      BY <2>3, <3>1, SeqGrows
    <3> QED
      BY <2>2, <3>1, <3>2
  <2>6. "devices" \in fresh' => \A n \in bridged' : BridgeOf(n) \in known' /\ ToSet(ports'[n]) = Members(n)'
    <3>1. bridged' = bridged
      BY <2>2 DEF netconfig
    <3> QED
      BY <2>2, <2>3, <2>4, <3>1 DEF NetInv
  <2>7. l2dev' \in [Net -> Device \cup {NoDevice}]
        /\ ("interfaces" \in fresh' => \A n \in Net : l2dev'[n] = LowerDevice(n)')
    BY <2>2, <2>4 DEF NetInv
  <2> QED
    BY <2>3, <2>4, <2>5, <2>6, <2>7 DEF NetInv
<1>4. CASE UNCHANGED netconfig /\ UNCHANGED cache /\ fresh' = fresh
  <2>1. known' = known /\ ports' = ports /\ l2dev' = l2dev /\ fresh' = fresh
    BY <1>4 DEF cache
  <2>2. known \subseteq known' /\ known' \subseteq Device
    BY <2>1 DEF NetInv
  <2>3. /\ ifname' \in [Net -> Seq(known')] /\ bridged' \subseteq Net
        /\ network' \in [Wifi -> SUBSET Net] /\ \A w \in Wifi : WifiDev(w) \in known'
        /\ \A n : LowerDevice(n)' = LowerDevice(n) /\ Members(n)' = Members(n)
    BY <1>4, <2>2, SameWithMore
  <2>4. bridged' = bridged
    BY <1>4 DEF netconfig
  <2> QED
    BY <2>1, <2>2, <2>3, <2>4 DEF NetInv
<1>5. CASE SaveDevices
  <2>0. PICK n \in Net, bridge \in BOOLEAN : \E chosen \in FormValues(n, bridge) : SaveForm(n, bridge, chosen)
    BY <1>5 DEF SaveDevices
  <2>1. PICK chosen \in FormValues(n, bridge) : SaveForm(n, bridge, chosen)
    BY <2>0
  <2>2. PICK set : set = SetDevices(n, chosen)
    OBVIOUS
  <2>3. SetRight(set, n, chosen)
    BY <2>1, <2>2, SetDevicesDoes
  <2>4. set.ifname \in Seq(known) /\ set.network \in [Wifi -> SUBSET Net]
    BY <2>3 DEF SetRight, Opts
  <2>5. /\ ifname' = [ifname EXCEPT ![n] = set.ifname] /\ network' = set.network
        /\ bridged' = IF bridge THEN bridged \cup {n} ELSE bridged \ {n}
        /\ fresh' = IF netconfig' = netconfig THEN fresh ELSE {}
        /\ UNCHANGED cache
    BY <2>1, <2>2 DEF SaveForm
  <2>6. CASE netconfig' = netconfig
    <3>1. fresh' = fresh /\ UNCHANGED netconfig
      BY <2>5, <2>6
    <3> QED
      BY <1>4, <2>5, <3>1
  <2>7. CASE netconfig' # netconfig
    <3>1. fresh' = {} /\ known' = known /\ ports' = ports /\ l2dev' = l2dev
      BY <2>5, <2>7 DEF cache
    <3>2. ifname' \in [Net -> Seq(known)] /\ network' \in [Wifi -> SUBSET Net] /\ bridged' \subseteq Net
      BY <2>4, <2>5 DEF NetInv
    <3> QED
      BY <3>1, <3>2 DEF NetInv
  <2> QED
    BY <2>6, <2>7
<1>6. CASE UNCHANGED netvars
  <2>1. UNCHANGED netconfig /\ UNCHANGED cache /\ fresh' = fresh
    BY <1>6 DEF netvars, netconfig, cache
  <2> QED
    BY <1>4, <2>1
<1> QED
  BY <1>1, <1>2, <1>3, <1>5, <1>6 DEF NetNext

(* What holds of the network objects at every moment: options and cached   *)
(* lists name devices there are objects for, and what was refreshed since  *)
(* the last change agrees with the configuration.                          *)
THEOREM NetInvariant == NetSpec => []NetInv
<1>1. NetInit => NetInv
  BY NetInvInit
<1>2. NetInv /\ [NetNext]_netvars => NetInv'
  BY NetInvStep
<1> QED
  BY <1>1, <1>2, PTL DEF NetSpec

(* For any network: once both refreshes have run since the last change, in *)
(* either order, the form and the badges of an interface show what is      *)
(* configured, the ports of a bridge or a device of the interface, and     *)
(* none if it has none.                                                    *)
THEOREM FreshIsConfigured == NetSpec => []FreshShowsConfigured
<1>1. ASSUME NetInv, fresh = {"devices", "interfaces"}, NEW n \in Net
      PROVE  IF n \in bridged
             THEN DrawnDevices(n, TRUE) = {d \in Members(n) : Bridgeable(d)}
             ELSE IF Members(n) = {} THEN l2dev[n] = NoDevice ELSE l2dev[n] \in Members(n)
  <2>1. l2dev[n] = LowerDevice(n)
    BY <1>1 DEF NetInv
  <2>2. CASE n \notin bridged
    BY <1>1, <2>1, <2>2, LowerIsMember
  <2>3. CASE n \in bridged
    <3>1. l2dev[n] = BridgeOf(n)
      BY <1>1, <2>1, <2>3, LowerIsMember
    <3>2. BridgeOf(n) \in known /\ ToSet(ports[n]) = Members(n)
      BY <1>1, <2>3 DEF NetInv
    <3>3. KindOf(BridgeOf(n)) = "bridge" /\ BridgeOf(n)[2] = n
      BY DEF BridgeOf, KindOf
    <3>4. ~Bridgeable(BridgeOf(n))
      BY <3>3 DEF Bridgeable
    <3>5. \A d : Bridgeable(d) => (InNetwork(d, n) <=> d \in Members(n))
      BY <3>1, <3>2, <3>3, <3>4 DEF InNetwork
    <3>6. Members(n) \subseteq known
      BY <1>1, MembersAreKnown
    <3>7. DrawnDevices(n, TRUE) = {d \in known : Bridgeable(d) /\ InNetwork(d, n)}
      BY DEF DrawnDevices, Listed
    <3> QED
      BY <2>3, <3>5, <3>6, <3>7
  <2> QED
    BY <2>2, <2>3
<1>2. NetInv => FreshShowsConfigured
  BY <1>1 DEF FreshShowsConfigured
<1> QED
  BY <1>2, NetInvariant, PTL

(* The cached devices of an interface are its own, after both refreshes.   *)
LEMMA FreshOldIs ==
  ASSUME NetInv, NEW n \in Net, fresh = {"devices", "interfaces"}, OneLayer(n)
  PROVE  ToSet(OldDevices(n)) = Members(n)
<1>1. l2dev[n] = LowerDevice(n)
  BY DEF NetInv
<1>2. CASE n \in bridged
  <2>1. l2dev[n] = BridgeOf(n)
    BY <1>1, <1>2, LowerIsMember
  <2>2. BridgeOf(n) \in known /\ ToSet(ports[n]) = Members(n)
    BY <1>2 DEF NetInv
  <2>3. KindOf(BridgeOf(n)) = "bridge" /\ BridgeOf(n)[2] = n
    BY DEF BridgeOf, KindOf
  <2> QED
    BY <2>1, <2>2, <2>3 DEF OldDevices
<1>3. CASE n \notin bridged /\ Members(n) = {}
  <2>1. l2dev[n] = NoDevice
    BY <1>1, <1>3, LowerIsMember
  <2>2. l2dev[n] \notin known
    BY <2>1, WifiIsNamed DEF NetInv
  <2>3. OldDevices(n) = <<>>
    BY <2>2 DEF OldDevices
  <2>4. ToSet(<<>>) = {}
    BY DEF ToSet
  <2> QED
    BY <1>3, <2>3, <2>4
<1>4. CASE n \notin bridged /\ Members(n) # {}
  <2>1. PICK d \in Members(n) : l2dev[n] = d
    BY <1>1, <1>4, LowerIsMember
  <2>2. d \in known
    BY <2>1, MembersAreKnown
  <2>3. KindOf(d) # "bridge"
    BY <1>4, <2>1 DEF OneLayer, Bridgeable
  <2>4. OldDevices(n) = <<d>>
    BY <2>1, <2>2, <2>3 DEF OldDevices
  <2>5. ToSet(<<d>>) = {d}
    BY DEF ToSet
  <2>6. Members(n) = {d}
    BY <1>4, <2>1 DEF OneLayer
  <2> QED
    BY <2>4, <2>5, <2>6
<1> QED
  BY <1>2, <1>3, <1>4

(* Whatever the cache holds, saving the form of an interface leaves behind *)
(* only devices that were not chosen and that the cache does not know; it  *)
(* has every chosen one unless the cache names one that is not configured, *)
(* and exactly the chosen ones after both refreshes, where one layer of    *)
(* devices is all it had.                                                  *)
THEOREM ChosenIsSaved == NetSpec => []SavedAsChosen
<1>1. ASSUME NetInv, NEW n \in Net, NEW bridge \in BOOLEAN, NEW chosen \in FormValues(n, bridge)
      PROVE  LET set  == SetDevices(n, chosen)
                 got  == MembersOf(n, set.ifname, set.network)
                 want == ToSet(chosen) \ {NoDevice}
             IN  /\ got \ want = Members(n) \ (ToSet(OldDevices(n)) \cup want)
                 /\ ToSet(OldDevices(n)) \subseteq Members(n) => want \subseteq got
                 /\ fresh = {"devices", "interfaces"} /\ OneLayer(n) => got = want
  <2>1. PICK set : set = SetDevices(n, chosen)
    OBVIOUS
  <2>2. PICK got : got = MembersOf(n, set.ifname, set.network)
    OBVIOUS
  <2>3. PICK want : want = ToSet(chosen) \ {NoDevice}
    OBVIOUS
  <2>4. /\ got \ want = Members(n) \ (ToSet(OldDevices(n)) \cup want)
        /\ ToSet(OldDevices(n)) \subseteq Members(n) => want \subseteq got
    BY <1>1, <2>1, <2>2, <2>3, SetDevicesDoes DEF SetRight
  <2>5. ASSUME fresh = {"devices", "interfaces"}, OneLayer(n) PROVE got = want
    <3>1. ToSet(OldDevices(n)) = Members(n)
      BY <1>1, <2>5, FreshOldIs
    <3> QED
      BY <2>4, <3>1
  <2> QED
    BY <2>1, <2>2, <2>3, <2>4, <2>5
<1>2. NetInv => SavedAsChosen
  BY <1>1 DEF SavedAsChosen
<1> QED
  BY <1>2, NetInvariant, PTL

(* Saving the form of an interface takes no device from another one and    *)
(* gives it none, however stale the cache is.                              *)
THEOREM OthersAreLeft == NetSpec => OthersKeepDevices
<1>1. ASSUME NetInv, NetNext PROVE OthersKeep
  <2>1. CASE RefreshDevices \/ RefreshInterfaces \/ HandleKeydown
    <3>1. UNCHANGED netconfig
      BY <2>1 DEF RefreshDevices, RefreshInterfaces, HandleKeydown
    <3>2. ifname' = ifname /\ bridged' = bridged /\ network' = network
      BY <3>1 DEF netconfig
    <3>3. PICK n \in Net : TRUE
      BY NetAssumption
    <3> QED
      BY <3>2, <3>3 DEF OthersKeep
  <2>2. CASE SaveDevices
    <3>0. PICK n \in Net, bridge \in BOOLEAN : \E chosen \in FormValues(n, bridge) : SaveForm(n, bridge, chosen)
      BY <2>2 DEF SaveDevices
    <3>1. PICK chosen \in FormValues(n, bridge) : SaveForm(n, bridge, chosen)
      BY <3>0
    <3>2. PICK set : set = SetDevices(n, chosen)
      OBVIOUS
    <3>3. SetRight(set, n, chosen)
      BY <1>1, <3>1, <3>2, SetDevicesDoes
    <3>4. /\ ifname' = [ifname EXCEPT ![n] = set.ifname] /\ network' = set.network
          /\ bridged' = IF bridge THEN bridged \cup {n} ELSE bridged \ {n}
      BY <3>1, <3>2 DEF SaveForm
    <3>5. ASSUME NEW m \in Net \ {n}
          PROVE  /\ ifname'[m] = ifname[m]
                 /\ m \in bridged' <=> m \in bridged
                 /\ \A w \in Wifi : m \in network'[w] <=> m \in network[w]
      <4>1. ifname'[m] = ifname[m]
        BY <1>1, <3>4 DEF NetInv
      <4>2. m \in bridged' <=> m \in bridged
        BY <3>4
      <4>3. \A w \in Wifi : m \in network'[w] <=> m \in network[w]
        BY <3>3, <3>4 DEF SetRight
      <4> QED
        BY <4>1, <4>2, <4>3
    <3> QED
      BY <3>5 DEF OthersKeep
  <2> QED
    BY <1>1, <2>1, <2>2 DEF NetNext
<1>2. NetInv /\ [NetNext]_netvars => [OthersKeep]_netvars
  BY <1>1
<1> QED
  BY <1>2, NetInvariant, PTL DEF OthersKeepDevices, NetSpec

-----------------------------------------------------------------------------
(* NetDevices: no device is twice in the option of an interface.  Neither  *)
(* loop of setDevices() adds one that is there.                            *)
Once == {o \in Opts : IsInjective(o.ifname)}

LEMMA DetachedOnce ==
  ASSUME known \subseteq Device, NEW opts \in Once, NEW d \in Device, NEW n \in Net
  PROVE  Detached(opts, d, n) \in Once
<1>1. opts \in Opts /\ IsInjective(opts.ifname)
  BY DEF Once
<1>2. PICK y : y = Detached(opts, d, n)
  OBVIOUS
<1>3. y \in Opts
  BY <1>1, <1>2, DetachedStep
<1>4. PICK s \in Seq(known) : s = opts.ifname
  BY <1>1 DEF Opts
<1>5. y.ifname = Within(s, ToSet(s) \ {d})
  BY <1>2, <1>4 DEF Detached
<1>6. IsInjective(Within(s, ToSet(s) \ {d}))
  BY <1>1, <1>4, WithinOnce
<1> QED
  BY <1>2, <1>3, <1>5, <1>6 DEF Once

LEMMA TakenOnce ==
  ASSUME known \subseteq Device, NEW opts \in Once, NEW d, NEW n \in Net
  PROVE  Taken(opts, d, n) \in Once
<1>1. opts \in Opts /\ IsInjective(opts.ifname)
  BY DEF Once
<1>2. PICK s \in Seq(known) : s = opts.ifname
  BY <1>1 DEF Opts
<1>3. PICK y : y = Taken(opts, d, n)
  OBVIOUS
<1>4. y \in Opts
  BY <1>1, <1>3, TakenStep DEF TakenIn
<1>5. IsInjective(y.ifname)
  <2>1. CASE d \notin known
    BY <1>1, <1>3, <2>1 DEF Taken
  <2>2. CASE d \in known /\ KindOf(d) = "wifi"
    <3>1. y = [opts EXCEPT !.network[d[2]] = @ \cup {n}]
      BY <1>3, <2>2 DEF Taken, Attached
    <3>2. y.ifname = s
      BY <1>1, <1>2, <3>1 DEF Opts
    <3> QED
      BY <1>1, <1>2, <3>2
  <2>3. CASE d \in known /\ KindOf(d) # "wifi" /\ d \in ToSet(s)
    <3>1. y = opts
      BY <1>2, <1>3, <2>3 DEF Taken, Attached
    <3> QED
      BY <1>1, <3>1
  <2>4. CASE d \in known /\ KindOf(d) # "wifi" /\ d \notin ToSet(s)
    <3>1. y = [opts EXCEPT !.ifname = Append(@, d)]
      BY <1>2, <1>3, <2>4 DEF Taken, Attached
    <3>2. y.ifname = Append(s, d)
      BY <1>1, <1>2, <3>1 DEF Opts
    <3>3. IsInjective(Append(s, d))
      BY <1>1, <1>2, <2>4, AppendOnce
    <3> QED
      BY <3>2, <3>3
  <2> QED
    BY <2>1, <2>2, <2>3, <2>4
<1> QED
  BY <1>3, <1>4, <1>5 DEF Once

LEMMA AllDetachedOnce ==
  ASSUME known \subseteq Device, NEW opts \in Once, NEW old \in Seq(Device), NEW n \in Net
  PROVE  AllDetached(opts, old, n) \in Once
<1>1. PICK l \in Nat : l = Len(old)
  OBVIOUS
<1>2. PICK r : r = DetachLoop(opts, old, n, l)
  OBVIOUS
<1>3. Detaches(r, opts, old, n, l)
  BY <1>2, DetachStarts DEF DetachLoop
<1> DEFINE N == {i \in Nat : i <= l => r[i] \in Once}
<1>4. 0 \in N
  BY <1>3 DEF Detaches
<1>5. ASSUME NEW i \in Nat, i \in N PROVE i + 1 \in N
  <2> SUFFICES ASSUME i + 1 <= l PROVE r[i + 1] \in Once
    OBVIOUS
  <2>1. PICK k \in 0 .. l : k = i + 1 /\ k # 0 /\ k - 1 = i
    OBVIOUS
  <2>2. r[k] = Detached(r[i], old[k], n)
    BY <1>3, <2>1 DEF Detaches
  <2>3. old[k] \in Device /\ r[i] \in Once
    BY <1>1, <1>5, <2>1
  <2> QED
    BY <2>1, <2>2, <2>3, DetachedOnce
<1> HIDE DEF N
<1>6. l \in N
  BY <1>4, <1>5, Induction
<1> QED
  BY <1>1, <1>2, <1>6, DetachIsLoop DEF N

LEMMA AllAttachedOnce ==
  ASSUME known \subseteq Device, NEW opts \in Once, NEW chosen, Len(chosen) \in Nat, NEW n \in Net
  PROVE  AllAttached(opts, chosen, n) \in Once
<1>1. PICK l \in Nat : l = Len(chosen)
  OBVIOUS
<1>2. PICK r : r = AttachLoop(opts, chosen, n, l)
  OBVIOUS
<1>3. Attaches(r, opts, chosen, n, l)
  BY <1>2, AttachStarts DEF AttachLoop
<1> DEFINE N == {i \in Nat : i <= l => r[i] \in Once}
<1>4. 0 \in N
  BY <1>3 DEF Attaches
<1>5. ASSUME NEW i \in Nat, i \in N PROVE i + 1 \in N
  <2> SUFFICES ASSUME i + 1 <= l PROVE r[i + 1] \in Once
    OBVIOUS
  <2>1. PICK k \in 0 .. l : k = i + 1 /\ k # 0 /\ k - 1 = i
    OBVIOUS
  <2>2. r[k] = Taken(r[i], chosen[k], n)
    BY <1>3, <2>1 DEF Attaches
  <2>3. r[i] \in Once
    BY <1>5, <2>1
  <2> QED
    BY <2>1, <2>2, <2>3, TakenOnce
<1> HIDE DEF N
<1>6. l \in N
  BY <1>4, <1>5, Induction
<1> QED
  BY <1>1, <1>2, <1>6, AttachIsLoop DEF N

(* The rest of the type: the invariant says nothing of it.                 *)
NetCounts ==
  /\ \A n \in Net : IsInjective(ifname[n])
  /\ fresh \subseteq {"devices", "interfaces"}
  /\ saves \in 0 .. MaxSaves

LEMMA NetTypes == ASSUME NetInv, NetCounts PROVE NetTypeOK
<1>1. ASSUME NEW n \in Net PROVE ToSet(ifname[n]) \subseteq known /\ ToSet(ports[n]) \subseteq known
  <2>1. ifname[n] \in Seq(known) /\ ports[n] \in Seq(known)
    BY DEF NetInv
  <2> QED
    BY <2>1, OwnMembers
<1>2. \A n \in Net : l2dev[n] \in Device \cup {NoDevice}
  BY DEF NetInv
<1> QED
  BY <1>1, <1>2 DEF NetInv, NetCounts, NetTypeOK

LEMMA NetCountsInit == ASSUME NetInit PROVE NetCounts
<1>1. \A n \in Net : IsInjective(ifname[n])
  BY DEF NetInit
<1>2. fresh = {"devices", "interfaces"} /\ saves = 0
  BY DEF NetInit
<1> QED
  BY <1>1, <1>2, NetAssumption DEF NetCounts

LEMMA NetCountsStep == ASSUME NetInv, NetCounts, [NetNext]_netvars PROVE NetCounts'
<1>1. CASE RefreshDevices
  BY <1>1 DEF RefreshDevices, netconfig, NetCounts
<1>2. CASE RefreshInterfaces
  BY <1>2 DEF RefreshInterfaces, netconfig, NetCounts
<1>3. CASE HandleKeydown
  BY <1>3 DEF HandleKeydown, netconfig, NetCounts
<1>4. CASE SaveDevices
  <2>0. PICK n \in Net, bridge \in BOOLEAN : \E chosen \in FormValues(n, bridge) : SaveForm(n, bridge, chosen)
    BY <1>4 DEF SaveDevices
  <2>1. PICK chosen \in FormValues(n, bridge) : SaveForm(n, bridge, chosen)
    BY <2>0
  <2>2. PICK set : set = SetDevices(n, chosen)
    OBVIOUS
  <2>3. PICK opts : opts = [ifname |-> ifname[n], network |-> network]
    OBVIOUS
  <2>4. opts \in Once /\ known \subseteq Device
    BY <2>3 DEF Once, Opts, NetInv, NetCounts
  <2>5. set \in Once
    <3>1. OldDevices(n) \in Seq(Device) /\ Len(chosen) \in Nat
      BY OldIs, ChosenIs
    <3>2. AllDetached(opts, OldDevices(n), n) \in Once
      BY <2>4, <3>1, AllDetachedOnce
    <3>3. AllAttached(AllDetached(opts, OldDevices(n), n), chosen, n) \in Once
      BY <2>4, <3>1, <3>2, AllAttachedOnce
    <3> QED
      BY <2>2, <2>3, <2>4, <3>3 DEF SetDevices
  <2>6. /\ ifname' = [ifname EXCEPT ![n] = set.ifname]
        /\ saves < MaxSaves /\ saves' = saves + 1
        /\ fresh' \in {fresh, {}}
    BY <2>1, <2>2 DEF SaveForm
  <2>7. \A m \in Net : IsInjective(ifname'[m])
    BY <2>5, <2>6 DEF NetInv, NetCounts, Once
  <2>8. saves' \in 0 .. MaxSaves
    BY <2>6, NetAssumption DEF NetCounts
  <2>9. fresh' \subseteq {"devices", "interfaces"}
    BY <2>6 DEF NetCounts
  <2> QED
    BY <2>7, <2>8, <2>9 DEF NetCounts
<1>5. CASE UNCHANGED netvars
  BY <1>5 DEF netvars, NetCounts
<1> QED
  BY <1>1, <1>2, <1>3, <1>4, <1>5 DEF NetNext

(* For any network, an interface never has the same device twice in its    *)
(* option, whatever was chosen and saved, and however stale the cache of   *)
(* the page was (setDevices, attachToInterface).                           *)
THEOREM NetTypeCorrect == NetSpec => []NetTypeOK
<1>1. NetInit => NetInv /\ NetCounts
  BY NetInvInit, NetCountsInit
<1>2. NetInv /\ NetCounts /\ [NetNext]_netvars => NetInv' /\ NetCounts'
  BY NetInvStep, NetCountsStep
<1>3. NetInv /\ NetCounts => NetTypeOK
  BY NetTypes
<1> QED
  BY <1>1, <1>2, <1>3, PTL DEF NetSpec
-----------------------------------------------------------------------------
(* The parts side by side (FormParts): what each of them does in the       *)
(* composition is a run of its own.                                        *)
LEMMA PartsBegin ==
  ASSUME PartsInit
  PROVE  Init /\ SectionsInit /\ AddressesInit /\ PackagesInit /\ NetInit /\ SwitchInit
BY DEF PartsInit, NoForm, NoSections, NoAddress, NoSoftware, NoDevices, NoSwitch

LEMMA PartsMove ==
  ASSUME [PartsNext]_partsvars
  PROVE  /\ [Next]_vars /\ [SectionsNext]_sections /\ [UNCHANGED given]_given
         /\ [PackagesNext]_software /\ [NetNext]_netvars /\ [SwitchNext]_switchvars
<1>1. CASE Form
  BY <1>1 DEF Form
<1>2. CASE Sections
  BY <1>2 DEF Sections
<1>3. CASE Software
  BY <1>3 DEF Software
<1>4. CASE Devices
  BY <1>4 DEF Devices
<1>5. CASE Tables
  BY <1>5 DEF Tables
<1>6. CASE UNCHANGED partsvars
  BY <1>6 DEF partsvars
<1> QED
  BY <1>1, <1>2, <1>3, <1>4, <1>5, <1>6 DEF PartsNext

(* Looked at on its own, each part of the composition does what its module *)
(* says: no step of a form, a table or a list disturbs another one.        *)
THEOREM FormsAreParts ==
  PartsSpec => Spec /\ SectionsSpec /\ AddressesSpec /\ PackagesSpec /\ NetSpec /\ SwitchSpec
<1>1. PartsInit => Init /\ SectionsInit /\ AddressesInit /\ PackagesInit /\ NetInit /\ SwitchInit
  BY PartsBegin
<1>2. [PartsNext]_partsvars =>
        /\ [Next]_vars /\ [SectionsNext]_sections /\ [UNCHANGED given]_given
        /\ [PackagesNext]_software /\ [NetNext]_netvars /\ [SwitchNext]_switchvars
  BY PartsMove
<1> QED
  BY <1>1, <1>2, PTL
  DEF PartsSpec, Spec, SectionsSpec, AddressesSpec, PackagesSpec, NetSpec, SwitchSpec

(* Whatever the user fills in, reads and presses, the state of every form, *)
(* table and list keeps its type (L.cbi, network.switch, system.software). *)
THEOREM FormsTypeCorrect == PartsSpec => []FormsTypeOK
<1>1. TypeOK /\ SectionsTypeOK /\ PackagesTypeOK /\ NetTypeOK /\ SwitchTypeOK => FormsTypeOK
  BY DEF FormsTypeOK
<1> QED
  BY <1>1, FormsAreParts, FormTypeCorrect, SectionsTypeCorrect, PackagesTypeCorrect,
     NetTypeCorrect, SwitchTyped, PTL

(* What is proved of one part holds in the composition, for every          *)
(* declaration, network, switch and list of packages: fields are shown as  *)
(* they depend on each other, no save or redraw loses an edit, masks and   *)
(* addresses parse, windows of packages meet, and devices and VLANs are    *)
(* saved as they are shown.                                                *)
THEOREM FormsPartsHold ==
  PartsSpec =>
    /\ []ShownIffDependsOn /\ []IdleSaveWritesNothing /\ RedrawKeepsEdits
    /\ FlatEditsSaved /\ []AddressesParsed /\ []WindowsMeet
    /\ []FreshShowsConfigured /\ []SavedAsChosen /\ OthersKeepDevices
    /\ []VlansSavedAsShown /\ AddedIsValid
BY FormsAreParts, ShownAsDeclared, IdleSaves, EditsSurviveRedraw, FlatMapsSaveAll,
   AddressesAreParsed, NoPackageIsLost, FreshIsConfigured, ChosenIsSaved, OthersAreLeft,
   TablesSurviveSave, AddedVlanIsValid, PTL
=============================================================================

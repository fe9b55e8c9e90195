-------------------------- MODULE UciContext_proofs --------------------------
(***************************************************************************)
(* What holds of UciContext for every set of sections, options and values, *)
(* and whatever goes wrong unless a theorem says otherwise.                *)
(***************************************************************************)
EXTENDS UciContext, TLAPS

-----------------------------------------------------------------------------
(* Functions over an arbitrary set of names are configurations.            *)
LEMMA ConfigsIntro ==
  ASSUME NEW S \in SUBSET Sid, NEW f \in [S -> Options]
  PROVE  f \in Configs
BY DEF Configs

LEMMA ConfigsElim ==
  ASSUME NEW f \in Configs
  PROVE  DOMAIN f \in SUBSET Sid /\ f \in [DOMAIN f -> Options]
BY DEF Configs

LEMMA NewSectionsIntro ==
  ASSUME NEW S \in SUBSET Sid, NEW f \in [S -> [named : BOOLEAN, opts : Options]]
  PROVE  f \in NewSections
BY DEF NewSections

LEMMA NewSectionsElim ==
  ASSUME NEW f \in NewSections
  PROVE  /\ DOMAIN f \in SUBSET Sid
         /\ f \in [DOMAIN f -> [named : BOOLEAN, opts : Options]]
BY DEF NewSections

(* The empty maps have the types of the maps they reset.                   *)
LEMMA EmptyTypes ==
  /\ Blank \in Options
  /\ Nothing \in Configs
  /\ Nothing \in NewSections
  /\ NoSets \in [Sid -> Options]
  /\ NoLists \in [Sid -> SUBSET Opt]
  /\ NoBatch \in Batches
<1>1. Blank \in Options
  BY DEF Blank, Options
<1>2. Nothing \in [{} -> Options] /\ Nothing \in [{} -> [named : BOOLEAN, opts : Options]]
  BY DEF Nothing
<1>3. Nothing \in Configs /\ Nothing \in NewSections
  BY <1>2, ConfigsIntro, NewSectionsIntro
<1>4. NoSets \in [Sid -> Options] /\ NoLists \in [Sid -> SUBSET Opt]
  BY <1>1 DEF NoSets, NoLists
<1>5. NoBatch \in Batches
  BY <1>3, <1>4 DEF NoBatch, Batches
<1>6. QED
  BY <1>1, <1>3, <1>4, <1>5

(* Whatever names the server chooses, what it stores is a configuration.   *)
LEMMA StoreAfterType ==
  ASSUME TypeOK, NEW c \in Chain, NEW r \in Namings(batch[c])
  PROVE  StoreAfter(batch[c], r) \in Configs
<1> DEFINE b == batch[c]
           A == DOMAIN store \cup {r[s] : s \in DOMAIN b.adds}
<1>1. /\ store \in [DOMAIN store -> Options] /\ DOMAIN store \subseteq Sid
      /\ b.adds \in [DOMAIN b.adds -> [named : BOOLEAN, opts : Options]]
      /\ b.sets \in [Sid -> Options]
      /\ r \in [DOMAIN b.adds -> Sid]
  BY ConfigsElim, NewSectionsElim DEF TypeOK, Batches, Namings
<1> HIDE DEF b
<1>2. A \in SUBSET Sid
  BY <1>1
<1>3. ASSUME NEW t \in A
      PROVE  Added(b, r)[t] \in Options
  <2>1. CASE ~ \E s \in DOMAIN b.adds : r[s] = t
    BY <1>1, <1>3, <2>1 DEF Added
  <2>2. CASE \E s \in DOMAIN b.adds : r[s] = t
    <3> DEFINE u == CHOOSE s \in DOMAIN b.adds : r[s] = t
    <3>1. u \in DOMAIN b.adds
      BY <2>2
    <3>2. Added(b, r)[t] = AddedAfter(t, b.adds[u].opts)
      BY <1>3, <2>2 DEF Added
    <3> HIDE DEF u
    <3>3. b.adds[u].opts \in Options
      BY <1>1, <3>1
    <3>4. QED BY <1>1, <3>2, <3>3 DEF AddedAfter, Options
  <2>3. QED BY <2>1, <2>2
<1>4. DOMAIN Added(b, r) = A
  BY DEF Added
<1>5. ASSUME NEW t \in A \ b.dels
      PROVE  SectionAfter(b, t, Added(b, r)[t]) \in Options
  BY <1>1, <1>2, <1>3 DEF SectionAfter, Options
<1>6. StoreAfter(b, r) \in [A \ b.dels -> Options]
  BY <1>4, <1>5 DEF StoreAfter
<1>7. A \ b.dels \in SUBSET Sid
  BY <1>2
<1>8. QED
  BY <1>6, <1>7, ConfigsIntro DEF b

-----------------------------------------------------------------------------
(* Dropping, adding and updating one entry keeps the type of a map.        *)
LEMMA AddType ==
  ASSUME TypeOK, NEW s \in Sid, NEW named \in BOOLEAN, Add(s, named)
  PROVE  TypeOK'
<1> DEFINE D == DOMAIN creates \cup {s}
<1>1. creates \in [DOMAIN creates -> [named : BOOLEAN, opts : Options]] /\ D \in SUBSET Sid
  BY NewSectionsElim DEF TypeOK
<1>2. creates' \in [D -> [named : BOOLEAN, opts : Options]]
  BY <1>1, EmptyTypes DEF Add
<1>3. creates' \in NewSections
  BY <1>1, <1>2, NewSectionsIntro
<1>4. QED
  BY <1>3 DEF Add, TypeOK, cache, chains

LEMMA RemoveType ==
  ASSUME TypeOK, NEW s \in Sid, Remove(s)
  PROVE  TypeOK'
<1>1. creates' \in NewSections
  <2>1. CASE s \in DOMAIN creates
    <3> DEFINE D == DOMAIN creates \ {s}
    <3>1. /\ creates \in [DOMAIN creates -> [named : BOOLEAN, opts : Options]]
          /\ D \in SUBSET Sid
      BY NewSectionsElim DEF TypeOK
    <3>2. creates' \in [D -> [named : BOOLEAN, opts : Options]]
      BY <2>1, <3>1 DEF Remove
    <3>3. QED BY <3>1, <3>2, NewSectionsIntro
  <2>2. CASE s \notin DOMAIN creates
    BY <2>2 DEF Remove, TypeOK
  <2>3. QED BY <2>1, <2>2
<1>2. changes' \in [Sid -> Options] /\ unsets' \in [Sid -> SUBSET Opt] /\ removed' \in SUBSET Sid
  BY EmptyTypes DEF Remove, TypeOK
<1>3. QED
  BY <1>1, <1>2 DEF Remove, TypeOK, cache, chains

LEMMA SetType ==
  ASSUME TypeOK, NEW s \in Sid, NEW o \in Opt, NEW w \in Val \cup {Unset}, Set(s, o, w)
  PROVE  TypeOK'
<1>1. CASE SetCreated(s, o, w)
  <2>1. creates \in [DOMAIN creates -> [named : BOOLEAN, opts : Options]]
        /\ DOMAIN creates \in SUBSET Sid
    BY NewSectionsElim DEF TypeOK
  <2>2. creates' \in [DOMAIN creates -> [named : BOOLEAN, opts : Options]]
    BY <1>1, <2>1 DEF SetCreated, Options
  <2>3. creates' \in NewSections
    BY <2>1, <2>2, NewSectionsIntro
  <2>4. QED BY <1>1, <2>3 DEF SetCreated, Set, TypeOK, cache, chains
<1>2. CASE SetValue(s, o, w)
  <2>1. changes' \in [Sid -> Options] /\ unsets' \in [Sid -> SUBSET Opt]
    BY <1>2 DEF SetValue, TypeOK, Options
  <2>2. QED BY <1>2, <2>1 DEF SetValue, Set, TypeOK, cache, chains
<1>3. CASE SetUndefined(s, o)
  <2>1. unsets' \in [Sid -> SUBSET Opt]
    BY <1>3 DEF SetUndefined, TypeOK
  <2>2. QED BY <1>3, <2>1 DEF SetUndefined, Set, TypeOK, cache, chains
<1>4. QED
  BY <1>1, <1>2, <1>3 DEF Set

(* A chain that begins, moves on or ends keeps the types of phase and      *)
(* covered.                                                                *)
LEMMA PhaseType ==
  ASSUME TypeOK, NEW c \in Chain, NEW p \in Phases, Begin(c, p) \/ MoveOn(c, p) \/ End(c)
  PROVE  phase' \in [Chain -> Phases] /\ covered' \in BOOLEAN
BY DEF Begin, MoveOn, End, TypeOK, Phases

LEMMA UnloadType ==
  ASSUME TypeOK, NEW c \in Chain, Unload(c)
  PROVE  /\ loaded' \in BOOLEAN
         /\ values' \in Configs
         /\ creates' \in NewSections
         /\ changes' \in [Sid -> Options]
         /\ unsets' \in [Sid -> SUBSET Opt]
         /\ removed' \in SUBSET Sid
         /\ touched' \in BOOLEAN
         /\ phase' \in [Chain -> Phases]
         /\ covered' \in BOOLEAN
         /\ batch' \in [Chain -> Batches]
         /\ overtaken' \in BOOLEAN
<1>1. phase' \in [Chain -> Phases] /\ covered' \in BOOLEAN
  BY PhaseType DEF Unload, Phases
<1>2. batch' \in [Chain -> Batches]
  BY EmptyTypes DEF Unload, TypeOK
<1>3. QED
  BY <1>1, <1>2, EmptyTypes DEF Unload, Emptied, TypeOK, cache, staged

LEMMA LoadDoneType ==
  ASSUME TypeOK, NEW c \in Chain, LoadDone(c)
  PROVE  /\ phase' \in [Chain -> Phases]
         /\ covered' \in BOOLEAN
         /\ reply' \in [Chain -> Configs]
         /\ UNCHANGED <<staged, reorder, batch, store>>
<1>1. phase' \in [Chain -> Phases] /\ covered' \in BOOLEAN
  BY PhaseType DEF LoadDone, Phases
<1>2. QED
  BY <1>1, EmptyTypes DEF LoadDone, TypeOK

-----------------------------------------------------------------------------
(* TypeOK is preserved by every step: a fact the other theorems build on.  *)
THEOREM TypeCorrect == Spec => []TypeOK
<1>1. Init => TypeOK
  BY EmptyTypes DEF Init, TypeOK, Phases
<1>2. TypeOK /\ [Next]_vars => TypeOK'
  <2> SUFFICES ASSUME TypeOK, [Next]_vars PROVE TypeOK'
    OBVIOUS
  <2>1. CASE Edit
    <3>1. CASE Swap
      BY <3>1 DEF Swap, TypeOK, cache, staged, chains
    <3>2. QED
      BY <2>1, <3>1, AddType, RemoveType, SetType DEF Edit
  <2>2. ASSUME NEW c \in Chain, Save(c) PROVE TypeOK'
    <3>1. phase' \in [Chain -> Phases] /\ covered' \in BOOLEAN
      BY <2>2, PhaseType DEF Save, Phases
    <3>2. batch' \in [Chain -> Batches]
      BY <2>2 DEF Save, TypeOK, Batches
    <3>3. QED BY <2>2, <3>1, <3>2 DEF Save, TypeOK, cache, staged
  <2>3. ASSUME NEW c \in Chain, ServerWrite(c) PROVE TypeOK'
    <3>1. store' \in Configs
      BY <2>3, StoreAfterType DEF ServerWrite, TypeOK
    <3>2. phase' \in [Chain -> Phases] /\ covered' \in BOOLEAN
      BY <2>3, PhaseType DEF ServerWrite, Phases
    <3>3. QED BY <2>3, <3>1, <3>2 DEF ServerWrite, TypeOK, cache, staged
  <2>4. ASSUME NEW c \in Chain, WriteReply(c) PROVE TypeOK'
    <3>1. CASE reorder
      <4>1. phase' \in [Chain -> Phases] /\ covered' \in BOOLEAN
        BY <2>4, <3>1, PhaseType DEF WriteReply, Phases
      <4>2. QED BY <2>4, <3>1, <4>1 DEF WriteReply, TypeOK, cache, staged
    <3>2. CASE ~reorder
      BY <2>4, <3>2, UnloadType DEF WriteReply, TypeOK
    <3>3. QED BY <3>1, <3>2
  <2>5. ASSUME NEW c \in Chain, OrderReply(c) PROVE TypeOK'
    BY <2>5, UnloadType DEF OrderReply, TypeOK
  <2>6. ASSUME NEW c \in Chain, ServerRead(c) PROVE TypeOK'
    <3>1. phase' \in [Chain -> Phases] /\ covered' \in BOOLEAN
      BY <2>6, PhaseType DEF ServerRead, Read, Phases
    <3>2. QED BY <2>6, <3>1 DEF ServerRead, TypeOK, cache, staged
  <2>7. ASSUME NEW c \in Chain, LoadReply(c) PROVE TypeOK'
    BY <2>7, LoadDoneType DEF LoadReply, TypeOK, staged
  <2>8. ASSUME NEW c \in Chain, LoadLost(c) PROVE TypeOK'
    BY <2>8, LoadDoneType DEF LoadLost, TypeOK, cache, staged
  <2>9. ASSUME NEW c \in Chain, Counted(c) PROVE TypeOK'
    <3>1. phase' \in [Chain -> Phases] /\ covered' \in BOOLEAN
      BY <2>9, PhaseType DEF Counted, Phases
    <3>2. QED BY <2>9, <3>1 DEF Counted, TypeOK, cache, staged
  <2>10. ASSUME NEW c \in Chain, Reopen(c) PROVE TypeOK'
    <3>1. phase' \in [Chain -> Phases] /\ covered' \in BOOLEAN
      BY <2>10, PhaseType DEF Reopen, Phases
    <3>2. QED BY <2>10, <3>1 DEF Reopen, TypeOK, cache, staged
  <2>11. ASSUME NEW c \in Chain, Reset(c) PROVE TypeOK'
    <3>1. phase' \in [Chain -> Phases] /\ covered' \in BOOLEAN
      BY <2>11, PhaseType DEF Reset, Phases
    <3>2. QED BY <2>11, <3>1, EmptyTypes DEF Reset, Emptied, TypeOK
  <2>12. CASE Navigate
    BY <2>12 DEF Navigate, TypeOK, cache, staged, chains
  <2>13. CASE UNCHANGED vars
    BY <2>13 DEF vars, TypeOK, cache, staged, chains
  <2>14. QED
    BY <2>1, <2>2, <2>3, <2>4, <2>5, <2>6, <2>7, <2>8, <2>9, <2>10, <2>11, <2>12, <2>13
       DEF Next, Progress
<1>3. QED
  BY <1>1, <1>2, PTL DEF Spec

-----------------------------------------------------------------------------
(* Why a cache without staged edits is never stale.  CleanViewIsStore is   *)
(* not inductive: a save leaves the cache behind the store until unload()  *)
(* drops it, so the strengthening says which chains may do that, and that  *)
(* a batch that will not be followed by unload() is an empty one.          *)
NothingStaged ==
  creates = Nothing /\ changes = NoSets /\ unsets = NoLists /\ removed = {}

EmptyBatch(b) ==
  b.adds = Nothing /\ b.sets = NoSets /\ b.lists = NoLists /\ b.dels = {}

BatchesInv ==
  \A c \in Chain :
    /\ ~batch[c].touched => EmptyBatch(batch[c])
    /\ phase[c] \notin {"writing", "written", "ordering"} => batch[c] = NoBatch

(* A chain has not written, or wrote nothing, since the cache was filled.  *)
Current(c) == phase[c] = "writing" \/ ~batch[c].touched

CacheInv ==
  /\ ~loaded => values = Nothing
  /\ ~touched => NothingStaged
  /\ BatchesInv
  /\ loaded /\ ~overtaken /\ (\A c \in Chain : Current(c)) => values = store

(* An empty batch leaves every section of the server as it was.            *)
LEMMA EmptyBatchWritesNothing ==
  ASSUME TypeOK, NEW b \in Batches, EmptyBatch(b), NEW r \in Namings(b)
  PROVE  StoreAfter(b, r) = store
<1>1. store \in [DOMAIN store -> Options] /\ DOMAIN store \subseteq Sid
  BY ConfigsElim DEF TypeOK
<1>2. DOMAIN b.adds = {} /\ b.dels = {}
  BY DEF EmptyBatch, Nothing
<1>3. Added(b, r) = store
  <2>1. Added(b, r) = [t \in DOMAIN store |-> store[t]]
    BY <1>2 DEF Added
  <2>2. QED BY <1>1, <2>1
<1>4. ASSUME NEW t \in DOMAIN store
      PROVE  SectionAfter(b, t, store[t]) = store[t]
  <2>1. store[t] \in Options
    BY <1>1
  <2>2. \A o \in Opt : o \notin b.lists[t] /\ b.sets[t][o] = Unset
    BY <1>1 DEF EmptyBatch, NoLists, NoSets, Blank
  <2>3. QED
    BY <2>1, <2>2 DEF SectionAfter, Options
<1>5. StoreAfter(b, r) = [t \in DOMAIN store |-> SectionAfter(b, t, store[t])]
  BY <1>2, <1>3 DEF StoreAfter
<1>6. QED
  BY <1>1, <1>4, <1>5

(* With nothing staged, what get() and sections() show is the cache.       *)
LEMMA NothingStagedShowsValues ==
  ASSUME TypeOK, NothingStaged
  PROVE  View = values
<1>1. values \in [DOMAIN values -> Options] /\ DOMAIN values \subseteq Sid
  BY ConfigsElim DEF TypeOK
<1>2. Names = DOMAIN values
  BY DEF NothingStaged, Names, Nothing
<1>3. ASSUME NEW s \in DOMAIN values
      PROVE  [o \in Opt |-> Get(s, o)] = values[s]
  <2>1. \A o \in Opt : Get(s, o) = values[s][o]
    BY <1>1 DEF Get, NothingStaged, Nothing, NoSets, NoLists, Blank
  <2>2. QED
    BY <1>1, <2>1 DEF Options
<1>4. QED
  BY <1>1, <1>2, <1>3 DEF View

LEMMA EditKeepsCacheInv ==
  ASSUME TypeOK, CacheInv, Edit
  PROVE  CacheInv'
<1>1. UNCHANGED <<cache, chains, store, overtaken>>
  BY DEF Edit, Add, Remove, Set, Swap
<1>2. BatchesInv' /\ (~loaded' => values' = Nothing)
  BY <1>1 DEF CacheInv, BatchesInv, EmptyBatch, cache, chains
<1>3. loaded' /\ ~overtaken' /\ (\A c \in Chain : Current(c)') => values' = store'
  BY <1>1 DEF CacheInv, Current, cache, chains
<1>4. ~touched' => NothingStaged'
  <2>1. ASSUME NEW s \in Sid, NEW o \in Opt, NEW w \in Val \cup {Unset}, Set(s, o, w)
        PROVE  touched'
    BY <2>1 DEF Set, SetCreated, SetValue, SetUndefined, CacheInv, NothingStaged, Nothing
  <2>2. CASE Swap
    BY <2>2 DEF Swap, CacheInv, NothingStaged, staged
  <2>3. QED
    BY <2>1, <2>2 DEF Edit, Add, Remove
<1>5. QED
  BY <1>2, <1>3, <1>4 DEF CacheInv

(* A chain that moves on keeps the shape of the batches, unless it enters  *)
(* or leaves the phases in which it has one.                               *)
LEMMA MovedKeepsBatches ==
  ASSUME TypeOK, BatchesInv, NEW c \in Chain, UNCHANGED batch,
         \A d \in Chain \ {c} : phase'[d] = phase[d],
         phase[c] \notin {"writing", "written", "ordering"}
           \/ phase'[c] \in {"writing", "written", "ordering"}
  PROVE  BatchesInv'
BY DEF BatchesInv, EmptyBatch

(* What a chain's step leaves alone: the other chains.                     *)
LEMMA OthersStay ==
  ASSUME TypeOK, NEW c \in Chain, NEW p, Begin(c, p) \/ MoveOn(c, p) \/ End(c)
  PROVE  \A d \in Chain \ {c} : phase'[d] = phase[d]
BY DEF TypeOK, Begin, MoveOn, End

LEMMA UnloadKeepsCacheInv ==
  ASSUME TypeOK, CacheInv, NEW c \in Chain, Unload(c), UNCHANGED store,
         phase[c] # "writing"
  PROVE  CacheInv'
<1>1. /\ batch' = [batch EXCEPT ![c] = NoBatch]
      /\ \A d \in Chain \ {c} : phase'[d] = phase[d]
      /\ phase'[c] \in {"reloading", "counting"}
  BY OthersStay DEF Unload, MoveOn, TypeOK
<1>2. BatchesInv'
  BY <1>1 DEF BatchesInv, CacheInv, EmptyBatch, NoBatch, TypeOK
<1>3. CASE batch[c].touched
  BY <1>2, <1>3 DEF Unload, Emptied, CacheInv, NothingStaged
<1>4. CASE ~batch[c].touched
  <2>1. UNCHANGED <<cache, staged, overtaken>>
    BY <1>4 DEF Unload
  <2>2. (\A d \in Chain : Current(d)') => \A d \in Chain : Current(d)
    BY <1>1, <1>4 DEF Current, TypeOK
  <2>3. QED
    BY <1>2, <2>1, <2>2 DEF CacheInv, NothingStaged, cache, staged
<1>5. QED
  BY <1>3, <1>4

(* LoadReply and LoadLost leave the batches and the staged edits alone.    *)
LEMMA LoadDoneKeeps ==
  ASSUME TypeOK, CacheInv, NEW c \in Chain, LoadDone(c), phase[c] \in Loading
  PROVE  /\ BatchesInv'
         /\ ~touched' => NothingStaged'
         /\ UNCHANGED store
         /\ \A d \in Chain : Current(d)' => Current(d)
<1>1. \A d \in Chain \ {c} : phase'[d] = phase[d]
  BY OthersStay DEF LoadDone
<1>2. BatchesInv'
  BY <1>1, MovedKeepsBatches DEF LoadDone, CacheInv, Loading
<1>3. phase'[c] # "writing"
  BY DEF LoadDone, MoveOn, End, TypeOK
<1>4. QED
  BY <1>1, <1>2, <1>3 DEF LoadDone, CacheInv, Current, NothingStaged, staged

LEMMA ChainKeepsCacheInv ==
  ASSUME TypeOK, CacheInv, NEW c \in Chain, Save(c) \/ Progress(c) \/ Reopen(c) \/ Reset(c)
  PROVE  CacheInv'
<1>1. CASE Save(c)
  <2>1. /\ \A d \in Chain \ {c} : phase'[d] = phase[d] /\ batch'[d] = batch[d]
        /\ phase[c] = "idle" /\ phase'[c] = "writing"
        /\ batch'[c] = [adds |-> creates, sets |-> changes, lists |-> unsets,
                        dels |-> removed, touched |-> touched]
    BY <1>1, OthersStay DEF Save, Begin, TypeOK
  <2>2. BatchesInv'
    BY <2>1 DEF CacheInv, BatchesInv, EmptyBatch, NothingStaged
  <2>3. ~batch[c].touched
    BY <2>1 DEF CacheInv, BatchesInv, NoBatch
  <2>4. (\A d \in Chain : Current(d)') => \A d \in Chain : Current(d)
    BY <2>1, <2>3 DEF Current
  <2>5. QED
    BY <1>1, <2>2, <2>4 DEF Save, CacheInv, NothingStaged, cache, staged
<1>2. CASE ServerWrite(c)
  <2>1. phase[c] = "writing" /\ phase'[c] = "written" /\ UNCHANGED <<cache, staged, batch, overtaken>>
        /\ \A d \in Chain \ {c} : phase'[d] = phase[d]
    BY <1>2, OthersStay DEF ServerWrite, MoveOn, TypeOK
  <2>2. BatchesInv'
    BY <2>1, MovedKeepsBatches DEF CacheInv
  <2>3. ~batch[c].touched => store' = store
    <3>1. batch[c] \in Batches
      BY DEF TypeOK
    <3>2. QED
      BY <1>2, <3>1, EmptyBatchWritesNothing DEF ServerWrite, CacheInv, BatchesInv
  <2>4. Current(c)' => ~batch[c].touched
    BY <2>1 DEF Current
  <2>5. (\A d \in Chain : Current(d)') => \A d \in Chain : Current(d)
    BY <2>1 DEF Current
  <2>6. QED
    BY <2>1, <2>2, <2>3, <2>4, <2>5 DEF CacheInv, NothingStaged, cache, staged
<1>3. CASE WriteReply(c)
  <2>1. CASE reorder
    <3>1. phase[c] = "written" /\ phase'[c] = "ordering" /\ UNCHANGED <<cache, staged, batch, store, overtaken>>
          /\ \A d \in Chain \ {c} : phase'[d] = phase[d]
      BY <1>3, <2>1, OthersStay DEF WriteReply, MoveOn, TypeOK
    <3>2. BatchesInv'
      BY <3>1, MovedKeepsBatches DEF CacheInv
    <3>3. \A d \in Chain : Current(d)' => Current(d)
      BY <3>1 DEF Current
    <3>4. QED
      BY <3>1, <3>2, <3>3 DEF CacheInv, NothingStaged, cache, staged
  <2>2. CASE ~reorder
    BY <1>3, <2>2, UnloadKeepsCacheInv DEF WriteReply
  <2>3. QED BY <2>1, <2>2
<1>4. CASE OrderReply(c)
  BY <1>4, UnloadKeepsCacheInv DEF OrderReply
<1>5. CASE LoadReply(c)
  BY <1>5, LoadDoneKeeps DEF LoadReply, Loading, CacheInv
<1>6. CASE LoadLost(c)
  BY <1>6, LoadDoneKeeps DEF LoadLost, Loading, CacheInv, cache
<1>7. CASE ServerRead(c) \/ Counted(c) \/ Reopen(c)
  <2>1. /\ phase[c] \notin {"writing", "written", "ordering"} /\ phase'[c] # "writing"
        /\ UNCHANGED <<cache, staged, batch, store, overtaken>>
        /\ \A d \in Chain \ {c} : phase'[d] = phase[d]
    BY <1>7, OthersStay DEF ServerRead, Counted, Reopen, Begin, MoveOn, End, Read, TypeOK
  <2>2. BatchesInv'
    BY <2>1, MovedKeepsBatches DEF CacheInv
  <2>3. \A d \in Chain : Current(d)' => Current(d)
    BY <2>1 DEF Current
  <2>4. QED
    BY <2>1, <2>2, <2>3 DEF CacheInv, NothingStaged, cache, staged
<1>8. CASE Reset(c)
  <2>1. phase[c] = "idle" /\ UNCHANGED batch /\ \A d \in Chain \ {c} : phase'[d] = phase[d]
    BY <1>8, OthersStay DEF Reset, Begin
  <2>2. BatchesInv'
    BY <2>1, MovedKeepsBatches DEF CacheInv
  <2>3. QED
    BY <1>8, <2>2 DEF Reset, Emptied, CacheInv, NothingStaged
<1>9. QED
  BY <1>1, <1>2, <1>3, <1>4, <1>5, <1>6, <1>7, <1>8 DEF Progress

(* CacheInv is inductive given the types.                                  *)
LEMMA CacheInvariant == Spec => []CacheInv
<1>1. Init => CacheInv
  <2> SUFFICES ASSUME Init PROVE CacheInv
    OBVIOUS
  <2>1. \A c \in Chain : batch[c] = NoBatch
    BY DEF Init
  <2>2. BatchesInv
    <3>1. EmptyBatch(NoBatch)
      BY DEF EmptyBatch, NoBatch
    <3>2. QED BY <2>1, <3>1 DEF BatchesInv
  <2>3. QED
    BY <2>2 DEF Init, CacheInv, NothingStaged
<1>2. TypeOK /\ CacheInv /\ [Next]_vars => CacheInv'
  <2> SUFFICES ASSUME TypeOK, CacheInv, [Next]_vars PROVE CacheInv'
    OBVIOUS
  <2>1. CASE Navigate \/ UNCHANGED vars
    <3>1. UNCHANGED <<cache, staged, chains, store, overtaken>>
      BY <2>1 DEF Navigate, vars
    <3>2. BatchesInv' /\ \A c \in Chain : Current(c)' <=> Current(c)
      BY <3>1 DEF CacheInv, BatchesInv, EmptyBatch, Current, chains
    <3>3. QED
      BY <3>1, <3>2 DEF CacheInv, NothingStaged, cache, staged
  <2>2. QED
    BY <2>1, EditKeepsCacheInv, ChainKeepsCacheInv DEF Next
<1>3. QED
  BY TypeCorrect, <1>1, <1>2, PTL DEF Spec

(* For every set of faults and any number of overlapping chains: with no   *)
(* edit staged and nothing under way, the form shows what the server       *)
(* holds, unless its last load was answered after a write of another chain *)
(* had overtaken it.                                                       *)
THEOREM CleanView == Spec => []CleanViewIsStore
<1>1. TypeOK /\ CacheInv => CleanViewIsStore
  <2> SUFFICES ASSUME TypeOK, CacheInv, \A c \in Chain : phase[c] = "idle",
                      loaded, ~touched, ~overtaken
               PROVE  View = store
    BY DEF CleanViewIsStore
  <2>1. \A c \in Chain : Current(c)
    BY DEF CacheInv, BatchesInv, Current, NoBatch
  <2>2. QED
    BY <2>1, NothingStagedShowsValues DEF CacheInv
<1>2. QED
  BY TypeCorrect, CacheInvariant, <1>1, PTL

-----------------------------------------------------------------------------
(* The staging maps agree as long as every load is answered and the        *)
(* loading dialog holds: then one chain at a time is under way, and a name *)
(* can only be taken twice when it is typed over a package that is not     *)
(* loaded.                                                                 *)
OneChain ==
  /\ \A c, d \in Chain : phase[c] # "idle" /\ phase[d] # "idle" => c = d
  /\ covered <=> \E c \in Chain : phase[c] # "idle"

LoadsInv ==
  /\ \A c \in Chain : phase[c] \in Loading => NothingStaged
  /\ \A c \in Chain : phase[c] \in {"opened", "reloaded"} => reply[c] = store
  /\ (\A c \in Chain : phase[c] \notin Loading) => loaded
  /\ ~overtaken

StagingInv == StagingConsistent /\ OneChain /\ LoadsInv

(* A step of one chain: the others are idle before and after it.           *)
LEMMA StepKeepsOneChain ==
  ASSUME TypeOK, OneChain, NEW c \in Chain, NEW p \in Phases \ {"idle"},
         Begin(c, p) \/ (phase[c] # "idle" /\ (MoveOn(c, p) \/ End(c)))
  PROVE  /\ OneChain'
         /\ \A d \in Chain \ {c} : phase[d] = "idle" /\ phase'[d] = "idle"
<1>1. \A d \in Chain \ {c} : phase[d] = "idle" /\ phase'[d] = "idle"
  BY DEF OneChain, Begin, MoveOn, End, Editable, TypeOK
<1>2. CASE Begin(c, p) \/ MoveOn(c, p)
  <2>1. phase'[c] # "idle" /\ covered'
    BY <1>2 DEF OneChain, Begin, MoveOn, TypeOK
  <2>2. QED BY <1>1, <2>1 DEF OneChain
<1>3. CASE End(c)
  <2>1. phase'[c] = "idle" /\ covered' = FALSE
    BY <1>3 DEF End, TypeOK
  <2>2. QED BY <1>1, <2>1 DEF OneChain
<1>4. QED
  BY <1>1, <1>2, <1>3

(* Nobody edits, saves or resets while a chain is under way.               *)
LEMMA EditableIsIdle ==
  ASSUME StagingInv, Editable
  PROVE  loaded /\ \A c \in Chain : phase[c] = "idle"
BY DEF StagingInv, OneChain, LoadsInv, Editable, Loading

LEMMA EditKeepsStagingConsistent ==
  ASSUME TypeOK, StagingConsistent, Edit
  PROVE  StagingConsistent'
<1>1. ASSUME NEW s \in Sid, NEW named \in BOOLEAN, Add(s, named)
      PROVE  StagingConsistent'
  BY <1>1 DEF Add, StagingConsistent, cache
<1>2. ASSUME NEW s \in Sid, Remove(s)
      PROVE  StagingConsistent'
  <2>1. UNCHANGED <<loaded, values>>
    BY <1>2 DEF Remove, cache
  <2>2. CASE s \in DOMAIN creates
    <3>1. DOMAIN creates' = DOMAIN creates \ {s} /\ UNCHANGED <<changes, unsets, removed>>
      BY <1>2, <2>2 DEF Remove
    <3>2. QED BY <2>1, <3>1 DEF StagingConsistent
  <2>3. CASE s \notin DOMAIN creates
    <3>1. s \in DOMAIN values
      BY <1>2, <2>3 DEF Remove, Names
    <3>2. /\ changes' = [changes EXCEPT ![s] = Blank]
          /\ unsets' = [unsets EXCEPT ![s] = {}]
          /\ removed' = removed \cup {s}
          /\ UNCHANGED creates
      BY <1>2, <2>3 DEF Remove
    <3>3. QED BY <2>1, <3>1, <3>2 DEF StagingConsistent, TypeOK
  <2>4. QED BY <2>2, <2>3
<1>3. ASSUME NEW s \in Sid, NEW o \in Opt, NEW w \in Val \cup {Unset}, Set(s, o, w)
      PROVE  StagingConsistent'
  <2>1. UNCHANGED <<loaded, values>>
    BY <1>3 DEF Set, cache
  <2>2. CASE SetCreated(s, o, w)
    <3>1. DOMAIN creates' = DOMAIN creates /\ UNCHANGED <<changes, unsets, removed>>
      BY <2>2 DEF SetCreated
    <3>2. QED BY <2>1, <3>1 DEF StagingConsistent
  <2>3. CASE SetValue(s, o, w)
    BY <2>1, <2>3 DEF SetValue, StagingConsistent, TypeOK
  <2>4. CASE SetUndefined(s, o)
    BY <2>1, <2>4 DEF SetUndefined, StagingConsistent, TypeOK
  <2>5. QED BY <1>3, <2>2, <2>3, <2>4 DEF Set
<1>4. CASE Swap
  BY <1>4 DEF Swap, StagingConsistent, cache, staged
<1>5. QED
  BY <1>1, <1>2, <1>3, <1>4 DEF Edit

LEMMA EditKeepsStagingInv ==
  ASSUME TypeOK, StagingInv, Edit
  PROVE  StagingInv'
<1>1. loaded /\ \A c \in Chain : phase[c] = "idle"
  BY EditableIsIdle DEF Edit, Add, Remove, Set, Swap
<1>2. UNCHANGED <<loaded, values, covered, phase, batch, reply, store, overtaken>>
  BY DEF Edit, Add, Remove, Set, Swap, cache, chains
<1>3. OneChain' /\ LoadsInv'
  BY <1>1, <1>2 DEF StagingInv, OneChain, LoadsInv, Loading
<1>4. QED
  BY <1>3, EditKeepsStagingConsistent DEF StagingInv

LEMMA EmptiedIsConsistent ==
  ASSUME Emptied
  PROVE  StagingConsistent' /\ NothingStaged' /\ ~overtaken'
BY DEF Emptied, StagingConsistent, NothingStaged, Nothing, NoSets, NoLists

LEMMA UnloadKeepsStagingInv ==
  ASSUME TypeOK, StagingInv, NEW c \in Chain, Unload(c), phase[c] \in {"written", "ordering"},
         UNCHANGED <<reply, store>>
  PROVE  StagingInv'
<1>1. PICK p \in {"reloading", "counting"} : MoveOn(c, p) /\ (p = "reloading" <=> batch[c].touched)
  BY DEF Unload
<1>2. OneChain' /\ \A d \in Chain \ {c} : phase[d] = "idle" /\ phase'[d] = "idle"
  BY <1>1, StepKeepsOneChain DEF StagingInv, Phases
<1>3. phase'[c] = p
  BY <1>1 DEF MoveOn, TypeOK
<1>4. CASE batch[c].touched
  <2>1. StagingConsistent' /\ NothingStaged' /\ ~overtaken'
    BY <1>4, EmptiedIsConsistent DEF Unload
  <2>2. QED
    BY <1>1, <1>2, <1>3, <1>4, <2>1 DEF StagingInv, LoadsInv, Loading
<1>5. CASE ~batch[c].touched
  <2>1. UNCHANGED <<cache, staged, overtaken>> /\ p = "counting"
    BY <1>1, <1>5 DEF Unload
  <2>2. \A d \in Chain : phase[d] \notin Loading /\ phase'[d] \notin Loading
    BY <1>2, <1>3, <2>1 DEF Loading
  <2>3. LoadsInv'
    BY <2>1, <2>2 DEF StagingInv, LoadsInv, Loading, cache
  <2>4. StagingConsistent'
    BY <2>1 DEF StagingInv, StagingConsistent, cache, staged
  <2>5. QED
    BY <1>2, <2>3, <2>4 DEF StagingInv
<1>6. QED
  BY <1>4, <1>5

LEMMA ChainKeepsStagingInv ==
  ASSUME Faults \subseteq {"drop"}, TypeOK, StagingInv, NEW c \in Chain,
         Save(c) \/ Progress(c) \/ Reopen(c) \/ Reset(c)
  PROVE  StagingInv'
<1>1. CASE Save(c)
  <2>1. OneChain' /\ (\A d \in Chain \ {c} : phase'[d] = "idle") /\ phase'[c] = "writing"
    <3>1. Begin(c, "writing")
      BY <1>1 DEF Save
    <3>2. OneChain' /\ \A d \in Chain \ {c} : phase'[d] = "idle"
      BY <3>1, StepKeepsOneChain DEF StagingInv, Phases
    <3>3. QED BY <3>1, <3>2 DEF Begin, TypeOK
  <2>2. loaded
    BY <1>1, EditableIsIdle DEF Save, Begin
  <2>3. QED
    BY <1>1, <2>1, <2>2 DEF Save, StagingInv, StagingConsistent, LoadsInv, Loading, cache, staged
<1>2. CASE ServerWrite(c)
  <2>1. /\ OneChain' /\ (\A d \in Chain \ {c} : phase[d] = "idle" /\ phase'[d] = "idle")
        /\ phase[c] = "writing" /\ phase'[c] = "written"
    BY <1>2, StepKeepsOneChain DEF ServerWrite, StagingInv, Phases, MoveOn, TypeOK
  <2>2. QED
    BY <1>2, <2>1 DEF ServerWrite, StagingInv, StagingConsistent, LoadsInv, Loading, cache, staged
<1>3. CASE WriteReply(c)
  <2>1. CASE reorder
    <3>1. /\ OneChain' /\ (\A d \in Chain \ {c} : phase[d] = "idle" /\ phase'[d] = "idle")
          /\ phase[c] = "written" /\ phase'[c] = "ordering"
      BY <1>3, <2>1, StepKeepsOneChain DEF WriteReply, StagingInv, Phases, MoveOn, TypeOK
    <3>2. QED
      BY <1>3, <2>1, <3>1 DEF WriteReply, StagingInv, StagingConsistent, LoadsInv, Loading,
         cache, staged
  <2>2. CASE ~reorder
    BY <1>3, <2>2, UnloadKeepsStagingInv DEF WriteReply
  <2>3. QED BY <2>1, <2>2
<1>4. CASE OrderReply(c)
  BY <1>4, UnloadKeepsStagingInv DEF OrderReply
<1>5. CASE ServerRead(c)
  <2>1. /\ OneChain' /\ (\A d \in Chain \ {c} : phase[d] = "idle" /\ phase'[d] = "idle")
        /\ phase[c] \in Loading /\ phase'[c] \in {"opened", "reloaded"}
    BY <1>5, StepKeepsOneChain DEF ServerRead, Read, StagingInv, Phases, MoveOn, TypeOK, Loading
  <2>2. reply'[c] = store'
    BY <1>5 DEF ServerRead, TypeOK
  <2>3. QED
    BY <1>5, <2>1, <2>2 DEF ServerRead, StagingInv, StagingConsistent, LoadsInv, NothingStaged,
       Loading, cache, staged
<1>6. CASE LoadReply(c)
  <2>1. /\ OneChain' /\ (\A d \in Chain \ {c} : phase[d] = "idle" /\ phase'[d] = "idle")
        /\ phase[c] \in {"opened", "reloaded"} /\ phase'[c] \in {"idle", "counting"}
    BY <1>6, StepKeepsOneChain DEF LoadReply, LoadDone, StagingInv, Phases, MoveOn, End, TypeOK
  <2>2. NothingStaged /\ reply[c] = store
    BY <2>1 DEF StagingInv, LoadsInv, Loading
  <2>3. StagingConsistent'
    BY <1>6, <2>2 DEF LoadReply, LoadDone, staged, NothingStaged, StagingConsistent, Nothing,
       NoSets, NoLists
  <2>4. LoadsInv'
    BY <1>6, <2>1, <2>2 DEF LoadReply, LoadsInv, Loading
  <2>5. QED
    BY <2>1, <2>3, <2>4 DEF StagingInv
<1>7. CASE Counted(c)
  <2>1. phase[c] = "counting" /\ \A d \in Chain \ {c} : phase[d] = "idle"
    BY <1>7 DEF Counted, StagingInv, OneChain
  <2>2. loaded
    BY <2>1 DEF StagingInv, LoadsInv, Loading
  <2>3. OneChain' /\ \A d \in Chain : phase'[d] = "idle"
    BY <1>7, <2>1, <2>2, StepKeepsOneChain DEF Counted, StagingInv, Phases, End, TypeOK
  <2>4. QED
    BY <1>7, <2>2, <2>3 DEF Counted, StagingInv, StagingConsistent, LoadsInv, Loading, cache, staged
<1>8. CASE Reopen(c)
  BY <1>8, EditableIsIdle DEF Reopen, Begin
<1>9. CASE Reset(c)
  <2>1. OneChain' /\ (\A d \in Chain \ {c} : phase'[d] = "idle") /\ phase'[c] = "opening"
    <3>1. Begin(c, "opening")
      BY <1>9 DEF Reset
    <3>2. OneChain' /\ \A d \in Chain \ {c} : phase'[d] = "idle"
      BY <3>1, StepKeepsOneChain DEF StagingInv, Phases
    <3>3. QED BY <3>1, <3>2 DEF Begin, TypeOK
  <2>2. StagingConsistent' /\ NothingStaged' /\ ~overtaken'
    BY <1>9, EmptiedIsConsistent DEF Reset
  <2>3. QED
    BY <2>1, <2>2 DEF StagingInv, LoadsInv, Loading
<1>10. ~LoadLost(c)
  BY DEF LoadLost
<1>11. QED
  BY <1>1, <1>2, <1>3, <1>4, <1>5, <1>6, <1>7, <1>8, <1>9, <1>10 DEF Progress

LEMMA StepKeepsStagingInv ==
  ASSUME Faults \subseteq {"drop"}, TypeOK, StagingInv, [Next]_vars
  PROVE  StagingInv'
<1>1. CASE UNCHANGED vars
  <2>1. OneChain' /\ LoadsInv'
    BY <1>1 DEF vars, StagingInv, OneChain, LoadsInv, NothingStaged, cache, staged, chains
  <2>2. StagingConsistent'
    BY <1>1 DEF vars, StagingInv, StagingConsistent, cache, staged
  <2>3. QED
    BY <2>1, <2>2 DEF StagingInv
<1>2. ~Navigate
  BY DEF Navigate
<1>3. QED
  BY <1>1, <1>2, EditKeepsStagingInv, ChainKeepsStagingInv DEF Next

LEMMA StagingInvariant ==
  ASSUME Faults \subseteq {"drop"}
  PROVE  Spec => []StagingInv
<1>1. Init => StagingInv
  <2> SUFFICES ASSUME Init PROVE StagingInv
    OBVIOUS
  <2>1. StagingConsistent /\ NothingStaged
    BY DEF Init, StagingConsistent, NothingStaged, Nothing, NoSets, NoLists
  <2>2. PICK c \in Chain : phase = [d \in Chain |-> IF d = c THEN "opening" ELSE "idle"]
    BY DEF Init
  <2>3. OneChain
    BY <2>2 DEF Init, OneChain
  <2>4. LoadsInv
    BY <2>1, <2>2 DEF Init, LoadsInv, Loading
  <2>5. QED
    BY <2>1, <2>3, <2>4 DEF StagingInv
<1>2. TypeOK /\ StagingInv /\ [Next]_vars => StagingInv'
  BY StepKeepsStagingInv
<1>3. QED
  BY TypeCorrect, <1>1, <1>2, PTL DEF Spec

(* When only writes can fail, the batch a save posts never deletes a       *)
(* section it also changes, and never adds a name the package has.         *)
THEOREM StagingConsistency ==
  ASSUME Faults \subseteq {"drop"}
  PROVE  Spec => []StagingConsistent
<1>1. StagingInv => StagingConsistent
  BY DEF StagingInv
<1>2. QED
  BY StagingInvariant, <1>1, PTL

-----------------------------------------------------------------------------
(* The refinement.  While a save is under way nothing is edited, so the    *)
(* staged maps still are what the batch was copied from.                   *)
BatchIsStaged ==
  \A c \in Chain : phase[c] \in {"writing", "written", "ordering"} =>
    batch[c] = [adds |-> creates, sets |-> changes, lists |-> unsets,
                dels |-> removed, touched |-> touched]

LEMMA StepKeepsBatch ==
  ASSUME Faults \subseteq {"drop"}, TypeOK, StagingInv, StagingInv', BatchIsStaged, [Next]_vars
  PROVE  BatchIsStaged'
<1>1. CASE Edit
  <2>1. UNCHANGED phase /\ \A c \in Chain : phase[c] = "idle"
    BY <1>1, EditableIsIdle DEF Edit, Add, Remove, Set, Swap, chains
  <2>2. QED BY <2>1 DEF BatchIsStaged
<1>2. ASSUME NEW c \in Chain, Save(c) \/ Progress(c) \/ Reopen(c) \/ Reset(c)
      PROVE  BatchIsStaged'
  <2>1. phase'[c] # "idle" => \A d \in Chain \ {c} : phase'[d] = "idle"
    BY DEF StagingInv, OneChain
  <2>2. phase[c] # "idle" => \A d \in Chain \ {c} : phase[d] = "idle"
    BY DEF StagingInv, OneChain
  <2>3. CASE Save(c)
    BY <2>1, <2>3 DEF Save, Begin, BatchIsStaged, staged, TypeOK
  <2>4. CASE ServerWrite(c) \/ (WriteReply(c) /\ reorder)
    <3>1. UNCHANGED <<staged, batch>> /\ phase'[c] # "idle"
          /\ phase[c] \in {"writing", "written", "ordering"}
      BY <2>4 DEF ServerWrite, WriteReply, MoveOn, TypeOK
    <3>2. QED BY <2>1, <3>1 DEF BatchIsStaged, staged
  <2>5. CASE (WriteReply(c) /\ ~reorder) \/ OrderReply(c)
    <3>1. phase'[c] \in {"reloading", "counting"}
      BY <2>5 DEF WriteReply, OrderReply, Unload, MoveOn, TypeOK
    <3>2. QED BY <2>1, <3>1 DEF BatchIsStaged
  <2>6. CASE ServerRead(c) \/ LoadReply(c) \/ Counted(c) \/ Reopen(c) \/ Reset(c)
    <3>1. phase'[c] \notin {"writing", "written", "ordering"}
      BY <2>6 DEF ServerRead, LoadReply, LoadDone, Counted, Reopen, Reset, Begin, MoveOn, End,
         Read, TypeOK
    <3>2. \A d \in Chain \ {c} : phase'[d] = "idle"
      <4>1. CASE phase[c] = "idle"
        BY <2>1, <2>6, <4>1 DEF ServerRead, LoadReply, Counted, Reopen, Reset, Begin, TypeOK
      <4>2. CASE phase[c] # "idle"
        BY <2>2, <2>6, <4>2, OthersStay DEF ServerRead, LoadReply, LoadDone, Counted, Reopen, Reset
      <4>3. QED BY <4>1, <4>2
    <3>3. QED BY <3>1, <3>2 DEF BatchIsStaged
  <2>7. ~LoadLost(c)
    BY DEF LoadLost
  <2>8. QED
    BY <1>2, <2>3, <2>4, <2>5, <2>6, <2>7 DEF Progress
<1>3. CASE UNCHANGED vars
  BY <1>3 DEF vars, BatchIsStaged, staged, chains
<1>4. ~Navigate
  BY DEF Navigate
<1>5. QED
  BY <1>1, <1>2, <1>3, <1>4 DEF Next

(* The one chain under way says how far the session is.                    *)
ModeAt(p) ==
  CASE p \in Loading -> "closed"
    [] p = "writing" -> "committing"
    [] p \in {"written", "ordering"} -> "committed"
    [] p \in {"idle", "counting"} -> "editing"

ModeOf(ph) ==
  CASE \E c \in Chain : ph[c] \in Loading -> "closed"
    [] \E c \in Chain : ph[c] = "writing" -> "committing"
    [] \E c \in Chain : ph[c] \in {"written", "ordering"} -> "committed"
    [] \A c \in Chain : ph[c] \in {"idle", "counting"} -> "editing"

LEMMA ModeIs ==
  Mode = ModeOf(phase) /\ Mode' = ModeOf(phase')
BY DEF Mode, ModeOf

LEMMA ModeOfOne ==
  ASSUME NEW ph \in [Chain -> Phases], NEW c \in Chain, \A d \in Chain \ {c} : ph[d] = "idle"
  PROVE  ModeOf(ph) = ModeAt(ph[c])
<1>1. CASE ph[c] \in Loading
  BY <1>1 DEF ModeOf, ModeAt, Loading
<1>2. CASE ph[c] = "writing"
  BY <1>2 DEF ModeOf, ModeAt, Loading
<1>3. CASE ph[c] \in {"written", "ordering"}
  BY <1>3 DEF ModeOf, ModeAt, Loading
<1>4. CASE ph[c] \in {"idle", "counting"}
  BY <1>4 DEF ModeOf, ModeAt, Loading
<1>5. QED
  BY <1>1, <1>2, <1>3, <1>4 DEF Phases, Loading

LEMMA IdleIsEditing ==
  ASSUME TypeOK, StagingInv, Editable
  PROVE  Mode = "editing" /\ (UNCHANGED phase => Mode' = "editing")
<1>1. PICK c \in Chain : TRUE
  BY ChainAssumption
<1>2. \A d \in Chain : phase[d] = "idle"
  BY EditableIsIdle
<1>3. ModeOf(phase) = "editing"
  BY <1>1, <1>2, ModeOfOne DEF TypeOK, ModeAt, Loading
<1>4. QED
  BY <1>3, ModeIs

(* add() shows a blank section and disturbs no other.                      *)
LEMMA AddCreates ==
  ASSUME TypeOK, CacheInv, StagingInv, NEW s \in Sid, NEW named \in BOOLEAN, Add(s, named)
  PROVE  Editing!Create(s)
<1>1. Mode = "editing" /\ Mode' = "editing"
  BY IdleIsEditing DEF Add, chains
<1>2. s \notin Names /\ Names' = Names \cup {s}
  BY DEF Add, Names, cache
<1>3. ASSUME NEW o \in Opt
      PROVE  Get(s, o)' = Unset
  BY DEF Add, Get, Blank
<1>4. ASSUME NEW t \in Names, NEW o \in Opt
      PROVE  Get(t, o)' = Get(t, o)
  BY <1>2 DEF Add, Get, cache
<1>5. View' = [t \in Names \cup {s} |-> IF t = s THEN Blank ELSE View[t]]
  <2>1. View' = [t \in Names \cup {s} |-> [o \in Opt |-> Get(t, o)']]
    BY <1>2 DEF View
  <2>2. [o \in Opt |-> Get(s, o)'] = Blank
    BY <1>3 DEF Blank
  <2>3. \A t \in Names : [o \in Opt |-> Get(t, o)'] = View[t]
    BY <1>4 DEF View
  <2>4. QED BY <1>2, <2>1, <2>2, <2>3
<1>6. QED
  BY <1>1, <1>2, <1>5 DEF Editing!Create, Editing!Blank, Blank, View, Add

(* remove() takes away that section alone.                                 *)
LEMMA RemoveDrops ==
  ASSUME TypeOK, CacheInv, StagingInv, NEW s \in Sid, Remove(s)
  PROVE  Editing!Drop(s)
<1>1. Mode = "editing" /\ Mode' = "editing" /\ UNCHANGED <<values, store>>
  BY IdleIsEditing DEF Remove, cache, chains
<1>2. s \in Names
  BY DEF Remove
<1>3. Names' = Names \ {s}
  <2>1. CASE s \in DOMAIN creates
    <3>1. s \notin DOMAIN values
      BY <2>1 DEF StagingInv, StagingConsistent
    <3>2. DOMAIN creates' = DOMAIN creates \ {s} /\ UNCHANGED removed
      BY <2>1 DEF Remove
    <3>3. QED BY <1>1, <3>1, <3>2 DEF Names
  <2>2. CASE s \notin DOMAIN creates
    <3>1. removed' = removed \cup {s} /\ UNCHANGED creates
      BY <2>2 DEF Remove
    <3>2. QED BY <1>1, <2>2, <3>1 DEF Names
  <2>3. QED BY <2>1, <2>2
<1>4. ASSUME NEW t \in Names \ {s}, NEW o \in Opt
      PROVE  Get(t, o)' = Get(t, o)
  <2>0. t \in Sid
    BY <1>4, ConfigsElim, NewSectionsElim DEF Names, TypeOK
  <2>1. CASE s \in DOMAIN creates
    <3>1. /\ creates' = [u \in DOMAIN creates \ {s} |-> creates[u]]
          /\ UNCHANGED <<changes, unsets, removed>>
      BY <2>1 DEF Remove
    <3>2. QED BY <1>1, <2>0, <3>1, <1>4 DEF Get
  <2>2. CASE s \notin DOMAIN creates
    <3>1. /\ changes' = [changes EXCEPT ![s] = Blank]
          /\ unsets' = [unsets EXCEPT ![s] = {}]
          /\ removed' = removed \cup {s}
          /\ UNCHANGED creates
      BY <2>2 DEF Remove
    <3>2. changes'[t] = changes[t] /\ unsets'[t] = unsets[t] /\ (t \in removed' <=> t \in removed)
      BY <2>0, <3>1, <1>4 DEF TypeOK
    <3>3. QED BY <1>1, <3>1, <3>2 DEF Get
  <2>3. QED BY <2>1, <2>2
<1>5. View' = [t \in Names \ {s} |-> View[t]]
  <2>1. View' = [t \in Names \ {s} |-> [o \in Opt |-> Get(t, o)']]
    BY <1>3 DEF View
  <2>2. \A t \in Names \ {s} : [o \in Opt |-> Get(t, o)'] = View[t]
    BY <1>4 DEF View
  <2>3. QED BY <2>1, <2>2
<1>6. QED
  BY <1>1, <1>2, <1>5 DEF Editing!Drop, View

(* set() and unset() show in get() at once, and in that option alone.      *)
LEMMA SetPuts ==
  ASSUME TypeOK, CacheInv, StagingInv,
         NEW s \in Sid, NEW o \in Opt, NEW w \in Val \cup {Unset}, Set(s, o, w)
  PROVE  Editing!Put(s, o, w)
<1>1. Mode = "editing" /\ Mode' = "editing" /\ UNCHANGED <<values, store>>
  BY IdleIsEditing DEF Set, cache, chains
<1>2. s \in Names /\ Names' = Names
  <2>1. CASE SetCreated(s, o, w)
    BY <1>1, <2>1 DEF SetCreated, Names
  <2>2. CASE SetValue(s, o, w) \/ SetUndefined(s, o)
    BY <1>1, <2>2 DEF SetValue, SetUndefined, Names
  <2>3. QED BY <2>1, <2>2 DEF Set
<1>3. ASSUME NEW t \in Names, NEW p \in Opt
      PROVE  Get(t, p)' = IF t = s /\ p = o THEN w ELSE Get(t, p)
  <2>0. /\ t \in Sid
        /\ creates \in [DOMAIN creates -> [named : BOOLEAN, opts : Options]]
    BY <1>3, ConfigsElim, NewSectionsElim DEF Names, TypeOK
  <2>1. CASE SetCreated(s, o, w)
    <3>1. DOMAIN creates' = DOMAIN creates /\ UNCHANGED <<changes, unsets, removed>>
      BY <2>1 DEF SetCreated
    <3>2. \A u \in DOMAIN creates : creates'[u].opts[p] =
            IF u = s /\ p = o THEN w ELSE creates[u].opts[p]
      BY <2>0, <2>1 DEF SetCreated, Options
    <3>3. s \in DOMAIN creates
      BY <2>1 DEF SetCreated
    <3>4. CASE t \in DOMAIN creates
      BY <3>1, <3>2, <3>4 DEF Get
    <3>5. CASE t \notin DOMAIN creates
      BY <1>1, <3>1, <3>3, <3>5 DEF Get
    <3>6. QED BY <3>4, <3>5
  <2>2. CASE SetValue(s, o, w) /\ w # Unset
    <3>1. UNCHANGED <<creates, removed>> /\ s \notin DOMAIN creates /\ s \notin removed
      BY <2>2 DEF SetValue
    <3>2. (p \in unsets'[t]) <=> (p \in unsets[t] /\ ~(t = s /\ p = o))
      BY <2>0, <2>2 DEF SetValue, TypeOK
    <3>3. changes'[t][p] = IF t = s /\ p = o THEN w ELSE changes[t][p]
      BY <2>0, <2>2 DEF SetValue, TypeOK, Options
    <3>4. QED BY <1>1, <2>2, <3>1, <3>2, <3>3 DEF Get
  <2>3. CASE SetUndefined(s, o) /\ w = Unset
    <3>1. UNCHANGED <<creates, removed, changes>> /\ s \notin DOMAIN creates
      BY <2>3 DEF SetUndefined
    <3>2. (p \in unsets'[t]) <=> (p \in unsets[t] \/ (t = s /\ p = o))
      BY <2>0, <2>3 DEF SetUndefined, TypeOK
    <3>3. QED BY <1>1, <2>3, <3>1, <3>2 DEF Get
  <2>4. QED BY <2>1, <2>2, <2>3 DEF Set
<1>4. View' = [View EXCEPT ![s] = [@ EXCEPT ![o] = w]]
  <2>1. View' = [t \in Names |-> [p \in Opt |-> Get(t, p)']]
    BY <1>2 DEF View
  <2>2. View = [t \in Names |-> [p \in Opt |-> Get(t, p)]]
    BY DEF View
  <2>3. [p \in Opt |-> Get(s, p)'] = [View[s] EXCEPT ![o] = w]
    BY <1>2, <1>3, <2>2
  <2>4. \A t \in Names : t # s => [p \in Opt |-> Get(t, p)'] = View[t]
    BY <1>3, <2>2
  <2>5. DOMAIN View = Names /\ s \in Names
    BY <1>2, <2>2
  <2> DEFINE V == [View[s] EXCEPT ![o] = w]
             W == [View EXCEPT ![s] = V]
  <2>6. W = [t \in Names |-> IF t = s THEN V ELSE View[t]]
    BY <2>2
  <2>7. View' = W
    <3> HIDE DEF V, W
    <3>1. \A t \in Names : [p \in Opt |-> Get(t, p)'] = IF t = s THEN V ELSE View[t]
      BY <2>3, <2>4 DEF V
    <3>2. QED BY <2>1, <2>6, <3>1
  <2>8. QED BY <2>7
<1>5. QED
  BY <1>1, <1>2, <1>4 DEF Editing!Put, View

(* The batch stores the draft: the server's names for the new sections     *)
(* are the renaming UciEdit asks for.                                      *)
LEMMA WriteStoresDraft ==
  ASSUME TypeOK, CacheInv, StagingInv, BatchIsStaged, NEW c \in Chain, phase[c] = "writing",
         NEW r \in Namings(batch[c]), store' = StoreAfter(batch[c], r)
  PROVE  \E q \in Editing!Renamings :
           /\ DOMAIN store' = {q[s] : s \in DOMAIN View}
           /\ \A s \in DOMAIN View : store'[q[s]] = View[s]
<1> DEFINE New == DOMAIN creates
           Kept == DOMAIN values \ removed
           q == [s \in Names |-> IF s \in New THEN r[s] ELSE s]
           b == batch[c]
<1>1. /\ b.adds = creates /\ b.sets = changes
      /\ b.lists = unsets /\ b.dels = removed
  BY DEF BatchIsStaged
<1>2. values = store /\ removed \subseteq DOMAIN store /\ New \cap DOMAIN store = {}
  <2>1. \A d \in Chain \ {c} : phase[d] = "idle"
    BY DEF StagingInv, OneChain
  <2>2. \A d \in Chain : Current(d)
    BY <2>1 DEF Current, CacheInv, BatchesInv, NoBatch
  <2>3. loaded /\ ~overtaken
    BY <2>1 DEF StagingInv, LoadsInv, Loading
  <2>4. QED
    BY <2>2, <2>3 DEF StagingInv, StagingConsistent, CacheInv
<1>3. /\ DOMAIN View = Names /\ Names = Kept \cup New /\ Names \subseteq Sid
      /\ store \in [DOMAIN store -> Options]
      /\ creates \in [New -> [named : BOOLEAN, opts : Options]]
  BY ConfigsElim, NewSectionsElim DEF View, Names, TypeOK
<1>4. /\ r \in [New -> Sid]
      /\ \A s, t \in New : r[s] = r[t] => s = t
      /\ \A s \in New : r[s] \notin DOMAIN store
  BY <1>1, <1>2 DEF Namings
<1>5. q \in [Names -> Sid]
  BY <1>3, <1>4
<1>6. \A s, t \in Names : q[s] = q[t] => s = t
  BY <1>2, <1>3, <1>4
<1>7. \A s \in Names \cap DOMAIN store : q[s] = s
  BY <1>2
<1> DEFINE A == Added(b, r)
<1>8a. DOMAIN A = DOMAIN store \cup {r[s] : s \in New}
  BY <1>1 DEF Added
<1>8b. store' = [t \in DOMAIN A \ removed |-> SectionAfter(b, t, A[t])]
  BY <1>1 DEF StoreAfter
<1>8. DOMAIN store' = {q[s] : s \in Names}
  <2>1. DOMAIN store' = (DOMAIN store \cup {r[s] : s \in New}) \ removed
    BY <1>8a, <1>8b
  <2>2. (DOMAIN store \cup {r[s] : s \in New}) \ removed = Kept \cup {r[s] : s \in New}
    BY <1>2, <1>4
  <2>3. {q[s] : s \in Names} = Kept \cup {r[s] : s \in New}
    <3>1. (\A s \in New : q[s] = r[s]) /\ (\A s \in Kept : q[s] = s)
      BY <1>2, <1>3
    <3> HIDE DEF q, New, Kept
    <3>2. {q[s] : s \in Names} = {q[s] : s \in Kept} \cup {q[s] : s \in New}
      BY <1>3
    <3>3. QED BY <3>1, <3>2
  <2>4. QED BY <2>1, <2>2, <2>3
<1>9. ASSUME NEW s \in New
      PROVE  store'[r[s]] = View[s]
  <2>1. r[s] \in DOMAIN store' /\ \E u \in New : r[u] = r[s]
    BY <1>2, <1>3, <1>8
  <2>2. (CHOOSE u \in New : r[u] = r[s]) = s
    BY <1>4
  <2>3. A[r[s]] = AddedAfter(r[s], creates[s].opts)
    BY <1>1, <2>1, <2>2 DEF Added
  <2>4. creates[s].opts \in Options /\ s \in Sid /\ r[s] \in Sid
    BY <1>3, <1>4
  <2>5. AddedAfter(r[s], creates[s].opts) = creates[s].opts
    BY <1>4, <2>4 DEF AddedAfter, Options
  <2>6. changes[r[s]] = Blank /\ unsets[r[s]] = {}
    BY <1>2, <1>4, <2>4 DEF StagingInv, StagingConsistent
  <2>7. store'[r[s]] = SectionAfter(b, r[s], creates[s].opts)
    BY <1>8b, <2>1, <2>3, <2>5
  <2>8. SectionAfter(b, r[s], creates[s].opts) = [o \in Opt |-> creates[s].opts[o]]
    BY <1>1, <2>6 DEF SectionAfter, Blank
  <2>9. View[s] = [o \in Opt |-> creates[s].opts[o]]
    BY <1>3 DEF View, Get
  <2>10. QED BY <2>7, <2>8, <2>9
<1>10. ASSUME NEW s \in Kept
       PROVE  store'[s] = View[s]
  <2>1. s \in DOMAIN store' /\ (~ \E u \in New : r[u] = s) /\ s \in DOMAIN store
    BY <1>2, <1>3, <1>4, <1>8
  <2>2. A[s] = store[s]
    BY <1>1, <2>1 DEF Added
  <2>3. store'[s] = SectionAfter(b, s, store[s])
    BY <1>8b, <2>1, <2>2
  <2>4. View[s] = [o \in Opt |-> Get(s, o)]
    BY <1>3 DEF View
  <2>5. \A o \in Opt : Get(s, o) = IF o \in unsets[s] THEN Unset
                                  ELSE IF changes[s][o] # Unset THEN changes[s][o]
                                  ELSE store[s][o]
    BY <1>2 DEF Get
  <2>6. QED BY <1>1, <2>3, <2>4, <2>5 DEF SectionAfter
<1>11. \A s \in Names : store'[q[s]] = View[s]
  BY <1>2, <1>3, <1>9, <1>10
<1>12. q \in Editing!Renamings
  BY <1>3, <1>5, <1>6, <1>7 DEF Editing!Renamings
<1>13. QED
  <2> HIDE DEF q
  <2> QED BY <1>3, <1>8, <1>11, <1>12

(* After the batch, the staged edits are dropped with the cache, or there  *)
(* were none and the cache is the store.                                   *)
LEMMA UnloadReleases ==
  ASSUME TypeOK, CacheInv, StagingInv, BatchIsStaged, NEW c \in Chain,
         phase[c] \in {"written", "ordering"}, Unload(c), UNCHANGED store,
         Mode = ModeAt(phase[c]), Mode' = ModeAt(phase'[c])
  PROVE  Editing!Release \/ Editing!Resume
<1>1. CASE batch[c].touched
  <2>1. DOMAIN values' = {} /\ DOMAIN creates' = {} /\ phase'[c] = "reloading"
    BY <1>1 DEF Unload, Emptied, Nothing, MoveOn, TypeOK
  <2>2. View' = Editing!Nothing
    BY <2>1 DEF View, Names, Editing!Nothing
  <2>3. Mode = "committed" /\ Mode' = "closed"
    BY <2>1 DEF ModeAt, Loading
  <2>4. QED BY <2>2, <2>3 DEF Editing!Release
<1>2. CASE ~batch[c].touched
  <2>1. UNCHANGED View /\ phase'[c] = "counting"
    BY <1>2 DEF Unload, View, Names, Get, cache, staged, MoveOn, TypeOK
  <2>2. NothingStaged
    BY <1>2 DEF BatchIsStaged, CacheInv
  <2>3. values = store
    <3>1. \A d \in Chain \ {c} : phase[d] = "idle"
      BY DEF StagingInv, OneChain
    <3>2. \A d \in Chain : Current(d)
      BY <1>2, <3>1 DEF Current, CacheInv, BatchesInv, NoBatch
    <3>3. loaded /\ ~overtaken
      BY <3>1 DEF StagingInv, LoadsInv, Loading
    <3>4. QED BY <3>2, <3>3 DEF CacheInv
  <2>4. View = store
    BY <2>2, <2>3, NothingStagedShowsValues
  <2>5. Mode = "committed" /\ Mode' = "editing"
    BY <2>1 DEF ModeAt, Loading
  <2>6. QED BY <2>1, <2>4, <2>5 DEF Editing!Resume
<1>3. QED
  BY <1>1, <1>2

(* A step of a chain is the matching step of the session, or none.         *)
LEMMA ChainImplements ==
  ASSUME Faults = {}, TypeOK, TypeOK', CacheInv, StagingInv, StagingInv', BatchIsStaged,
         NEW c \in Chain, Save(c) \/ Progress(c) \/ Reopen(c) \/ Reset(c)
  PROVE  [Editing!Next]_(Editing!vars)
<1>1. \A d \in Chain \ {c} : phase[d] = "idle" /\ phase'[d] = "idle"
  <2>1. phase[c] # "idle" \/ Editable
    BY DEF Save, Progress, Reopen, Reset, Begin, ServerWrite, WriteReply, OrderReply, ServerRead,
       LoadReply, LoadLost, Counted
  <2>2. \A d \in Chain \ {c} : phase[d] = "idle"
    BY <2>1, EditableIsIdle DEF StagingInv, OneChain
  <2>3. \A d \in Chain \ {c} : phase'[d] = phase[d]
    BY OthersStay DEF Save, Progress, Reopen, Reset, ServerWrite, WriteReply, OrderReply, Unload,
       ServerRead, LoadReply, LoadLost, LoadDone, Counted
  <2>4. QED BY <2>2, <2>3
<1>2. Mode = ModeAt(phase[c]) /\ Mode' = ModeAt(phase'[c])
  <2>1. phase \in [Chain -> Phases] /\ phase' \in [Chain -> Phases]
    BY DEF TypeOK
  <2>2. QED BY <1>1, <2>1, ModeIs, ModeOfOne
<1>3. CASE Save(c)
  <2>1. phase[c] = "idle" /\ phase'[c] = "writing" /\ UNCHANGED <<View, store>>
    BY <1>3 DEF Save, Begin, View, Names, Get, cache, staged, TypeOK
  <2>2. Editing!Commit
    BY <1>2, <2>1 DEF Editing!Commit, ModeAt, Loading
  <2>3. QED BY <2>2 DEF Editing!Next
<1>4. CASE ServerWrite(c)
  <2>1. phase[c] = "writing" /\ phase'[c] = "written" /\ UNCHANGED View
    BY <1>4 DEF ServerWrite, MoveOn, View, Names, Get, cache, staged, TypeOK
  <2>2. PICK r \in Namings(batch[c]) : store' = StoreAfter(batch[c], r)
    BY <1>4 DEF ServerWrite
  <2>3. store' \in Editing!Configs
    BY DEF TypeOK, Configs, Options, Editing!Configs, Editing!Options
  <2>4. Mode = "committing" /\ Mode' = "committed"
    BY <1>2, <2>1 DEF ModeAt, Loading
  <2>5. Editing!Written
    BY <2>1, <2>2, <2>3, <2>4, WriteStoresDraft DEF Editing!Written
  <2>6. QED BY <2>5 DEF Editing!Next
<1>5. CASE WriteReply(c)
  <2>1. CASE reorder
    <3>1. phase[c] = "written" /\ phase'[c] = "ordering" /\ UNCHANGED <<View, store>>
      BY <1>5, <2>1 DEF WriteReply, MoveOn, View, Names, Get, cache, staged, TypeOK
    <3>2. QED BY <1>2, <3>1 DEF Editing!vars, ModeAt, Loading
  <2>2. CASE ~reorder
    BY <1>2, <1>5, <2>2, UnloadReleases DEF WriteReply, Editing!Next
  <2>3. QED BY <2>1, <2>2
<1>6. CASE OrderReply(c)
  BY <1>2, <1>6, UnloadReleases DEF OrderReply, Editing!Next
<1>7. CASE ServerRead(c)
  <2>1. phase[c] \in Loading /\ phase'[c] \in Loading /\ UNCHANGED <<View, store>>
    BY <1>7 DEF ServerRead, Read, MoveOn, View, Names, Get, cache, staged, Loading, TypeOK
  <2>2. Mode = "closed" /\ Mode' = "closed"
    BY <1>2, <2>1 DEF ModeAt, Loading
  <2>3. QED BY <2>1, <2>2 DEF Editing!vars
<1>8. CASE LoadReply(c)
  <2>1. phase[c] \in {"opened", "reloaded"} /\ phase'[c] \in {"idle", "counting"}
    BY <1>8 DEF LoadReply, LoadDone, MoveOn, End, TypeOK
  <2>2. reply[c] = store /\ NothingStaged
    BY <2>1 DEF StagingInv, LoadsInv, Loading
  <2>3. View' = store
    BY <1>8, <2>2 DEF LoadReply, LoadDone, staged, TypeOK, NothingStaged, View, Names,
       Get, NoSets, NoLists, Nothing, Blank, Configs, Options
  <2>4. Mode = "closed" /\ Mode' = "editing"
    BY <1>2, <2>1 DEF ModeAt, Loading
  <2>5. QED BY <1>8, <2>3, <2>4 DEF LoadReply, LoadDone, Editing!Open, Editing!Next
<1>9. CASE Counted(c)
  <2>1. loaded
    BY <1>1, <1>9 DEF Counted, StagingInv, LoadsInv, Loading
  <2>2. phase[c] = "counting" /\ phase'[c] = "idle" /\ UNCHANGED <<View, store>>
    BY <1>9, <2>1 DEF Counted, End, View, Names, Get, cache, staged, TypeOK
  <2>3. QED BY <1>2, <2>2 DEF Editing!vars, ModeAt, Loading
<1>10. CASE Reset(c)
  <2>1. DOMAIN values' = {} /\ DOMAIN creates' = {} /\ phase[c] = "idle" /\ phase'[c] = "opening"
    BY <1>10 DEF Reset, Emptied, Nothing, Begin, TypeOK
  <2>2. View' = Editing!Nothing
    BY <2>1 DEF View, Names, Editing!Nothing
  <2>3. Mode = "editing" /\ Mode' = "closed"
    BY <1>2, <2>1 DEF ModeAt, Loading
  <2>4. QED BY <1>10, <2>2, <2>3 DEF Reset, Editing!Discard, Editing!Next
<1>11. ~Reopen(c) /\ ~LoadLost(c)
  BY EditableIsIdle DEF Reopen, Begin, LoadLost
<1>12. QED
  BY <1>3, <1>4, <1>5, <1>6, <1>7, <1>8, <1>9, <1>10, <1>11 DEF Progress

(* Every step of the context is a step of an editing session or leaves it. *)
LEMMA StepImplements ==
  ASSUME Faults = {}, TypeOK, TypeOK', CacheInv, StagingInv, StagingInv', BatchIsStaged, [Next]_vars
  PROVE  [Editing!Next]_(Editing!vars)
<1>1. CASE \E s \in Sid, named \in BOOLEAN : Add(s, named)
  BY <1>1, AddCreates DEF Editing!Next
<1>2. CASE \E s \in Sid : Remove(s)
  BY <1>2, RemoveDrops DEF Editing!Next
<1>3. CASE \E s \in Sid, o \in Opt, w \in Val \cup {Unset} : Set(s, o, w)
  BY <1>3, SetPuts DEF Editing!Next
<1>4. CASE Swap \/ UNCHANGED vars
  BY <1>4 DEF Swap, vars, Editing!vars, View, Names, Get, Mode, cache, staged, chains
<1>5. ~Navigate
  BY DEF Navigate
<1>6. QED
  BY <1>1, <1>2, <1>3, <1>4, <1>5, ChainImplements DEF Next, Edit

(* When every request is answered, UciContext is an editing session.       *)
THEOREM Refinement ==
  ASSUME Faults = {}
  PROVE  Spec => ImplementsEditing
<1>1. Init => Editing!Init
  <2> SUFFICES ASSUME Init PROVE Editing!Init
    OBVIOUS
  <2>1. View = Editing!Nothing
    BY DEF Init, View, Names, Nothing, Editing!Nothing
  <2>2. PICK c \in Chain : phase = [d \in Chain |-> IF d = c THEN "opening" ELSE "idle"]
    BY DEF Init
  <2>3. Mode = "closed"
    BY <2>2, ModeIs, ModeOfOne DEF ModeAt, Loading, Phases
  <2>4. QED
    BY <2>1, <2>3 DEF Init, Editing!Init, Configs, Options, Editing!Configs, Editing!Options
<1>2. Init => BatchIsStaged
  BY DEF Init, BatchIsStaged
<1>3. TypeOK /\ StagingInv /\ StagingInv' /\ BatchIsStaged /\ [Next]_vars => BatchIsStaged'
  BY StepKeepsBatch
<1>4. TypeOK /\ TypeOK' /\ CacheInv /\ StagingInv /\ StagingInv' /\ BatchIsStaged /\ [Next]_vars
        => [Editing!Next]_(Editing!vars)
  BY StepImplements
<1>5. Spec => []StagingInv
  BY StagingInvariant
<1>6. QED
  BY TypeCorrect, CacheInvariant, <1>1, <1>2, <1>3, <1>4, <1>5, PTL
     DEF Spec, ImplementsEditing, Editing!Spec
=============================================================================

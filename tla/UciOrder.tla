------------------------------- MODULE UciOrder -------------------------------
(***************************************************************************)
(* The order of the sections of one UCI package, from the page that shows  *)
(* them to the server that stores them: the '.index' numbers of            *)
(* L.UCIContext (add, sections, swap, reorderSections), the rows that      *)
(* L.cbi.TypedSection draws from them (handleAdd, handleRemove,            *)
(* handleSort), and the round trip of a save.  The options inside the      *)
(* sections, and what becomes of them, are UciContext's subject.           *)
(*                                                                         *)
(* Every call of sections() numbers what it returns 0, 1, 2, ...  It       *)
(* returns copies of the loaded sections but the created ones themselves,  *)
(* so only the created ones keep the new number.  How often it is called   *)
(* therefore matters, and every handler below makes the calls its code     *)
(* makes for a page of one section type without subsections.               *)
(***************************************************************************)
EXTENDS Naturals, FiniteSets

CONSTANTS
  Sid,     \* section names
  MaxNew   \* bound: how many sections are ever created

ASSUME SidAssumption == IsFiniteSet(Sid) /\ MaxNew \in Nat

VARIABLES
  place,    \* server: section -> its relative position in the package
  base,     \* names in state.values
  removed,  \* names deleted as a whole
  created,  \* names in state.creates
  index,    \* '.index' of the objects in values and creates
  slot,     \* position of the name in its own map (insertion order)
  newidx,   \* state.newidx
  reorder,  \* state.reorder
  touched,  \* the package is a key of creates, changes or deletes
  row,      \* the rows on the page: section -> 0, 1, ... from the top
  phase,    \* "idle" | "writing" | "ordering" | "reloading"
  done      \* history: which of "add" and "remove" happened since the load

staged    == <<base, removed, created, index, slot, newidx, touched>>
ordervars == <<place, staged, reorder, row, phase, done>>

-----------------------------------------------------------------------------
(* Array.sort by '.index' of a list that holds the names of first before   *)
(* those of second, each in its map's order; sorting is stable.            *)
SortsBefore(first, idx, slt, s, t) ==
  \/ idx[s] < idx[t]
  \/ /\ idx[s] = idx[t]
     /\ \/ s \in first /\ t \notin first
        \/ (s \in first <=> t \in first) /\ slt[s] < slt[t]

Ranks(first, second, idx, slt) ==
  LET S == first \cup second
  IN  [s \in S |-> Cardinality({t \in S : SortsBefore(first, idx, slt, t, s)})]

(* Mutation: the number counts the created sections only.                  *)
RenumberAmongCreated(live, new, idx, slt) ==
  [s \in Sid |-> IF s \in new THEN Ranks({}, new, idx, slt)[s] ELSE idx[s]]

(* What one sections() call leaves in '.index'.                            *)
Renumber(live, new, idx, slt) ==
  [s \in Sid |-> IF s \in new THEN Ranks(live, new, idx, slt)[s] ELSE idx[s]]

(* Map.redraw(): render() draws the rows its own sections() call returns;  *)
(* finish() and validate() call it again.                                  *)
Redraw(live, new, idx, slt) ==
  LET drawn == Renumber(live, new, idx, slt)
      after == Renumber(live, new, drawn, slt)
  IN  /\ row' = Ranks(live, new, idx, slt)
      /\ index' = Renumber(live, new, after, slt)

Live == base \ removed

-----------------------------------------------------------------------------
(* handleAdd: Map.save(), add(), Map.redraw().                             *)
HandleAdd(s) ==
  /\ phase = "idle"
  /\ newidx < MaxNew
  /\ s \notin base \cup created
  /\ LET saved == Renumber(Live, created, index, slot)
     IN  /\ created' = created \cup {s}
         /\ slot' = [slot EXCEPT ![s] = newidx]
         /\ Redraw(Live, created', [saved EXCEPT ![s] = 1000 + newidx], slot')
  /\ newidx' = newidx + 1
  /\ touched' = TRUE
  /\ done' = done \cup {"add"}
  /\ UNCHANGED <<place, base, removed, reorder, phase>>

(* Mutation: the page is not drawn again.                                  *)
HandleRemoveKeepsRow(s) ==
  /\ phase = "idle"
  /\ s \in DOMAIN row
  /\ IF s \in created
     THEN created' = created \ {s} /\ UNCHANGED removed
     ELSE removed' = removed \cup {s} /\ UNCHANGED created
  /\ index' = Renumber(Live, created, index, slot)
  /\ touched' = TRUE
  /\ done' = done \cup {"remove"}
  /\ UNCHANGED <<place, base, slot, newidx, reorder, row, phase>>

(* handleRemove: Map.save(), remove(), Map.redraw().                       *)
HandleRemove(s) ==
  /\ phase = "idle"
  /\ s \in DOMAIN row
  /\ IF s \in created
     THEN created' = created \ {s} /\ UNCHANGED removed
     ELSE removed' = removed \cup {s} /\ UNCHANGED created
  /\ Redraw(base \ removed', created', Renumber(Live, created, index, slot), slot)
  /\ touched' = TRUE
  /\ done' = done \cup {"remove"}
  /\ UNCHANGED <<place, base, slot, newidx, reorder, phase>>

(* Mutation: only the moved section receives a new number.                 *)
HandleSortOneSided(s, t) ==
  /\ phase = "idle"
  /\ s \in DOMAIN row /\ t \in DOMAIN row
  /\ row[t] = row[s] + 1
  /\ LET swapped == [index EXCEPT ![s] = index[t]]
         saved   == Renumber(Live, created, swapped, slot)
     IN  Redraw(Live, created, saved, slot)
  /\ reorder' = TRUE
  /\ UNCHANGED <<place, base, removed, created, slot, newidx, touched, phase, done>>

(* handleSort on the row above or below: swap(), Map.save(), Map.redraw(). *)
(* "Move up" on t and "Move down" on s are the same exchange.              *)
HandleSort(s, t) ==
  /\ phase = "idle"
  /\ s \in DOMAIN row /\ t \in DOMAIN row
  /\ row[t] = row[s] + 1
  /\ LET swapped == [index EXCEPT ![s] = index[t], ![t] = index[s]]
         saved   == Renumber(Live, created, swapped, slot)
     IN  Redraw(Live, created, saved, slot)
  /\ reorder' = TRUE
  /\ UNCHANGED <<place, base, removed, created, slot, newidx, touched, phase, done>>

-----------------------------------------------------------------------------
(* Map.send(): validate() and Map.save() number the sections twice, then   *)
(* UCIContext.save() posts the batch.                                      *)
Send ==
  /\ phase = "idle"
  /\ index' = Renumber(Live, created, Renumber(Live, created, index, slot), slot)
  /\ phase' = "writing"
  /\ UNCHANGED <<place, base, removed, created, slot, newidx, touched, reorder, row, done>>

(* The server appends the new sections in the order of the batch (that of  *)
(* the creates map) and forgets the deleted ones; then reorderSections()   *)
(* posts an order call if the package is flagged.                          *)
Write ==
  /\ phase = "writing"
  /\ place' = [s \in (DOMAIN place \ removed) \cup created |->
                 IF s \in created
                 THEN Cardinality(DOMAIN place) + Cardinality({t \in created : slot[t] < slot[s]})
                 ELSE Cardinality({t \in DOMAIN place : place[t] < place[s]})]
  /\ phase' = IF reorder THEN "ordering" ELSE "reloading"
  /\ reorder' = FALSE
  /\ UNCHANGED <<staged, row, done>>

(* Mutation: the list is not sorted by '.index' before it is sent.         *)
OrderUnsorted ==
  /\ phase = "ordering"
  /\ place' = [s \in DOMAIN place |-> Ranks(created, base, [t \in Sid |-> 0], slot)[s]]
  /\ phase' = "reloading"
  /\ UNCHANGED <<staged, reorder, row, done>>

(* reorderSections(): the created sections, then the loaded ones (deleted  *)
(* ones too), sorted by '.index'.  The server moves the ones it has.       *)
Order ==
  /\ phase = "ordering"
  /\ place' = [s \in DOMAIN place |-> Ranks(created, base, index, slot)[s]]
  /\ phase' = "reloading"
  /\ UNCHANGED <<staged, reorder, row, done>>

(* The index, the map order and the rows a loaded package has.             *)
Loaded ==
  LET r == [s \in DOMAIN place |-> Cardinality({t \in DOMAIN place : place[t] < place[s]})]
      i == [s \in Sid |-> IF s \in DOMAIN place THEN r[s] ELSE 0]
  IN  /\ base' = DOMAIN place
      /\ removed' = {}
      /\ created' = {}
      /\ index' = i
      /\ slot' = i
      /\ touched' = FALSE
      /\ done' = {}
      /\ row' = r

(* unload() and load() of a touched package; one that was only reordered   *)
(* stays loaded.  Map.load() calls sections() once, redraw() three times.  *)
Reload ==
  /\ phase = "reloading"
  /\ IF touched
     THEN Loaded
     ELSE /\ Redraw(Live, created, Renumber(Live, created, index, slot), slot)
          /\ UNCHANGED <<base, removed, created, slot, touched, done>>
  /\ phase' = "idle"
  /\ UNCHANGED <<place, newidx, reorder>>

(* handleReset: the package is unloaded and loaded; state.reorder stays.   *)
Reset ==
  /\ phase = "idle"
  /\ Loaded
  /\ UNCHANGED <<place, newidx, reorder, phase>>

-----------------------------------------------------------------------------
(* A package as the server may hold it, with its sections in any order.    *)
Packages == {f \in UNION {[S -> 0 .. Cardinality(S) - 1] : S \in SUBSET Sid} :
               \A s, t \in DOMAIN f : f[s] = f[t] => s = t}

OrderInit ==
  /\ place \in Packages
  /\ base = DOMAIN place
  /\ removed = {}
  /\ created = {}
  /\ index = [s \in Sid |-> IF s \in DOMAIN place THEN place[s] ELSE 0]
  /\ slot = index
  /\ newidx = 0
  /\ reorder = FALSE
  /\ touched = FALSE
  /\ row = place
  /\ phase = "idle"
  /\ done = {}

OrderNext ==
  \/ \E s \in Sid : HandleAdd(s) \/ HandleRemove(s)
  \/ \E s, t \in Sid : HandleSort(s, t)
  \/ Send \/ Write \/ Order \/ Reload \/ Reset

OrderSpec == OrderInit /\ [][OrderNext]_ordervars

-----------------------------------------------------------------------------
(* The page shows one row per section that is left, numbered from the top  *)
(* (sections, renderBody).                                                 *)
OrderTypeOK ==
  /\ DOMAIN place \subseteq Sid /\ \A s \in DOMAIN place : place[s] \in Nat
  /\ removed \subseteq base /\ base \subseteq Sid
  /\ created \subseteq Sid \ base
  /\ index \in [Sid -> Nat] /\ slot \in [Sid -> Nat]
  /\ newidx \in 0 .. MaxNew
  /\ {reorder, touched} \subseteq BOOLEAN /\ done \subseteq {"add", "remove"}
  /\ phase \in {"idle", "writing", "ordering", "reloading"}
  /\ DOMAIN row = Live \cup created
  /\ {row[s] : s \in DOMAIN row} = 0 .. Cardinality(DOMAIN row) - 1

(* Sections were both added and removed since the package was loaded: the  *)
(* numbers of the loaded ones then have gaps that those of the created     *)
(* ones, renumbered from 0 by every sections() call, fall into.            *)
Mixed == done = {"add", "remove"}

(* A save brings the sections back in the order the page showed, whatever  *)
(* mix of adding (or removing) and moving came before (reorderSections,    *)
(* sections).                                                              *)
SavedOrderIsShown ==
  [][(phase = "reloading" /\ phase' = "idle" /\ ~Mixed) => row' = row]_ordervars

(* Adding or removing a section leaves the others in the order shown       *)
(* (handleAdd, handleRemove).                                              *)
OthersKeepOrder ==
  [][(~Mixed' /\ touched' /\ (created' # created \/ removed' # removed)) =>
        \A s, t \in DOMAIN row \cap DOMAIN row' : row[s] < row[t] => row'[s] < row'[t]]_ordervars

(* A move exchanges the two rows and touches no other (handleSort).        *)
MoveExchangesRows ==
  [][\A s, t \in DOMAIN row :
       (~Mixed /\ HandleSort(s, t)) => row' = [row EXCEPT ![s] = row[t], ![t] = row[s]]]_ordervars

(* The tooltips "Move up" and "Move down" of renderSort: the button moves  *)
(* the row, whatever was added or removed before.                          *)
MoveUpMovesUp ==
  [][\A s, t \in DOMAIN row : HandleSort(s, t) => row'[t] < row'[s]]_ordervars
=============================================================================

----------------------------- MODULE CbiSections -----------------------------
(***************************************************************************)
(* How an L.cbi.Map goes through its sections: which sections a save, a    *)
(* validation and a redraw reach, what adding and removing a section does  *)
(* to edits that are not saved yet, which panel is open, and how the page  *)
(* and the dialog (L.cbi.Modal) differ when the form is wrong.  One        *)
(* TypedSection, with subsections if nested; what a single section saves   *)
(* is CbiForm's subject, the order of the sections UciOrder's.             *)
(***************************************************************************)
EXTENDS Naturals, Integers, Sequences, SequencesExt, Sublists

CONSTANTS
  Section,  \* names of sections
  MaxTop,   \* bound: sections the package has at first
  MaxKids   \* bound: subsections each of them has

ASSUME SectionsAssumption == MaxTop \in Nat /\ MaxKids \in Nat

VARIABLES
  nested,  \* the section type has a subsection type; never changes
  modal,   \* the map is shown in a dialog; never changes
  top,     \* getUCISections() of the section type, in order
  kids,    \* parent -> getUCISections(parent) of the subsection type
  edited,  \* sections with an edit in their widgets that no save has seen
  wrong,   \* sections with a field that fails validation
  lost,    \* history: sections whose edit was drawn over
  panel,   \* active_panel of the section type
  page     \* "open" | "closed" | "frozen"

kind == <<nested, modal>>
sections == <<nested, modal, top, kids, edited, wrong, lost, panel, page>>

KidsOf(k, t) == UNION {ToSet(k[s]) : s \in ToSet(t)}
Shown  == ToSet(top) \cup KidsOf(kids, top)
Unused == Section \ Shown

-----------------------------------------------------------------------------
(* Mutation: the loop of a section stops before the last one.              *)
NextIndexShort(i) == IF i + 2 = Len(top) THEN Len(top) ELSE i + 1

(* save() counts with a variable it does not declare.  The loops of the    *)
(* subsections use the same one, so a section goes on where the last of    *)
(* them has stopped: at the number of subsections it found, plus one.      *)
NextIndex(i) == IF nested THEN Len(kids[top[i + 1]]) + 1 ELSE i + 1

(* The indices the loop of the top sections visits; it comes to an end     *)
(* unless it returns to one it has already visited.                        *)
Visited ==
  LET after[n \in 0 .. Len(top)] ==
        IF n = 0 THEN {0}
        ELSE after[n - 1] \cup {NextIndex(i) : i \in {j \in after[n - 1] : j < Len(top)}}
  IN  after[Len(top)]

Ends == \E i \in Visited : i >= Len(top)

SavedSections ==
  LET tops == {top[i + 1] : i \in {j \in Visited : j < Len(top)}}
  IN  tops \cup UNION {ToSet(kids[s]) : s \in tops}

(* validate() has a counter of its own and looks at all that is below a    *)
(* top section.                                                            *)
Valid == wrong \cap Shown = {}

(* renderBody(): a negative index counts from the end.                     *)
PanelFor(n, len) ==
  IF n < 0 THEN n + len ELSE IF n >= len THEN len - 1 ELSE n

-----------------------------------------------------------------------------
(* Map.save() and redraw(): what was not saved is drawn over.              *)
SaveAndRedraw(newtop, newkids, index) ==
  IF Ends
  THEN /\ lost'   = lost \cup (edited \ SavedSections)
       /\ edited' = {}
       /\ top' = newtop /\ kids' = newkids
       /\ panel'  = PanelFor(index, Len(newtop))
       /\ wrong'  = wrong \cap (SavedSections \cap (ToSet(newtop) \cup KidsOf(newkids, newtop)))
       /\ UNCHANGED page
  ELSE /\ page' = "frozen"
       /\ UNCHANGED <<top, kids, edited, wrong, lost, panel>>

EditSection ==
  \E s \in Shown, bad \in BOOLEAN :
    /\ edited' = edited \cup {s}
    /\ wrong'  = IF bad THEN wrong \cup {s} ELSE wrong \ {s}
    /\ UNCHANGED <<top, kids, lost, panel, page>>

(* handleAdd: the form is saved, the section added, the form drawn again   *)
(* with the panel of the last section open.                                *)
HandleAdd ==
  \E s \in Unused : SaveAndRedraw(Append(top, s), [kids EXCEPT ![s] = <<>>], -1)

HandleAddSub ==
  /\ nested
  /\ \E s \in Unused, p \in ToSet(top) :
       SaveAndRedraw(top, [kids EXCEPT ![p] = Append(@, s)], panel)

(* handleRemove: the edits of the removed section go with it.              *)
HandleRemove ==
  \E s \in Shown :
    LET without(q) == Within(q, Section \ {s})
        newkids == [p \in Section |-> IF p = s THEN <<>> ELSE without(kids[p])]
    IN  SaveAndRedraw(without(top), newkids, panel)

HandlePanelCollapse ==
  /\ \E i \in DOMAIN top : panel' = i - 1
  /\ UNCHANGED <<top, kids, edited, wrong, lost, page>>

(* The Save button.  send() does nothing with a wrong form but succeeds; a *)
(* dialog is closed after every send().                                    *)
HandleSave ==
  \/ /\ Valid
     /\ IF modal /\ Ends
        THEN /\ page' = "closed"
             /\ lost' = lost \cup (edited \ SavedSections)
             /\ edited' = {}
             /\ UNCHANGED <<top, kids, wrong, panel>>
        ELSE SaveAndRedraw(top, kids, panel)
  \/ /\ ~Valid
     /\ IF modal
        THEN page' = "closed" /\ lost' = lost \cup edited /\ edited' = {}
        ELSE UNCHANGED <<page, lost, edited>>
     /\ UNCHANGED <<top, kids, wrong, panel>>

(* Reset draws the form anew and Cancel closes the dialog: the edits are   *)
(* given up, and not lost.                                                 *)
HandleReset ==
  /\ edited' = {} /\ wrong' = {}
  /\ page' = IF modal THEN "closed" ELSE page
  /\ panel' = PanelFor(panel, Len(top))
  /\ UNCHANGED <<top, kids, lost>>

Lists(n) == {q \in BoundedSeq(Section, n) : IsInjective(q)}

SectionsInit ==
  /\ nested \in BOOLEAN /\ modal \in BOOLEAN
  /\ top \in Lists(MaxTop)
  /\ kids \in {k \in [Section -> Lists(IF nested THEN MaxKids ELSE 0)] :
                 /\ \A p \in Section : k[p] # <<>> =>
                      p \in ToSet(top) /\ ToSet(k[p]) \cap ToSet(top) = {}
                 /\ \A p, q \in Section : p # q => ToSet(k[p]) \cap ToSet(k[q]) = {}}
  /\ edited = {} /\ wrong = {} /\ lost = {}
  /\ panel = PanelFor(0, Len(top))
  /\ page = "open"

SectionsNext ==
  /\ page = "open"
  /\ UNCHANGED kind
  /\ \/ EditSection \/ HandleAdd \/ HandleAddSub \/ HandleRemove
     \/ HandlePanelCollapse \/ HandleSave \/ HandleReset

SectionsSpec == SectionsInit /\ [][SectionsNext]_sections

-----------------------------------------------------------------------------
SectionsTypeOK ==
  /\ ToSet(top) \subseteq Section
  /\ kids \in [Section -> Seq(Section)]
  /\ edited \subseteq Shown /\ wrong \subseteq Section /\ lost \subseteq Section
  /\ panel \in -1..Len(top)
  /\ page \in {"open", "closed", "frozen"}

(* A save, by the button of the page or before it is drawn again, reaches  *)
(* every section the page shows: no edit is drawn over, and the loop comes *)
(* to its end (AbstractSection.save, handleAdd, Map.save).                 *)
EveryEditSaved == ~modal => lost = {} /\ page # "frozen"

(* It does so where the shared counter does no harm: without subsections,  *)
(* or with a single section that has them; and in a dialog as long as the  *)
(* form is right.                                                          *)
FlatEditsKept ==
  (Len(top) <= 1 \/ ~nested) /\ (~modal \/ Valid) => lost' = lost /\ page' # "frozen"

FlatEditsSaved == [][FlatEditsKept]_sections
=============================================================================

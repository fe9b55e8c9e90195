------------------------------- MODULE CbiForm -------------------------------
(***************************************************************************)
(* One section of an L.cbi form: what its widgets draw from the UCI cache, *)
(* what they hold while the user edits them, which of them validation      *)
(* marks, which of them their dependencies hide, and what a save writes    *)
(* back.  The cache itself is UciContext; here it is one value per option. *)
(*                                                                         *)
(* A text is a model string; SplitWords says how split(/\s+/) cuts it.  A  *)
(* field is described by a record with its kind and the options of its     *)
(* declaration; its widget holds                                           *)
(*   Checkbox:           whether it is checked                             *)
(*   Input, List, Combo: a text (a Combo's is that of its hidden input;    *)
(*                       what its select shows in the meantime is left out) *)
(*   Button:             the empty text                                    *)
(*   Dynamic:            the texts of its rows                             *)
(***************************************************************************)
EXTENDS Naturals, Sequences, SequencesExt, Sublists

CONSTANTS
  Declared,   \* the fields of the section, in the order of their declaration
  Kind(_),    \* field -> its kind
  Option(_),  \* field -> the options of its declaration
  AddRemove,  \* whether sections can be added, removed and moved
  SplitWords, \* text -> the words split() finds in it
  Typed,      \* field -> the texts a user may type into it
  Stored,     \* the sections the server may hold: field -> value
  MaxRows     \* bound: rows of a Dynamic field

VARIABLES
  uci,       \* L.uci.get(): field -> value
  widget,    \* field -> what its widget holds
  disabled,  \* instance[sid].disabled: the hidden fields
  marked,    \* field -> its elements (rows) with class has-error
  error      \* the fields with class luci2-form-error

vars == <<uci, widget, disabled, marked, error>>

Fields == ToSet(Declared)

-----------------------------------------------------------------------------
(* Values, each with its type in the script.                               *)
Undefined == <<"undefined", "">>
Str(t)    == <<"string", t>>
List(s)   == <<"list", s>>
Bool(b)   == <<"boolean", b>>
Type(v)   == v[1]
Of(v)     == v[2]

Defined(t) == IF t = "" THEN Undefined ELSE Str(t)

-----------------------------------------------------------------------------
(* depends(): every call adds an alternative, or with "add" narrows the    *)
(* ones there are; a field that is not declared yet is left out.           *)
Depends(alternatives, dep, add, known) ==
  LET d == [g \in DOMAIN dep \cap known |-> dep[g]]
  IN  IF DOMAIN d = {} THEN alternatives
      ELSE IF ~add \/ alternatives = {} THEN alternatives \cup {d}
      ELSE {[g \in DOMAIN a \cup DOMAIN d |->
               IF g \in DOMAIN d THEN d[g] ELSE a[g]] : a \in alternatives}

Dependencies ==
  [f \in Fields |->
     FoldLeft(LAMBDA a, call :
                Depends(a, call.dep, call.add, {Declared[i] : i \in 1..call.known}),
              {}, Option(f).depends)]

(* rdependency: the fields to look at when f changes.                      *)
Dependents ==
  [f \in Fields |-> {g \in Fields : \E d \in Dependencies[g] : f \in DOMAIN d}]

(* What the forms of the source keep to: a ComboBox may be left empty, no  *)
(* field hangs on a list of texts, a list has something to choose, and a   *)
(* checkbox writes two different texts.                                    *)
ASSUME FieldsAssumption ==
  /\ Declared \in Seq(Fields)
  /\ \A f \in Fields :
       /\ Kind(f) \in {"Checkbox", "Input", "List", "Combo", "Button", "Dynamic"}
       /\ Option(f).depends \in Seq(ToSet(Option(f).depends))
       /\ \A call \in ToSet(Option(f).depends) : call.known \in 0 .. Len(Declared)
       /\ Kind(f) = "Combo"    => Option(f).optional
       /\ Kind(f) = "Dynamic"  => Dependents[f] = {}
       /\ Kind(f) = "List"     => Option(f).optional \/ Option(f).choices[1] \in ToSet(Option(f).choices)
       /\ Kind(f) = "Checkbox" => Option(f).enabled # Option(f).disabled

-----------------------------------------------------------------------------
Entries(v) == CASE Type(v) = "list"      -> Of(v)
                [] Type(v) = "undefined" -> <<>>
                [] OTHER                -> SplitWords[Of(v)]

(* What an option can be on the server: UCI keeps no empty text, no empty  *)
(* list and no empty entry in one, and a text that is cut into words begins*)
(* and ends with one.                                                      *)
Filled(s) == s \in Seq(ToSet(s) \ {""})

Proper(f, v) ==
  CASE Kind(f) = "Checkbox" -> v \in {Undefined, Bool(TRUE), Bool(FALSE)} \/ v = Str(Of(v))
    [] Kind(f) = "Dynamic"  -> \/ v = Undefined
                               \/ v = List(Of(v)) /\ Filled(Of(v)) /\ Of(v) # <<>>
                               \/ v = Str(Of(v)) /\ Filled(SplitWords[Of(v)])
    [] OTHER                -> v = Undefined \/ (v = Str(Of(v)) /\ Of(v) # "")

ASSUME ValuesAssumption ==
  \A f \in Fields : Proper(f, Option(f).initial) /\ \A u \in Stored : Proper(f, u[f])

(* ucivalue(): the option, or the initial value where it is not set.       *)
UciValue(f, u) ==
  LET v == IF u = Undefined THEN Option(f).initial ELSE u
  IN  CASE Kind(f) = "Checkbox" ->
             IF Type(v) = "boolean" THEN v ELSE Bool(v = Str(Option(f).enabled))
        [] Kind(f) = "Dynamic"  -> List(Entries(v))
        [] OTHER                -> v

FirstOf(f) == IF Option(f).optional THEN "" ELSE Option(f).choices[1]
Offered(f) == ToSet(Option(f).choices) \cup (IF Option(f).optional THEN {""} ELSE {})

(* Mutation: an empty list is drawn without a row to type into.            *)
RowsWithoutBlank(entries) == entries

(* DynamicList._redraw: there is always one row to type into.              *)
Rows(entries) == IF entries = <<>> THEN <<"">> ELSE entries

(* widget(): what is drawn.  A select that is given a value it does not    *)
(* offer falls back on its first option.                                   *)
Drawn(f, u) ==
  LET v == UciValue(f, u)
      t == IF v = Undefined THEN "" ELSE Of(v)
  IN  CASE Kind(f) = "Checkbox" -> Of(v)
        [] Kind(f) \in {"Input", "Combo", "Button"} -> t
        [] Kind(f) = "List"     -> IF t \in Offered(f) THEN t ELSE FirstOf(f)
        [] Kind(f) = "Dynamic"  -> Rows(Of(v))

FormValue(f, w) ==
  CASE Kind(f) = "Checkbox" -> Bool(w)
    [] Kind(f) = "Dynamic"  -> List(Within(w, ToSet(w) \ {""}))
    [] OTHER                -> Defined(w)

(* Mutation: the comparison is made with the option itself.                *)
ChangedRaw(f, u, w) == u # FormValue(f, w)

Changed(f, u, w) == UciValue(f, u) # FormValue(f, w)

(* Mutation: an optional checkbox is unset when it is not checked.         *)
WrittenUnset(f, w) ==
  LET v == FormValue(f, w)
  IN  IF Kind(f) # "Checkbox" THEN v
      ELSE IF Option(f).optional /\ ~w THEN Undefined
      ELSE Str(IF w THEN Option(f).enabled ELSE Option(f).disabled)

(* "b == v" of the script, for a boolean b.                                *)
LooselyEqual(b, v) ==
  v \in IF b THEN {Bool(TRUE), Str("1")} ELSE {Bool(FALSE), Str("0"), Str("")}

(* What a changed field sets.                                              *)
Written(f, w) ==
  IF Kind(f) # "Checkbox" THEN FormValue(f, w)
  ELSE IF Option(f).optional /\ LooselyEqual(w, Option(f).initial) THEN Undefined
  ELSE Str(IF w THEN Option(f).enabled ELSE Option(f).disabled)

(* The checkboxes of the source: the state that unsets the option is the   *)
(* one an option that is not set is drawn with.                            *)
ASSUME CheckboxAssumption ==
  \A f \in Fields, b \in BOOLEAN :
    Kind(f) = "Checkbox" /\ Option(f).optional /\ LooselyEqual(b, Option(f).initial)
      => UciValue(f, Undefined) = Bool(b)

Saved(f, u, w, hidden) ==
  CASE hidden /\ ~Option(f).keep      -> Undefined
    [] hidden /\ Option(f).keep       -> u
    [] ~hidden /\ Changed(f, u, w)     -> Written(f, w)
    [] ~hidden /\ ~Changed(f, u, w)    -> u

AfterSave(hidden) ==
  [f \in Fields |-> Saved(f, uci[f], widget[f], f \in hidden)]

-----------------------------------------------------------------------------
(* handleValidate on one element.                                          *)
TextOk(f, t) ==
  IF t = "" THEN Option(f).optional ELSE t \notin Option(f).rejects

(* The elements of a field that fail; a checkbox has the value "on".       *)
Failing(f, w) ==
  CASE Kind(f) = "Checkbox" -> {}
    [] Kind(f) = "Dynamic"  -> {i \in DOMAIN w : w[i] \in Option(f).rejects}
    [] OTHER                -> {i \in {1} : ~TextOk(f, w)}

(* One alternative of toggle(): true and false ask whether there is a      *)
(* value, a text asks for that value.                                      *)
Meets(v, want) ==
  IF Type(want) = "boolean" THEN Of(want) = (v \notin {Undefined, Bool(FALSE)})
                         ELSE v = want

Satisfied(f, w) ==
  \/ Dependencies[f] = {}
  \/ \E d \in Dependencies[f] :
       \A g \in DOMAIN d : Meets(FormValue(g, w[g]), d[g])

(* The fields validated after those of start, for a set of failing fields: *)
(* handleValidate toggles and validates the dependents of a field it finds *)
(* right, and these theirs.                                                *)
Reached(start, failing) ==
  LET reached[n \in 0 .. Len(Declared)] ==
        IF n = 0 THEN start
        ELSE LET R == reached[n - 1]
             IN  R \cup UNION {Dependents[f] : f \in R \ failing}
  IN  reached[Len(Declared)]

(* Mutation: the dependents of a field are not looked at.                  *)
ToggledNone(R, failing) == {}

Toggled(R, failing) == UNION {Dependents[f] : f \in R \ failing}

(* The marks of a form with the widgets w once the fields of start have    *)
(* been validated.                                                         *)
Validated(start, w, hidden, mark, err) ==
  LET failing == {f \in Fields : Failing(f, w[f]) # {}}
      R == Reached(start, failing)
      T == Toggled(R, failing)
  IN  [disabled |-> (hidden \ T) \cup {f \in T : ~Satisfied(f, w)},
       marked   |-> [f \in Fields |-> IF f \in R THEN Failing(f, w[f]) ELSE mark[f]],
       error    |-> (err \ R) \cup (R \cap failing)]

Marks(validated) ==
  \E form \in {validated} :
    /\ disabled' = form.disabled
    /\ marked'   = form.marked
    /\ error'    = form.error

Unmarked == [f \in Fields |-> {}]

(* L.uci.get() answers with the array of the cache itself, and _redraw     *)
(* pushes the blank row of an empty list into it.                          *)
AfterDraw(u) == IF Type(u) = "list" THEN List(Rows(Of(u))) ELSE u

(* render() and finish() of a form whose options are those of cache: new   *)
(* widgets, none hidden or marked, all of them validated.                  *)
Render(cache) ==
  /\ uci'    = [f \in Fields |-> AfterDraw(cache[f])]
  /\ widget' = [f \in Fields |-> Drawn(f, cache[f])]
  /\ Marks(Validated(Fields, widget', {}, Unmarked, {}))

-----------------------------------------------------------------------------
(* The user's edits.  Each validates the field, and what hangs on it.      *)
Visible(f) == f \notin disabled

Edit(f, w) ==
  /\ Visible(f)
  /\ widget' = [widget EXCEPT ![f] = w]
  /\ Marks(Validated({f}, widget', disabled, marked, error))
  /\ UNCHANGED uci

Click(f)   == Kind(f) = "Checkbox" /\ Edit(f, ~widget[f])
TypeInto(f) == Kind(f) = "Input" /\ \E t \in Typed[f] : Edit(f, t)
Choose(f)  == Kind(f) = "List" /\ \E t \in Offered(f) : Edit(f, t)

(* ComboBox._change and _blur: an entry is copied to the input, "custom"   *)
(* shows the empty input, and what is typed there becomes an entry when    *)
(* the input is left.                                                      *)
Combine(f) == Kind(f) = "Combo" /\ \E t \in Typed[f] \cup Offered(f) : Edit(f, t)

(* One row of a DynamicList is typed into: its mark alone is judged, and   *)
(* the field is right when no marked row is left.                          *)
TypeRow(f) ==
  /\ Kind(f) = "Dynamic" /\ Visible(f)
  /\ \E i \in DOMAIN widget[f], t \in Typed[f] :
       /\ widget' = [widget EXCEPT ![f][i] = t]
       /\ marked' = [marked EXCEPT ![f] =
                       IF t \in Option(f).rejects THEN @ \cup {i} ELSE @ \ {i}]
       /\ error'  = IF marked'[f] = {} THEN error \ {f} ELSE error \cup {f}
  /\ UNCHANGED <<uci, disabled>>

(* The + and - buttons, Enter and Backspace (in an empty row): _redraw     *)
(* makes all rows anew, without their marks; the field keeps its own until *)
(* it is validated.                                                        *)
Redraw(f, rows) ==
  /\ widget' = [widget EXCEPT ![f] = Rows(rows)]
  /\ marked' = [marked EXCEPT ![f] = {}]
  /\ UNCHANGED <<uci, disabled, error>>

AddRow(f) ==
  /\ Kind(f) = "Dynamic" /\ Visible(f) /\ Len(widget[f]) < MaxRows
  /\ \E i \in DOMAIN widget[f] : Redraw(f, InsertAt(widget[f], i + 1, ""))

DeleteRow(f) ==
  /\ Kind(f) = "Dynamic" /\ Visible(f)
  /\ \E i \in DOMAIN widget[f] :
       /\ i < Len(widget[f]) \/ widget[f][i] = ""
       /\ Redraw(f, RemoveAt(widget[f], i))

EditSome ==
  \E f \in Fields : \/ Click(f) \/ TypeInto(f) \/ Choose(f) \/ Combine(f)
                    \/ TypeRow(f) \/ AddRow(f) \/ DeleteRow(f)

-----------------------------------------------------------------------------
(* handleAdd, handleRemove and handleSort of a section keep what was typed *)
(* by saving the form to the cache, without validating it, and draw the    *)
(* form again.                                                             *)
Resave == AddRemove /\ Render(AfterSave(disabled))

(* What the server, told to set an option, answers when it is loaded again:*)
(* an empty list is no option.                                             *)
Reloaded(u) == IF u = List(<<>>) THEN Undefined ELSE u

(* The Save button: nothing happens while a shown field is wrong; else the *)
(* form is saved to the cache and the cache to the server, before anything *)
(* is loaded and drawn again.                                              *)
Send ==
  LET form == Validated(Fields, widget, disabled, marked, error)
  IN  IF form.error \subseteq form.disabled
      THEN Render([f \in Fields |-> Reloaded(AfterSave(form.disabled)[f])])
      ELSE Marks(form) /\ UNCHANGED <<uci, widget>>

(* The Reset button: the staged edits are dropped and the package loaded.  *)
Reset == \E u \in Stored : Render(u)

(* "Change protocol" of an interface's form: the handler looks for the     *)
(* section in its event data, which names none, and so reads no value and  *)
(* changeProtocol() finds no handler; a new form is drawn from the cache.  *)
Press ==
  /\ \E f \in Fields : Kind(f) = "Button" /\ Visible(f)
  /\ Render(uci)

Init ==
  /\ uci \in Stored
  /\ widget = [f \in Fields |-> Drawn(f, uci[f])]
  /\ LET form == Validated(Fields, widget, {}, Unmarked, {})
     IN  disabled = form.disabled /\ marked = form.marked /\ error = form.error

Next == EditSome \/ Resave \/ Send \/ Reset \/ Press

Spec == Init /\ [][Next]_vars

-----------------------------------------------------------------------------
(* The values the server may hold, and those that are read for want of one.*)
StoredFor(f) == {u[f] : u \in Stored}
Held(f)      == StoredFor(f) \cup {Option(f).initial}

(* The texts a field can come to hold.                                     *)
TextsOf(f) ==
  {""} \cup Typed[f] \cup Offered(f)
    \cup (IF Kind(f) = "Dynamic" THEN UNION {ToSet(Entries(v)) : v \in Held(f)}
                                ELSE {Of(v) : v \in Held(f)})

(* A list that was emptied and drawn: its blank row is in the cache.       *)
Emptied == List(<<"">>)

OptionTyped(f, u) ==
  \/ u \in StoredFor(f) \cup {Undefined}
  \/ CASE Kind(f) = "Checkbox" -> u \in {Str(Option(f).enabled), Str(Option(f).disabled)}
       [] Kind(f) = "Dynamic"  -> \/ u = Emptied
                                  \/ /\ u = List(Of(u)) /\ Of(u) # <<>>
                                     /\ Of(u) \in Seq(TextsOf(f) \ {""})
       [] OTHER                -> u \in {Str(t) : t \in TextsOf(f) \ {""}}

WidgetTyped(f, w) ==
  CASE Kind(f) = "Checkbox" -> w \in BOOLEAN
    [] Kind(f) = "Dynamic"  -> w \in Seq(TextsOf(f)) /\ w # <<>>
    [] OTHER                -> w \in TextsOf(f)

MarksTyped(f, w, marks) ==
  CASE Kind(f) = "Checkbox" -> marks = {}
    [] Kind(f) = "Dynamic"  -> marks \subseteq DOMAIN w
    [] OTHER                -> marks \subseteq {1}

(* What the cache and the widgets of a section can hold: no list is        *)
(* without a row, the only empty text in the cache is the blank row of a   *)
(* list that was emptied, and only rows there are carry a mark             *)
(* (L.cbi.AbstractValue and the widgets derived from it).                  *)
TypeOK ==
  /\ \A f \in Fields : /\ OptionTyped(f, uci[f])
                       /\ WidgetTyped(f, widget[f])
                       /\ MarksTyped(f, widget[f], marked[f])
  /\ marked \in [Fields -> SUBSET Nat]
  /\ disabled \subseteq Fields
  /\ error \subseteq Fields

(* After any mix of edits, saves and resets a field is shown exactly when  *)
(* one of its alternatives is met by what the form holds now, unless a     *)
(* field it hangs on is wrong itself (toggle, handleValidate).             *)
ShownIffDependsOn ==
  \A f \in Fields :
    (\A g \in Fields : f \in Dependents[g] => Failing(g, widget[g]) = {})
      => (f \notin disabled <=> Satisfied(f, widget))

(* Values a field can show: a list shows the values it offers.             *)
CanShow(f, u) == Kind(f) = "List" => Drawn(f, u) = Of(UciValue(f, u))

(* Opening a form and saving it without an edit writes nothing: what a     *)
(* field draws is, read back, what it was drawn from (widget, changed).    *)
(* The exception is a list whose emptying is staged: its blank row is in   *)
(* the cache, and what is written is the empty list once more (_redraw).   *)
IdleSaveWritesNothing ==
  \A f \in Fields :
    f \notin disabled /\ CanShow(f, uci[f]) /\ widget[f] = Drawn(f, uci[f])
      => Saved(f, uci[f], widget[f], FALSE) = IF uci[f] = Emptied THEN List(<<>>) ELSE uci[f]

(* Adding, removing or moving a section costs no edit: what a shown field  *)
(* held before the form was saved and drawn again it holds afterwards; a   *)
(* field with an initial value that was emptied gets that value back.      *)
RedrawKeeps ==
  \/ UNCHANGED widget
  \/ \A f \in Fields \ disabled :
       \/ FormValue(f, widget'[f]) = FormValue(f, widget[f])
       \/ FormValue(f, widget[f]) = Undefined /\ Option(f).initial # Undefined
  \/ ~Resave

(* In every run of a form, each redraw for a section that was added,       *)
(* removed or moved keeps the edits of the fields shown (handleAdd).       *)
RedrawKeepsEdits == [][RedrawKeeps]_vars
=============================================================================

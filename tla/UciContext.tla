----------------------------- MODULE UciContext -----------------------------
(***************************************************************************)
(* L.UCIContext of luci2.js: the browser's cache of one UCI package and    *)
(* the edits staged over it (state.values, creates, changes, deletes), the *)
(* chains of requests that load and save it, each save one JSON-RPC batch, *)
(* and the server's copy that the batches reach.                           *)
(*                                                                         *)
(* One package: every map of the context is keyed by package first and no  *)
(* method relates two packages.  The order of the sections (the '.index'   *)
(* numbers, swap and the order call) is the subject of UciOrder; here only *)
(* the reorder flag is kept, because it adds a round trip to the save.     *)
(*                                                                         *)
(* Nothing but the loading dialog keeps the user from starting a second    *)
(* chain: Chain names those that may be under way at once.                 *)
(*                                                                         *)
(* Faults names what may go wrong:                                         *)
(*   "drop"     a batch of writes has no effect (it timed out on the way   *)
(*              or every call in it was refused); save() goes on the same  *)
(*   "lose"     the answer to a load never comes                           *)
(*   "navigate" the user leaves the page while a chain is under way, which *)
(*              takes the loading dialog away that held up all input       *)
(***************************************************************************)
CONSTANTS Sid, Opt, Val, Unset, Chain, Faults

ASSUME UnsetAssumption == Unset \notin Val
ASSUME ChainAssumption == Chain # {}
ASSUME FaultsAssumption == Faults \subseteq {"drop", "lose", "navigate"}

VARIABLES
  loaded,    \* state.values[conf] is defined
  values,    \* state.values[conf]: section -> options, as loaded
  creates,   \* state.creates[conf]: section -> [named, opts]
  changes,   \* state.changes[conf]: the option values set
  unsets,    \* state.deletes[conf][sid] when it is a list of options
  removed,   \* the sections whose state.deletes[conf][sid] is true
  touched,   \* conf is a key of creates, changes or deletes
  reorder,   \* state.reorder[conf]
  covered,   \* the loading dialog is shown
  phase,     \* where each chain stands
  batch,     \* the writes each chain has posted, as save() copied them
  reply,     \* what the server has read for the load of each chain
  store,     \* the server: section -> options
  overtaken  \* history: the cache is an answer that a write overtook

staged == <<creates, changes, unsets, removed, touched>>
cache  == <<loaded, values>>
chains == <<phase, batch, reply>>
vars   == <<cache, staged, reorder, covered, chains, store, overtaken>>

-----------------------------------------------------------------------------
Options == [Opt -> Val \cup {Unset}]
Blank   == [o \in Opt |-> Unset]
Configs == UNION {[S -> Options] : S \in SUBSET Sid}
Nothing == [s \in {} |-> Blank]
NoSets  == [s \in Sid |-> Blank]
NoLists == [s \in Sid |-> {}]

NewSections == UNION {[S -> [named : BOOLEAN, opts : Options]] : S \in SUBSET Sid}
Batches == [adds : NewSections, sets : [Sid -> Options],
            lists : [Sid -> SUBSET Opt], dels : SUBSET Sid, touched : BOOLEAN]
NoBatch == [adds |-> Nothing, sets |-> NoSets, lists |-> NoLists,
            dels |-> {}, touched |-> FALSE]

(* Mutation: a change is looked up before the deletions.                   *)
GetChangedFirst(s, o) ==
  IF s \in DOMAIN creates THEN creates[s].opts[o]
  ELSE IF changes[s][o] # Unset THEN changes[s][o]
  ELSE IF s \in removed \/ o \in unsets[s] THEN Unset
  ELSE IF s \in DOMAIN values THEN values[s][o]
  ELSE Unset

(* get(): a created section answers for itself, then the deletions hide,   *)
(* then the changes cover the loaded values.                               *)
Get(s, o) ==
  IF s \in DOMAIN creates THEN creates[s].opts[o]
  ELSE IF s \in removed \/ o \in unsets[s] THEN Unset
  ELSE IF changes[s][o] # Unset THEN changes[s][o]
  ELSE IF s \in DOMAIN values THEN values[s][o]
  ELSE Unset

(* The names sections() lists, and the configuration they and get() show.  *)
Names == (DOMAIN values \ removed) \cup DOMAIN creates
View  == [s \in Names |-> [o \in Opt |-> Get(s, o)]]

-----------------------------------------------------------------------------
(* Edits.  A form takes input while no loading dialog covers it.           *)
Editable == ~covered

(* add(): a name handleSID let pass, or one createSID drew; both look the  *)
(* name up among the created and the loaded sections.                      *)
Add(s, named) ==
  /\ Editable
  /\ s \notin DOMAIN creates \cup DOMAIN values
  /\ creates' = [t \in DOMAIN creates \cup {s} |->
                   IF t = s THEN [named |-> named, opts |-> Blank] ELSE creates[t]]
  /\ touched' = TRUE
  /\ UNCHANGED <<cache, changes, unsets, removed, reorder, covered, chains, store, overtaken>>

(* Mutation: the changes already made to the section are left staged.      *)
RemoveKeepsChanges(s) ==
  /\ Editable
  /\ s \in Names
  /\ IF s \in DOMAIN creates
     THEN /\ creates' = [t \in DOMAIN creates \ {s} |-> creates[t]]
          /\ UNCHANGED <<changes, unsets, removed>>
     ELSE /\ unsets' = [unsets EXCEPT ![s] = {}]
          /\ removed' = removed \cup {s}
          /\ UNCHANGED <<creates, changes>>
  /\ touched' = TRUE
  /\ UNCHANGED <<cache, reorder, covered, chains, store, overtaken>>

Remove(s) ==
  /\ Editable
  /\ s \in Names
  /\ IF s \in DOMAIN creates
     THEN /\ creates' = [t \in DOMAIN creates \ {s} |-> creates[t]]
          /\ UNCHANGED <<changes, unsets, removed>>
     ELSE /\ changes' = [changes EXCEPT ![s] = Blank]
          /\ unsets' = [unsets EXCEPT ![s] = {}]
          /\ removed' = removed \cup {s}
          /\ UNCHANGED creates
  /\ touched' = TRUE
  /\ UNCHANGED <<cache, reorder, covered, chains, store, overtaken>>

(* set(conf, sid, opt, undefined) in a section created in this session, or *)
(* with a value.                                                           *)
SetCreated(s, o, w) ==
  /\ s \in DOMAIN creates
  /\ creates' = [creates EXCEPT ![s].opts[o] = w]
  /\ UNCHANGED <<changes, unsets, removed, touched>>

SetValue(s, o, w) ==
  /\ s \notin DOMAIN creates
  /\ s \in DOMAIN values \ removed
  /\ unsets' = [unsets EXCEPT ![s] = @ \ {o}]
  /\ changes' = [changes EXCEPT ![s][o] = w]
  /\ touched' = TRUE
  /\ UNCHANGED <<creates, removed>>

(* Mutation: the list of deleted options receives the value.              *)
SetUndefinedPushesValue(s, o) ==
  /\ s \notin DOMAIN creates
  /\ s \in DOMAIN values \ removed
  /\ unsets' = [unsets EXCEPT ![s] = @ \cup {Unset}]
  /\ touched' = TRUE
  /\ UNCHANGED <<creates, changes, removed>>

(* Unsetting leaves an earlier change staged under the deletion.           *)
SetUndefined(s, o) ==
  /\ s \notin DOMAIN creates
  /\ s \in DOMAIN values \ removed
  /\ unsets' = [unsets EXCEPT ![s] = @ \cup {o}]
  /\ touched' = TRUE
  /\ UNCHANGED <<creates, changes, removed>>

(* set(), unset(): no effect outside the sections above.                   *)
Set(s, o, w) ==
  /\ Editable
  /\ \/ SetCreated(s, o, w)
     \/ w # Unset /\ SetValue(s, o, w)
     \/ w = Unset /\ SetUndefined(s, o)
  /\ UNCHANGED <<cache, reorder, covered, chains, store, overtaken>>

(* swap() exchanges two '.index' numbers and flags the package.            *)
Swap ==
  /\ Editable
  /\ \E s, t \in Names : s # t
  /\ reorder' = TRUE
  /\ UNCHANGED <<cache, staged, covered, chains, store, overtaken>>

-----------------------------------------------------------------------------
(* A chain begins under a loading dialog, as one that ends takes it away,  *)
(* whatever else is under way.                                             *)
Begin(c, p) ==
  /\ Editable /\ covered' = TRUE
  /\ phase[c] = "idle" /\ phase' = [phase EXCEPT ![c] = p]

MoveOn(c, p) == phase' = [phase EXCEPT ![c] = p] /\ UNCHANGED covered

End(c) == phase' = [phase EXCEPT ![c] = "idle"] /\ covered' = FALSE

(* send() and save(): the staged edits are copied into a batch and posted; *)
(* they stay staged until unload().                                        *)
Save(c) ==
  /\ Begin(c, "writing")
  /\ batch' = [batch EXCEPT ![c] =
                 [adds |-> creates, sets |-> changes, lists |-> unsets,
                  dels |-> removed, touched |-> touched]]
  /\ UNCHANGED <<cache, staged, reorder, reply, store, overtaken>>

(* The server runs a batch in order: adds, sets, deletes.  It keeps a      *)
(* requested name and makes up an unused one for an anonymous section.     *)
Namings(b) ==
  {r \in [DOMAIN b.adds -> Sid] :
     /\ \A s, t \in DOMAIN b.adds : r[s] = r[t] => s = t
     /\ \A s \in DOMAIN b.adds :
          IF b.adds[s].named THEN r[s] = s ELSE r[s] \notin DOMAIN store}

(* Adding under a name the server already has adds to that section.        *)
AddedAfter(t, opts) ==
  [o \in Opt |->
     IF opts[o] # Unset \/ t \notin DOMAIN store THEN opts[o] ELSE store[t][o]]

Added(b, r) ==
  [t \in DOMAIN store \cup {r[s] : s \in DOMAIN b.adds} |->
     IF \E s \in DOMAIN b.adds : r[s] = t
     THEN AddedAfter(t, b.adds[CHOOSE s \in DOMAIN b.adds : r[s] = t].opts)
     ELSE store[t]]

SectionAfter(b, t, old) ==
  [o \in Opt |->
     IF o \in b.lists[t] THEN Unset
     ELSE IF b.sets[t][o] # Unset THEN b.sets[t][o]
     ELSE old[o]]

StoreAfter(b, r) ==
  [t \in DOMAIN Added(b, r) \ b.dels |-> SectionAfter(b, t, Added(b, r)[t])]

ServerWrite(c) ==
  /\ phase[c] = "writing"
  /\ \/ \E r \in Namings(batch[c]) : store' = StoreAfter(batch[c], r)
     \/ "drop" \in Faults /\ store' = store
  /\ MoveOn(c, "written")
  /\ UNCHANGED <<cache, staged, reorder, batch, reply, overtaken>>

(* Mutation: unload() leaves the created sections staged.                  *)
UnloadKeepsCreates(c) ==
  /\ IF batch[c].touched
     THEN /\ loaded' = FALSE
          /\ values' = Nothing
          /\ changes' = NoSets
          /\ unsets' = NoLists
          /\ removed' = {}
          /\ touched' = FALSE
          /\ overtaken' = FALSE
          /\ UNCHANGED creates
          /\ MoveOn(c, "reloading")
     ELSE /\ UNCHANGED <<cache, staged, overtaken>>
          /\ MoveOn(c, "counting")
  /\ batch' = [batch EXCEPT ![c] = NoBatch]

Emptied ==
  /\ loaded' = FALSE
  /\ values' = Nothing
  /\ creates' = Nothing
  /\ changes' = NoSets
  /\ unsets' = NoLists
  /\ removed' = {}
  /\ touched' = FALSE
  /\ overtaken' = FALSE

(* unload(pkgs) of what save() collected, and load(pkgs): the cache and    *)
(* every staged edit of the package go, those made since save() was called *)
(* too.  An untouched package stays as it is.                              *)
Unload(c) ==
  /\ IF batch[c].touched
     THEN Emptied /\ MoveOn(c, "reloading")
     ELSE UNCHANGED <<cache, staged, overtaken>> /\ MoveOn(c, "counting")
  /\ batch' = [batch EXCEPT ![c] = NoBatch]

(* Mutation: the continuation gives up on a batch that touched nothing.    *)
WriteReplyIfAny(c) ==
  /\ phase[c] = "written"
  /\ batch[c].touched
  /\ IF reorder
     THEN /\ MoveOn(c, "ordering")
          /\ reorder' = FALSE
          /\ UNCHANGED <<cache, staged, batch, overtaken>>
     ELSE Unload(c) /\ UNCHANGED reorder
  /\ UNCHANGED <<reply, store>>

(* The answer to the batch: reorderSections posts an order call if any     *)
(* package is flagged, else the chain runs on to unload() and load().      *)
WriteReply(c) ==
  /\ phase[c] = "written"
  /\ IF reorder
     THEN /\ MoveOn(c, "ordering")
          /\ reorder' = FALSE
          /\ UNCHANGED <<cache, staged, batch, overtaken>>
     ELSE Unload(c) /\ UNCHANGED reorder
  /\ UNCHANGED <<reply, store>>

OrderReply(c) ==
  /\ phase[c] = "ordering"
  /\ Unload(c)
  /\ UNCHANGED <<reorder, reply, store>>

-----------------------------------------------------------------------------
(* load() asks for the package; the server reads it, and the answer fills  *)
(* the cache whatever is there.                                            *)
Read(p) == CASE p = "opening" -> "opened" [] p = "reloading" -> "reloaded"

ServerRead(c) ==
  /\ phase[c] \in {"opening", "reloading"}
  /\ MoveOn(c, Read(phase[c]))
  /\ reply' = [reply EXCEPT ![c] = store]
  /\ UNCHANGED <<cache, staged, reorder, batch, store, overtaken>>

(* After a save, send() goes on to updateChanges(); else the form is drawn *)
(* and the dialog taken away.                                              *)
LoadDone(c) ==
  /\ IF phase[c] \in {"reloading", "reloaded"} THEN MoveOn(c, "counting") ELSE End(c)
  /\ reply' = [reply EXCEPT ![c] = Nothing]
  /\ UNCHANGED <<staged, reorder, batch, store>>

LoadReply(c) ==
  /\ phase[c] \in {"opened", "reloaded"}
  /\ loaded' = TRUE
  /\ values' = reply[c]
  /\ overtaken' = (reply[c] # store)
  /\ LoadDone(c)

(* No answer within L.globals.timeout: the cache stays as it is and the    *)
(* chain goes on.                                                          *)
LoadLost(c) ==
  /\ "lose" \in Faults
  /\ phase[c] \in {"opening", "opened", "reloading", "reloaded"}
  /\ LoadDone(c)
  /\ UNCHANGED <<cache, overtaken>>

(* The answer to updateChanges(), or its timeout.  Map.load() asks for the *)
(* package once more if it is not cached.                                  *)
Counted(c) ==
  /\ phase[c] = "counting"
  /\ IF loaded THEN End(c) ELSE MoveOn(c, "opening")
  /\ UNCHANGED <<cache, staged, reorder, batch, reply, store, overtaken>>

(* The page is shown again: Map.insertInto loads what is not cached.       *)
Reopen(c) ==
  /\ ~loaded
  /\ Begin(c, "opening")
  /\ UNCHANGED <<cache, staged, reorder, batch, reply, store, overtaken>>

(* handleReset: revert() unloads the package, then insertInto() loads it.  *)
(* The reorder flag is not part of what unload() clears.                   *)
Reset(c) ==
  /\ Begin(c, "opening")
  /\ Emptied
  /\ UNCHANGED <<reorder, batch, reply, store>>

(* changeView() hides the one loading dialog when the new view is ready,   *)
(* whoever else had asked for it.                                          *)
Navigate ==
  /\ "navigate" \in Faults
  /\ covered /\ covered' = FALSE
  /\ UNCHANGED <<cache, staged, reorder, chains, store, overtaken>>

-----------------------------------------------------------------------------
Init ==
  /\ loaded = FALSE
  /\ values = Nothing
  /\ creates = Nothing
  /\ changes = NoSets
  /\ unsets = NoLists
  /\ removed = {}
  /\ touched = FALSE
  /\ reorder = FALSE
  /\ covered = TRUE
  /\ \E c \in Chain : phase = [d \in Chain |-> IF d = c THEN "opening" ELSE "idle"]
  /\ batch = [c \in Chain |-> NoBatch]
  /\ reply = [c \in Chain |-> Nothing]
  /\ store \in Configs
  /\ overtaken = FALSE

Edit ==
  \/ \E s \in Sid, named \in BOOLEAN : Add(s, named)
  \/ \E s \in Sid : Remove(s)
  \/ \E s \in Sid, o \in Opt, w \in Val \cup {Unset} : Set(s, o, w)
  \/ Swap

(* What the server, or the request timeout of every call, brings about.    *)
Progress(c) ==
  \/ ServerWrite(c) \/ WriteReply(c) \/ OrderReply(c)
  \/ ServerRead(c) \/ LoadReply(c) \/ LoadLost(c) \/ Counted(c)

Next ==
  \/ Edit \/ Navigate
  \/ \E c \in Chain : Save(c) \/ Progress(c) \/ Reopen(c) \/ Reset(c)

Spec == Init /\ [][Next]_vars

(* Every call is answered or timed out by L.globals.timeout, and both      *)
(* outcomes run the same continuation.                                     *)
FairSpec == Spec /\ \A c \in Chain : WF_vars(Progress(c))

-----------------------------------------------------------------------------
Phases == {"opening", "opened", "idle", "writing", "written", "ordering",
           "reloading", "reloaded", "counting"}

TypeOK ==
  /\ loaded \in BOOLEAN
  /\ values \in Configs
  /\ creates \in NewSections
  /\ changes \in [Sid -> Options]
  /\ unsets \in [Sid -> SUBSET Opt]
  /\ removed \in SUBSET Sid
  /\ touched \in BOOLEAN
  /\ reorder \in BOOLEAN
  /\ covered \in BOOLEAN
  /\ phase \in [Chain -> Phases]
  /\ batch \in [Chain -> Batches]
  /\ reply \in [Chain -> Configs]
  /\ store \in Configs
  /\ overtaken \in BOOLEAN

(* The staging maps never contradict each other: a name is created or      *)
(* loaded but not both, edits are staged only in loaded sections, and a    *)
(* section marked for deletion has no other edit left (so that the batch   *)
(* cannot set a value in a section it deletes, nor add a second section of *)
(* a name).  add(), remove(), set() and unload() share the upkeep of it.   *)
StagingConsistent ==
  /\ DOMAIN creates \cap DOMAIN values = {}
  /\ removed \subseteq DOMAIN values
  /\ \A s \in Sid :
       (changes[s] # Blank \/ unsets[s] # {}) => s \in DOMAIN values \ removed

(* With nothing staged and nothing under way, the form shows what the      *)
(* server holds: whatever was dropped, lost or edited under way, and       *)
(* however saves, resets and loads have overlapped.  The one exception is  *)
(* a load whose answer comes after a write that another chain made since   *)
(* the server read for it: load() keeps that answer (unload, load).        *)
CleanViewIsStore ==
  (\A c \in Chain : phase[c] = "idle") /\ loaded /\ ~touched /\ ~overtaken => View = store

(* Every load or save chain ends, those that overlap too, and the last one *)
(* leaves the form usable (save, load, send).                              *)
ChainEnds ==
  /\ \A c \in Chain : phase[c] # "idle" ~> phase[c] = "idle"
  /\ covered ~> ~covered

(* The editing session as UciEdit sees it.                                 *)
Loading == {"opening", "opened", "reloading", "reloaded"}

Mode ==
  CASE \E c \in Chain : phase[c] \in Loading -> "closed"
    [] \E c \in Chain : phase[c] = "writing" -> "committing"
    [] \E c \in Chain : phase[c] \in {"written", "ordering"} -> "committed"
    [] \A c \in Chain : phase[c] \in {"idle", "counting"} -> "editing"

Editing == INSTANCE UciEdit WITH draft <- View, disk <- store, mode <- Mode

(* Staging, batching and reloading together are an editing session: each   *)
(* edit shows at once in get() and sections(), and a save stores exactly   *)
(* the draft.                                                              *)
ImplementsEditing == Editing!Spec
=============================================================================

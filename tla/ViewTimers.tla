----------------------------- MODULE ViewTimers -----------------------------
(***************************************************************************)
(* L.ui.renderView(), L.ui.changeView() and L.ui.view of luci2.js: how one *)
(* view replaces another, and the timers by which views refresh what they  *)
(* show (status.overview, network.interfaces, network.switch).             *)
(*                                                                         *)
(* The script of a view, its template and its data are fetched one after   *)
(* the other; the user may go elsewhere in between (the browser's Back     *)
(* button works while the page is covered), and a new login changes the    *)
(* hash as well.  All views here poll: the others keep nothing.            *)
(***************************************************************************)
EXTENDS Naturals, Sequences, FiniteSets, Functions

CONSTANTS
  View,        \* the views, in the menu and in location.hash
  Home,        \* L.globals.defaultNode, if the hash names no view
  Unnamed,     \* the hash names no view
  MaxEntries   \* bound: calls of renderView()

ASSUME ViewAssumption ==
  /\ IsFiniteSet(View) /\ Home \in View /\ Unnamed \notin View
  /\ MaxEntries \in Nat

Instance == 1 .. MaxEntries

VARIABLES
  address,   \* the view in location.hash
  events,    \* hashchange events the browser has not delivered
  entries,   \* calls of renderView() so far
  loads,     \* loads[v]: requests for the script of v under way
  made,      \* made[i]: the view the i-th "new viewConstructor" made
  views,     \* L.views, 0 for undefined
  shown,     \* L.globals.currentView, 0 for undefined
  renders,   \* renders[i]: calls of i.render() that have not reached repeat()
  timeouts,  \* the _timeouts of each instance that has one: ids of repeats
  repeats,   \* the loops repeat() began: [id, inst, index, timer]
  begun,     \* their number so far
  abandoned, \* history: what was under way when renderView() was called
  stalled    \* history: the instances that had a rendering or an answer
             \* lost, or the script that was to replace them

viewvars == <<address, events, entries, loads, made, views, shown, renders,
              timeouts, repeats, begun, abandoned, stalled>>

location == <<address, events>>

-----------------------------------------------------------------------------
Elsewhere(i) == [k \in DOMAIN timeouts \ {i} |-> timeouts[k]]

(* Mutation: the array is dropped, its timers are not cleared.             *)
FinishKeepsTimers(i) == timeouts' = Elsewhere(i) /\ UNCHANGED repeats

(* view.finish(): the timers recorded in _timeouts are cleared.  A loop    *)
(* that is waiting for its answer has none.                                *)
Finish(i) ==
  /\ timeouts' = Elsewhere(i)
  /\ repeats' = {c \in repeats :
       ~(c.timer /\ i \in DOMAIN timeouts /\ c.id \in Range(timeouts[i]))}

(* renderView(): the view that is shown is finished, and the new one is    *)
(* rendered, at once if it is known and else when its script has come.     *)
Enter(v) ==
  /\ entries < MaxEntries
  /\ entries' = entries + 1
  /\ abandoned' = abandoned + SumFunction(loads) + SumFunction(renders)
                    + Cardinality({c \in repeats : ~c.timer})
  /\ Finish(shown)
  /\ IF views[v] # 0
     THEN /\ shown' = views[v]
          /\ renders' = [renders EXCEPT ![views[v]] = @ + 1]
          /\ stalled' = stalled \ {views[v]}
          /\ UNCHANGED loads
     ELSE /\ loads' = [loads EXCEPT ![v] = @ + 1]
          /\ UNCHANGED <<shown, renders, stalled>>
  /\ UNCHANGED <<made, views, begun>>

(* L.ui.init(): setHash() changes an address that named no view, and the   *)
(* handler of the event is installed before the browser delivers it.       *)
Start ==
  /\ entries = 0
  /\ Enter(IF address = Unnamed THEN Home ELSE address)
  /\ address' = IF address = Unnamed THEN Home ELSE address
  /\ events' = IF address = Unnamed THEN 1 ELSE 0

(* A click in the menu, Back or Forward, or an address typed in.           *)
Navigate(v) ==
  /\ entries > 0 /\ entries + events < MaxEntries
  /\ v # address
  /\ address' = v
  /\ events' = events + 1
  /\ UNCHANGED <<entries, loads, made, views, shown, renders, timeouts, repeats, begun, abandoned, stalled>>

(* L.ui.login() writes the id of a new session into the hash.              *)
Relogin ==
  /\ entries > 0 /\ entries + events < MaxEntries
  /\ events' = events + 1
  /\ UNCHANGED <<address, entries, loads, made, views, shown, renders, timeouts, repeats, begun, abandoned, stalled>>

(* changeView(): whatever key of the hash has changed, the view is         *)
(* rendered again.                                                         *)
ChangeView ==
  /\ events > 0
  /\ events' = events - 1
  /\ Enter(address)
  /\ UNCHANGED address

(* The script has come: its instance becomes the one of its view and the   *)
(* one that is shown, whatever was there.                                  *)
Loaded(v) ==
  LET new == Len(made) + 1
  IN  /\ loads[v] > 0
      /\ loads' = [loads EXCEPT ![v] = @ - 1]
      /\ made' = Append(made, v)
      /\ views' = [views EXCEPT ![v] = new]
      /\ shown' = new
      /\ renders' = [renders EXCEPT ![new] = 1]
      /\ UNCHANGED <<location, entries, timeouts, repeats, begun, abandoned, stalled>>

(* The script does not come (no callback for a failure, no timeout): the   *)
(* view that was to be replaced stays, finished.                           *)
ScriptLost(v) ==
  /\ loads[v] > 0
  /\ loads' = [loads EXCEPT ![v] = @ - 1]
  /\ stalled' = stalled \cup
       {i \in {shown} \ {0} : i \notin DOMAIN timeouts /\ renders[i] = 0}
  /\ UNCHANGED <<location, entries, made, views, shown, renders, timeouts, repeats, begun, abandoned>>

(* The template and the data have come, and execute() calls repeat(): the  *)
(* index is the present length of the array, which grows only when a timer *)
(* is recorded.                                                            *)
Execute(i) ==
  LET new == [id |-> begun + 1, inst |-> i, timer |-> FALSE,
              index |-> IF i \in DOMAIN timeouts THEN Len(timeouts[i]) ELSE 0]
  IN  /\ renders[i] > 0
      /\ renders' = [renders EXCEPT ![i] = @ - 1]
      /\ begun' = begun + 1
      /\ timeouts' = [k \in DOMAIN timeouts \cup {i} |->
                        IF k \in DOMAIN timeouts THEN timeouts[k] ELSE <<>>]
      /\ repeats' = repeats \cup {new}
      /\ UNCHANGED <<location, entries, loads, made, views, shown, abandoned, stalled>>

(* The template does not come, or the batch of execute() is lost and its   *)
(* callback throws: repeat() is not reached, and nothing tries again.      *)
RenderLost(i) ==
  /\ renders[i] > 0
  /\ renders' = [renders EXCEPT ![i] = @ - 1]
  /\ stalled' = stalled \cup {i}
  /\ UNCHANGED <<location, entries, loads, made, views, shown, timeouts, repeats, begun, abandoned>>

(* array[index] = id, with holes before it if the array was shorter.       *)
Recorded(array, index, id) ==
  LET length == IF index < Len(array) THEN Len(array) ELSE index + 1
  IN  [k \in 1 .. length |->
         IF k = index + 1 THEN id ELSE IF k <= Len(array) THEN array[k] ELSE 0]

(* Mutation: .then(setTimer), without the second callback.                 *)
AnsweredIfOk(c, ok) ==
  /\ ~c.timer
  /\ IF c.inst \in DOMAIN timeouts /\ ok
     THEN /\ timeouts' = [timeouts EXCEPT ![c.inst] = Recorded(@, c.index, c.id)]
          /\ repeats' = (repeats \ {c}) \cup {[c EXCEPT !.timer = TRUE]}
     ELSE /\ repeats' = repeats \ {c}
          /\ UNCHANGED timeouts
  /\ UNCHANGED <<location, entries, loads, made, views, shown, renders, begun, abandoned, stalled>>

(* setTimer: func() is through, with or without success; the loop goes on  *)
(* if its view has an array, be it the one it began with or another.       *)
Answered(c, ok) ==
  /\ ~c.timer
  /\ IF c.inst \in DOMAIN timeouts
     THEN /\ timeouts' = [timeouts EXCEPT ![c.inst] = Recorded(@, c.index, c.id)]
          /\ repeats' = (repeats \ {c}) \cup {[c EXCEPT !.timer = TRUE]}
     ELSE /\ repeats' = repeats \ {c}
          /\ UNCHANGED timeouts
  /\ UNCHANGED <<location, entries, loads, made, views, shown, renders, begun, abandoned, stalled>>

(* func() throws inside a then(): the deferred that repeat() waits for is  *)
(* never settled, and the loop ends.                                       *)
PollLost(c) ==
  /\ ~c.timer
  /\ repeats' = repeats \ {c}
  /\ stalled' = stalled \cup {c.inst}
  /\ UNCHANGED <<location, entries, loads, made, views, shown, renders, timeouts, begun, abandoned>>

(* runTimer                                                                *)
Fire(c) ==
  /\ c.timer
  /\ repeats' = (repeats \ {c}) \cup {[c EXCEPT !.timer = FALSE]}
  /\ UNCHANGED <<location, entries, loads, made, views, shown, renders, timeouts, begun, abandoned, stalled>>

-----------------------------------------------------------------------------
(* The page is opened with or without the name of a view in its address.   *)
ViewInit ==
  /\ address \in View \cup {Unnamed}
  /\ events = 0
  /\ entries = 0
  /\ loads = [v \in View |-> 0]
  /\ made = <<>>
  /\ views = [v \in View |-> 0]
  /\ shown = 0
  /\ renders = [i \in Instance |-> 0]
  /\ timeouts = [i \in {} |-> <<>>]
  /\ repeats = {}
  /\ begun = 0
  /\ abandoned = 0
  /\ stalled = {}

Arrive(v) == Loaded(v) \/ ScriptLost(v)

Rendered(i) == Execute(i) \/ RenderLost(i)

Step(id) ==
  \E c \in repeats :
    c.id = id /\ (Fire(c) \/ PollLost(c) \/ \E ok \in BOOLEAN : Answered(c, ok))

ViewNext ==
  \/ Start
  \/ \E v \in View : Navigate(v)
  \/ Relogin
  \/ ChangeView
  \/ \E v \in View : Arrive(v)
  \/ \E i \in Instance : Rendered(i)
  \/ \E id \in Instance : Step(id)

ViewSpec == ViewInit /\ [][ViewNext]_viewvars

-----------------------------------------------------------------------------
ViewTypeOK ==
  /\ address \in View \cup {Unnamed}
  /\ {entries, events, begun, Len(made)} \subseteq 0 .. MaxEntries
  /\ loads \in [View -> 0 .. MaxEntries]
  /\ made \in Seq(View)
  /\ \A v \in View : views[v] # 0 => made[views[v]] = v
  /\ shown \in 0 .. Len(made)
  /\ renders \in [Instance -> 0 .. MaxEntries]
  /\ \A i \in DOMAIN timeouts : i \in 1 .. Len(made) /\ Range(timeouts[i]) \subseteq 0 .. begun
  /\ \A c, d \in repeats : c.id \in 1 .. begun /\ (c.id = d.id => c = d)
  /\ stalled \subseteq Instance

(* The timers that finish() of the shown view would not clear.             *)
Strays ==
  {c \in repeats : c.timer /\ ~(/\ c.inst = shown /\ shown \in DOMAIN timeouts
                                /\ c.id \in Range(timeouts[shown]))}

(* A view that is left stops asking the device: a timer outlives its view  *)
(* only if the view was left (or entered again) while a script, a template *)
(* or an answer was under way, one timer at most for each of them.         *)
LeftViewsStop == Cardinality(Strays) <= abandoned

(* The view that is shown keeps refreshing, after an answer that failed as *)
(* after one that came, and however often it was left and entered again.   *)
(* It stops only if, since it was last entered, something of its own was   *)
(* lost: a rendering, an answer that no callback was ready for, or, after  *)
(* it was finished, the script of its successor.                           *)
ShownViewPolls ==
  \A i \in Instance :
    shown = i ~> (shown # i \/ i \in stalled \/ \E c \in repeats : c.inst = i /\ ~c.timer)
=============================================================================

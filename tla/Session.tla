------------------------------ MODULE Session ------------------------------
(***************************************************************************)
(* L.ui.login() and the heartbeat of L.session: how the page obtains a     *)
(* session, remembers it in location.hash, and finds out that it has gone. *)
(* The server issues and forgets sessions as it likes; each call to it is  *)
(* answered, or timed out after L.globals.timeout.                         *)
(***************************************************************************)
EXTENDS Naturals

CONSTANTS
  Sid,      \* sessions the server may issue
  None,     \* no id in the hash
  Null,     \* '00000000000000000000000000000000'
  Timeout   \* L.globals.timeout, in ticks of the clock

ASSUME SessionAssumption ==
  /\ None \notin Sid
  /\ Null \notin Sid \cup {None}
  /\ Timeout \in Nat \ {0}

VARIABLES
  valid,     \* sessions the server knows (external)
  issued,    \* sessions it has ever issued (external)
  hash,      \* the id in location.hash
  sid,       \* L.globals.sid
  calls,     \* calls in flight: [kind, sid, age]
  beats,     \* running intervals: id -> ticks left
  handle,    \* _hearbeatInterval, 0 if undefined
  dialog,    \* what L.ui.dialog shows: "none", "form", "wait"
  deferred,  \* state.deferred: "none" | "first" | "again" pending | "resolved"
  started,   \* L.ui.init() was run
  lost       \* history: successive isAlive() calls that timed out, up to 2

vars == <<valid, issued, hash, sid, calls, beats, handle, dialog, deferred, started, lost>>

server == <<valid, issued>>

-----------------------------------------------------------------------------
Interval == 2 * Timeout

Request(kind, id) == [kind |-> kind, sid |-> id, age |-> 0]

(* startHeartbeat(): the handle of an interval that already runs is lost.  *)
StartHeartbeat ==
  LET new == CHOOSE i \in 1 .. 2 : i \notin DOMAIN beats
  IN  /\ handle' = new
      /\ beats' = [i \in DOMAIN beats \cup {new} |-> IF i = new THEN Interval ELSE beats[i]]

StopHeartbeat ==
  /\ handle' = 0
  /\ beats' = [i \in DOMAIN beats \ {handle} |-> beats[i]]

(* state.deferred.resolve(); luci2.html waits for the first one only.      *)
Resolve ==
  /\ deferred' = "resolved"
  /\ started' = (started \/ deferred = "first")

(* L.ui.login() with "id" in the hash: a known session is checked first,   *)
(* without one the form is shown.                                          *)
Login(id, others) ==
  /\ deferred' = [none |-> "first", first |-> "first",
                  resolved |-> "again", again |-> "again"][deferred]
  /\ hash' = id
  /\ IF id # None
     THEN sid' = id /\ calls' = others \cup {Request("check", id)} /\ UNCHANGED dialog
     ELSE dialog' = "form" /\ calls' = others /\ UNCHANGED sid

-----------------------------------------------------------------------------
(* The document is ready.                                                  *)
Ready ==
  /\ deferred = "none"
  /\ Login(hash, calls)
  /\ UNCHANGED <<server, beats, handle, started, lost>>

(* The interval fires.                                                     *)
Beat(i) ==
  /\ i \in DOMAIN beats
  /\ beats[i] = 0
  /\ beats' = [beats EXCEPT ![i] = Interval]
  /\ calls' = calls \cup {Request("beat", sid)}
  /\ UNCHANGED <<server, hash, sid, handle, dialog, deferred, started, lost>>

(* Mutation: one missed beat ends the session.                             *)
BeatDeadClears(c) ==
  /\ StopHeartbeat
  /\ Login(None, calls \ {c})
  /\ UNCHANGED started

(* Mutation: the heartbeat goes on while login() is under way.             *)
BeatDeadKeepsBeating(c) ==
  /\ Login(hash, calls \ {c})
  /\ UNCHANGED <<beats, handle, started>>

(* A heartbeat is answered "no".                                           *)
BeatDead(c) ==
  /\ StopHeartbeat
  /\ Login(hash, calls \ {c})
  /\ UNCHANGED started

(* Mutation: the id stays in the hash.                                     *)
CheckDeadKeepsHash(c) ==
  /\ Login(hash, calls \ {c})
  /\ UNCHANGED <<beats, handle, started>>

(* The check of login() is answered "no".                                  *)
CheckDead(c) ==
  /\ Login(None, calls \ {c})
  /\ UNCHANGED <<beats, handle, started>>

(* isAlive() is answered, or it timed out and yields the default: false.   *)
Reply(c, alive) ==
  \/ /\ c.kind = "beat" /\ alive
     /\ calls' = calls \ {c}
     /\ UNCHANGED <<hash, sid, beats, handle, dialog, deferred, started>>
  \/ /\ c.kind = "beat" /\ ~alive
     /\ BeatDead(c)
  \/ /\ c.kind = "check" /\ alive
     /\ StartHeartbeat
     /\ Resolve
     /\ calls' = calls \ {c}
     /\ UNCHANGED <<hash, sid, dialog>>
  \/ /\ c.kind = "check" /\ ~alive
     /\ CheckDead(c)

AnswerAlive(c) ==
  /\ Reply(c, c.sid \in valid)
  /\ lost' = 0
  /\ UNCHANGED server

LoseAlive(c) ==
  /\ c.age = Timeout
  /\ Reply(c, FALSE)
  /\ lost' = IF lost < 2 THEN lost + 1 ELSE 2
  /\ UNCHANGED server

(* confirm_cb: the user enters a name and a password.                      *)
Confirm ==
  /\ dialog = "form"
  /\ dialog' = "wait"
  /\ sid' = Null
  /\ calls' = calls \cup {Request("login", Null)}
  /\ UNCHANGED <<server, hash, beats, handle, deferred, started, lost>>

(* response_cb with a session.                                             *)
Granted(c, s) ==
  /\ c.kind = "login"
  /\ s \notin issued
  /\ issued' = issued \cup {s}
  /\ valid' = valid \cup {s}
  /\ sid' = s
  /\ hash' = s
  /\ StartHeartbeat
  /\ dialog' = "none"
  /\ Resolve
  /\ calls' = calls \ {c}
  /\ UNCHANGED lost

(* Mutation: only an answer with a session is handled.                     *)
RefusedIgnored(c) ==
  /\ c.kind = "login"
  /\ calls' = calls \ {c}
  /\ UNCHANGED <<server, hash, sid, beats, handle, dialog, deferred, started, lost>>

(* response_cb without one: refused, or timed out.                         *)
Refused(c) ==
  /\ c.kind = "login"
  /\ Login(hash, calls \ {c})
  /\ UNCHANGED <<server, beats, handle, started, lost>>

(* The Cancel button, Escape or a click beside the dialog.                 *)
Dismiss ==
  /\ dialog # "none"
  /\ dialog' = "none"
  /\ UNCHANGED <<server, hash, sid, calls, beats, handle, deferred, started, lost>>

(* The page is loaded again; only the hash survives.                       *)
Reload ==
  /\ deferred # "none"
  /\ sid' = Null
  /\ calls' = {}
  /\ beats' = [i \in {} |-> 0]
  /\ handle' = 0
  /\ dialog' = "none"
  /\ deferred' = "none"
  /\ started' = FALSE
  /\ lost' = 0
  /\ UNCHANGED <<server, hash>>

(* The server drops a session.                                             *)
Expire(s) ==
  /\ s \in valid
  /\ valid' = valid \ {s}
  /\ UNCHANGED <<issued, hash, sid, calls, beats, handle, dialog, deferred, started, lost>>

(* Time passes, but not past a timer that is due.                          *)
Tick ==
  /\ \A c \in calls : c.age < Timeout
  /\ \A i \in DOMAIN beats : beats[i] > 0
  /\ calls # {} \/ beats # [i \in {} |-> 0]
  /\ calls' = {[c EXCEPT !.age = @ + 1] : c \in calls}
  /\ beats' = [i \in DOMAIN beats |-> beats[i] - 1]
  /\ UNCHANGED <<server, hash, sid, handle, dialog, deferred, started, lost>>

-----------------------------------------------------------------------------
(* The page is opened with or without the id of a session in its address.  *)
Init ==
  /\ issued \in {{s} : s \in Sid} \cup {{}}
  /\ valid \in SUBSET issued
  /\ hash \in issued \cup {None}
  /\ sid = Null
  /\ calls = {}
  /\ beats = [i \in {} |-> 0]
  /\ handle = 0
  /\ dialog = "none"
  /\ deferred = "none"
  /\ started = FALSE
  /\ lost = 0

Settle(c) ==
  \/ AnswerAlive(c)
  \/ LoseAlive(c)
  \/ \E s \in Sid : Granted(c, s)
  \/ Refused(c)

Next ==
  \/ Ready
  \/ \E i \in DOMAIN beats : Beat(i)
  \/ \E c \in calls : Settle(c)
  \/ Confirm
  \/ Dismiss
  \/ Reload
  \/ \E s \in Sid : Expire(s)
  \/ Tick

(* Timers fire and calls are answered or time out; of the user and of the  *)
(* server nothing is assumed.                                              *)
Fairness ==
  /\ WF_vars(Ready)
  /\ WF_vars(\E i \in DOMAIN beats : Beat(i))
  /\ WF_vars(\E c \in calls : Settle(c))
  /\ WF_vars(Tick)

Spec == Init /\ [][Next]_vars /\ Fairness

-----------------------------------------------------------------------------
TypeOK ==
  /\ valid \subseteq issued /\ issued \subseteq Sid
  /\ hash \in issued \cup {None}
  /\ sid \in issued \cup {Null}
  /\ calls \subseteq [kind : {"beat", "check", "login"}, sid : Sid \cup {Null}, age : 0 .. Timeout]
  /\ \A i \in DOMAIN beats : i \in 1 .. 2 /\ beats[i] \in 0 .. Interval
  /\ handle \in 0 .. 2
  /\ dialog \in {"none", "form", "wait"}
  /\ deferred \in {"none", "first", "again", "resolved"}
  /\ started \in BOOLEAN
  /\ lost \in 0 .. 2

(* The page does one thing at a time: it runs one heartbeat, about the      *)
(* session of the hash and cleared by stopHeartbeat(); or it checks that   *)
(* session or logs in; or it shows the form.  One call is in flight at     *)
(* most, so no late answer enters login() a second time.                   *)
OneAtATime ==
  /\ DOMAIN beats = {handle} \ {0}
  /\ handle # 0 => sid = hash /\ sid \in Sid /\ dialog # "form"
  /\ dialog = "form" => calls = {}
  /\ \A c \in calls : c.kind = "beat" <=> handle # 0
  /\ \A c, d \in calls : c = d

(* A page that is running gives up a session the server still knows only   *)
(* after two calls in a row were lost, one that is being opened after one. *)
ValidSessionKept ==
  [][(hash \in valid /\ hash' = None) => lost' >= (IF deferred = "first" THEN 1 ELSE 2)]_vars

(* The page notices that its session has gone, and asks for a new one.     *)
DeadSessionNoticed ==
  (handle # 0 /\ sid \notin valid) ~> (dialog = "form" \/ deferred = "none")

(* "Log in in progress ..." does not stay.                                 *)
WaitEnds == dialog = "wait" ~> dialog # "wait"
=============================================================================

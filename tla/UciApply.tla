------------------------------ MODULE UciApply ------------------------------
(***************************************************************************)
(* UCIContext.apply(): the page has the device apply the staged changes    *)
(* with a rollback timer, then tries to confirm that it still reaches the  *)
(* device; unless it does in time, the device rolls the changes back.  The *)
(* server is rpcd's uci object, modelled from this use of it (external).   *)
(* The user may press the button again while an earlier call is waiting.   *)
(***************************************************************************)
EXTENDS Naturals, FiniteSets

CONSTANTS
  Call,     \* the calls of apply() a user makes
  None,     \* no changes wait for a confirmation
  Timeout   \* seconds before the device rolls back

(* Bound: later than any deadline, the time makes no difference.           *)
MaxClock == 2 * Timeout + 1

VARIABLES
  clock,      \* seconds
  date,       \* date[c]: new Date(), taken when apply() is called
  page,       \* page[c]: what the call is doing
  message,    \* message[c]: the RPC it has in flight
  pending,    \* the call whose changes the device may roll back (external)
  left,       \* seconds until it does (external)
  committed,  \* calls whose changes the device keeps (external)
  reverted    \* calls whose changes it rolled back (external)

vars == <<clock, date, page, message, pending, left, committed, reverted>>
device == <<pending, left, committed, reverted>>

Waiting == {"applying", "confirming"}

-----------------------------------------------------------------------------
(* apply(): "date" is read once, before anything is sent.                  *)
Apply(c) ==
  /\ page[c] = "idle"
  /\ page' = [page EXCEPT ![c] = "applying"]
  /\ date' = [date EXCEPT ![c] = clock]
  /\ message' = [message EXCEPT ![c] = "sent"]
  /\ UNCHANGED <<clock, device>>

(* The device takes the changes unless others wait for a confirmation.     *)
ServeApply(c) ==
  /\ page[c] = "applying" /\ message[c] = "sent"
  /\ IF pending = None
     THEN /\ pending' = c
          /\ left' = Timeout
          /\ message' = [message EXCEPT ![c] = "ok"]
     ELSE /\ message' = [message EXCEPT ![c] = "error"]
          /\ UNCHANGED <<pending, left>>
  /\ UNCHANGED <<clock, date, page, committed, reverted>>

(* The device keeps what is pending, whoever applied it.                   *)
ServeConfirm(c) ==
  /\ page[c] = "confirming" /\ message[c] = "sent"
  /\ IF pending # None
     THEN /\ pending' = None
          /\ committed' = committed \cup {pending}
          /\ message' = [message EXCEPT ![c] = "ok"]
     ELSE /\ message' = [message EXCEPT ![c] = "error"]
          /\ UNCHANGED <<pending, committed>>
  /\ UNCHANGED <<clock, date, page, left, reverted>>

(* A call or its reply is lost: the page sees the timeout as an error.     *)
Lose(c) ==
  /\ message[c] \in {"sent", "ok", "error"}
  /\ message' = [message EXCEPT ![c] = "lost"]
  /\ UNCHANGED <<clock, date, page, device>>

(* Mutation: any reply to "confirm" counts as success.                     *)
ConfirmedAnyway(c) ==
  /\ page[c] = "confirming" /\ message[c] # "sent"
  /\ page' = [page EXCEPT ![c] = "resolved"]
  /\ message' = [message EXCEPT ![c] = "none"]
  /\ UNCHANGED <<clock, date, device>>

(* try_confirm: the reply to "confirm".                                    *)
Confirmed(c) ==
  /\ page[c] = "confirming" /\ message[c] # "sent"
  /\ page' = [page EXCEPT ![c] = IF message[c] = "ok" THEN "resolved"
                                 ELSE IF date[c] < date[c] + Timeout THEN "sleeping"
                                 ELSE "rejected"]
  /\ message' = [message EXCEPT ![c] = "none"]
  /\ UNCHANGED <<clock, date, device>>

(* The reply to "apply".                                                   *)
Applied(c) ==
  /\ page[c] = "applying" /\ message[c] # "sent"
  /\ page' = [page EXCEPT ![c] = IF message[c] = "ok" THEN "sleeping" ELSE "rejected"]
  /\ message' = [message EXCEPT ![c] = "none"]
  /\ UNCHANGED <<clock, date, device>>

(* window.setTimeout(try_confirm, ...)                                     *)
TryConfirm(c) ==
  /\ page[c] = "sleeping"
  /\ page' = [page EXCEPT ![c] = "confirming"]
  /\ message' = [message EXCEPT ![c] = "sent"]
  /\ UNCHANGED <<clock, date, device>>

(* The device rolls back.                                                  *)
Rollback ==
  /\ pending # None /\ left = 0
  /\ reverted' = reverted \cup {pending}
  /\ pending' = None
  /\ UNCHANGED <<clock, date, page, message, left, committed>>

Tick ==
  /\ pending # None => left > 0
  /\ clock < MaxClock \/ left > 0
  /\ clock' = IF clock < MaxClock THEN clock + 1 ELSE clock
  /\ left' = IF left > 0 THEN left - 1 ELSE 0
  /\ UNCHANGED <<date, page, message, pending, committed, reverted>>

-----------------------------------------------------------------------------
Init ==
  /\ clock = 0
  /\ date = [c \in Call |-> 0]
  /\ page = [c \in Call |-> "idle"]
  /\ message = [c \in Call |-> "none"]
  /\ pending = None
  /\ left = 0
  /\ committed = {}
  /\ reverted = {}

Serve(c) == ServeApply(c) \/ ServeConfirm(c) \/ Lose(c)
Step(c) == Confirmed(c) \/ Applied(c) \/ TryConfirm(c)

Next ==
  \/ \E c \in Call : Apply(c) \/ Serve(c) \/ Step(c)
  \/ Rollback
  \/ Tick

(* Calls are answered or time out, timers fire, time passes.               *)
Fairness ==
  /\ \A c \in Call : WF_vars(message[c] = "sent" /\ Serve(c)) /\ WF_vars(Step(c))
  /\ WF_vars(Rollback)
  /\ WF_vars(Tick)

Spec == Init /\ [][Next]_vars /\ Fairness

-----------------------------------------------------------------------------
TypeOK ==
  /\ clock \in 0 .. MaxClock
  /\ date \in [Call -> 0 .. MaxClock]
  /\ page \in [Call -> {"idle", "sleeping", "resolved", "rejected"} \cup Waiting]
  /\ \A c \in Call : message[c] # "none" <=> page[c] \in Waiting
  /\ pending \in Call \cup {None}
  /\ left \in 0 .. Timeout
  /\ committed \cap reverted = {} /\ committed \cup reverted \subseteq Call

(* "Success" is reported at most once for each set of changes the device   *)
(* has kept: no reply, late or lost, is taken for a confirmation.          *)
EachSuccessCommitsOne ==
  Cardinality({c \in Call : page[c] = "resolved"}) <= Cardinality(committed)

(* What the branch on try_deadline and the two callbacks of the "changes"  *)
(* dialog are for: an apply() ends in success or with an error code.       *)
ApplySettles ==
  \A c \in Call : page[c] = "applying" ~> page[c] \in {"resolved", "rejected"}
=============================================================================

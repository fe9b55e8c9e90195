------------------------------- MODULE MCPage -------------------------------
(***************************************************************************)
(* Three parts of the page that run beside each other and share no state:  *)
(* the session, the RPC client and the timers of views.  A behaviour of    *)
(* this module is one of one of them.                                      *)
(*                                                                         *)
(* Three sessions are issued at most: one for an earlier page, one by a    *)
(* first login and one by a second.  The RPC client makes four calls, at   *)
(* most two in one batch.  Two views are rendered three times in all, so   *)
(* that one is left and entered again.                                     *)
(***************************************************************************)
EXTENDS Session, Rpc, ViewTimers

VARIABLE part

pagevars == <<part, vars, rpcvars, viewvars>>

-----------------------------------------------------------------------------
PageInit ==
  /\ part \in {"session", "rpc", "views"}
  /\ Init
  /\ RpcInit
  /\ ViewInit
  /\ part # "session" => issued = {}
  /\ part # "views" => address = Unnamed

SessionStep(step) == part = "session" /\ step /\ UNCHANGED <<part, rpcvars, viewvars>>
RpcStep(step) == part = "rpc" /\ step /\ UNCHANGED <<part, vars, viewvars>>
ViewStep(step) == part = "views" /\ step /\ UNCHANGED <<part, vars, rpcvars>>

PageNext ==
  \/ SessionStep(Next)
  \/ RpcStep(RpcNext)
  \/ ViewStep(ViewNext)

(* What the browser does by itself: timers fire, and requests are answered *)
(* or time out (L.globals.timeout).  Nothing is assumed of the user.       *)
PageFairness ==
  /\ WF_pagevars(SessionStep(Ready))
  /\ WF_pagevars(SessionStep(\E i \in DOMAIN beats : Beat(i)))
  /\ WF_pagevars(SessionStep(\E c \in calls : Settle(c)))
  /\ WF_pagevars(SessionStep(Tick))
  /\ WF_pagevars(RpcStep(\E p \in posts : SettlePost(p)))
  /\ WF_pagevars(ViewStep(\E v \in View : Arrive(v)))
  /\ WF_pagevars(ViewStep(\E i \in Instance : Rendered(i)))
  /\ \A id \in Instance : WF_pagevars(ViewStep(Step(id)))

PageSpec == PageInit /\ [][PageNext]_pagevars /\ PageFairness

-----------------------------------------------------------------------------
(* The types of the three parts (Session, Rpc, ViewTimers).                *)
PageTypeOK == TypeOK /\ RpcTypeOK /\ ViewTypeOK
=============================================================================

--------------------------------- MODULE Rpc ---------------------------------
(***************************************************************************)
(* L.rpc of luci2.js: the JSON-RPC client every other part of the page     *)
(* calls through.  A declared call is posted alone, or collected when a    *)
(* batch() is open and posted with the others by flush(); the callback     *)
(* pairs the answers with _requests and hands the caller its data.         *)
(*                                                                         *)
(* The callers are of three kinds: one that makes a single call (the       *)
(* heartbeat, a form), one that makes k calls between batch() and flush()  *)
(* and reads the k results by position (uci.load, uci.save), and           *)
(* NetworkModel.loadCache(0), which does the same and opens a second batch *)
(* in its callback, over a list it takes from the results.  A caller runs  *)
(* to its end before anything else does: only an exception can leave a     *)
(* batch open.                                                             *)
(***************************************************************************)
EXTENDS Naturals, Sequences, SequencesExt

CONSTANTS
  MaxId,     \* bound: how many calls are ever made
  MaxBlock,  \* bound: how many of them between a batch() and its flush()
  \* what a caller is handed that is not the answer to some call:
  Pending,   \* nothing yet
  Message,   \* its own request message, L.deferrable(msg)
  Default,   \* what "expect" declares, when there is no answer
  Missing    \* undefined: the array of results is too short

ASSUME RpcAssumption == MaxId \in Nat /\ MaxBlock \in Nat

Ids == 1 .. MaxId

VARIABLES
  next,      \* _id
  open,      \* _batch is an array
  queue,     \* _batch: the ids pushed so far
  requests,  \* _requests: id -> index in the batch, 0 for a single call
  posts,     \* requests under way: [ids, list, own, refresh]
  got,       \* what the caller of each call was handed
  thrown,    \* history: a callback threw between batch() and flush()
  failed     \* history: a posted batch got no answer

rpcvars == <<next, open, queue, requests, posts, got, thrown, failed>>

(* Mutation: the id is taken after _id was incremented.                    *)
FreshSkipsOne(k) == [i \in 1 .. k |-> next + i]

(* The ids of k calls made now.                                            *)
Fresh(k) == [i \in 1 .. k |-> next + i - 1]

(* Mutation: push() returns the new length, and the "- 1" is forgotten.     *)
EnteredOffByOne(reqs, ids, at) ==
  [r \in DOMAIN reqs \cup ToSet(ids) |->
     IF r \in ToSet(ids) THEN at + 1 + (CHOOSE i \in DOMAIN ids : ids[i] = r) ELSE reqs[r]]

(* _requests with calls entered under their positions in the batch.        *)
Entered(reqs, ids, at) ==
  [r \in DOMAIN reqs \cup ToSet(ids) |->
     IF r \in ToSet(ids) THEN at + (CHOOSE i \in DOMAIN ids : ids[i] = r) ELSE reqs[r]]

Deleted(reqs, ids) == [r \in DOMAIN reqs \ ToSet(ids) |-> reqs[r]]

Post(ids, list, own, refresh) ==
  [ids |-> ids, list |-> list, own |-> own, refresh |-> refresh]

-----------------------------------------------------------------------------
(* A declared function called on its own.  With a batch left open the      *)
(* message joins it, and the caller's deferred is resolved with it.        *)
Call ==
  /\ next <= MaxId
  /\ next' = next + 1
  /\ IF open
     THEN /\ queue' = Append(queue, next)
          /\ requests' = Entered(requests, <<next>>, Len(queue))
          /\ got' = [got EXCEPT ![next] = Message]
          /\ UNCHANGED posts
     ELSE /\ requests' = [r \in DOMAIN requests \cup {next} |->
                            IF r = next THEN 0 ELSE requests[r]]
          /\ posts' = posts \cup {Post(<<next>>, FALSE, <<next>>, FALSE)}
          /\ UNCHANGED <<queue, got>>
  /\ UNCHANGED <<open, thrown, failed>>

(* batch(), k calls, flush(), without an interruption.  batch() keeps what *)
(* an open batch already holds.                                            *)
Block(k, refresh, reqs, others) ==
  LET ids == queue \o Fresh(k)
  IN  /\ next + k <= MaxId + 1
      /\ next' = next + k
      /\ requests' = Entered(reqs, Fresh(k), Len(queue))
      /\ posts' = others \cup {Post(ids, TRUE, Fresh(k), refresh)}
      /\ queue' = <<>>
      /\ open' = FALSE

Batch(k, refresh) ==
  /\ Block(k, refresh, requests, posts)
  /\ UNCHANGED <<got, thrown, failed>>

-----------------------------------------------------------------------------
(* Mutation: results are handed out in the order requests were entered.    *)
HandedReversed(p) ==
  [c \in Ids |->
     IF \E i \in DOMAIN p.own : p.own[i] = c
     THEN p.ids[Len(p.ids) + 1 - (CHOOSE i \in DOMAIN p.own : p.own[i] = c)]
     ELSE got[c]]

(* _call_cb: the answer to the i-th message is stored under the index its  *)
(* request was entered with, and the caller reads its own k results from   *)
(* the front of the array.                                                 *)
Handed(p) ==
  [c \in Ids |->
     IF \E i \in DOMAIN p.own : p.own[i] = c
     THEN p.ids[CHOOSE i \in DOMAIN p.own : p.own[i] = c]
     ELSE got[c]]

(* The server answers every message of a post, in order.  The callback of  *)
(* loadCache(0) then asks for each switch it found, in a batch of its own. *)
Answer(p) ==
  /\ p \in posts
  /\ got' = Handed(p)
  /\ IF p.refresh
     THEN \E k \in 0 .. MaxBlock :
            Block(k, FALSE, Deleted(requests, p.ids), posts \ {p})
     ELSE /\ requests' = Deleted(requests, p.ids)
          /\ posts' = posts \ {p}
          /\ UNCHANGED <<next, open, queue>>
  /\ UNCHANGED <<thrown, failed>>

(* A single call times out: the jqXHR stands in for the answer, its frame  *)
(* does not verify, and the caller gets the declared default.              *)
FailSingle(p) ==
  /\ p \in posts
  /\ ~p.list
  /\ got' = [got EXCEPT ![p.ids[1]] = Default]
  /\ requests' = Deleted(requests, p.ids)
  /\ posts' = posts \ {p}
  /\ UNCHANGED <<next, open, queue, thrown, failed>>

(* Mutation: $.ajax(...).then(cb), without the failure callback.           *)
FailBatchSilently(p) ==
  /\ p \in posts
  /\ p.list
  /\ posts' = posts \ {p}
  /\ failed' = TRUE
  /\ UNCHANGED <<next, open, queue, requests, got, thrown>>

(* A batch times out: the jqXHR has no length, so the loop over the        *)
(* answers runs zero times; no request is deleted, and the caller gets [].  *)
(* loadCache(0) takes the list of switches from it, which is undefined:    *)
(* reading its length throws after batch() and before flush().             *)
FailBatch(p) ==
  /\ p \in posts
  /\ p.list
  /\ got' = [c \in Ids |-> IF c \in ToSet(p.own) THEN Missing ELSE got[c]]
  /\ posts' = posts \ {p}
  /\ failed' = TRUE
  /\ open' = (open \/ p.refresh)
  /\ thrown' = (thrown \/ p.refresh)
  /\ UNCHANGED <<next, queue, requests>>

-----------------------------------------------------------------------------
RpcInit ==
  /\ next = 1
  /\ open = FALSE
  /\ queue = <<>>
  /\ requests = [r \in {} |-> 0]
  /\ posts = {}
  /\ got = [c \in Ids |-> Pending]
  /\ thrown = FALSE
  /\ failed = FALSE

(* Every request is answered or times out (L.globals.timeout).             *)
SettlePost(p) == Answer(p) \/ FailSingle(p) \/ FailBatch(p)

RpcNext ==
  \/ Call
  \/ \E k \in 1 .. MaxBlock, refresh \in BOOLEAN : Batch(k, refresh)
  \/ \E p \in posts : SettlePost(p)

RpcSpec == RpcInit /\ [][RpcNext]_rpcvars /\ WF_rpcvars(\E p \in posts : SettlePost(p))

-----------------------------------------------------------------------------
InFlight == UNION {ToSet(p.ids) : p \in posts}

RpcTypeOK ==
  /\ next \in 1 .. MaxId + 1
  /\ {open, thrown, failed} \subseteq BOOLEAN
  /\ queue \in Seq(1 .. next - 1)
  /\ DOMAIN requests \subseteq 1 .. next - 1
  /\ \A r \in DOMAIN requests : requests[r] \in 0 .. MaxId
  /\ \A p \in posts : /\ p.ids \in Seq(1 .. next - 1) /\ p.own \in Seq(1 .. next - 1)
                      /\ {p.list, p.refresh} \subseteq BOOLEAN
  /\ got \in [Ids -> Ids \cup {Pending, Message, Default, Missing}]

(* What _call_cb throws 'No related request for JSON response' about: each *)
(* message queued or under way has its entry, under the position its       *)
(* answer will have; entries outlive their request only after a batch that *)
(* got no answer.                                                          *)
RequestsMatch ==
  /\ \A i \in DOMAIN queue : queue[i] \in DOMAIN requests /\ requests[queue[i]] = i
  /\ \A p \in posts : \A i \in DOMAIN p.ids :
       p.ids[i] \in DOMAIN requests /\ requests[p.ids[i]] = IF p.list THEN i ELSE 0
  /\ ~failed => DOMAIN requests = ToSet(queue) \cup InFlight

(* As long as no callback threw inside a batch, no caller is handed another *)
(* call's result, nor its own message: it gets its answer, or a sign that  *)
(* there is none (_call_cb, flush, and the callers that read by position). *)
OwnAnswerUnlessThrown ==
  ~thrown => \A c \in Ids : got[c] \in {c, Pending, Default, Missing}

(* Every caller is called back, with an answer or without: $.ajax has a    *)
(* timeout, and its failure is handled by the same callback.               *)
EveryCallSettles ==
  \A c \in Ids : c < next ~> got[c] # Pending
=============================================================================

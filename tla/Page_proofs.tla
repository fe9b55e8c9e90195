----------------------------- MODULE Page_proofs -----------------------------
(***************************************************************************)
(* What is proved of the parts of the page that MCPage puts beside each    *)
(* other: of the RPC client (Rpc), of the session (Session) and of the     *)
(* timers of views (ViewTimers), and that their types are kept together.   *)
(***************************************************************************)
EXTENDS MCPage, Sublists_proofs, FiniteSetTheorems, TLAPS

-----------------------------------------------------------------------------
(* Rpc: type correctness, that every message queued or under way has its   *)
(* entry in _requests, and that callers get their own answers, for every   *)
(* number of calls and every size of a batch.                              *)

(* A post under way, when n is the next id.                                *)
PostOK(p, n) ==
  /\ p.ids \in Seq(1 .. n - 1) /\ p.own \in Seq(1 .. n - 1)
  /\ p.list \in BOOLEAN /\ p.refresh \in BOOLEAN
  /\ Len(p.own) <= Len(p.ids)
  /\ ~p.list => Len(p.ids) = 1

(* No message is in two posts, nor in a post and in the batch.             *)
Disjoint(q, ps) ==
  /\ \A p1, p2 \in ps : \A i \in DOMAIN p1.ids, j \in DOMAIN p2.ids :
       p1.ids[i] = p2.ids[j] => p1 = p2
  /\ \A p \in ps : \A i \in DOMAIN p.ids, j \in DOMAIN q : p.ids[i] # q[j]

(* The entry of each message is the position its answer will have.         *)
Matched(reqs, q, ps) ==
  /\ \A i \in DOMAIN q : q[i] \in DOMAIN reqs /\ reqs[q[i]] = i
  /\ \A p \in ps : \A i \in DOMAIN p.ids :
       p.ids[i] \in DOMAIN reqs /\ reqs[p.ids[i]] = IF p.list THEN i ELSE 0

(* The ids, the batch, the entries and the posts fit each other.  It is    *)
(* stated of its arguments because Block starts from what is left of the   *)
(* entries and the posts after an answer.                                  *)
Sound(n, q, reqs, ps) ==
  /\ n \in 1 .. MaxId + 1
  /\ q \in Seq(1 .. n - 1) /\ Len(q) < n
  /\ DOMAIN reqs \subseteq 1 .. n - 1
  /\ \A r \in DOMAIN reqs : reqs[r] \in 0 .. MaxId
  /\ \A p \in ps : PostOK(p, n)
  /\ Disjoint(q, ps)
  /\ Matched(reqs, q, ps)

(* No entry without a message.                                             *)
Exact(q, reqs, ps) ==
  \A r \in DOMAIN reqs :
    \/ \E i \in DOMAIN q : q[i] = r
    \/ \E p \in ps : \E i \in DOMAIN p.ids : p.ids[i] = r

(* While nothing threw, no batch is open outside its block, and a caller's *)
(* results are all there is in its post.                                   *)
Orderly ==
  /\ {open, thrown, failed} \subseteq BOOLEAN
  /\ open => thrown
  /\ ~open => queue = <<>>
  /\ ~thrown => \A p \in posts : p.own = p.ids

RpcInv ==
  /\ Sound(next, queue, requests, posts)
  /\ ~failed => Exact(queue, requests, posts)
  /\ Orderly
  /\ got \in [Ids -> Ids \cup {Pending, Message, Default, Missing}]
  /\ OwnAnswerUnlessThrown

-----------------------------------------------------------------------------
(* Fresh(k): k ids that follow each other.                                 *)
LEMMA FreshIds ==
  ASSUME NEW k \in Nat, next \in Nat \ {0}
  PROVE  /\ Fresh(k) \in Seq(1 .. next + k - 1) /\ Len(Fresh(k)) = k
         /\ DOMAIN Fresh(k) = 1 .. k
         /\ \A i \in 1 .. k : Fresh(k)[i] = next + i - 1
BY DEF Fresh

(* Entered: calls that are made now are entered one behind the other, and  *)
(* the entries there were are kept.                                        *)
LEMMA EnteredFresh ==
  ASSUME NEW k \in Nat, NEW reqs, NEW others, Sound(next, queue, reqs, others)
  PROVE  /\ DOMAIN Entered(reqs, Fresh(k), Len(queue)) = DOMAIN reqs \cup (next .. next + k - 1)
         /\ \A r \in DOMAIN reqs : Entered(reqs, Fresh(k), Len(queue))[r] = reqs[r]
         /\ \A r \in next .. next + k - 1 :
              Entered(reqs, Fresh(k), Len(queue))[r] = Len(queue) + (r - next + 1)
<1> DEFINE ids == Fresh(k)
           at  == Len(queue)
           new == Entered(reqs, ids, at)
<1>0. next \in Nat \ {0} /\ at \in Nat /\ DOMAIN reqs \subseteq 1 .. next - 1
  BY RpcAssumption DEF Sound
<1> HIDE DEF at
<1>1. DOMAIN ids = 1 .. k /\ \A i \in 1 .. k : ids[i] = next + i - 1
  BY <1>0, FreshIds
<1>2. ToSet(ids) = next .. next + k - 1
  <2>1. ASSUME NEW r \in next .. next + k - 1 PROVE r \in ToSet(ids)
    <3>1. r - next + 1 \in 1 .. k /\ ids[r - next + 1] = r
      BY <1>0, <1>1
    <3> QED
      BY <3>1, <1>1 DEF ToSet
  <2>2. ASSUME NEW r \in ToSet(ids) PROVE r \in next .. next + k - 1
    BY <1>0, <1>1 DEF ToSet
  <2> QED
    BY <2>1, <2>2
<1> HIDE DEF ids
<1>3. DOMAIN new = DOMAIN reqs \cup (next .. next + k - 1)
  BY <1>0, <1>2 DEF Entered
<1>4. ASSUME NEW r \in DOMAIN reqs PROVE new[r] = reqs[r]
  BY <1>0, <1>2 DEF Entered
<1>5. ASSUME NEW r \in next .. next + k - 1 PROVE new[r] = at + (r - next + 1)
  <2>1. r \in ToSet(ids)
    BY <1>2
  <2>2. new[r] = at + (CHOOSE j \in DOMAIN ids : ids[j] = r)
    BY <2>1 DEF Entered
  <2>3. r - next + 1 \in DOMAIN ids /\ \A j \in DOMAIN ids : ids[j] = r <=> j = r - next + 1
    BY <1>0, <1>1
  <2>4. (CHOOSE j \in DOMAIN ids : ids[j] = r) = r - next + 1
    BY <2>3
  <2> QED
    BY <2>2, <2>4
<1> QED
  BY <1>3, <1>4, <1>5 DEF ids, at

(* What a batch holds, with what joins it behind.                          *)
LEMMA Joined ==
  ASSUME NEW n \in Nat, NEW s \in Seq(1 .. n), NEW t \in Seq(1 .. n)
  PROVE  /\ s \o t \in Seq(1 .. n) /\ Len(s \o t) = Len(s) + Len(t)
         /\ DOMAIN (s \o t) = 1 .. Len(s) + Len(t)
         /\ \A i \in 1 .. Len(s) : (s \o t)[i] = s[i]
         /\ \A i \in Len(s) + 1 .. Len(s) + Len(t) : (s \o t)[i] = t[i - Len(s)]
OBVIOUS

(* A post that is over takes its messages' entries with it, and no others. *)
LEMMA DeletedSound ==
  ASSUME NEW n, NEW q, NEW reqs, NEW ps, Sound(n, q, reqs, ps), NEW p \in ps
  PROVE  Sound(n, q, Deleted(reqs, p.ids), ps \ {p})
<1> DEFINE new == Deleted(reqs, p.ids)
<1>1. DOMAIN new = DOMAIN reqs \ ToSet(p.ids) /\ \A r \in DOMAIN new : new[r] = reqs[r]
  BY DEF Deleted
<1> HIDE DEF new
<1>2. Disjoint(q, ps \ {p})
  BY DEF Sound, Disjoint
<1>3. ASSUME NEW i \in DOMAIN q PROVE q[i] \in DOMAIN new /\ new[q[i]] = i
  BY <1>1 DEF Sound, Disjoint, Matched, ToSet
<1>4. ASSUME NEW p2 \in ps \ {p}, NEW i \in DOMAIN p2.ids
      PROVE  p2.ids[i] \in DOMAIN new /\ new[p2.ids[i]] = IF p2.list THEN i ELSE 0
  <2>1. p2.ids[i] \notin ToSet(p.ids)
    BY DEF Sound, Disjoint, ToSet
  <2> QED
    BY <2>1, <1>1 DEF Sound, Matched
<1> QED
  BY <1>1, <1>2, <1>3, <1>4 DEF Sound, Matched, new

LEMMA DeletedExact ==
  ASSUME NEW q, NEW reqs, NEW ps, Exact(q, reqs, ps), NEW p \in ps
  PROVE  Exact(q, Deleted(reqs, p.ids), ps \ {p})
BY DEF Exact, Deleted, ToSet

(* A post that is over without its entries.                                *)
LEMMA FewerSound ==
  ASSUME NEW n, NEW q, NEW reqs, NEW ps, Sound(n, q, reqs, ps), NEW p \in ps
  PROVE  Sound(n, q, reqs, ps \ {p})
BY DEF Sound, Disjoint, Matched

-----------------------------------------------------------------------------
(* The messages of a block: those the batch held, and the k new ones.      *)
LEMMA BlockIds ==
  ASSUME NEW k \in Nat, NEW reqs, NEW others, Sound(next, queue, reqs, others)
  PROVE  /\ queue \o Fresh(k) \in Seq(1 .. next + k - 1)
         /\ Len(queue \o Fresh(k)) = Len(queue) + k
         /\ DOMAIN (queue \o Fresh(k)) = 1 .. Len(queue) + k
         /\ \A i \in 1 .. Len(queue) : (queue \o Fresh(k))[i] = queue[i]
         /\ \A i \in Len(queue) + 1 .. Len(queue) + k :
              (queue \o Fresh(k))[i] = next + (i - Len(queue)) - 1
<1> DEFINE new == Fresh(k)
<1>1. next \in Nat \ {0} /\ Len(queue) \in Nat /\ queue \in Seq(1 .. next - 1)
  BY RpcAssumption DEF Sound
<1>2. queue \in Seq(1 .. next + k - 1) /\ next + k - 1 \in Nat
  BY <1>1
<1>3. /\ new \in Seq(1 .. next + k - 1) /\ Len(new) = k
      /\ \A i \in 1 .. k : new[i] = next + i - 1
  BY <1>1, FreshIds
<1>4. \A i \in Len(queue) + 1 .. Len(queue) + k : i - Len(queue) \in 1 .. k
  BY <1>1
<1> HIDE DEF new
<1>5. /\ queue \o new \in Seq(1 .. next + k - 1) /\ Len(queue \o new) = Len(queue) + Len(new)
      /\ DOMAIN (queue \o new) = 1 .. Len(queue) + Len(new)
      /\ \A i \in 1 .. Len(queue) : (queue \o new)[i] = queue[i]
      /\ \A i \in Len(queue) + 1 .. Len(queue) + Len(new) :
           (queue \o new)[i] = new[i - Len(queue)]
  BY <1>2, <1>3, Joined
<1> QED
  BY <1>3, <1>4, <1>5 DEF new

(* What a block leaves: its post, and entries for the new messages.        *)
PostIds(p, k) ==
  /\ p.ids \in Seq(1 .. next + k - 1) /\ Len(p.ids) = Len(queue) + k
  /\ DOMAIN p.ids = 1 .. Len(queue) + k
  /\ \A i \in 1 .. Len(queue) : p.ids[i] = queue[i]
  /\ \A i \in Len(queue) + 1 .. Len(queue) + k : p.ids[i] = next + (i - Len(queue)) - 1

NewEntries(k, reqs) ==
  /\ DOMAIN requests' = DOMAIN reqs \cup (next .. next + k - 1)
  /\ \A r \in DOMAIN reqs : requests'[r] = reqs[r]
  /\ \A r \in next .. next + k - 1 : requests'[r] = Len(queue) + (r - next + 1)

LEMMA EntriesNew ==
  ASSUME NEW k \in Nat, NEW reqs, NEW others, Sound(next, queue, reqs, others),
         requests' = Entered(reqs, Fresh(k), Len(queue))
  PROVE  NewEntries(k, reqs)
BY EnteredFresh DEF NewEntries

BlockPost(p, k, refresh, reqs, others) ==
  /\ posts' = others \cup {p} /\ queue' = <<>>
  /\ next' = next + k /\ next + k <= MaxId + 1
  /\ p.own = Fresh(k) /\ p.list = TRUE /\ p.refresh = refresh
  /\ PostIds(p, k)
  /\ NewEntries(k, reqs)

LEMMA BlockLeaves ==
  ASSUME NEW k \in Nat, NEW refresh \in BOOLEAN, NEW reqs, NEW others,
         Sound(next, queue, reqs, others), Block(k, refresh, reqs, others)
  PROVE  \E p : BlockPost(p, k, refresh, reqs, others)
<1> DEFINE p == Post(queue \o Fresh(k), TRUE, Fresh(k), refresh)
<1>1. /\ posts' = others \cup {p} /\ queue' = <<>>
      /\ next' = next + k /\ next + k <= MaxId + 1
      /\ requests' = Entered(reqs, Fresh(k), Len(queue))
  BY DEF Block
<1>2. p.ids = queue \o Fresh(k) /\ p.own = Fresh(k) /\ p.list = TRUE /\ p.refresh = refresh
  BY DEF Post
<1> HIDE DEF p
<1>3. PostIds(p, k)
  BY <1>2, BlockIds DEF PostIds
<1>4. NewEntries(k, reqs)
  BY <1>1, EntriesNew
<1> QED
  BY <1>1, <1>2, <1>3, <1>4 DEF BlockPost

(* flush() turns what the batch held, and the k calls made since, into a   *)
(* post, of which the entries say the positions.                           *)
LEMMA BlockSound ==
  ASSUME NEW k \in Nat, NEW refresh \in BOOLEAN, NEW reqs, NEW others,
         Sound(next, queue, reqs, others), Block(k, refresh, reqs, others)
  PROVE  Sound(next', queue', requests', posts')
<1>1. /\ next \in 1 .. MaxId + 1 /\ next \in Nat \ {0} /\ MaxId \in Nat
      /\ queue \in Seq(1 .. next - 1) /\ Len(queue) < next /\ Len(queue) \in Nat
      /\ DOMAIN queue = 1 .. Len(queue)
      /\ DOMAIN reqs \subseteq 1 .. next - 1
  BY RpcAssumption DEF Sound
<1>2. PICK p : BlockPost(p, k, refresh, reqs, others)
  BY BlockLeaves
<1>3. \A r \in DOMAIN requests' : requests'[r] \in 0 .. MaxId
  <2> SUFFICES ASSUME NEW r \in DOMAIN requests' PROVE requests'[r] \in 0 .. MaxId
    OBVIOUS
  <2>1. CASE r \in DOMAIN reqs
    BY <2>1, <1>2 DEF Sound, BlockPost, PostIds, NewEntries
  <2>2. CASE r \in next .. next + k - 1
    BY <2>2, <1>1, <1>2, SMTT(30) DEF BlockPost, PostIds, NewEntries
  <2> QED
    BY <2>1, <2>2, <1>2 DEF BlockPost, PostIds, NewEntries
<1>4. \A o \in posts' : PostOK(o, next')
  <2> SUFFICES ASSUME NEW o \in posts' PROVE PostOK(o, next')
    OBVIOUS
  <2>1. CASE o \in others
    <3>1. PostOK(o, next)
      BY <2>1 DEF Sound
    <3> QED
      BY <3>1, <1>1, <1>2 DEF PostOK, BlockPost, PostIds, NewEntries
  <2>2. CASE o = p
    <3>1. p.own \in Seq(1 .. next + k - 1) /\ Len(p.own) = k
      BY <1>1, <1>2, FreshIds DEF BlockPost, PostIds, NewEntries
    <3>2. p.ids \in Seq(1 .. next + k - 1) /\ Len(p.ids) = Len(queue) + k /\ p.list = TRUE
      BY <1>2 DEF BlockPost, PostIds
    <3>3. next' - 1 = next + k - 1 /\ p.refresh \in BOOLEAN
      BY <1>1, <1>2 DEF BlockPost
    <3>4. o.ids \in Seq(1 .. next' - 1) /\ o.own \in Seq(1 .. next' - 1)
      <4>1. o.own \in Seq(1 .. next + k - 1)
        BY <3>1, <2>2, <1>2 DEF BlockPost
      <4> QED
        BY <4>1, <3>2, <3>3, <2>2
    <3>5. Len(o.own) <= Len(o.ids)
      BY <3>1, <3>2, <2>2, <1>1, <1>2 DEF BlockPost
    <3> QED
      BY <3>2, <3>3, <3>4, <3>5, <2>2, Zenon DEF PostOK
  <2> QED
    BY <2>1, <2>2, <1>2 DEF BlockPost, PostIds, NewEntries
<1>5. \A o \in others : \A i \in DOMAIN o.ids, j \in DOMAIN p.ids : o.ids[i] # p.ids[j]
  <2> SUFFICES ASSUME NEW o \in others, NEW i \in DOMAIN o.ids, NEW j \in DOMAIN p.ids
               PROVE  o.ids[i] # p.ids[j]
    OBVIOUS
  <2>1. o.ids[i] \in 1 .. next - 1
    BY DEF Sound, PostOK
  <2>2. j \in 1 .. Len(queue) + k
    BY <1>2 DEF BlockPost, PostIds, NewEntries
  <2>3. CASE j <= Len(queue)
    <3>0. j \in 1 .. Len(queue)
      BY <2>2, <2>3, <1>1
    <3>1. j \in DOMAIN queue /\ p.ids[j] = queue[j]
      BY <3>0, <1>1, <1>2 DEF BlockPost, PostIds
    <3> QED
      BY <3>1 DEF Sound, Disjoint
  <2>4. CASE j > Len(queue)
    <3>0. j \in Len(queue) + 1 .. Len(queue) + k
      BY <2>2, <2>4, <1>1
    <3>1. p.ids[j] = next + (j - Len(queue)) - 1
      BY <3>0, <1>2 DEF BlockPost, PostIds
    <3> QED
      BY <3>1, <2>1, <2>4, <2>2, <1>1
  <2> QED
    BY <2>2, <2>3, <2>4, <1>1
<1>6. Disjoint(queue', posts')
  <2>1. \A p1, p2 \in others : \A i \in DOMAIN p1.ids, j \in DOMAIN p2.ids :
          p1.ids[i] = p2.ids[j] => p1 = p2
    BY DEF Sound, Disjoint
  <2>2. \A p1, p2 \in posts' : \A i \in DOMAIN p1.ids, j \in DOMAIN p2.ids :
          p1.ids[i] = p2.ids[j] => p1 = p2
    <3> SUFFICES ASSUME NEW p1 \in posts', NEW p2 \in posts', p1 # p2,
                        NEW i \in DOMAIN p1.ids, NEW j \in DOMAIN p2.ids
                 PROVE  p1.ids[i] # p2.ids[j]
      OBVIOUS
    <3>1. CASE p1 \in others /\ p2 \in others
      BY <3>1, <2>1
    <3>2. CASE p1 = p /\ p2 \in others
      BY <3>2, <1>5
    <3>3. CASE p1 \in others /\ p2 = p
      BY <3>3, <1>5
    <3> QED
      BY <3>1, <3>2, <3>3, <1>2 DEF BlockPost, PostIds, NewEntries
  <2>3. DOMAIN queue' = {}
    BY <1>2 DEF BlockPost, PostIds, NewEntries
  <2> QED
    BY <2>2, <2>3 DEF Disjoint
<1>7. Matched(requests', queue', posts')
  <2> SUFFICES ASSUME NEW o \in posts', NEW i \in DOMAIN o.ids
               PROVE  /\ o.ids[i] \in DOMAIN requests'
                      /\ requests'[o.ids[i]] = IF o.list THEN i ELSE 0
    BY <1>2 DEF Matched, BlockPost, PostIds, NewEntries
  <2>1. CASE o \in others
    <3>1. o.ids[i] \in DOMAIN reqs /\ reqs[o.ids[i]] = IF o.list THEN i ELSE 0
      BY <2>1 DEF Sound, Matched
    <3> QED
      BY <3>1, <1>2 DEF BlockPost, PostIds, NewEntries
  <2>2. CASE o = p
    <3>1. i \in 1 .. Len(queue) + k
      BY <2>2, <1>2 DEF BlockPost, PostIds, NewEntries
    <3>2. CASE i <= Len(queue)
      <4>1. i \in DOMAIN queue /\ p.ids[i] = queue[i]
        BY <3>1, <3>2, <1>1, <1>2, SMTT(30) DEF BlockPost, PostIds, NewEntries
      <4>2. queue[i] \in DOMAIN reqs /\ reqs[queue[i]] = i
        BY <4>1 DEF Sound, Matched
      <4> QED
        BY <4>1, <4>2, <2>2, <1>2 DEF BlockPost, PostIds, NewEntries
    <3>3. CASE i > Len(queue)
      <4>0. i \in Len(queue) + 1 .. Len(queue) + k
        BY <3>1, <3>3, <1>1
      <4>1. p.ids[i] = next + (i - Len(queue)) - 1
        BY <4>0, <1>2 DEF BlockPost, PostIds
      <4>2. p.ids[i] \in next .. next + k - 1 /\ Len(queue) + (p.ids[i] - next + 1) = i
        BY <4>1, <3>1, <3>3, <1>1
      <4> QED
        BY <4>2, <2>2, <1>2 DEF BlockPost, PostIds, NewEntries
    <3> QED
      BY <3>1, <3>2, <3>3, <1>1
  <2> QED
    BY <2>1, <2>2, <1>2 DEF BlockPost, PostIds, NewEntries
<1>8. next' \in 1 .. MaxId + 1 /\ queue' \in Seq(1 .. next' - 1) /\ Len(queue') < next'
  BY <1>1, <1>2 DEF BlockPost, PostIds, NewEntries
<1>9. DOMAIN requests' \subseteq 1 .. next' - 1
  BY <1>1, <1>2 DEF BlockPost, PostIds, NewEntries
<1> QED
  BY <1>3, <1>4, <1>6, <1>7, <1>8, <1>9 DEF Sound

LEMMA BlockExact ==
  ASSUME NEW k \in Nat, NEW refresh \in BOOLEAN, NEW reqs, NEW others,
         Sound(next, queue, reqs, others), Block(k, refresh, reqs, others),
         Exact(queue, reqs, others)
  PROVE  Exact(queue', requests', posts')
<1>1. /\ next \in Nat \ {0} /\ Len(queue) \in Nat /\ DOMAIN queue = 1 .. Len(queue)
      /\ DOMAIN reqs \subseteq 1 .. next - 1
  BY RpcAssumption DEF Sound
<1>2. PICK p : BlockPost(p, k, refresh, reqs, others)
  BY BlockLeaves
<1> SUFFICES ASSUME NEW r \in DOMAIN requests'
             PROVE  \E o \in posts' : \E i \in DOMAIN o.ids : o.ids[i] = r
  BY DEF Exact
<1>3. CASE r \in DOMAIN reqs
  <2>1. CASE \E i \in DOMAIN queue : queue[i] = r
    <3>1. PICK i \in DOMAIN queue : queue[i] = r
      BY <2>1
    <3>2. i \in DOMAIN p.ids /\ p.ids[i] = r
      BY <3>1, <1>1, <1>2, SMTT(30) DEF BlockPost, PostIds, NewEntries
    <3> QED
      BY <3>2, <1>2 DEF BlockPost, PostIds, NewEntries
  <2>2. CASE \E o \in others : \E i \in DOMAIN o.ids : o.ids[i] = r
    BY <2>2, <1>2 DEF BlockPost, PostIds, NewEntries
  <2> QED
    BY <2>1, <2>2, <1>3 DEF Exact
<1>4. CASE r \in next .. next + k - 1
  <2> DEFINE i == Len(queue) + (r - next + 1)
  <2>1. i \in Len(queue) + 1 .. Len(queue) + k /\ next + (i - Len(queue)) - 1 = r
    BY <1>4, <1>1
  <2> HIDE DEF i
  <2>2. i \in DOMAIN p.ids /\ p.ids[i] = r
    BY <2>1, <1>1, <1>2, SMTT(30) DEF BlockPost, PostIds, NewEntries
  <2> QED
    BY <2>2, <1>2 DEF BlockPost, PostIds, NewEntries
<1> QED
  BY <1>2, <1>3, <1>4 DEF BlockPost, PostIds, NewEntries

-----------------------------------------------------------------------------
(* Each action keeps the invariant.                                        *)
LEMMA RpcStarts == ASSUME RpcInit PROVE RpcInv
<1>1. Sound(next, queue, requests, posts)
  BY RpcAssumption DEF RpcInit, Sound, Disjoint, Matched
<1> QED
  BY <1>1 DEF RpcInit, RpcInv, Exact, Orderly, OwnAnswerUnlessThrown

(* A call alone is a post of its own.                                      *)
LEMMA CallAloneSound ==
  ASSUME RpcInv, Call, ~open
  PROVE  /\ Sound(next', queue', requests', posts')
         /\ Exact(queue, requests, posts) => Exact(queue', requests', posts')
<1> DEFINE p == Post(<<next>>, FALSE, <<next>>, FALSE)
<1>1. /\ next \in 1 .. MaxId /\ next' = next + 1 /\ queue = <<>> /\ queue' = <<>>
      /\ posts' = posts \cup {p} /\ DOMAIN requests \subseteq 1 .. next - 1
      /\ MaxId \in Nat
  <2>1. queue = <<>> /\ queue' = queue /\ next' = next + 1 /\ next <= MaxId
    BY DEF RpcInv, Orderly, Call
  <2>2. posts' = posts \cup {p}
    BY DEF Call
  <2>3. next \in 1 .. MaxId + 1 /\ DOMAIN requests \subseteq 1 .. next - 1 /\ MaxId \in Nat
    BY RpcAssumption DEF RpcInv, Sound
  <2> QED
    BY <2>1, <2>2, <2>3
<1>2. /\ DOMAIN requests' = DOMAIN requests \cup {next}
      /\ \A r \in DOMAIN requests : requests'[r] = requests[r]
      /\ requests'[next] = 0
  BY <1>1 DEF Call
<1>3. /\ p.ids = <<next>> /\ p.own = <<next>> /\ p.list = FALSE /\ p.refresh = FALSE
      /\ DOMAIN p.ids = {1} /\ p.ids[1] = next
  BY DEF Post
<1> HIDE DEF p
<1>4. \A o \in posts : PostOK(o, next) /\ \A i \in DOMAIN o.ids : o.ids[i] \in 1 .. next - 1
  BY DEF RpcInv, Sound, PostOK
<1>5. PostOK(p, next')
  <2>1. <<next>> \in Seq(1 .. next' - 1) /\ Len(<<next>>) = 1
    BY <1>1
  <2>2. p.ids \in Seq(1 .. next' - 1) /\ p.own \in Seq(1 .. next' - 1)
    BY <2>1, <1>3
  <2>3. Len(p.own) <= Len(p.ids) /\ Len(p.ids) = 1
    BY <2>1, <1>3
  <2>4. p.list \in BOOLEAN /\ p.refresh \in BOOLEAN
    BY <1>3
  <2> QED
    BY <2>2, <2>3, <2>4, Zenon DEF PostOK
<1>6. \A o \in posts : PostOK(o, next')
  BY <1>1, <1>4 DEF PostOK
<1>7. Disjoint(queue', posts')
  <2> SUFFICES ASSUME NEW p1 \in posts', NEW p2 \in posts', p1 # p2,
                      NEW i \in DOMAIN p1.ids, NEW j \in DOMAIN p2.ids
               PROVE  p1.ids[i] # p2.ids[j]
    BY <1>1 DEF Disjoint
  <2>1. CASE p1 \in posts /\ p2 \in posts
    BY <2>1 DEF RpcInv, Sound, Disjoint
  <2>2. CASE p1 = p /\ p2 \in posts
    BY <2>2, <1>1, <1>3, <1>4
  <2>3. CASE p1 \in posts /\ p2 = p
    BY <2>3, <1>1, <1>3, <1>4
  <2> QED
    BY <2>1, <2>2, <2>3, <1>1
<1>8. Matched(requests', queue', posts')
  <2> SUFFICES ASSUME NEW o \in posts', NEW i \in DOMAIN o.ids
               PROVE  /\ o.ids[i] \in DOMAIN requests'
                      /\ requests'[o.ids[i]] = IF o.list THEN i ELSE 0
    BY <1>1 DEF Matched
  <2>1. CASE o \in posts
    <3>1. o.ids[i] \in DOMAIN requests /\ requests[o.ids[i]] = IF o.list THEN i ELSE 0
      BY <2>1 DEF RpcInv, Sound, Matched
    <3> QED
      BY <3>1, <1>2
  <2>2. CASE o = p
    BY <2>2, <1>2, <1>3
  <2> QED
    BY <2>1, <2>2, <1>1
<1>9. \A r \in DOMAIN requests' : requests'[r] \in 0 .. MaxId
  BY <1>1, <1>2 DEF RpcInv, Sound
<1>10. Sound(next', queue', requests', posts')
  BY <1>1, <1>2, <1>5, <1>6, <1>7, <1>8, <1>9 DEF Sound
<1>11. ASSUME Exact(queue, requests, posts) PROVE Exact(queue', requests', posts')
  BY <1>1, <1>2, <1>3, <1>11 DEF Exact
<1> QED
  BY <1>10, <1>11

(* A call while a batch is left open joins it.                             *)
LEMMA CallJoinsSound ==
  ASSUME RpcInv, Call, open
  PROVE  /\ Sound(next', queue', requests', posts')
         /\ Exact(queue, requests, posts) => Exact(queue', requests', posts')
<1>1. /\ next \in 1 .. MaxId /\ next \in Nat \ {0} /\ next' = next + 1 /\ posts' = posts
      /\ queue \in Seq(1 .. next - 1) /\ Len(queue) \in Nat /\ Len(queue) < next
      /\ queue' = Append(queue, next) /\ DOMAIN queue = 1 .. Len(queue)
      /\ MaxId \in Nat
  BY RpcAssumption DEF RpcInv, Sound, Call
<1>2. Fresh(1) = <<next>>
  BY <1>1 DEF Fresh
<1>3. NewEntries(1, requests)
  <2>1. requests' = Entered(requests, Fresh(1), Len(queue))
    BY <1>2 DEF Call
  <2>2. \A k \in Nat : requests' = Entered(requests, Fresh(k), Len(queue)) => NewEntries(k, requests)
    BY EntriesNew DEF RpcInv
  <2> QED
    BY <2>1, <2>2
<1>4. /\ DOMAIN requests' = DOMAIN requests \cup {next}
      /\ \A r \in DOMAIN requests : requests'[r] = requests[r]
      /\ requests'[next] = Len(queue) + 1
  <2>1. next .. next + 1 - 1 = {next}
    BY <1>1
  <2>2. next \in next .. next + 1 - 1 /\ Len(queue) + (next - next + 1) = Len(queue) + 1
    BY <1>1
  <2> QED
    BY <2>1, <2>2, <1>3 DEF NewEntries
<1>5. /\ queue' \in Seq(1 .. next' - 1) /\ Len(queue') = Len(queue) + 1
      /\ DOMAIN queue' = 1 .. Len(queue) + 1
      /\ \A i \in 1 .. Len(queue) : queue'[i] = queue[i]
      /\ queue'[Len(queue) + 1] = next
  <2>1. queue \in Seq(1 .. next' - 1) /\ next \in 1 .. next' - 1
    BY <1>1
  <2> QED
    BY <2>1, <1>1
<1>6. \A o \in posts : PostOK(o, next) /\ \A i \in DOMAIN o.ids : o.ids[i] \in 1 .. next - 1
  BY DEF RpcInv, Sound, PostOK
<1>7. \A o \in posts : PostOK(o, next')
  BY <1>1, <1>6 DEF PostOK
<1>8. Disjoint(queue', posts')
  <2>1. \A o \in posts : \A i \in DOMAIN o.ids, j \in DOMAIN queue : o.ids[i] # queue[j]
    BY DEF RpcInv, Sound, Disjoint
  <2>2. ASSUME NEW o \in posts, NEW i \in DOMAIN o.ids, NEW j \in DOMAIN queue'
        PROVE  o.ids[i] # queue'[j]
    <3>1. CASE j = Len(queue) + 1
      BY <3>1, <1>1, <1>5, <1>6
    <3>2. CASE j # Len(queue) + 1
      <4>1. j \in 1 .. Len(queue)
        BY <3>2, <1>1, <1>5
      <4> QED
        BY <4>1, <2>1, <1>1, <1>5
    <3> QED
      BY <3>1, <3>2
  <2>3. \A p1, p2 \in posts' : \A i \in DOMAIN p1.ids, j \in DOMAIN p2.ids :
          p1.ids[i] = p2.ids[j] => p1 = p2
    BY <1>1 DEF RpcInv, Sound, Disjoint
  <2> QED
    BY <2>2, <2>3, <1>1 DEF Disjoint
<1>9. Matched(requests', queue', posts')
  <2>1. ASSUME NEW i \in DOMAIN queue'
        PROVE  queue'[i] \in DOMAIN requests' /\ requests'[queue'[i]] = i
    <3>1. CASE i = Len(queue) + 1
      BY <3>1, <1>4, <1>5
    <3>2. CASE i # Len(queue) + 1
      <4>1. i \in 1 .. Len(queue) /\ i \in DOMAIN queue
        BY <3>2, <1>1, <1>5
      <4>2. queue[i] \in DOMAIN requests /\ requests[queue[i]] = i
        BY <4>1 DEF RpcInv, Sound, Matched
      <4> QED
        BY <4>1, <4>2, <1>4, <1>5
    <3> QED
      BY <3>1, <3>2
  <2>2. ASSUME NEW o \in posts, NEW i \in DOMAIN o.ids
        PROVE  /\ o.ids[i] \in DOMAIN requests'
               /\ requests'[o.ids[i]] = IF o.list THEN i ELSE 0
    <3>1. o.ids[i] \in DOMAIN requests /\ requests[o.ids[i]] = IF o.list THEN i ELSE 0
      BY DEF RpcInv, Sound, Matched
    <3> QED
      BY <3>1, <1>4
  <2> QED
    BY <2>1, <2>2, <1>1 DEF Matched
<1>10. Sound(next', queue', requests', posts')
  <2>1. DOMAIN requests' \subseteq 1 .. next' - 1 /\ \A r \in DOMAIN requests' : requests'[r] \in 0 .. MaxId
    BY <1>1, <1>4 DEF RpcInv, Sound
  <2>2. next' \in 1 .. MaxId + 1 /\ Len(queue') < next'
    BY <1>1, <1>5
  <2> QED
    BY <2>1, <2>2, <1>1, <1>5, <1>7, <1>8, <1>9 DEF Sound
<1>11. ASSUME Exact(queue, requests, posts) PROVE Exact(queue', requests', posts')
  <2> SUFFICES ASSUME NEW r \in DOMAIN requests'
               PROVE  \/ \E i \in DOMAIN queue' : queue'[i] = r
                      \/ \E o \in posts : \E i \in DOMAIN o.ids : o.ids[i] = r
    BY <1>1 DEF Exact
  <2>1. CASE r = next
    BY <2>1, <1>1, <1>5
  <2>2. CASE r \in DOMAIN requests
    <3>1. \/ \E i \in DOMAIN queue : queue[i] = r
          \/ \E o \in posts : \E i \in DOMAIN o.ids : o.ids[i] = r
      BY <2>2, <1>11 DEF Exact
    <3>2. ASSUME NEW i \in DOMAIN queue PROVE i \in DOMAIN queue' /\ queue'[i] = queue[i]
      BY <1>1, <1>5
    <3> QED
      BY <3>1, <3>2
  <2> QED
    BY <2>1, <2>2, <1>4
<1> QED
  BY <1>10, <1>11

LEMMA CallInv == ASSUME RpcInv, Call PROVE RpcInv'
<1>1. /\ Sound(next', queue', requests', posts')
      /\ Exact(queue, requests, posts) => Exact(queue', requests', posts')
  BY CallAloneSound, CallJoinsSound
<1>2. UNCHANGED <<open, thrown, failed>>
  BY DEF Call
<1>3. Orderly'
  <2>1. CASE open
    BY <2>1, <1>2 DEF RpcInv, Orderly
  <2>2. CASE ~open
    <3>1. queue' = queue /\ posts' = posts \cup {Post(<<next>>, FALSE, <<next>>, FALSE)}
      BY <2>2 DEF Call
    <3> QED
      BY <3>1, <2>2, <1>2 DEF RpcInv, Orderly, Post
  <2> QED
    BY <2>1, <2>2
<1>4. got' \in [Ids -> Ids \cup {Pending, Message, Default, Missing}]
  BY DEF RpcInv, Call
<1>5. OwnAnswerUnlessThrown'
  <2>1. ~thrown => ~open
    BY DEF RpcInv, Orderly
  <2>2. ~open => got' = got
    BY DEF Call
  <2> QED
    BY <2>1, <2>2, <1>2 DEF RpcInv, OwnAnswerUnlessThrown
<1> QED
  BY <1>1, <1>2, <1>3, <1>4, <1>5 DEF RpcInv

(* A block closes the batch; unless something threw before, its post holds *)
(* its own calls only.                                                     *)
LEMMA BlockOrderly ==
  ASSUME Orderly, NEW k \in Nat, NEW refresh \in BOOLEAN, NEW reqs, NEW others,
         others \subseteq posts, next \in Nat, Block(k, refresh, reqs, others),
         UNCHANGED <<thrown, failed>>
  PROVE  Orderly'
<1>1. open' = FALSE /\ queue' = <<>>
  BY DEF Block
<1>2. ASSUME ~thrown PROVE \A p \in posts' : p.own = p.ids
  <2>1. queue = <<>>
    BY <1>2 DEF Orderly
  <2>2. posts' = others \cup {Post(queue \o Fresh(k), TRUE, Fresh(k), refresh)}
    BY DEF Block
  <2>3. Fresh(k) \in Seq(Int)
    BY DEF Fresh
  <2>4. queue \o Fresh(k) = Fresh(k)
    BY <2>1, <2>3
  <2> QED
    BY <1>2, <2>2, <2>4 DEF Orderly, Post
<1> QED
  BY <1>1, <1>2 DEF Orderly

LEMMA BatchInv ==
  ASSUME RpcInv, NEW k \in 1 .. MaxBlock, NEW refresh \in BOOLEAN, Batch(k, refresh)
  PROVE  RpcInv'
<1>1. k \in Nat /\ next \in Nat /\ Block(k, refresh, requests, posts)
  BY RpcAssumption DEF RpcInv, Sound, Batch
<1>2. Sound(next', queue', requests', posts')
  BY <1>1, BlockSound DEF RpcInv
<1>3. Exact(queue, requests, posts) => Exact(queue', requests', posts')
  BY <1>1, BlockExact DEF RpcInv
<1>4. UNCHANGED <<got, thrown, failed>>
  BY DEF Batch
<1>5. Orderly'
  BY <1>1, <1>4, BlockOrderly DEF RpcInv
<1> QED
  BY <1>2, <1>3, <1>4, <1>5 DEF RpcInv, OwnAnswerUnlessThrown

(* What the callers of a post are handed: the answer to one of its         *)
(* messages; to their own, unless the batch held others.                   *)
LEMMA HandedOK ==
  ASSUME RpcInv, NEW p \in posts, got' = Handed(p)
  PROVE  /\ got' \in [Ids -> Ids \cup {Pending, Message, Default, Missing}]
         /\ ~thrown => \A c \in Ids : got'[c] \in {c, Pending, Default, Missing}
<1>1. PostOK(p, next) /\ next \in 1 .. MaxId + 1 /\ MaxId \in Nat
  BY RpcAssumption DEF RpcInv, Sound
<1>2. ASSUME NEW c \in Ids
      PROVE  /\ got'[c] \in Ids \cup {Pending, Message, Default, Missing}
             /\ ~thrown => got'[c] \in {c, Pending, Default, Missing}
  <2>1. CASE \E i \in DOMAIN p.own : p.own[i] = c
    <3>1. PICK i \in DOMAIN p.own : i = (CHOOSE j \in DOMAIN p.own : p.own[j] = c) /\ p.own[i] = c
      BY <2>1
    <3>2. got'[c] = p.ids[i]
      BY <2>1, <3>1 DEF Handed
    <3>3. i \in DOMAIN p.ids /\ p.ids[i] \in Ids
      BY <1>1 DEF PostOK, Ids
    <3>4. ~thrown => p.ids[i] = c
      BY <3>1 DEF RpcInv, Orderly
    <3> QED
      BY <3>2, <3>3, <3>4
  <2>2. CASE ~\E i \in DOMAIN p.own : p.own[i] = c
    <3>1. got'[c] = got[c]
      BY <2>2 DEF Handed
    <3> QED
      BY <3>1 DEF RpcInv, OwnAnswerUnlessThrown
  <2> QED
    BY <2>1, <2>2
<1>3. got' = [c \in Ids |-> got'[c]]
  BY DEF Handed
<1> QED
  BY <1>2, <1>3

LEMMA AnswerInv == ASSUME RpcInv, NEW p \in posts, Answer(p) PROVE RpcInv'
<1> DEFINE reqs   == Deleted(requests, p.ids)
           others == posts \ {p}
<1>1. Sound(next, queue, reqs, others)
  BY DeletedSound DEF RpcInv
<1>2. Exact(queue, requests, posts) => Exact(queue, reqs, others)
  BY DeletedExact
<1>3. UNCHANGED <<thrown, failed>> /\ got' = Handed(p)
  BY DEF Answer
<1>4. /\ Sound(next', queue', requests', posts')
      /\ Exact(queue, requests, posts) => Exact(queue', requests', posts')
      /\ Orderly'
  <2>1. CASE p.refresh
    <3>1. PICK k \in 0 .. MaxBlock : Block(k, FALSE, reqs, others)
      BY <2>1 DEF Answer
    <3>2. k \in Nat /\ next \in Nat /\ others \subseteq posts /\ FALSE \in BOOLEAN /\ Orderly
      BY RpcAssumption DEF RpcInv, Sound
    <3> HIDE DEF reqs, others
    <3>3. Sound(next', queue', requests', posts')
      BY <3>1, <3>2, <1>1, BlockSound
    <3>4. Exact(queue, reqs, others) => Exact(queue', requests', posts')
      BY <3>1, <3>2, <1>1, BlockExact
    <3>5. Orderly'
      BY <3>1, <3>2, <1>3, BlockOrderly
    <3> QED
      BY <3>3, <3>4, <3>5, <1>2
  <2>2. CASE ~p.refresh
    <3>1. /\ requests' = reqs /\ posts' = others
          /\ UNCHANGED <<next, open, queue>>
      BY <2>2 DEF Answer
    <3>2. Orderly'
      BY <3>1, <1>3 DEF RpcInv, Orderly
    <3> QED
      BY <3>1, <3>2, <1>1, <1>2
  <2> QED
    BY <2>1, <2>2
<1>5. /\ got' \in [Ids -> Ids \cup {Pending, Message, Default, Missing}]
      /\ OwnAnswerUnlessThrown'
  BY <1>3, HandedOK DEF OwnAnswerUnlessThrown
<1> QED
  BY <1>3, <1>4, <1>5 DEF RpcInv

LEMMA FailSingleInv == ASSUME RpcInv, NEW p \in posts, FailSingle(p) PROVE RpcInv'
<1>1. Sound(next', queue', requests', posts')
  BY DeletedSound DEF RpcInv, FailSingle
<1>2. Exact(queue, requests, posts) => Exact(queue', requests', posts')
  BY DeletedExact DEF FailSingle
<1>3. Orderly'
  BY DEF RpcInv, Orderly, FailSingle
<1>4. /\ got' \in [Ids -> Ids \cup {Pending, Message, Default, Missing}]
      /\ OwnAnswerUnlessThrown'
  BY DEF RpcInv, FailSingle, OwnAnswerUnlessThrown
<1> QED
  BY <1>1, <1>2, <1>3, <1>4 DEF RpcInv, FailSingle

(* The entries of a batch without an answer stay; none is taken away.      *)
LEMMA FailBatchInv == ASSUME RpcInv, NEW p \in posts, FailBatch(p) PROVE RpcInv'
<1>1. Sound(next', queue', requests', posts')
  BY FewerSound DEF RpcInv, FailBatch
<1>2. failed' = TRUE
  BY DEF FailBatch
<1>3. Orderly'
  <2>1. p.refresh \in BOOLEAN
    BY DEF RpcInv, Sound, PostOK
  <2> QED
    BY <2>1 DEF RpcInv, Orderly, FailBatch
<1>4. /\ got' \in [Ids -> Ids \cup {Pending, Message, Default, Missing}]
      /\ OwnAnswerUnlessThrown'
  BY DEF RpcInv, Orderly, FailBatch, OwnAnswerUnlessThrown
<1> QED
  BY <1>1, <1>2, <1>3, <1>4 DEF RpcInv

LEMMA RpcInvKept == ASSUME RpcInv, [RpcNext]_rpcvars PROVE RpcInv'
<1>1. CASE Call
  BY <1>1, CallInv
<1>2. ASSUME NEW k \in 1 .. MaxBlock, NEW refresh \in BOOLEAN, Batch(k, refresh) PROVE RpcInv'
  BY <1>2, BatchInv
<1>3. ASSUME NEW p \in posts, SettlePost(p) PROVE RpcInv'
  BY <1>3, AnswerInv, FailSingleInv, FailBatchInv DEF SettlePost
<1>4. CASE UNCHANGED rpcvars
  BY <1>4 DEF rpcvars, RpcInv, Orderly, OwnAnswerUnlessThrown
<1> QED
  BY <1>1, <1>2, <1>3, <1>4 DEF RpcNext

LEMMA RpcInvAlways == RpcSpec => []RpcInv
<1>1. RpcInit => RpcInv
  BY RpcStarts
<1>2. RpcInv /\ [RpcNext]_rpcvars => RpcInv'
  BY RpcInvKept
<1> QED
  BY <1>1, <1>2, PTL DEF RpcSpec

-----------------------------------------------------------------------------
LEMMA RpcInvTypes == RpcInv => RpcTypeOK
BY DEF RpcInv, Orderly, Sound, PostOK, RpcTypeOK

(* The state of the RPC client has its type (declare, batch, flush,        *)
(* _call_cb).                                                              *)
THEOREM RpcTypeCorrect == RpcSpec => []RpcTypeOK
BY RpcInvTypes, RpcInvAlways, PTL

LEMMA RpcInvMatches == RpcInv => RequestsMatch
<1> SUFFICES ASSUME RpcInv PROVE RequestsMatch
  OBVIOUS
<1>1. Matched(requests, queue, posts)
  BY DEF RpcInv, Sound
<1>2. ASSUME ~failed PROVE DOMAIN requests = ToSet(queue) \cup InFlight
  <2>1. Exact(queue, requests, posts)
    BY <1>2 DEF RpcInv
  <2>2. ASSUME NEW r \in DOMAIN requests PROVE r \in ToSet(queue) \cup InFlight
    BY <2>1 DEF Exact, ToSet, InFlight
  <2>3. ASSUME NEW r \in ToSet(queue) \cup InFlight PROVE r \in DOMAIN requests
    BY <1>1 DEF Matched, ToSet, InFlight
  <2> QED
    BY <2>2, <2>3
<1> QED
  BY <1>1, <1>2 DEF Matched, RequestsMatch

(* Each message queued or under way has its entry in _requests under the   *)
(* position its answer will have, and only a batch that got no answer      *)
(* leaves entries behind: _call_cb never finds a response without its      *)
(* request.                                                                *)
THEOREM RequestsAlwaysMatch == RpcSpec => []RequestsMatch
BY RpcInvMatches, RpcInvAlways, PTL

(* As long as nothing threw between batch() and flush(), a caller is       *)
(* handed the answer to its own call, or a sign that there is none.        *)
THEOREM CallersGetOwnAnswer == RpcSpec => []OwnAnswerUnlessThrown
<1>1. RpcInv => OwnAnswerUnlessThrown
  BY DEF RpcInv
<1> QED
  BY <1>1, RpcInvAlways, PTL

-----------------------------------------------------------------------------
(* Session: type correctness, and that the page does one thing at a time,  *)
(* for every set of sessions and every timeout.                            *)
(*                                                                         *)
(* The argument is about time.  A heartbeat that was lost must be given up *)
(* before the interval fires again, or two of its answers could each enter *)
(* login(): a call of the heartbeat and the interval that made it add up   *)
(* to Interval, which is more than the call may last.                      *)

(* What makes OneAtATime inductive: before the document is ready nothing   *)
(* runs; a check is of the session in the hash; a call of the heartbeat    *)
(* has the age its interval shows.                                         *)
SessionInv ==
  /\ TypeOK
  /\ OneAtATime
  /\ deferred = "none" => handle = 0 /\ calls = {} /\ dialog = "none"
  /\ \A c \in calls : c.kind = "check" => sid = hash /\ sid \in Sid
  /\ \A c \in calls : c.kind = "beat" => beats[handle] + c.age = Interval

-----------------------------------------------------------------------------
(* An interval lasts longer than a call.                                   *)
LEMMA IntervalIsLonger == Interval \in Nat /\ Interval > Timeout /\ Timeout \in Nat
BY SessionAssumption DEF Interval

(* startHeartbeat() while none runs leaves one, which has just begun.      *)
LEMMA StartsOne ==
  ASSUME DOMAIN beats = {}, StartHeartbeat
  PROVE  handle' \in 1 .. 2 /\ DOMAIN beats' = {handle'} /\ beats'[handle'] = Interval
<1> DEFINE new == CHOOSE i \in 1 .. 2 : i \notin DOMAIN beats
<1>1. new \in 1 .. 2
  BY 1 \in 1 .. 2
<1>2. handle' = new /\ beats' = [i \in {new} |-> IF i = new THEN Interval ELSE beats[i]]
  BY DEF StartHeartbeat
<1> QED
  BY <1>1, <1>2

(* stopHeartbeat() leaves none.                                            *)
LEMMA StopsAll ==
  ASSUME OneAtATime, StopHeartbeat
  PROVE  handle' = 0 /\ DOMAIN beats' = {}
BY DEF OneAtATime, StopHeartbeat

(* login(), entered while nothing else is under way, keeps the invariant.  *)
LEMMA LoginInv ==
  ASSUME SessionInv, NEW id \in issued \cup {None}, Login(id, {}), dialog # "form",
         handle' = 0, DOMAIN beats' = {}, UNCHANGED server,
         started' \in BOOLEAN, lost' \in 0 .. 2
  PROVE  SessionInv'
<1>1. id # None => id \in Sid
  BY DEF SessionInv, TypeOK
<1>2. deferred' \in {"none", "first", "again", "resolved"} /\ deferred' # "none" /\ hash' = id
  BY DEF SessionInv, TypeOK, Login
<1>3. CASE id # None
  <2>1. sid' = id /\ calls' = {Request("check", id)} /\ dialog' = dialog
    BY <1>3 DEF Login
  <2>2. calls' \subseteq [kind : {"beat", "check", "login"}, sid : Sid \cup {Null}, age : 0 .. Timeout]
    BY <2>1, <1>1, <1>3, IntervalIsLonger DEF Request
  <2>3. TypeOK'
    BY <2>1, <2>2, <1>1, <1>2, <1>3 DEF SessionInv, TypeOK, server
  <2>4. OneAtATime'
    BY <2>1, <1>1, <1>2, <1>3 DEF SessionInv, OneAtATime, Request
  <2> QED
    BY <2>1, <2>3, <2>4, <1>1, <1>2, <1>3 DEF SessionInv, Request
<1>4. CASE id = None
  <2>1. sid' = sid /\ calls' = {} /\ dialog' = "form"
    BY <1>4 DEF Login
  <2> QED
    BY <2>1, <1>2, <1>4 DEF SessionInv, TypeOK, OneAtATime, server
<1> QED
  BY <1>3, <1>4

-----------------------------------------------------------------------------
(* Init: nothing runs.                                                     *)
LEMMA SessionStarts == ASSUME Init PROVE SessionInv
<1>1. DOMAIN beats = {} /\ \A i \in DOMAIN beats : i \in 1 .. 2 /\ beats[i] \in 0 .. Interval
  BY DEF Init
<1>2. /\ valid \subseteq issued /\ issued \subseteq Sid /\ hash \in issued \cup {None}
      /\ sid = Null /\ calls = {} /\ handle = 0 /\ dialog = "none"
      /\ deferred = "none" /\ started = FALSE /\ lost = 0
  BY DEF Init
<1>3. TypeOK
  <2>1. valid \subseteq issued /\ issued \subseteq Sid /\ hash \in issued \cup {None}
    BY <1>2
  <2>2. sid \in issued \cup {Null}
    BY <1>2
  <2>3. calls \subseteq [kind : {"beat", "check", "login"}, sid : Sid \cup {Null}, age : 0 .. Timeout]
    BY <1>2
  <2>4. handle \in 0 .. 2 /\ lost \in 0 .. 2
    BY <1>2
  <2>5. /\ dialog \in {"none", "form", "wait"}
        /\ deferred \in {"none", "first", "again", "resolved"}
        /\ started \in BOOLEAN
    BY <1>2
  <2> QED
    BY <1>1, <2>1, <2>2, <2>3, <2>4, <2>5, Zenon DEF TypeOK
<1>4. OneAtATime
  BY <1>1, <1>2 DEF OneAtATime
<1> QED
  BY <1>1, <1>2, <1>3, <1>4 DEF SessionInv

LEMMA ReadyInv == ASSUME SessionInv, Ready PROVE SessionInv'
<1>1. Login(hash, {}) /\ dialog # "form"
  BY DEF SessionInv, Ready
<1>2. handle' = 0 /\ DOMAIN beats' = {}
  BY DEF SessionInv, OneAtATime, Ready
<1>3. hash \in issued \cup {None} /\ started' \in BOOLEAN /\ lost' \in 0 .. 2
  BY DEF SessionInv, TypeOK, Ready
<1> QED
  BY <1>1, <1>2, <1>3, LoginInv DEF Ready

(* Beat: the call of the last beat is answered or has timed out by now.    *)
LEMMA BeatInv == ASSUME SessionInv, NEW i \in DOMAIN beats, Beat(i) PROVE SessionInv'
<1>1. i = handle /\ handle # 0 /\ beats[handle] = 0
  BY DEF SessionInv, OneAtATime, Beat
<1>2. calls = {}
  <2> SUFFICES ASSUME NEW c \in calls PROVE FALSE
    OBVIOUS
  <2>1. c.kind = "beat" /\ c.age \in 0 .. Timeout
    BY <1>1 DEF SessionInv, TypeOK, OneAtATime
  <2>2. c.age = Interval
    BY <2>1, <1>1, IntervalIsLonger DEF SessionInv
  <2> QED
    BY <2>1, <2>2, IntervalIsLonger
<1>3. calls' = {Request("beat", sid)} /\ beats'[handle'] = Interval /\ DOMAIN beats' = DOMAIN beats
  BY <1>1, <1>2 DEF Beat
<1>4. sid \in Sid
  BY <1>1 DEF SessionInv, OneAtATime
<1> QED
  BY <1>1, <1>3, <1>4, IntervalIsLonger DEF SessionInv, TypeOK, OneAtATime, Beat, Request, server

(* A call that is answered was the only one.                               *)
LEMMA OnlyCall == ASSUME SessionInv, NEW c \in calls PROVE calls \ {c} = {}
BY DEF SessionInv, OneAtATime

(* The answer to isAlive(), or its loss.                                   *)
LEMMA ReplyInv ==
  ASSUME SessionInv, NEW c \in calls, NEW alive, Reply(c, alive), UNCHANGED server, lost' \in 0 .. 2
  PROVE  SessionInv'
<1> USE OnlyCall
<1>1. CASE c.kind = "beat" /\ alive
  BY <1>1 DEF Reply, SessionInv, TypeOK, OneAtATime, server
<1>2. CASE c.kind = "beat" /\ ~alive
  <2>1. BeatDead(c)
    BY <1>2 DEF Reply
  <2>2. Login(hash, {}) /\ handle' = 0 /\ DOMAIN beats' = {} /\ dialog # "form"
    BY <2>1, StopsAll DEF BeatDead, SessionInv, OneAtATime
  <2>3. hash \in issued \cup {None} /\ started' \in BOOLEAN
    BY <2>1 DEF BeatDead, SessionInv, TypeOK
  <2> QED
    BY <2>2, <2>3, LoginInv
<1>3. CASE c.kind = "check" /\ alive
  <2>1. handle = 0 /\ DOMAIN beats = {} /\ dialog # "form" /\ sid = hash /\ sid \in Sid
    BY <1>3 DEF SessionInv, OneAtATime
  <2>2. /\ StartHeartbeat /\ calls' = {} /\ UNCHANGED <<hash, sid, dialog>>
        /\ deferred' = "resolved" /\ started' \in BOOLEAN
    BY <1>3 DEF Reply, Resolve, SessionInv, TypeOK
  <2>3. handle' \in 1 .. 2 /\ DOMAIN beats' = {handle'} /\ beats'[handle'] = Interval
    BY <2>1, <2>2, StartsOne
  <2> QED
    BY <2>1, <2>2, <2>3, IntervalIsLonger DEF SessionInv, TypeOK, OneAtATime, server
<1>4. CASE c.kind = "check" /\ ~alive
  <2>1. Login(None, {}) /\ handle' = 0 /\ DOMAIN beats' = {} /\ dialog # "form"
    BY <1>4 DEF Reply, CheckDead, SessionInv, OneAtATime
  <2>2. started' \in BOOLEAN
    BY <1>4 DEF Reply, CheckDead, SessionInv, TypeOK
  <2> QED
    BY <2>1, <2>2, LoginInv
<1> QED
  BY <1>1, <1>2, <1>3, <1>4 DEF Reply

LEMMA ConfirmInv == ASSUME SessionInv, Confirm PROVE SessionInv'
BY IntervalIsLonger DEF SessionInv, TypeOK, OneAtATime, Confirm, Request, server

(* A session is granted while no heartbeat runs, and gets one.             *)
LEMMA GrantedInv == ASSUME SessionInv, NEW c \in calls, NEW s \in Sid, Granted(c, s) PROVE SessionInv'
<1>1. handle = 0 /\ DOMAIN beats = {} /\ calls' = {}
  BY OnlyCall DEF Granted, SessionInv, OneAtATime
<1>2. handle' \in 1 .. 2 /\ DOMAIN beats' = {handle'} /\ beats'[handle'] = Interval
  BY <1>1, StartsOne DEF Granted
<1> QED
  BY <1>1, <1>2, IntervalIsLonger DEF Granted, Resolve, SessionInv, TypeOK, OneAtATime

LEMMA RefusedInv == ASSUME SessionInv, NEW c \in calls, Refused(c) PROVE SessionInv'
<1>1. Login(hash, {}) /\ handle' = 0 /\ DOMAIN beats' = {} /\ dialog # "form"
  BY OnlyCall DEF Refused, SessionInv, OneAtATime
<1>2. hash \in issued \cup {None} /\ started' \in BOOLEAN /\ lost' \in 0 .. 2
  BY DEF Refused, SessionInv, TypeOK
<1> QED
  BY <1>1, <1>2, LoginInv DEF Refused

(* Whatever becomes of a call.                                             *)
LEMMA SettleInv == ASSUME SessionInv, NEW c \in calls, Settle(c) PROVE SessionInv'
<1>1. CASE AnswerAlive(c)
  BY <1>1, ReplyInv DEF AnswerAlive
<1>2. CASE LoseAlive(c)
  <2>1. lost' \in 0 .. 2
    BY <1>2 DEF LoseAlive, SessionInv, TypeOK
  <2> QED
    BY <1>2, <2>1, ReplyInv DEF LoseAlive
<1> QED
  BY <1>1, <1>2, GrantedInv, RefusedInv DEF Settle

LEMMA DismissInv == ASSUME SessionInv, Dismiss PROVE SessionInv'
BY DEF SessionInv, TypeOK, OneAtATime, Dismiss, server

LEMMA ReloadInv == ASSUME SessionInv, Reload PROVE SessionInv'
<1>1. DOMAIN beats' = {} /\ \A i \in DOMAIN beats' : i \in 1 .. 2 /\ beats'[i] \in 0 .. Interval
  BY DEF Reload
<1>2. /\ sid' = Null /\ calls' = {} /\ handle' = 0 /\ dialog' = "none"
      /\ deferred' = "none" /\ started' = FALSE /\ lost' = 0 /\ UNCHANGED <<valid, issued, hash>>
  BY DEF Reload, server
<1>3. TypeOK'
  <2>1. valid' \subseteq issued' /\ issued' \subseteq Sid /\ hash' \in issued' \cup {None}
    BY <1>2 DEF SessionInv, TypeOK
  <2>2. sid' \in issued' \cup {Null}
    BY <1>2
  <2>3. calls' \subseteq [kind : {"beat", "check", "login"}, sid : Sid \cup {Null}, age : 0 .. Timeout]
    BY <1>2
  <2>4. handle' \in 0 .. 2 /\ lost' \in 0 .. 2
    BY <1>2
  <2>5. /\ dialog' \in {"none", "form", "wait"}
        /\ deferred' \in {"none", "first", "again", "resolved"}
        /\ started' \in BOOLEAN
    BY <1>2
  <2> QED
    BY <1>1, <2>1, <2>2, <2>3, <2>4, <2>5, Zenon DEF TypeOK
<1>4. OneAtATime'
  BY <1>1, <1>2 DEF OneAtATime
<1> QED
  BY <1>1, <1>2, <1>3, <1>4 DEF SessionInv

LEMMA ExpireInv == ASSUME SessionInv, NEW s \in Sid, Expire(s) PROVE SessionInv'
BY DEF SessionInv, TypeOK, OneAtATime, Expire

(* Tick: a call and its interval grow older together.                      *)
LEMMA TickInv == ASSUME SessionInv, Tick PROVE SessionInv'
<1>1. \A d \in calls' : \E c \in calls :
        /\ d = [c EXCEPT !.age = @ + 1]
        /\ d.kind = c.kind /\ d.age = c.age + 1 /\ d.age \in 0 .. Timeout
        /\ d \in [kind : {"beat", "check", "login"}, sid : Sid \cup {Null}, age : 0 .. Timeout]
  BY IntervalIsLonger DEF Tick, SessionInv, TypeOK
<1>2. /\ DOMAIN beats' = DOMAIN beats
      /\ \A i \in DOMAIN beats : beats'[i] = beats[i] - 1 /\ beats'[i] \in 0 .. Interval
  BY IntervalIsLonger DEF Tick, SessionInv, TypeOK
<1>3. TypeOK'
  BY <1>1, <1>2 DEF Tick, SessionInv, TypeOK, server
<1>4. OneAtATime'
  BY <1>1, <1>2 DEF Tick, SessionInv, OneAtATime
<1>5. \A d \in calls' : d.kind = "beat" => beats'[handle'] + d.age = Interval
  BY <1>1, <1>2, IntervalIsLonger DEF Tick, SessionInv, TypeOK, OneAtATime
<1> QED
  BY <1>1, <1>3, <1>4, <1>5 DEF Tick, SessionInv

-----------------------------------------------------------------------------
(* Every step of the page, the server and the clock.                       *)
LEMMA SessionInvKept == SessionInv /\ [Next]_vars => SessionInv'
<1> SUFFICES ASSUME SessionInv, [Next]_vars PROVE SessionInv'
  OBVIOUS
<1>1. CASE UNCHANGED vars
  BY <1>1 DEF vars, SessionInv, TypeOK, OneAtATime
<1>2. CASE Next
  BY <1>2, ReadyInv, BeatInv, SettleInv, ConfirmInv, DismissInv, ReloadInv, ExpireInv, TickInv
  DEF Next
<1> QED
  BY <1>1, <1>2

LEMMA SessionInvAlways == Spec => []SessionInv
BY SessionStarts, SessionInvKept, PTL DEF Spec

(* Every reachable state is well typed: the id that a call carries was     *)
(* issued or is the null session, and no age or interval passes its end.   *)
THEOREM TypeCorrect == Spec => []TypeOK
<1>1. SessionInv => TypeOK
  BY DEF SessionInv
<1> QED
  BY <1>1, SessionInvAlways, PTL

(* One heartbeat, one login, one call at a time, whatever the order in     *)
(* which answers, losses, timers and reloads come (L.session, L.ui.login). *)
THEOREM Exclusive == Spec => []OneAtATime
<1>1. SessionInv => OneAtATime
  BY DEF SessionInv
<1> QED
  BY <1>1, SessionInvAlways, PTL

-----------------------------------------------------------------------------
(* Why a valid session is kept: calls ask about the session in the hash,   *)
(* the form is shown only without one, and a check of a session that is    *)
(* valid comes of a call that was lost, unless the page is being opened.   *)
Reasons ==
  /\ \A c \in calls : c.kind \in {"beat", "check"} => c.sid = hash
  /\ \A c \in calls : c.kind = "login" => hash = None
  /\ dialog = "form" => hash = None
  /\ \A c \in calls : c.kind = "check" /\ hash \in valid /\ deferred # "first" => lost >= 1

Ground == SessionInv /\ Reasons

LEMMA LoginReasons ==
  ASSUME Ground, NEW id, Login(id, {}), UNCHANGED server, dialog # "form",
         id \in valid /\ deferred' # "first" => lost' >= 1
  PROVE  Reasons'
<1>1. hash' = id
  BY DEF Login
<1>2. CASE id # None
  BY <1>1, <1>2 DEF Login, Request, Reasons, server
<1>3. CASE id = None
  BY <1>1, <1>3 DEF Login, Reasons
<1> QED
  BY <1>2, <1>3

(* The answer to isAlive(): a "no" for a session that is valid was none.   *)
LEMMA ReplyReasons ==
  ASSUME Ground, NEW c \in calls, NEW alive, Reply(c, alive), UNCHANGED server,
         alive \/ c.sid \notin valid \/ lost' >= 1
  PROVE  Reasons'
<1> USE OnlyCall
<1>1. CASE alive
  <2>1. calls' = {} /\ dialog' = dialog /\ hash' = hash
    BY <1>1 DEF Reply, Ground
  <2> QED
    BY <2>1 DEF Ground, Reasons
<1>2. CASE c.kind = "beat" /\ ~alive
  <2>1. Login(hash, {}) /\ dialog # "form" /\ c.sid = hash
    BY <1>2 DEF Reply, BeatDead, Ground, Reasons, SessionInv, OneAtATime
  <2> QED
    BY <1>2, <2>1, LoginReasons
<1>3. CASE c.kind = "check" /\ ~alive
  <2>1. Login(None, {}) /\ dialog # "form" /\ None \notin valid
    BY <1>3, SessionAssumption DEF Reply, CheckDead, Ground, SessionInv, TypeOK, OneAtATime
  <2> QED
    BY <2>1, LoginReasons
<1> QED
  BY <1>1, <1>2, <1>3 DEF Reply

LEMMA SettleReasons == ASSUME Ground, NEW c \in calls, Settle(c) PROVE Reasons'
<1>1. CASE AnswerAlive(c)
  BY <1>1, ReplyReasons DEF AnswerAlive
<1>2. CASE LoseAlive(c)
  <2>1. lost' >= 1
    BY <1>2 DEF LoseAlive, Ground, SessionInv, TypeOK
  <2> QED
    BY <1>2, <2>1, ReplyReasons DEF LoseAlive
<1>3. ASSUME NEW s \in Sid, Granted(c, s) PROVE Reasons'
  BY <1>3, OnlyCall DEF Granted, Ground, Reasons
<1>4. CASE Refused(c)
  <2>1. Login(hash, {}) /\ dialog # "form" /\ hash = None /\ None \notin valid
    BY <1>4, OnlyCall, SessionAssumption, ZenonT(60) DEF Refused, Ground, Reasons, SessionInv, TypeOK, OneAtATime
  <2> QED
    BY <1>4, <2>1, LoginReasons DEF Refused
<1> QED
  BY <1>1, <1>2, <1>3, <1>4 DEF Settle

LEMMA NextReasons == Ground /\ [Next]_vars => Ground'
<1> SUFFICES ASSUME Ground, [Next]_vars PROVE Reasons'
  BY SessionInvKept DEF Ground
<1>1. CASE Ready
  BY <1>1, LoginReasons DEF Ready, Login, Ground, SessionInv
<1>2. ASSUME NEW i \in DOMAIN beats, Beat(i) PROVE Reasons'
  <2>1. sid = hash /\ dialog # "form"
    BY <1>2 DEF Beat, Ground, SessionInv, OneAtATime
  <2> QED
    BY <1>2, <2>1 DEF Beat, Request, Ground, Reasons, server
<1>3. CASE \E c \in calls : Settle(c)
  BY <1>3, SettleReasons
<1>4. CASE Confirm
  BY <1>4 DEF Confirm, Request, Ground, Reasons, SessionInv, OneAtATime, server
<1>5. CASE Dismiss
  BY <1>5 DEF Dismiss, Ground, Reasons, server
<1>6. CASE Reload
  <2>1. calls' = {} /\ dialog' = "none"
    BY <1>6 DEF Reload
  <2> QED
    BY <2>1 DEF Reasons
<1>7. ASSUME NEW s \in Sid, Expire(s) PROVE Reasons'
  BY <1>7 DEF Expire, Ground, Reasons
<1>8. CASE Tick
  <2>1. \A d \in calls' : \E c \in calls : d.kind = c.kind /\ d.sid = c.sid
    BY <1>8 DEF Tick, Ground, SessionInv, TypeOK
  <2> QED
    BY <1>8, <2>1 DEF Tick, Ground, Reasons, server
<1>9. CASE UNCHANGED vars
  BY <1>9 DEF vars, Ground, Reasons
<1> QED
  BY <1>1, <1>2, <1>3, <1>4, <1>5, <1>6, <1>7, <1>8, <1>9 DEF Next

LEMMA InitReasons == Init => Ground
<1> SUFFICES ASSUME Init PROVE Reasons
  BY SessionStarts DEF Ground
<1>1. calls = {} /\ dialog = "none"
  BY DEF Init
<1> QED
  BY <1>1 DEF Reasons

-----------------------------------------------------------------------------
(* The one step that takes a session out of the hash is a check without an *)
(* answer "yes".                                                           *)
LEMMA StepKeeps ==
  ASSUME Ground, [Next]_vars, hash \in valid, hash' = None
  PROVE  lost' >= (IF deferred = "first" THEN 1 ELSE 2)
<1>1. hash # None /\ lost \in 0 .. 2
  BY SessionAssumption DEF Ground, SessionInv, TypeOK
<1>2. PICK c \in calls : Settle(c)
  BY <1>1 DEF Next, vars, Ready, Login, Beat, Confirm, Dismiss, Reload, Expire, Tick
<1>3. c.sid = hash /\ c.kind # "login"
  BY <1>1 DEF Ground, Reasons, SessionInv, TypeOK
<1>4. ~AnswerAlive(c)
  BY <1>1, <1>3 DEF AnswerAlive, Reply
<1>5. LoseAlive(c)
  BY <1>2, <1>3, <1>4 DEF Settle, Granted, Refused
<1>6. c.kind = "check"
  BY <1>1, <1>5 DEF LoseAlive, Reply, BeatDead, Login
<1>7. deferred # "first" => lost >= 1
  BY <1>6 DEF Ground, Reasons
<1> QED
  BY <1>1, <1>5, <1>7 DEF LoseAlive

(* A session the server knows is given up by a running page only after two *)
(* lost calls in a row, and by one that is being opened after one          *)
(* (isAlive's declared default, the second look of login()).               *)
THEOREM SessionKept == Spec => ValidSessionKept
<1>1. Ground /\ [Next]_vars =>
        [(hash \in valid /\ hash' = None) => lost' >= (IF deferred = "first" THEN 1 ELSE 2)]_vars
  BY StepKeeps
<1> QED
  BY <1>1, InitReasons, NextReasons, PTL DEF Spec, ValidSessionKept

-----------------------------------------------------------------------------
(* ViewTimers, for any menu and any number of renderings: type             *)
(* correctness, and that finish() leaves no more timers behind than there  *)
(* were fetches under way when views were left.                            *)
(*                                                                         *)
(* The argument counts.  A call of renderView() begins one thing, that is  *)
(* a request for a script, then a rendering, and then a loop; all that is  *)
(* under way besides was abandoned, or is a timer.  The timers finish()    *)
(* does not clear are those, so that each call settles the account of the  *)
(* one before.                                                             *)

-----------------------------------------------------------------------------
(* Sums.  The order in which SumFunction goes through a finite set does    *)
(* not matter.                                                             *)
IsSum(it, f, P) ==
  it = [s \in P |-> IF s = {} THEN 0
                    ELSE LET x == CHOOSE y \in s : TRUE IN f[x] + it[s \ {x}]]

SumOf(f, P) == CHOOSE it : IsSum(it, f, P)

UpTo(D, k) == {s \in SUBSET D : Cardinality(s) <= k}

Adds(it, f, D) ==
  /\ it[{}] = 0
  /\ \A s \in SUBSET D : /\ it[s] \in Nat
                         /\ \A x \in s : it[s] = f[x] + it[s \ {x}]

LEMMA SumIsFolded ==
  ASSUME NEW f
  PROVE  SumFunction(f) = SumOf(f, SUBSET DOMAIN f)[DOMAIN f]
BY DEF SumFunction, SumFunctionOnSet, FoldFunctionOnSet, MapThenFoldSet, SumOf, IsSum

LEMMA UpToIsFinite ==
  ASSUME NEW D, IsFiniteSet(D), NEW k \in Nat, NEW s \in UpTo(D, k)
  PROVE  IsFiniteSet(s) /\ s \subseteq D /\ Cardinality(s) \in Nat /\ Cardinality(s) <= k
<1>1. s \in SUBSET D /\ Cardinality(s) <= k
  BY DEF UpTo
<1>2. IsFiniteSet(s)
  BY <1>1, FS_Subset
<1> QED
  BY <1>1, <1>2, FS_CardinalityType

LEMMA Smaller ==
  ASSUME NEW D, IsFiniteSet(D), NEW k \in Nat, NEW s \in UpTo(D, k + 1), NEW x \in s
  PROVE  s \ {x} \in UpTo(D, k)
<1>1. IsFiniteSet(s) /\ s \subseteq D /\ Cardinality(s) \in Nat /\ Cardinality(s) <= k + 1
  BY UpToIsFinite
<1>2. Cardinality(s \ {x}) = Cardinality(s) - 1
  BY <1>1, FS_RemoveElement
<1> QED
  BY <1>1, <1>2 DEF UpTo

LEMMA WholeIsUpTo ==
  ASSUME NEW D, IsFiniteSet(D)
  PROVE  Cardinality(D) \in Nat /\ UpTo(D, Cardinality(D)) = SUBSET D
<1>1. ASSUME NEW s \in SUBSET D PROVE Cardinality(s) <= Cardinality(D)
  BY FS_Subset
<1> QED
  BY <1>1, FS_CardinalityType DEF UpTo

LEMMA SumExists ==
  ASSUME NEW f, NEW D, IsFiniteSet(D), NEW m \in Nat
  PROVE  \E it : IsSum(it, f, UpTo(D, m))
<1> DEFINE N == {k \in Nat : \E it : IsSum(it, f, UpTo(D, k))}
<1>1. 0 \in N
  <2> DEFINE it == [s \in UpTo(D, 0) |-> 0]
  <2>1. ASSUME NEW s \in UpTo(D, 0) PROVE s = {}
    <3>1. IsFiniteSet(s) /\ Cardinality(s) = 0
      BY UpToIsFinite
    <3> QED
      BY <3>1, FS_EmptySet
  <2>2. IsSum(it, f, UpTo(D, 0))
    BY <2>1 DEF IsSum
  <2> HIDE DEF it
  <2> QED
    BY <2>2
<1>2. ASSUME NEW k \in Nat, k \in N PROVE k + 1 \in N
  <2>1. PICK old : IsSum(old, f, UpTo(D, k))
    BY <1>2
  <2> DEFINE one(s) == CHOOSE y \in s : TRUE
             new == [s \in UpTo(D, k + 1) |->
                       IF s = {} THEN 0 ELSE f[one(s)] + old[s \ {one(s)}]]
  <2>2. ASSUME NEW s \in UpTo(D, k) PROVE s \in UpTo(D, k + 1) /\ new[s] = old[s]
    <3>1. s \in UpTo(D, k + 1)
      <4>1. Cardinality(s) \in Nat /\ Cardinality(s) <= k /\ s \subseteq D
        BY UpToIsFinite
      <4> QED
        BY <4>1 DEF UpTo
    <3>2. new[s] = IF s = {} THEN 0 ELSE f[one(s)] + old[s \ {one(s)}]
      BY <3>1
    <3>3. old[s] = IF s = {} THEN 0 ELSE f[one(s)] + old[s \ {one(s)}]
      BY <2>1 DEF IsSum
    <3> QED
      BY <3>1, <3>2, <3>3
  <2>3. ASSUME NEW s \in UpTo(D, k + 1)
        PROVE  new[s] = IF s = {} THEN 0 ELSE f[one(s)] + new[s \ {one(s)}]
    <3>1. CASE s = {}
      BY <3>1
    <3>2. CASE s # {}
      <4>1. s \ {one(s)} \in UpTo(D, k)
        BY <3>2, Smaller
      <4>2. new[s \ {one(s)}] = old[s \ {one(s)}]
        BY <4>1, <2>2
      <4>3. new[s] = f[one(s)] + old[s \ {one(s)}]
        BY <3>2
      <4> QED
        BY <3>2, <4>2, <4>3
    <3> QED
      BY <3>1, <3>2
  <2>4. new = [s \in UpTo(D, k + 1) |-> new[s]]
    OBVIOUS
  <2> HIDE DEF new
  <2>5. IsSum(new, f, UpTo(D, k + 1))
    BY <2>3, <2>4 DEF IsSum
  <2> QED
    BY <2>5
<1> HIDE DEF N
<1>3. m \in N
  BY <1>1, <1>2, Induction
<1> QED
  BY <1>3 DEF N

LEMMA AddsAll ==
  ASSUME NEW D, IsFiniteSet(D), NEW f \in [D -> Nat], NEW it, IsSum(it, f, SUBSET D)
  PROVE  Adds(it, f, D)
<1> DEFINE Fine(s) == it[s] \in Nat /\ \A x \in s : it[s] = f[x] + it[s \ {x}]
           N == {k \in Nat : \A s \in UpTo(D, k) : Fine(s)}
<1>0. it[{}] = 0
  BY DEF IsSum
<1>1. 0 \in N
  <2>1. ASSUME NEW s \in UpTo(D, 0) PROVE s = {}
    <3>1. IsFiniteSet(s) /\ Cardinality(s) = 0
      BY UpToIsFinite
    <3> QED
      BY <3>1, FS_EmptySet
  <2>2. Fine({})
    BY <1>0
  <2> HIDE DEF Fine
  <2>3. \A s \in UpTo(D, 0) : Fine(s)
    BY <2>1, <2>2
  <2> QED
    BY <2>3
<1>2. ASSUME NEW k \in Nat, k \in N PROVE k + 1 \in N
  <2>1. ASSUME NEW s \in UpTo(D, k + 1) PROVE Fine(s)
    <3>1. CASE s = {}
      BY <1>0, <3>1
    <3>2. CASE s # {}
      <4>0. IsFiniteSet(s) /\ s \subseteq D
        BY UpToIsFinite
      <4> DEFINE y == CHOOSE z \in s : TRUE
      <4>1. y \in s
        BY <3>2
      <4>2. it[s] = f[y] + it[s \ {y}]
        BY <3>2, <4>0 DEF IsSum
      <4> HIDE DEF y
      <4>3. \A x \in s : Fine(s \ {x})
        BY <1>2, Smaller
      <4>4. f[y] \in Nat /\ it[s \ {y}] \in Nat
        BY <4>0, <4>1, <4>3
      <4>5. ASSUME NEW x \in s, x # y PROVE it[s] = f[x] + it[s \ {x}]
        <5>1. it[s \ {y}] = f[x] + it[(s \ {y}) \ {x}]
          BY <4>1, <4>3, <4>5
        <5>2. it[s \ {x}] = f[y] + it[(s \ {x}) \ {y}]
          BY <4>1, <4>3, <4>5
        <5>3. (s \ {y}) \ {x} = (s \ {x}) \ {y}
          OBVIOUS
        <5>4. PICK n : n = it[(s \ {x}) \ {y}]
          OBVIOUS
        <5>5. n \in Nat
          <6>1. (s \ {x}) \ {y} \in UpTo(D, k)
            <7>1. s \ {x} \in UpTo(D, k) /\ IsFiniteSet(s \ {x}) /\ y \in s \ {x}
              BY <4>0, <4>1, <4>5, Smaller, FS_Subset
            <7>2. Cardinality((s \ {x}) \ {y}) = Cardinality(s \ {x}) - 1
              BY <7>1, FS_RemoveElement
            <7>3. Cardinality(s \ {x}) \in Nat /\ Cardinality(s \ {x}) <= k
              BY <7>1, UpToIsFinite
            <7> QED
              BY <4>0, <7>2, <7>3 DEF UpTo
          <6> QED
            BY <1>2, <5>4, <6>1
        <5>6. f[x] \in Nat
          BY <4>0
        <5>7. it[s] = f[y] + (f[x] + n) /\ it[s \ {x}] = f[y] + n
          BY <4>2, <5>1, <5>2, <5>3, <5>4
        <5> QED
          BY <4>4, <5>5, <5>6, <5>7
      <4>6. it[s] \in Nat
        BY <4>2, <4>4
      <4>7. ASSUME NEW x \in s PROVE it[s] = f[x] + it[s \ {x}]
        BY <4>2, <4>5
      <4> QED
        BY <4>6, <4>7
    <3> QED
      BY <3>1, <3>2
  <2> QED
    BY <2>1
<1>3. Cardinality(D) \in N
  <2> HIDE DEF N
  <2> QED
    BY <1>1, <1>2, Induction, WholeIsUpTo
<1> QED
  BY <1>0, <1>3, WholeIsUpTo DEF Adds

LEMMA SumAdds ==
  ASSUME NEW D, IsFiniteSet(D), NEW f \in [D -> Nat]
  PROVE  \E it : Adds(it, f, D) /\ SumFunction(f) = it[D]
<1>1. \E it : IsSum(it, f, SUBSET D)
  <2>1. Cardinality(D) \in Nat /\ UpTo(D, Cardinality(D)) = SUBSET D
    BY WholeIsUpTo
  <2>2. \E it : IsSum(it, f, UpTo(D, Cardinality(D)))
    BY <2>1, SumExists
  <2> QED
    BY <2>1, <2>2
<1>2. IsSum(SumOf(f, SUBSET D), f, SUBSET D)
  BY <1>1 DEF SumOf
<1>3. DOMAIN f = D
  OBVIOUS
<1> QED
  BY <1>2, <1>3, AddsAll, SumIsFolded

LEMMA SumIsNatural ==
  ASSUME NEW D, IsFiniteSet(D), NEW f \in [D -> Nat]
  PROVE  SumFunction(f) \in Nat
<1>1. PICK it : Adds(it, f, D) /\ SumFunction(f) = it[D]
  BY SumAdds
<1>2. D \in SUBSET D
  OBVIOUS
<1> QED
  BY <1>1, <1>2 DEF Adds

(* A sum changes as its only changed summand does.                         *)
LEMMA SumChanges ==
  ASSUME NEW D, IsFiniteSet(D), NEW f \in [D -> Nat], NEW g \in [D -> Nat],
         NEW x \in D, \A y \in D \ {x} : f[y] = g[y]
  PROVE  SumFunction(f) + g[x] = SumFunction(g) + f[x]
<1>1. PICK it : Adds(it, f, D) /\ SumFunction(f) = it[D]
  BY SumAdds
<1>2. PICK jt : Adds(jt, g, D) /\ SumFunction(g) = jt[D]
  BY SumAdds
<1> DEFINE E == D \ {x}
           N == {k \in Nat : \A s \in UpTo(E, k) : it[s] = jt[s]}
<1>3. IsFiniteSet(E) /\ E \subseteq D
  BY FS_Subset
<1>4. 0 \in N
  <2>1. ASSUME NEW s \in UpTo(E, 0) PROVE s = {}
    <3>1. IsFiniteSet(s) /\ Cardinality(s) = 0
      BY <1>3, UpToIsFinite
    <3> QED
      BY <3>1, FS_EmptySet
  <2> QED
    BY <1>1, <1>2, <2>1 DEF Adds
<1>5. ASSUME NEW k \in Nat, k \in N PROVE k + 1 \in N
  <2>1. ASSUME NEW s \in UpTo(E, k + 1), s # {} PROVE it[s] = jt[s]
    <3>1. s \subseteq E
      BY <1>3, UpToIsFinite
    <3>2. PICK y \in s : TRUE
      BY <2>1
    <3>3. it[s] = f[y] + it[s \ {y}] /\ jt[s] = g[y] + jt[s \ {y}]
      BY <1>1, <1>2, <3>1 DEF Adds
    <3>4. it[s \ {y}] = jt[s \ {y}]
      BY <1>3, <1>5, Smaller
    <3>5. f[y] = g[y]
      BY <3>1
    <3> QED
      BY <3>3, <3>4, <3>5
  <2>2. it[{}] = jt[{}]
    BY <1>1, <1>2 DEF Adds
  <2>3. \A s \in UpTo(E, k + 1) : it[s] = jt[s]
    BY <2>1, <2>2, Zenon
  <2> HIDE DEF E
  <2> QED
    BY <2>3
<1>6. Cardinality(E) \in N
  <2> HIDE DEF N
  <2> QED
    BY <1>3, <1>4, <1>5, Induction, WholeIsUpTo
<1>7. it[E] = jt[E]
  <2>1. E \in UpTo(E, Cardinality(E))
    <3> HIDE DEF E
    <3>1. UpTo(E, Cardinality(E)) = SUBSET E
      BY <1>3, WholeIsUpTo
    <3> QED
      BY <3>1
  <2> HIDE DEF E
  <2> QED
    BY <1>6, <2>1
<1>8. it[D] = f[x] + it[E] /\ jt[D] = g[x] + jt[E] /\ it[E] \in Nat
  BY <1>1, <1>2, <1>3 DEF Adds
<1>9. f[x] \in Nat /\ g[x] \in Nat
  OBVIOUS
<1> HIDE DEF E, N
<1>10. PICK m : m = it[E]
  OBVIOUS
<1>11. it[D] = f[x] + m /\ jt[D] = g[x] + m /\ m \in Nat
  BY <1>7, <1>8, <1>10
<1> QED
  BY <1>1, <1>2, <1>9, <1>11

LEMMA SumOfZeros ==
  ASSUME NEW D, IsFiniteSet(D), NEW f \in [D -> Nat], \A x \in D : f[x] = 0
  PROVE  SumFunction(f) = 0
<1>1. PICK it : Adds(it, f, D) /\ SumFunction(f) = it[D]
  BY SumAdds
<1> DEFINE N == {k \in Nat : \A s \in UpTo(D, k) : it[s] = 0}
<1>2. 0 \in N
  <2>1. ASSUME NEW s \in UpTo(D, 0) PROVE s = {}
    <3>1. IsFiniteSet(s) /\ Cardinality(s) = 0
      BY UpToIsFinite
    <3> QED
      BY <3>1, FS_EmptySet
  <2> QED
    BY <1>1, <2>1 DEF Adds
<1>3. ASSUME NEW k \in Nat, k \in N PROVE k + 1 \in N
  <2>1. ASSUME NEW s \in UpTo(D, k + 1), s # {} PROVE it[s] = 0
    <3>1. s \subseteq D
      BY UpToIsFinite
    <3>2. PICK y \in s : TRUE
      BY <2>1
    <3>3. it[s] = f[y] + it[s \ {y}]
      BY <1>1, <3>1 DEF Adds
    <3>4. it[s \ {y}] = 0
      BY <1>3, Smaller
    <3> QED
      BY <3>1, <3>3, <3>4
  <2>2. it[{}] = 0
    BY <1>1 DEF Adds
  <2>3. \A s \in UpTo(D, k + 1) : it[s] = 0
    BY <2>1, <2>2, Zenon
  <2> QED
    BY <2>3
<1>4. Cardinality(D) \in N
  <2> HIDE DEF N
  <2> QED
    BY <1>2, <1>3, Induction, WholeIsUpTo
<1> QED
  BY <1>1, <1>4, WholeIsUpTo

LEMMA SummandIsBelow ==
  ASSUME NEW D, IsFiniteSet(D), NEW f \in [D -> Nat], NEW x \in D
  PROVE  f[x] <= SumFunction(f)
<1>1. PICK it : Adds(it, f, D) /\ SumFunction(f) = it[D]
  BY SumAdds
<1>2. it[D] = f[x] + it[D \ {x}] /\ it[D \ {x}] \in Nat
  BY <1>1 DEF Adds
<1> QED
  BY <1>1, <1>2

-----------------------------------------------------------------------------
(* The inductive invariant.  First what the variables hold.                *)
Positions ==
  /\ address \in View \cup {Unnamed}
  /\ events \in 0 .. MaxEntries
  /\ entries \in 0 .. MaxEntries
  /\ entries > 0 => address \in View
  /\ entries = 0 => events = 0
  /\ abandoned \in Nat
  /\ stalled \subseteq Instance

Instances ==
  /\ loads \in [View -> Nat]
  /\ made \in Seq(View)
  /\ views \in [View -> 0 .. Len(made)]
  /\ \A v \in View : views[v] # 0 => made[views[v]] = v
  /\ shown \in 0 .. Len(made)
  /\ renders \in [Instance -> Nat]
  /\ \A i \in Instance : renders[i] > 0 => i <= Len(made)

Loops ==
  /\ begun \in Nat
  /\ DOMAIN timeouts \subseteq 1 .. Len(made)
  /\ \A i \in DOMAIN timeouts : timeouts[i] \in Seq(0 .. begun)
  /\ IsFiniteSet(repeats)
  /\ repeats \subseteq [id : 1 .. begun, inst : Instance, timer : BOOLEAN, index : Nat]
  /\ \A c, d \in repeats : c.id = d.id => c = d

(* Every instance, every rendering and every loop comes of one call of     *)
(* renderView().                                                           *)
Budget ==
  /\ Len(made) + SumFunction(loads) <= entries
  /\ begun + SumFunction(loads) + SumFunction(renders) <= entries

(* What is under way, and the one thing of it that the last call began or  *)
(* that the view on display goes on with.                                  *)
Busy == SumFunction(loads) + SumFunction(renders) + Cardinality(repeats)

Kept(c) == /\ c.inst = shown
           /\ shown \in DOMAIN timeouts
           /\ c.timer => c.id \in Range(timeouts[shown])

Current ==
  \/ \E v \in View : loads[v] > 0
  \/ shown \in Instance /\ renders[shown] > 0
  \/ \E c \in repeats : Kept(c)

Account == Busy <= abandoned + 1 /\ (Busy <= abandoned \/ Current)

ViewInv == Positions /\ Instances /\ Loops /\ Budget /\ Account

-----------------------------------------------------------------------------
LEMMA CountedUp ==
  ASSUME NEW D, IsFiniteSet(D), NEW f \in [D -> Nat], NEW x \in D
  PROVE  /\ [f EXCEPT ![x] = @ + 1] \in [D -> Nat]
         /\ SumFunction([f EXCEPT ![x] = @ + 1]) = SumFunction(f) + 1
<1> DEFINE h == [f EXCEPT ![x] = @ + 1]
<1>1. PICK g : g = h
  OBVIOUS
<1>2. g \in [D -> Nat] /\ g[x] = f[x] + 1 /\ \A y \in D \ {x} : f[y] = g[y]
  BY <1>1
<1>3. SumFunction(f) + g[x] = SumFunction(g) + f[x]
  BY <1>2, SumChanges
<1>4. SumFunction(f) \in Nat /\ SumFunction(g) \in Nat /\ f[x] \in Nat
  BY <1>2, SumIsNatural
<1>5. SumFunction(g) = SumFunction(f) + 1
  BY <1>2, <1>3, <1>4
<1> QED
  BY <1>1, <1>2, <1>5

LEMMA CountedDown ==
  ASSUME NEW D, IsFiniteSet(D), NEW f \in [D -> Nat], NEW x \in D, f[x] > 0
  PROVE  /\ [f EXCEPT ![x] = @ - 1] \in [D -> Nat]
         /\ SumFunction([f EXCEPT ![x] = @ - 1]) = SumFunction(f) - 1
<1> DEFINE h == [f EXCEPT ![x] = @ - 1]
<1>1. PICK g : g = h
  OBVIOUS
<1>2. g \in [D -> Nat] /\ g[x] = f[x] - 1 /\ \A y \in D \ {x} : f[y] = g[y]
  BY <1>1
<1>3. SumFunction(f) + g[x] = SumFunction(g) + f[x]
  BY <1>2, SumChanges
<1>4. SumFunction(f) \in Nat /\ SumFunction(g) \in Nat /\ f[x] \in Nat
  BY <1>2, SumIsNatural
<1>5. SumFunction(g) = SumFunction(f) - 1
  BY <1>2, <1>3, <1>4
<1> QED
  BY <1>1, <1>2, <1>5

LEMMA InstanceIsFinite == IsFiniteSet(Instance) /\ IsFiniteSet(View)
BY ViewAssumption, FS_Interval DEF Instance

(* What is under way is a number of things.                                *)
LEMMA Numbers ==
  ASSUME Instances, Loops
  PROVE  /\ SumFunction(loads) \in Nat /\ SumFunction(renders) \in Nat
         /\ Cardinality(repeats) \in Nat /\ Busy \in Nat
<1>1. loads \in [View -> Nat] /\ renders \in [Instance -> Nat] /\ IsFiniteSet(repeats)
  BY DEF Instances, Loops
<1>2. SumFunction(loads) \in Nat /\ SumFunction(renders) \in Nat
  BY <1>1, InstanceIsFinite, SumIsNatural
<1>3. Cardinality(repeats) \in Nat
  BY <1>1, FS_CardinalityType
<1> QED
  BY <1>2, <1>3 DEF Busy

(* A timer that finish() of the shown view would clear, or the view itself *)
(* while it is being made or rendered, is not among those left behind.     *)
LEMMA StraysAreFew ==
  ASSUME ViewInv
  PROVE  IsFiniteSet(Strays) /\ Cardinality(Strays) \in Nat /\ Cardinality(Strays) <= abandoned
<1>1. Positions /\ Instances /\ Loops /\ Account
  BY DEF ViewInv
<1>2. IsFiniteSet(repeats) /\ abandoned \in Nat
  BY <1>1 DEF Positions, Loops
<1>3. Strays \subseteq repeats
  BY DEF Strays
<1>4. IsFiniteSet(Strays) /\ Cardinality(Strays) \in Nat /\ Cardinality(Strays) <= Cardinality(repeats)
  BY <1>2, <1>3, FS_Subset, FS_CardinalityType
<1>5. /\ SumFunction(loads) \in Nat /\ SumFunction(renders) \in Nat
      /\ Cardinality(repeats) \in Nat /\ Busy \in Nat
  BY <1>1, Numbers
<1>6. CASE Busy <= abandoned
  BY <1>2, <1>4, <1>5, <1>6 DEF Busy
<1>7. CASE Busy <= abandoned + 1 /\ Current
  <2>1. CASE \E v \in View : loads[v] > 0
    <3>1. SumFunction(loads) > 0
      <4>1. PICK v \in View : loads[v] > 0
        BY <2>1
      <4>2. loads \in [View -> Nat]
        BY <1>1 DEF Instances
      <4>3. loads[v] <= SumFunction(loads)
        BY <4>2, InstanceIsFinite, SummandIsBelow
      <4>4. loads[v] \in Nat
        BY <4>2
      <4> QED
        BY <1>5, <4>1, <4>3, <4>4
    <3> QED
      BY <1>2, <1>4, <1>5, <1>7, <3>1 DEF Busy
  <2>2. CASE shown \in Instance /\ renders[shown] > 0
    <3>1. SumFunction(renders) > 0
      <4>2. renders \in [Instance -> Nat]
        BY <1>1 DEF Instances
      <4>3. renders[shown] <= SumFunction(renders)
        BY <2>2, <4>2, InstanceIsFinite, SummandIsBelow
      <4>4. renders[shown] \in Nat
        BY <2>2, <4>2
      <4> QED
        BY <1>5, <2>2, <4>3, <4>4
    <3> QED
      BY <1>2, <1>4, <1>5, <1>7, <3>1 DEF Busy
  <2>3. CASE \E c \in repeats : Kept(c)
    <3>1. PICK c \in repeats : Kept(c)
      BY <2>3
    <3>2. c \notin Strays
      BY <3>1 DEF Strays, Kept
    <3>3. Strays \subseteq repeats \ {c}
      BY <1>3, <3>2
    <3>4. IsFiniteSet(repeats \ {c}) /\ Cardinality(repeats \ {c}) = Cardinality(repeats) - 1
      BY <1>2, FS_RemoveElement
    <3>5. Cardinality(Strays) <= Cardinality(repeats) - 1
      BY <3>3, <3>4, FS_Subset
    <3> QED
      BY <1>2, <1>4, <1>5, <1>7, <3>5 DEF Busy
  <2> QED
    BY <1>7, <2>1, <2>2, <2>3 DEF Current
<1> QED
  BY <1>1, <1>6, <1>7 DEF Account

(* Loops added to a finite set of them, and loops exchanged for others.    *)
LEMMA Exchanged ==
  ASSUME NEW R, IsFiniteSet(R), NEW c \in R, NEW d
  PROVE  /\ IsFiniteSet((R \ {c}) \cup {d})
         /\ Cardinality((R \ {c}) \cup {d}) <= Cardinality(R)
<1>1. IsFiniteSet(R \ {c}) /\ Cardinality(R \ {c}) = Cardinality(R) - 1 /\ Cardinality(R) \in Nat
  BY FS_RemoveElement, FS_CardinalityType
<1>2. /\ IsFiniteSet((R \ {c}) \cup {d})
      /\ \/ Cardinality((R \ {c}) \cup {d}) = Cardinality(R \ {c})
         \/ Cardinality((R \ {c}) \cup {d}) = Cardinality(R \ {c}) + 1
  BY <1>1, FS_AddElement
<1> QED
  BY <1>1, <1>2

LEMMA KnownInstance ==
  ASSUME ViewInv, NEW v \in View, views[v] # 0
  PROVE  views[v] \in Instance
<1>1. Positions /\ Instances /\ Loops /\ Budget
  BY DEF ViewInv
<1>2. SumFunction(loads) \in Nat
  BY <1>1, Numbers
<1>3. views[v] \in 0 .. Len(made) /\ Len(made) \in Nat
  BY <1>1 DEF Instances
<1>4. Len(made) <= MaxEntries
  BY <1>1, <1>2, <1>3, ViewAssumption DEF Budget, Positions
<1> QED
  BY <1>3, <1>4, ViewAssumption DEF Instance

(* renderView() settles the account of the call before it: what was under  *)
(* way is abandoned, and the timers that stay are those left behind.       *)
LEMMA EnterSettles ==
  ASSUME ViewInv, Instances', Loops', NEW v \in View, Enter(v)
  PROVE  Account' /\ abandoned' \in Nat
<1> DEFINE Waiting == {c \in repeats : ~c.timer}
<1>1. Positions /\ Instances /\ Loops
  BY DEF ViewInv
<1>2. /\ SumFunction(loads) \in Nat /\ SumFunction(renders) \in Nat
      /\ SumFunction(loads') \in Nat /\ SumFunction(renders') \in Nat
      /\ Cardinality(repeats') \in Nat
  <2>1. loads' \in [View -> Nat] /\ renders' \in [Instance -> Nat] /\ IsFiniteSet(repeats')
    BY DEF Instances, Loops
  <2>2. SumFunction(loads') \in Nat /\ SumFunction(renders') \in Nat
    BY <2>1, InstanceIsFinite, SumIsNatural
  <2> QED
    BY <1>1, <2>1, <2>2, Numbers, FS_CardinalityType
<1>3. IsFiniteSet(repeats) /\ abandoned \in Nat
  BY <1>1 DEF Positions, Loops
<1>4. IsFiniteSet(Waiting) /\ Cardinality(Waiting) \in Nat
  BY <1>3, FS_Subset, FS_CardinalityType
<1>5. abandoned' = abandoned + SumFunction(loads) + SumFunction(renders) + Cardinality(Waiting)
  BY DEF Enter
<1>6. IsFiniteSet(Strays) /\ Cardinality(Strays) \in Nat /\ Cardinality(Strays) <= abandoned
  BY StraysAreFew
<1>7. repeats' \subseteq Waiting \cup Strays
  BY DEF Enter, Finish, Strays
<1>8. Cardinality(repeats') <= Cardinality(Waiting) + Cardinality(Strays)
  <2>1. /\ IsFiniteSet(Waiting \cup Strays)
        /\ Cardinality(Waiting \cup Strays)
             = Cardinality(Waiting) + Cardinality(Strays) - Cardinality(Waiting \cap Strays)
    BY <1>4, <1>6, FS_Union
  <2>2. Cardinality(Waiting \cap Strays) \in Nat
    BY <1>4, FS_Intersection, FS_CardinalityType
  <2>3. Cardinality(repeats') <= Cardinality(Waiting \cup Strays)
    BY <1>7, <2>1, FS_Subset
  <2>4. Cardinality(Waiting \cup Strays) \in Nat
    BY <2>1, FS_CardinalityType
  <2> HIDE DEF Waiting
  <2> QED
    BY <1>2, <1>4, <1>6, <2>1, <2>2, <2>3, <2>4
<1>9. SumFunction(loads') + SumFunction(renders') = SumFunction(loads) + SumFunction(renders) + 1
      /\ Current'
  <2>0. loads \in [View -> Nat] /\ renders \in [Instance -> Nat]
    BY <1>1 DEF Instances
  <2>1. CASE views[v] # 0
    <3>1. /\ shown' = views[v] /\ UNCHANGED loads
          /\ renders' = [renders EXCEPT ![views[v]] = @ + 1]
      BY <2>1 DEF Enter
    <3>2. views[v] \in Instance
      BY <2>1, KnownInstance
    <3>3. SumFunction(renders') = SumFunction(renders) + 1
      BY <2>0, <3>1, <3>2, InstanceIsFinite, CountedUp
    <3>4. shown' \in Instance /\ renders'[shown'] > 0
      BY <2>0, <3>1, <3>2
    <3> QED
      BY <1>2, <3>1, <3>3, <3>4 DEF Current
  <2>2. CASE views[v] = 0
    <3>1. loads' = [loads EXCEPT ![v] = @ + 1] /\ UNCHANGED <<shown, renders>>
      BY <2>2 DEF Enter
    <3>2. SumFunction(loads') = SumFunction(loads) + 1
      BY <2>0, <3>1, InstanceIsFinite, CountedUp
    <3>3. loads'[v] > 0
      BY <2>0, <3>1
    <3> QED
      BY <1>2, <3>1, <3>2, <3>3 DEF Current
  <2> QED
    BY <2>1, <2>2
<1> HIDE DEF Waiting
<1>10. Busy' = SumFunction(loads') + SumFunction(renders') + Cardinality(repeats')
  BY DEF Busy
<1>11. Busy' <= abandoned' + 1
  BY <1>2, <1>3, <1>4, <1>5, <1>6, <1>8, <1>9, <1>10
<1>12. abandoned' \in Nat
  BY <1>2, <1>3, <1>4, <1>5
<1> QED
  BY <1>9, <1>11, <1>12 DEF Account

LEMMA EnterInstances ==
  ASSUME ViewInv, NEW v \in View, Enter(v)
  PROVE  Instances' /\ Loops'
<1>1. Positions /\ Instances /\ Loops /\ Budget
  BY DEF ViewInv
<1>2. UNCHANGED <<made, views, begun>>
  BY DEF Enter
<1>3. Instances'
  <2>0. loads \in [View -> Nat] /\ renders \in [Instance -> Nat]
    BY <1>1 DEF Instances
  <2>1. CASE views[v] # 0
    <3>1. /\ shown' = views[v] /\ UNCHANGED loads
          /\ renders' = [renders EXCEPT ![views[v]] = @ + 1]
      BY <2>1 DEF Enter
    <3>2. views[v] \in 0 .. Len(made)
      BY <1>1 DEF Instances
    <3>3. renders' \in [Instance -> Nat]
      BY <2>0, <2>1, <3>1, KnownInstance
    <3>4. \A i \in Instance : renders'[i] > 0 => i <= Len(made)
      <4>1. SUFFICES ASSUME NEW i \in Instance, renders'[i] > 0 PROVE i <= Len(made)
        OBVIOUS
      <4>2. CASE i = views[v]
        BY <3>2, <4>2
      <4>3. CASE i # views[v]
        BY <1>1, <2>0, <3>1, <4>1, <4>3 DEF Instances
      <4> QED
        BY <4>2, <4>3
    <3> QED
      BY <1>1, <1>2, <3>1, <3>2, <3>3, <3>4 DEF Instances
  <2>2. CASE views[v] = 0
    <3>1. loads' = [loads EXCEPT ![v] = @ + 1] /\ UNCHANGED <<shown, renders>>
      BY <2>2 DEF Enter
    <3>2. loads' \in [View -> Nat]
      BY <2>0, <3>1
    <3> QED
      BY <1>1, <1>2, <3>1, <3>2 DEF Instances
  <2> QED
    BY <2>1, <2>2
<1>4. Loops'
  <2>1. repeats' \subseteq repeats
    BY DEF Enter, Finish
  <2>2. /\ DOMAIN timeouts' \subseteq DOMAIN timeouts
        /\ \A i \in DOMAIN timeouts' : timeouts'[i] = timeouts[i]
    BY DEF Enter, Finish, Elsewhere
  <2>3. IsFiniteSet(repeats')
    BY <1>1, <2>1, FS_Subset DEF Loops
  <2>4. \A i \in DOMAIN timeouts' : timeouts'[i] \in Seq(0 .. begun)
    BY <1>1, <2>2 DEF Loops
  <2> QED
    BY <1>1, <1>2, <2>1, <2>2, <2>3, <2>4 DEF Loops
<1> QED
  BY <1>3, <1>4

LEMMA EnterInBudget ==
  ASSUME ViewInv, NEW v \in View, Enter(v)
  PROVE  Budget' /\ entries' \in 1 .. MaxEntries
<1>1. Positions /\ Instances /\ Loops /\ Budget
  BY DEF ViewInv
<1>2. /\ loads \in [View -> Nat] /\ renders \in [Instance -> Nat] /\ Len(made) \in Nat
      /\ begun \in Nat /\ entries \in Nat /\ entries < MaxEntries
  BY <1>1 DEF Instances, Loops, Positions, Enter
<1>3. SumFunction(loads) \in Nat /\ SumFunction(renders) \in Nat
  BY <1>1, Numbers
<1>4. UNCHANGED <<made, begun>> /\ entries' = entries + 1
  BY DEF Enter
<1>5. \/ SumFunction(loads') = SumFunction(loads) + 1 /\ UNCHANGED renders
      \/ SumFunction(renders') = SumFunction(renders) + 1 /\ UNCHANGED loads
  <2>1. CASE views[v] # 0
    <3>1. UNCHANGED loads /\ renders' = [renders EXCEPT ![views[v]] = @ + 1]
      BY <2>1 DEF Enter
    <3>2. views[v] \in Instance
      BY <2>1, KnownInstance
    <3> QED
      BY <1>2, <3>1, <3>2, InstanceIsFinite, CountedUp
  <2>2. CASE views[v] = 0
    <3>1. loads' = [loads EXCEPT ![v] = @ + 1] /\ UNCHANGED renders
      BY <2>2 DEF Enter
    <3> QED
      BY <1>2, <3>1, InstanceIsFinite, CountedUp
  <2> QED
    BY <2>1, <2>2
<1>6. /\ Len(made) + SumFunction(loads) <= entries
      /\ begun + SumFunction(loads) + SumFunction(renders) <= entries
  BY <1>1 DEF Budget
<1>7. Budget'
  BY <1>2, <1>3, <1>4, <1>5, <1>6 DEF Budget
<1> QED
  BY <1>2, <1>4, <1>7, ViewAssumption

LEMMA StartKeeps ==
  ASSUME ViewInv, Start
  PROVE  ViewInv'
<1> DEFINE v == IF address = Unnamed THEN Home ELSE address
<1>1. address \in View \cup {Unnamed}
  BY DEF ViewInv, Positions
<1>2. v \in View
  BY <1>1, ViewAssumption
<1>3. Enter(v) /\ address' = v /\ events' \in {0, 1}
  BY DEF Start
<1> HIDE DEF v
<1>4. Instances' /\ Loops'
  BY <1>2, <1>3, EnterInstances
<1>5. Budget' /\ entries' \in 1 .. MaxEntries
  BY <1>2, <1>3, EnterInBudget
<1>6. Account' /\ abandoned' \in Nat
  BY <1>2, <1>3, <1>4, EnterSettles
<1>7. stalled' \subseteq Instance
  BY <1>3 DEF ViewInv, Positions, Enter
<1>8. Positions'
  BY <1>2, <1>3, <1>5, <1>6, <1>7, ViewAssumption DEF Positions
<1> QED
  BY <1>4, <1>5, <1>6, <1>8 DEF ViewInv

LEMMA ChangeViewKeeps ==
  ASSUME ViewInv, ChangeView
  PROVE  ViewInv'
<1>1. Positions
  BY DEF ViewInv
<1>2. Enter(address) /\ UNCHANGED address /\ events > 0 /\ events' = events - 1
  BY DEF ChangeView
<1>3. address \in View
  BY <1>1, <1>2 DEF Positions
<1>4. Instances' /\ Loops'
  BY <1>2, <1>3, EnterInstances
<1>5. Budget' /\ entries' \in 1 .. MaxEntries
  BY <1>2, <1>3, EnterInBudget
<1>6. Account' /\ abandoned' \in Nat
  BY <1>2, <1>3, <1>4, EnterSettles
<1>7. events' \in 0 .. MaxEntries
  BY <1>1, <1>2, ViewAssumption DEF Positions
<1>8. stalled' \subseteq Instance
  BY <1>1, <1>2 DEF Positions, Enter
<1>9. Positions'
  BY <1>2, <1>3, <1>5, <1>6, <1>7, <1>8, ViewAssumption DEF Positions
<1> QED
  BY <1>4, <1>5, <1>6, <1>9 DEF ViewInv

(* A step that leaves all but the address and its events alone.            *)
LEMMA RestKeeps ==
  ASSUME ViewInv, Positions',
         UNCHANGED <<entries, loads, made, views, shown, renders, timeouts, repeats, begun, abandoned>>
  PROVE  ViewInv'
<1>1. Instances'
  BY DEF ViewInv, Instances
<1>2. Loops'
  BY DEF ViewInv, Loops
<1>3. Budget'
  BY DEF ViewInv, Budget
<1>4. Account'
  BY DEF ViewInv, Account, Busy, Current, Kept
<1> QED
  BY <1>1, <1>2, <1>3, <1>4 DEF ViewInv

LEMMA NavigateKeeps ==
  ASSUME ViewInv, NEW v \in View, Navigate(v)
  PROVE  ViewInv'
<1>1. Positions
  BY DEF ViewInv
<1>2. Positions'
  BY <1>1, ViewAssumption DEF Positions, Navigate
<1> QED
  BY <1>2, RestKeeps DEF Navigate

LEMMA ReloginKeeps ==
  ASSUME ViewInv, Relogin
  PROVE  ViewInv'
<1>1. Positions
  BY DEF ViewInv
<1>2. Positions'
  BY <1>1, ViewAssumption DEF Positions, Relogin
<1> QED
  BY <1>2, RestKeeps DEF Relogin

LEMMA LoadedKeeps ==
  ASSUME ViewInv, NEW v \in View, Loaded(v)
  PROVE  ViewInv'
<1> DEFINE new == Len(made) + 1
<1>1. Positions /\ Instances /\ Loops /\ Budget /\ Account
  BY DEF ViewInv
<1>2. /\ loads[v] > 0
      /\ loads' = [loads EXCEPT ![v] = @ - 1]
      /\ made' = Append(made, v)
      /\ views' = [views EXCEPT ![v] = new]
      /\ shown' = new
      /\ renders' = [renders EXCEPT ![new] = 1]
      /\ UNCHANGED <<location, entries, timeouts, repeats, begun, abandoned, stalled>>
  BY DEF Loaded
<1>3. /\ loads \in [View -> Nat] /\ renders \in [Instance -> Nat] /\ made \in Seq(View)
      /\ Len(made) \in Nat /\ entries \in Nat /\ entries <= MaxEntries
  BY <1>1, ViewAssumption DEF Instances, Positions
<1>4. SumFunction(loads) \in Nat /\ SumFunction(renders) \in Nat
  BY <1>1, Numbers
<1>5. loads[v] <= SumFunction(loads) /\ loads[v] \in Nat
  BY <1>3, InstanceIsFinite, SummandIsBelow
<1>6. new \in Instance
  <2>1. Len(made) + SumFunction(loads) <= entries
    BY <1>1 DEF Budget
  <2> QED
    BY <1>2, <1>3, <1>4, <1>5, <2>1, ViewAssumption DEF Instance
<1>7. loads' \in [View -> Nat] /\ SumFunction(loads') = SumFunction(loads) - 1
  BY <1>2, <1>3, InstanceIsFinite, CountedDown
<1>8. renders[new] = 0
  <2>1. renders[new] > 0 => new <= Len(made)
    BY <1>1, <1>6 DEF Instances
  <2>2. renders[new] \in Nat
    BY <1>3, <1>6
  <2> QED
    BY <1>3, <2>1, <2>2
<1>9. renders' = [renders EXCEPT ![new] = @ + 1]
  BY <1>2, <1>3, <1>6, <1>8
<1>10. renders' \in [Instance -> Nat] /\ SumFunction(renders') = SumFunction(renders) + 1
  BY <1>3, <1>6, <1>9, InstanceIsFinite, CountedUp
<1>11. made' \in Seq(View) /\ Len(made') = Len(made) + 1
       /\ made'[new] = v /\ \A i \in 1 .. Len(made) : made'[i] = made[i]
  BY <1>2, <1>3
<1>12. Positions'
  BY <1>1, <1>2 DEF Positions, location
<1>13. Instances'
  <2>1. views \in [View -> 0 .. Len(made)] /\ \A w \in View : views[w] # 0 => made[views[w]] = w
    BY <1>1 DEF Instances
  <2>2. views' \in [View -> 0 .. Len(made')]
    BY <1>2, <1>3, <1>11, <2>1
  <2>3. ASSUME NEW w \in View, views'[w] # 0 PROVE made'[views'[w]] = w
    <3>1. CASE w = v
      BY <1>2, <1>11, <2>1, <3>1
    <3>2. CASE w # v
      <4>1. views'[w] = views[w]
        BY <1>2, <2>1, <3>2
      <4>2. views[w] \in 1 .. Len(made)
        BY <1>3, <2>1, <2>3, <4>1
      <4> QED
        BY <1>11, <2>1, <4>1, <4>2
    <3> QED
      BY <3>1, <3>2
  <2>4. shown' \in 0 .. Len(made')
    BY <1>2, <1>3, <1>11
  <2>5. \A i \in Instance : renders[i] > 0 => i <= Len(made)
    BY <1>1 DEF Instances
  <2>6. \A i \in Instance : renders'[i] > 0 => i <= Len(made')
    BY <1>2, <1>3, <1>11, <2>5 DEF Instance
  <2> QED
    BY <1>7, <1>10, <1>11, <2>2, <2>3, <2>4, <2>6 DEF Instances
<1>14. Loops'
  <2>1. DOMAIN timeouts \subseteq 1 .. Len(made')
    BY <1>1, <1>3, <1>11 DEF Loops
  <2> QED
    BY <1>1, <1>2, <2>1 DEF Loops
<1>15. Budget'
  <2>1. /\ Len(made) + SumFunction(loads) <= entries
        /\ begun + SumFunction(loads) + SumFunction(renders) <= entries
        /\ begun \in Nat
    BY <1>1 DEF Budget, Loops
  <2>2. UNCHANGED <<entries, begun>>
    BY <1>2
  <2>3. Len(made') + SumFunction(loads') = Len(made) + SumFunction(loads)
    BY <1>3, <1>4, <1>7, <1>11
  <2>4. begun' + SumFunction(loads') + SumFunction(renders')
          = begun + SumFunction(loads) + SumFunction(renders)
    BY <1>4, <1>7, <1>10, <2>1, <2>2
  <2> QED
    BY <2>1, <2>2, <2>3, <2>4 DEF Budget
<1>16. Account'
  <2>1. Busy' = Busy
    <3>1. repeats' = repeats /\ Cardinality(repeats) \in Nat
      BY <1>1, <1>2, Numbers
    <3> QED
      BY <1>4, <1>7, <1>10, <3>1 DEF Busy
  <2>2. shown' \in Instance /\ renders'[shown'] > 0
    BY <1>2, <1>3, <1>6
  <2>3. Busy <= abandoned + 1 /\ abandoned' = abandoned
    BY <1>1, <1>2 DEF Account
  <2> QED
    BY <2>1, <2>2, <2>3 DEF Account, Current
<1> QED
  BY <1>12, <1>13, <1>14, <1>15, <1>16 DEF ViewInv

LEMMA RangeIsWithin ==
  ASSUME NEW T, NEW q \in Seq(T)
  PROVE  Range(q) \subseteq T
<1>1. \A i \in 1 .. Len(q) : q[i] \in T
  OBVIOUS
<1>2. Range(q) = {q[i] : i \in 1 .. Len(q)}
  <2>1. DOMAIN q = 1 .. Len(q)
    OBVIOUS
  <2> QED
    BY <2>1 DEF Range
<1> QED
  BY <1>1, <1>2

LEMMA SeqGrows ==
  ASSUME NEW S, NEW T, S \subseteq T, NEW s \in Seq(S)
  PROVE  s \in Seq(T)
OBVIOUS

LEMMA ExecuteKeeps ==
  ASSUME ViewInv, NEW i \in Instance, Execute(i)
  PROVE  ViewInv'
<1>0. PICK loop : loop = [id |-> begun + 1, inst |-> i, timer |-> FALSE,
                          index |-> IF i \in DOMAIN timeouts THEN Len(timeouts[i]) ELSE 0]
  OBVIOUS
<1>1. Positions /\ Instances /\ Loops /\ Budget /\ Account
  BY DEF ViewInv
<1>2. /\ renders[i] > 0
      /\ renders' = [renders EXCEPT ![i] = @ - 1]
      /\ begun' = begun + 1
      /\ timeouts' = [k \in DOMAIN timeouts \cup {i} |->
                        IF k \in DOMAIN timeouts THEN timeouts[k] ELSE <<>>]
      /\ repeats' = repeats \cup {loop}
      /\ UNCHANGED <<location, entries, loads, made, views, shown, abandoned, stalled>>
  BY <1>0 DEF Execute
<1>3. loads \in [View -> Nat] /\ renders \in [Instance -> Nat] /\ begun \in Nat
  BY <1>1 DEF Instances, Loops
<1>4. SumFunction(loads) \in Nat /\ SumFunction(renders) \in Nat
  BY <1>1, Numbers
<1>5. renders' \in [Instance -> Nat] /\ SumFunction(renders') = SumFunction(renders) - 1
  BY <1>2, <1>3, InstanceIsFinite, CountedDown
<1>6. /\ IsFiniteSet(repeats)
      /\ repeats \subseteq [id : 1 .. begun, inst : Instance, timer : BOOLEAN, index : Nat]
      /\ \A c, d \in repeats : c.id = d.id => c = d
      /\ DOMAIN timeouts \subseteq 1 .. Len(made)
      /\ \A k \in DOMAIN timeouts : timeouts[k] \in Seq(0 .. begun)
  BY <1>1 DEF Loops
<1>7. \A c \in repeats : c.id \in 1 .. begun
  BY <1>6
<1>8. loop.id = begun + 1 /\ loop.inst = i /\ loop.timer = FALSE
  BY <1>0
<1>9. loop \in [id : 1 .. begun', inst : Instance, timer : BOOLEAN, index : Nat]
  <2>1. i \in DOMAIN timeouts => Len(timeouts[i]) \in Nat
    BY <1>6
  <2>2. begun + 1 \in 1 .. begun'
    BY <1>2, <1>3
  <2> QED
    BY <1>0, <2>1, <2>2
<1>10. loop \notin repeats
  BY <1>3, <1>7, <1>8
<1>11. IsFiniteSet(repeats') /\ Cardinality(repeats') = Cardinality(repeats) + 1
  BY <1>2, <1>6, <1>10, FS_AddElement
<1>12. Positions'
  BY <1>1, <1>2 DEF Positions, location
<1>13. Instances'
  <2>1. ASSUME NEW j \in Instance, renders'[j] > 0 PROVE j <= Len(made')
    <3>1. renders[j] > 0
      BY <1>2, <1>3, <2>1
    <3> QED
      BY <1>1, <1>2, <3>1 DEF Instances
  <2> QED
    BY <1>1, <1>2, <1>5, <2>1 DEF Instances
<1>14. Loops'
  <2>1. i <= Len(made)
    BY <1>1, <1>2 DEF Instances
  <2>2. DOMAIN timeouts' \subseteq 1 .. Len(made')
    <3>1. Len(made) \in Nat
      BY <1>1 DEF Instances
    <3> QED
      BY <1>2, <1>6, <2>1, <3>1 DEF Instance
  <2>3. 0 .. begun \subseteq 0 .. begun'
    BY <1>2, <1>3
  <2>4. ASSUME NEW k \in DOMAIN timeouts' PROVE timeouts'[k] \in Seq(0 .. begun')
    <3>1. CASE k \in DOMAIN timeouts
      <4>1. timeouts'[k] = timeouts[k]
        BY <1>2, <3>1
      <4>2. timeouts[k] \in Seq(0 .. begun)
        BY <1>6, <3>1
      <4> QED
        BY <2>3, <4>1, <4>2, SeqGrows
    <3>2. CASE k \notin DOMAIN timeouts
      <4>1. timeouts'[k] = <<>>
        BY <1>2, <2>4, <3>2
      <4> QED
        BY <4>1
    <3> QED
      BY <3>1, <3>2
  <2>5. repeats' \subseteq [id : 1 .. begun', inst : Instance, timer : BOOLEAN, index : Nat]
    <3>1. 1 .. begun \subseteq 1 .. begun'
      BY <1>2, <1>3
    <3>2. repeats \subseteq [id : 1 .. begun', inst : Instance, timer : BOOLEAN, index : Nat]
      BY <1>6, <3>1
    <3> QED
      BY <1>2, <1>9, <3>2
  <2>6. \A c, d \in repeats' : c.id = d.id => c = d
    BY <1>2, <1>3, <1>6, <1>7, <1>8
  <2>7. begun' \in Nat
    BY <1>2, <1>3
  <2> QED
    BY <1>11, <2>2, <2>4, <2>5, <2>6, <2>7 DEF Loops
<1>15. Budget'
  <2>1. /\ Len(made) + SumFunction(loads) <= entries
        /\ begun + SumFunction(loads) + SumFunction(renders) <= entries
    BY <1>1 DEF Budget
  <2>2. begun' + SumFunction(loads') + SumFunction(renders')
          = begun + SumFunction(loads) + SumFunction(renders)
    BY <1>2, <1>3, <1>4, <1>5
  <2> QED
    BY <1>2, <2>1, <2>2 DEF Budget
<1>16. Account'
  <2>1. Busy' = Busy
    <3>1. Cardinality(repeats) \in Nat
      BY <1>1, Numbers
    <3> QED
      BY <1>2, <1>4, <1>5, <1>11, <3>1 DEF Busy
  <2>2. ASSUME Current PROVE Current'
    <3>1. CASE \E v \in View : loads[v] > 0
      BY <1>2, <3>1 DEF Current
    <3>2. CASE shown \in Instance /\ renders[shown] > 0
      <4>1. CASE shown = i
        <5>1. Kept(loop)' /\ loop \in repeats'
          BY <1>2, <1>8, <4>1 DEF Kept
        <5> QED
          BY <5>1 DEF Current, Kept
      <4>2. CASE shown # i
        BY <1>2, <1>3, <3>2, <4>2 DEF Current
      <4> QED
        BY <4>1, <4>2
    <3>3. CASE \E c \in repeats : Kept(c)
      <4>1. PICK c \in repeats : Kept(c)
        BY <3>3
      <4>2. shown \in DOMAIN timeouts' /\ timeouts'[shown] = timeouts[shown] /\ shown' = shown
        BY <1>2, <4>1 DEF Kept
      <4>3. c \in repeats' /\ Kept(c)'
        BY <1>2, <4>1, <4>2 DEF Kept
      <4> QED
        BY <4>3 DEF Current, Kept
    <3> QED
      BY <2>2, <3>1, <3>2, <3>3 DEF Current
  <2>3. abandoned' = abandoned
    BY <1>2
  <2> QED
    BY <1>1, <2>1, <2>2, <2>3 DEF Account
<1> QED
  BY <1>12, <1>13, <1>14, <1>15, <1>16 DEF ViewInv

(* A step that leaves all but loops and their arrays alone and adds none.  *)
LEMMA LoopsKeep ==
  ASSUME ViewInv, Loops', Cardinality(repeats') <= Cardinality(repeats),
         Current => Current' \/ Cardinality(repeats') < Cardinality(repeats),
         UNCHANGED <<location, entries, loads, made, views, shown, renders, begun, abandoned>>,
         stalled' \subseteq Instance
  PROVE  ViewInv'
<1>1. Positions /\ Instances /\ Loops /\ Budget /\ Account
  BY DEF ViewInv
<1>2. Positions'
  BY <1>1 DEF Positions, location
<1>3. Instances'
  BY <1>1 DEF Instances
<1>4. Budget'
  BY <1>1 DEF Budget
<1>5. Account'
  <2>1. /\ SumFunction(loads) \in Nat /\ SumFunction(renders) \in Nat
        /\ Cardinality(repeats) \in Nat /\ abandoned \in Nat
    BY <1>1, Numbers DEF Positions
  <2>2. Cardinality(repeats') \in Nat
    BY FS_CardinalityType DEF Loops
  <2>3. Busy' = SumFunction(loads) + SumFunction(renders) + Cardinality(repeats')
    BY DEF Busy
  <2>4. Busy = SumFunction(loads) + SumFunction(renders) + Cardinality(repeats)
    BY DEF Busy
  <2>5. Busy <= abandoned + 1 /\ (Busy <= abandoned \/ Current)
    BY <1>1 DEF Account
  <2>6. Busy' <= abandoned' + 1
    BY <2>1, <2>2, <2>3, <2>4, <2>5
  <2>7. CASE Busy <= abandoned \/ Cardinality(repeats') < Cardinality(repeats)
    <3>1. Busy' <= abandoned'
      BY <2>1, <2>2, <2>3, <2>4, <2>5, <2>7
    <3> QED
      BY <2>6, <3>1 DEF Account
  <2>8. CASE Current'
    BY <2>6, <2>8 DEF Account
  <2> QED
    BY <2>5, <2>7, <2>8
<1> QED
  BY <1>2, <1>3, <1>4, <1>5 DEF ViewInv

(* array[index] = id: the id is in the array, which stays one of ids.      *)
LEMMA RecordedHolds ==
  ASSUME NEW b \in Nat, NEW array \in Seq(0 .. b), NEW index \in Nat, NEW id \in 1 .. b
  PROVE  /\ Recorded(array, index, id) \in Seq(0 .. b)
         /\ id \in Range(Recorded(array, index, id))
<1> DEFINE length == IF index < Len(array) THEN Len(array) ELSE index + 1
           entry(k) == IF k = index + 1 THEN id ELSE IF k <= Len(array) THEN array[k] ELSE 0
<1>1. Recorded(array, index, id) = [k \in 1 .. length |-> entry(k)]
  BY DEF Recorded
<1>2. length \in Nat /\ index + 1 \in 1 .. length /\ 0 \in 0 .. b /\ id \in 0 .. b
  OBVIOUS
<1>3. \A k \in 1 .. length : entry(k) \in 0 .. b
  BY <1>2
<1>4. entry(index + 1) = id
  OBVIOUS
<1> HIDE DEF length, entry
<1>5. [k \in 1 .. length |-> entry(k)] \in Seq(0 .. b)
  <2>1. [k \in 1 .. length |-> entry(k)] \in [1 .. length -> 0 .. b]
    BY <1>3
  <2> QED
    BY <1>2, <2>1
<1>6. id \in Range([k \in 1 .. length |-> entry(k)])
  BY <1>2, <1>4 DEF Range
<1> QED
  BY <1>1, <1>5, <1>6

(* A loop exchanged for itself, waiting or not.                            *)
LEMMA ExchangedLoops ==
  ASSUME Loops, NEW c \in repeats, NEW t \in BOOLEAN, UNCHANGED begun,
         repeats' = (repeats \ {c}) \cup {[c EXCEPT !.timer = t]}
  PROVE  /\ IsFiniteSet(repeats') /\ Cardinality(repeats') <= Cardinality(repeats)
         /\ repeats' \subseteq [id : 1 .. begun', inst : Instance, timer : BOOLEAN, index : Nat]
         /\ \A d, e \in repeats' : d.id = e.id => d = e
         /\ [c EXCEPT !.timer = t].id = c.id /\ [c EXCEPT !.timer = t].inst = c.inst
         /\ [c EXCEPT !.timer = t].timer = t
<1>1. PICK d : d = [c EXCEPT !.timer = t]
  OBVIOUS
<1>2. /\ repeats \subseteq [id : 1 .. begun, inst : Instance, timer : BOOLEAN, index : Nat]
      /\ IsFiniteSet(repeats) /\ \A x, y \in repeats : x.id = y.id => x = y
  BY DEF Loops
<1>3. c \in [id : 1 .. begun, inst : Instance, timer : BOOLEAN, index : Nat]
  BY <1>2
<1>4. /\ d \in [id : 1 .. begun, inst : Instance, timer : BOOLEAN, index : Nat]
      /\ d.id = c.id /\ d.inst = c.inst /\ d.timer = t
  BY <1>1, <1>3
<1>5. IsFiniteSet(repeats') /\ Cardinality(repeats') <= Cardinality(repeats)
  BY <1>1, <1>2, Exchanged
<1>6. repeats' \subseteq [id : 1 .. begun', inst : Instance, timer : BOOLEAN, index : Nat]
  BY <1>1, <1>2, <1>4
<1>7. \A x, y \in repeats' : x.id = y.id => x = y
  BY <1>1, <1>2, <1>4
<1> QED
  BY <1>1, <1>4, <1>5, <1>6, <1>7

LEMMA AnsweredKeeps ==
  ASSUME ViewInv, NEW c \in repeats, NEW ok \in BOOLEAN, Answered(c, ok)
  PROVE  ViewInv'
<1>1. Instances /\ Loops
  BY DEF ViewInv
<1>2. /\ UNCHANGED <<location, entries, loads, made, views, shown, renders, begun, abandoned>>
      /\ stalled' \subseteq Instance
  BY DEF Answered, ViewInv, Positions
<1>3. /\ repeats \subseteq [id : 1 .. begun, inst : Instance, timer : BOOLEAN, index : Nat]
      /\ IsFiniteSet(repeats) /\ begun \in Nat
      /\ DOMAIN timeouts \subseteq 1 .. Len(made)
      /\ \A i \in DOMAIN timeouts : timeouts[i] \in Seq(0 .. begun)
      /\ \A d, e \in repeats : d.id = e.id => d = e
  BY <1>1 DEF Loops
<1>4. CASE c.inst \in DOMAIN timeouts
  <2>1. /\ timeouts' = [timeouts EXCEPT ![c.inst] = Recorded(@, c.index, c.id)]
        /\ repeats' = (repeats \ {c}) \cup {[c EXCEPT !.timer = TRUE]}
    BY <1>4 DEF Answered
  <2>2. PICK new : new = [c EXCEPT !.timer = TRUE]
    OBVIOUS
  <2>3. /\ IsFiniteSet(repeats') /\ Cardinality(repeats') <= Cardinality(repeats)
        /\ repeats' \subseteq [id : 1 .. begun', inst : Instance, timer : BOOLEAN, index : Nat]
        /\ \A d, e \in repeats' : d.id = e.id => d = e
        /\ new.id = c.id /\ new.inst = c.inst
    BY <1>1, <1>2, <2>1, <2>2, ExchangedLoops
  <2>4. PICK array : array = Recorded(timeouts[c.inst], c.index, c.id)
    OBVIOUS
  <2>5. array \in Seq(0 .. begun) /\ c.id \in Range(array)
    <3>1. c.id \in 1 .. begun /\ c.index \in Nat
      BY <1>3
    <3>2. timeouts[c.inst] \in Seq(0 .. begun)
      BY <1>3, <1>4
    <3> QED
      BY <1>3, <2>4, <3>1, <3>2, RecordedHolds
  <2>6. /\ DOMAIN timeouts' = DOMAIN timeouts
        /\ timeouts'[c.inst] = array
        /\ \A i \in DOMAIN timeouts : i # c.inst => timeouts'[i] = timeouts[i]
    BY <1>4, <2>1, <2>4
  <2>7. Loops'
    <3>1. \A i \in DOMAIN timeouts' : timeouts'[i] \in Seq(0 .. begun')
      BY <1>2, <1>3, <2>5, <2>6
    <3> QED
      BY <1>2, <1>3, <2>3, <2>6, <3>1 DEF Loops
  <2>8. ASSUME Current PROVE Current'
    <3>1. CASE \E v \in View : loads[v] > 0
      BY <1>2, <3>1 DEF Current
    <3>2. CASE shown \in Instance /\ renders[shown] > 0
      BY <1>2, <3>2 DEF Current
    <3>3. CASE \E e \in repeats : Kept(e)
      <4>1. PICK e \in repeats : Kept(e)
        BY <3>3
      <4>2. shown' = shown /\ shown \in DOMAIN timeouts' /\ e.inst = shown
        BY <1>2, <2>6, <4>1 DEF Kept
      <4>3. CASE c.inst = shown
        <5>1. new \in repeats' /\ new.inst = shown' /\ new.id \in Range(timeouts'[shown'])
          BY <2>1, <2>2, <2>3, <2>5, <2>6, <4>2, <4>3
        <5>2. shown' \in DOMAIN timeouts'
          BY <4>2
        <5> QED
          BY <5>1, <5>2 DEF Current, Kept
      <4>4. CASE c.inst # shown
        <5>1. e \in repeats' /\ timeouts'[shown] = timeouts[shown]
          BY <2>1, <2>6, <4>1, <4>2, <4>4
        <5>2. e.timer => e.id \in Range(timeouts[shown])
          BY <4>1 DEF Kept
        <5> QED
          BY <4>2, <5>1, <5>2 DEF Current, Kept
      <4> QED
        BY <4>3, <4>4
    <3> QED
      BY <2>8, <3>1, <3>2, <3>3 DEF Current
  <2> QED
    BY <1>2, <2>3, <2>7, <2>8, LoopsKeep
<1>5. CASE c.inst \notin DOMAIN timeouts
  <2>1. repeats' = repeats \ {c} /\ UNCHANGED timeouts
    BY <1>5 DEF Answered
  <2>2. /\ IsFiniteSet(repeats') /\ Cardinality(repeats') = Cardinality(repeats) - 1
        /\ Cardinality(repeats) \in Nat
    BY <1>3, <2>1, FS_RemoveElement, FS_CardinalityType
  <2>3. Cardinality(repeats') <= Cardinality(repeats) /\ Cardinality(repeats') < Cardinality(repeats)
    BY <2>2
  <2>4. Loops'
    BY <1>2, <1>3, <2>1, <2>2 DEF Loops
  <2> QED
    BY <1>2, <2>3, <2>4, LoopsKeep
<1> QED
  BY <1>4, <1>5

LEMMA FireKeeps ==
  ASSUME ViewInv, NEW c \in repeats, Fire(c)
  PROVE  ViewInv'
<1>1. Loops
  BY DEF ViewInv
<1>2. /\ repeats' = (repeats \ {c}) \cup {[c EXCEPT !.timer = FALSE]}
      /\ UNCHANGED <<location, entries, loads, made, views, shown, renders, timeouts, begun, abandoned>>
      /\ stalled' \subseteq Instance
  BY DEF Fire, ViewInv, Positions
<1>3. PICK new : new = [c EXCEPT !.timer = FALSE]
  OBVIOUS
<1>4. /\ IsFiniteSet(repeats') /\ Cardinality(repeats') <= Cardinality(repeats)
      /\ repeats' \subseteq [id : 1 .. begun', inst : Instance, timer : BOOLEAN, index : Nat]
      /\ \A d, e \in repeats' : d.id = e.id => d = e
      /\ new.id = c.id /\ new.inst = c.inst /\ new.timer = FALSE
  BY <1>1, <1>2, <1>3, ExchangedLoops
<1>5. Loops'
  BY <1>1, <1>2, <1>4 DEF Loops
<1>6. ASSUME Current PROVE Current'
  <2>1. CASE \E v \in View : loads[v] > 0
    BY <1>2, <2>1 DEF Current
  <2>2. CASE shown \in Instance /\ renders[shown] > 0
    BY <1>2, <2>2 DEF Current
  <2>3. CASE \E e \in repeats : Kept(e)
    <3>1. PICK e \in repeats : Kept(e)
      BY <2>3
    <3>2. CASE e = c
      <4>1. new \in repeats' /\ new.inst = shown' /\ shown' \in DOMAIN timeouts'
        BY <1>2, <1>3, <1>4, <3>1, <3>2 DEF Kept
      <4> QED
        BY <1>4, <4>1 DEF Current, Kept
    <3>3. CASE e # c
      <4>1. e \in repeats' /\ shown' = shown /\ timeouts' = timeouts
        BY <1>2, <3>1, <3>3
      <4> QED
        BY <3>1, <4>1 DEF Current, Kept
    <3> QED
      BY <3>2, <3>3
  <2> QED
    BY <1>6, <2>1, <2>2, <2>3 DEF Current
<1> QED
  BY <1>2, <1>4, <1>5, <1>6, LoopsKeep

LEMMA PollLostKeeps ==
  ASSUME ViewInv, NEW c \in repeats, PollLost(c)
  PROVE  ViewInv'
<1>1. Positions /\ Loops
  BY DEF ViewInv
<1>2. /\ repeats' = repeats \ {c} /\ stalled' = stalled \cup {c.inst}
      /\ UNCHANGED <<location, entries, loads, made, views, shown, renders, timeouts, begun, abandoned>>
  BY DEF PollLost
<1>3. /\ IsFiniteSet(repeats') /\ Cardinality(repeats') = Cardinality(repeats) - 1
      /\ Cardinality(repeats) \in Nat
  BY <1>1, <1>2, FS_RemoveElement, FS_CardinalityType DEF Loops
<1>4. Cardinality(repeats') <= Cardinality(repeats) /\ Cardinality(repeats') < Cardinality(repeats)
  BY <1>3
<1>5. Loops'
  BY <1>1, <1>2, <1>3 DEF Loops
<1>6. stalled' \subseteq Instance
  BY <1>1, <1>2 DEF Positions, Loops
<1> QED
  BY <1>2, <1>4, <1>5, <1>6, LoopsKeep

(* A step that only loses a script or a rendering.                         *)
LEMMA LossKeeps ==
  ASSUME ViewInv, stalled' \subseteq Instance,
         loads' \in [View -> Nat], renders' \in [Instance -> Nat],
         \A i \in Instance : renders'[i] <= renders[i],
         SumFunction(loads') <= SumFunction(loads),
         SumFunction(renders') <= SumFunction(renders),
         SumFunction(loads') + SumFunction(renders') < SumFunction(loads) + SumFunction(renders),
         UNCHANGED <<location, entries, made, views, shown, timeouts, repeats, begun, abandoned>>
  PROVE  ViewInv'
<1>1. Positions /\ Instances /\ Loops /\ Budget /\ Account
  BY DEF ViewInv
<1>2. /\ SumFunction(loads) \in Nat /\ SumFunction(renders) \in Nat
      /\ Cardinality(repeats) \in Nat /\ abandoned \in Nat
  BY <1>1, Numbers DEF Positions
<1>3. SumFunction(loads') \in Nat /\ SumFunction(renders') \in Nat
  BY InstanceIsFinite, SumIsNatural
<1>4. Positions'
  BY <1>1 DEF Positions, location
<1>5. Instances'
  <2>1. ASSUME NEW i \in Instance, renders'[i] > 0 PROVE i <= Len(made)
    <3>1. renders[i] \in Nat /\ renders'[i] \in Nat /\ renders'[i] <= renders[i]
      BY <1>1 DEF Instances
    <3>2. renders[i] > 0
      BY <2>1, <3>1
    <3> QED
      BY <1>1, <3>2 DEF Instances
  <2> QED
    BY <1>1, <2>1 DEF Instances
<1>6. Loops'
  BY <1>1 DEF Loops
<1>7. Budget'
  <2>1. /\ Len(made) \in Nat /\ begun \in Nat /\ entries \in Nat
        /\ Len(made) + SumFunction(loads) <= entries
        /\ begun + SumFunction(loads) + SumFunction(renders) <= entries
    BY <1>1 DEF Budget, Instances, Loops, Positions
  <2>2. /\ Len(made) + SumFunction(loads') <= entries
        /\ begun + SumFunction(loads') + SumFunction(renders') <= entries
    BY <1>2, <1>3, <2>1
  <2> QED
    BY <2>2 DEF Budget
<1>8. Account'
  <2>1. Busy <= abandoned + 1
    BY <1>1 DEF Account
  <2>2. Busy' <= abandoned'
    <3>1. Busy' = SumFunction(loads') + SumFunction(renders') + Cardinality(repeats)
      BY DEF Busy
    <3> QED
      BY <1>2, <1>3, <2>1, <3>1 DEF Busy
  <2>3. Busy' \in Nat /\ abandoned' \in Nat
    BY <1>2, <1>3 DEF Busy
  <2> QED
    BY <2>2, <2>3 DEF Account
<1> QED
  BY <1>4, <1>5, <1>6, <1>7, <1>8 DEF ViewInv

LEMMA ScriptLostKeeps ==
  ASSUME ViewInv, NEW v \in View, ScriptLost(v)
  PROVE  ViewInv'
<1>1. Positions /\ Instances /\ Loops /\ Budget
  BY DEF ViewInv
<1>2. /\ loads[v] > 0 /\ loads' = [loads EXCEPT ![v] = @ - 1]
      /\ stalled' \subseteq stalled \cup ({shown} \ {0})
      /\ UNCHANGED <<location, entries, made, views, shown, renders, timeouts, repeats, begun, abandoned>>
  BY DEF ScriptLost
<1>3. loads \in [View -> Nat] /\ renders \in [Instance -> Nat] /\ renders' = renders
  BY <1>1, <1>2 DEF Instances
<1>4. SumFunction(loads) \in Nat /\ SumFunction(renders) \in Nat
  BY <1>1, Numbers
<1>5. loads' \in [View -> Nat] /\ SumFunction(loads') = SumFunction(loads) - 1
  BY <1>2, <1>3, InstanceIsFinite, CountedDown
<1>6. shown # 0 => shown \in Instance
  <2>1. /\ Len(made) \in Nat /\ shown \in 0 .. Len(made) /\ entries \in Nat /\ entries <= MaxEntries
        /\ Len(made) + SumFunction(loads) <= entries
    BY <1>1, ViewAssumption DEF Instances, Positions, Budget
  <2> QED
    BY <1>4, <2>1, ViewAssumption DEF Instance
<1>7. stalled' \subseteq Instance
  BY <1>1, <1>2, <1>6 DEF Positions
<1>8. \A i \in Instance : renders'[i] <= renders[i]
  BY <1>3
<1>9. /\ SumFunction(loads') <= SumFunction(loads) /\ SumFunction(renders') <= SumFunction(renders)
      /\ SumFunction(loads') + SumFunction(renders') < SumFunction(loads) + SumFunction(renders)
  BY <1>3, <1>4, <1>5
<1> QED
  BY <1>2, <1>3, <1>5, <1>7, <1>8, <1>9, LossKeeps

LEMMA RenderLostKeeps ==
  ASSUME ViewInv, NEW i \in Instance, RenderLost(i)
  PROVE  ViewInv'
<1>1. Positions /\ Instances /\ Loops
  BY DEF ViewInv
<1>2. /\ renders[i] > 0 /\ renders' = [renders EXCEPT ![i] = @ - 1]
      /\ stalled' = stalled \cup {i}
      /\ UNCHANGED <<location, entries, loads, made, views, shown, timeouts, repeats, begun, abandoned>>
  BY DEF RenderLost
<1>3. loads \in [View -> Nat] /\ renders \in [Instance -> Nat] /\ loads' = loads
  BY <1>1, <1>2 DEF Instances
<1>4. SumFunction(loads) \in Nat /\ SumFunction(renders) \in Nat
  BY <1>1, Numbers
<1>5. renders' \in [Instance -> Nat] /\ SumFunction(renders') = SumFunction(renders) - 1
  BY <1>2, <1>3, InstanceIsFinite, CountedDown
<1>6. stalled' \subseteq Instance
  BY <1>1, <1>2 DEF Positions
<1>7. \A j \in Instance : renders'[j] <= renders[j]
  BY <1>2, <1>3
<1>8. /\ SumFunction(loads') <= SumFunction(loads) /\ SumFunction(renders') <= SumFunction(renders)
      /\ SumFunction(loads') + SumFunction(renders') < SumFunction(loads) + SumFunction(renders)
  BY <1>3, <1>4, <1>5
<1> QED
  BY <1>2, <1>3, <1>5, <1>6, <1>7, <1>8, LossKeeps

-----------------------------------------------------------------------------
LEMMA ViewInitInv == ViewInit => ViewInv
<1>1. SUFFICES ASSUME ViewInit PROVE ViewInv
  OBVIOUS
<1>2. /\ loads = [v \in View |-> 0] /\ renders = [i \in Instance |-> 0]
      /\ made = <<>> /\ repeats = {} /\ timeouts = [i \in {} |-> <<>>]
      /\ views = [v \in View |-> 0] /\ shown = 0 /\ begun = 0 /\ abandoned = 0
      /\ entries = 0 /\ events = 0 /\ stalled = {}
  BY <1>1 DEF ViewInit
<1>3. loads \in [View -> Nat] /\ renders \in [Instance -> Nat] /\ Len(made) = 0
  BY <1>2
<1>4. SumFunction(loads) = 0 /\ SumFunction(renders) = 0
  BY <1>2, <1>3, InstanceIsFinite, SumOfZeros
<1>5. IsFiniteSet(repeats) /\ Cardinality(repeats) = 0
  BY <1>2, FS_EmptySet
<1>6. Positions
  BY <1>1, <1>2, ViewAssumption DEF ViewInit, Positions
<1>7. Instances
  BY <1>2, <1>3 DEF Instances
<1>8. Loops
  BY <1>2, <1>5 DEF Loops
<1>9. Budget
  BY <1>2, <1>3, <1>4 DEF Budget
<1>10. Account
  BY <1>2, <1>4, <1>5 DEF Account, Busy
<1> QED
  BY <1>6, <1>7, <1>8, <1>9, <1>10 DEF ViewInv

LEMMA ViewInvInductive == ViewInv /\ [ViewNext]_viewvars => ViewInv'
<1>1. SUFFICES ASSUME ViewInv, [ViewNext]_viewvars PROVE ViewInv'
  OBVIOUS
<1>2. CASE Start
  BY <1>1, <1>2, StartKeeps
<1>3. CASE \E v \in View : Navigate(v)
  BY <1>1, <1>3, NavigateKeeps
<1>4. CASE Relogin
  BY <1>1, <1>4, ReloginKeeps
<1>5. CASE ChangeView
  BY <1>1, <1>5, ChangeViewKeeps
<1>6. CASE \E v \in View : Arrive(v)
  BY <1>1, <1>6, LoadedKeeps, ScriptLostKeeps DEF Arrive
<1>7. CASE \E i \in Instance : Rendered(i)
  BY <1>1, <1>7, ExecuteKeeps, RenderLostKeeps DEF Rendered
<1>8. CASE \E id \in Instance : Step(id)
  BY <1>1, <1>8, AnsweredKeeps, FireKeeps, PollLostKeeps DEF Step
<1>9. CASE UNCHANGED viewvars
  <2>1. Positions'
    BY <1>1, <1>9 DEF ViewInv, Positions, viewvars
  <2> QED
    BY <1>1, <1>9, <2>1, RestKeeps DEF viewvars
<1> QED
  BY <1>1, <1>2, <1>3, <1>4, <1>5, <1>6, <1>7, <1>8, <1>9 DEF ViewNext

LEMMA ViewInvAlways == ViewSpec => []ViewInv
BY ViewInitInv, ViewInvInductive, PTL DEF ViewSpec

LEMMA ViewInvTypes == ViewInv => ViewTypeOK
<1>1. SUFFICES ASSUME ViewInv PROVE ViewTypeOK
  OBVIOUS
<1>2. Positions /\ Instances /\ Loops /\ Budget
  BY <1>1 DEF ViewInv
<1>3. /\ loads \in [View -> Nat] /\ renders \in [Instance -> Nat] /\ Len(made) \in Nat
      /\ entries \in Nat /\ entries <= MaxEntries /\ begun \in Nat
  BY <1>2, ViewAssumption DEF Instances, Loops, Positions
<1>4. SumFunction(loads) \in Nat /\ SumFunction(renders) \in Nat
  BY <1>2, Numbers
<1>5. /\ Len(made) + SumFunction(loads) <= entries
      /\ begun + SumFunction(loads) + SumFunction(renders) <= entries
  BY <1>2 DEF Budget
<1>6. /\ Len(made) <= MaxEntries /\ begun <= MaxEntries
      /\ SumFunction(loads) <= MaxEntries /\ SumFunction(renders) <= MaxEntries
  BY <1>3, <1>4, <1>5, ViewAssumption
<1>7. {entries, events, begun, Len(made)} \subseteq 0 .. MaxEntries
  BY <1>2, <1>3, <1>6, ViewAssumption DEF Positions
<1>8. loads \in [View -> 0 .. MaxEntries]
  <2>1. ASSUME NEW v \in View PROVE loads[v] \in 0 .. MaxEntries
    <3>1. loads[v] <= SumFunction(loads) /\ loads[v] \in Nat
      BY <1>3, InstanceIsFinite, SummandIsBelow
    <3> QED
      BY <1>4, <1>6, <3>1, ViewAssumption
  <2> QED
    BY <1>3, <2>1
<1>9. renders \in [Instance -> 0 .. MaxEntries]
  <2>1. ASSUME NEW i \in Instance PROVE renders[i] \in 0 .. MaxEntries
    <3>1. renders[i] <= SumFunction(renders) /\ renders[i] \in Nat
      BY <1>3, InstanceIsFinite, SummandIsBelow
    <3> QED
      BY <1>4, <1>6, <3>1, ViewAssumption
  <2> QED
    BY <1>3, <2>1
<1>10. ASSUME NEW i \in DOMAIN timeouts
       PROVE  i \in 1 .. Len(made) /\ Range(timeouts[i]) \subseteq 0 .. begun
  <2>1. i \in 1 .. Len(made) /\ timeouts[i] \in Seq(0 .. begun)
    BY <1>2 DEF Loops
  <2>2. Range(timeouts[i]) \subseteq 0 .. begun
    BY <2>1, RangeIsWithin
  <2> QED
    BY <2>1, <2>2
<1>11. ASSUME NEW c \in repeats, NEW d \in repeats
       PROVE  c.id \in 1 .. begun /\ (c.id = d.id => c = d)
  BY <1>2 DEF Loops
<1>12. /\ address \in View \cup {Unnamed} /\ made \in Seq(View) /\ shown \in 0 .. Len(made)
       /\ \A v \in View : views[v] # 0 => made[views[v]] = v
       /\ stalled \subseteq Instance
  BY <1>2 DEF Positions, Instances
<1> QED
  BY <1>7, <1>8, <1>9, <1>10, <1>11, <1>12 DEF ViewTypeOK

(* Every variable keeps its type: an instance that is shown or has timers  *)
(* was made, L.views holds the instances of the right views, and the loops *)
(* repeat() began are told apart by their ids.                             *)
THEOREM ViewTypeCorrect == ViewSpec => []ViewTypeOK
BY ViewInvTypes, ViewInvAlways, PTL

(* finish() clears the timers of the view that is left, whatever has been  *)
(* clicked meanwhile: of the timers it does not reach there are never more *)
(* than scripts, renderings and answers that were under way when           *)
(* renderView() was called.                                                *)
THEOREM LeftViewsDoStop == ViewSpec => []LeftViewsStop
<1>1. ViewInv => LeftViewsStop
  BY StraysAreFew DEF LeftViewsStop
<1> QED
  BY <1>1, ViewInvAlways, PTL

-----------------------------------------------------------------------------
(* MCPage: the parts do not disturb each other.  A step of the page is one *)
(* of the session, of the RPC client or of the timers while the two others *)
(* stutter, so a behaviour of the page is one of each part.                *)
THEOREM PageIsItsParts ==
  PageSpec => /\ Init /\ [][Next]_vars
              /\ RpcInit /\ [][RpcNext]_rpcvars
              /\ ViewInit /\ [][ViewNext]_viewvars
<1>1. PageInit => Init /\ RpcInit /\ ViewInit
  BY DEF PageInit
<1>2. [PageNext]_pagevars => [Next]_vars /\ [RpcNext]_rpcvars /\ [ViewNext]_viewvars
  BY DEF PageNext, SessionStep, RpcStep, ViewStep, pagevars
<1> QED
  BY <1>1, <1>2, PTL DEF PageSpec

LEMMA PageInvAlways == PageSpec => [](Ground /\ RpcInv /\ ViewInv)
<1>1. RpcInit => RpcInv
  BY RpcStarts
<1>2. RpcInv /\ [RpcNext]_rpcvars => RpcInv'
  BY RpcInvKept
<1> QED
  BY <1>1, <1>2, InitReasons, NextReasons, ViewInitInv, ViewInvInductive, PageIsItsParts, PTL

(* The three parts keep their types beside each other (Session, Rpc,       *)
(* ViewTimers).                                                            *)
THEOREM PageTypeCorrect == PageSpec => []PageTypeOK
<1>1. Ground /\ RpcInv /\ ViewInv => PageTypeOK
  BY RpcInvTypes, ViewInvTypes DEF Ground, SessionInv, PageTypeOK
<1> QED
  BY <1>1, PageInvAlways, PTL

(* So do they keep what is proved of each of them: one heartbeat and one   *)
(* call of the session at a time, and no valid session given up too soon;  *)
(* the entry of every message, and the callers' own answers; and no timer  *)
(* of a view that was left, but for what was under way.                    *)
THEOREM PagePartsHold ==
  PageSpec => /\ []OneAtATime /\ ValidSessionKept
              /\ []RequestsMatch /\ []OwnAnswerUnlessThrown
              /\ []LeftViewsStop
<1>1. Ground /\ RpcInv /\ ViewInv =>
        OneAtATime /\ RequestsMatch /\ OwnAnswerUnlessThrown /\ LeftViewsStop
  BY RpcInvMatches, StraysAreFew DEF Ground, SessionInv, RpcInv, LeftViewsStop
<1>2. Ground /\ [Next]_vars =>
        [(hash \in valid /\ hash' = None) => lost' >= (IF deferred = "first" THEN 1 ELSE 2)]_vars
  BY StepKeeps
<1> QED
  BY <1>1, <1>2, PageInvAlways, PageIsItsParts, PTL DEF ValidSessionKept
==============================================================================

--------------------------- MODULE Upload_proofs ---------------------------
(***************************************************************************)
(* Theorems about Upload, for any files and any chunking.                  *)
(*                                                                         *)
(* OnlyIfGranted: a file is stored only for a session that was asked about *)
(* under its whole id and has the right.  Nothing is used of what the body *)
(* says, and it does not follow from the order of the parts in the body:   *)
(* the parser asks at the end of the part that carries the id; the part of *)
(* the file begins only if there is an id; and between two parts an id     *)
(* that is there has been asked about.                                     *)
(*                                                                         *)
(* The other theorems follow the parser through the form (Walk).  Before   *)
(* the file and behind it every form is the same, so that the position     *)
(* alone says where the parser is; in the file, what the temporary file    *)
(* holds, what waits to be passed on and what the parser holds back as a   *)
(* possible delimiter are together the file up to this position.           *)
(***************************************************************************)
EXTENDS Upload, SequenceTheorems, TLAPS

Fields == {"is_content_disposition", "parttype", "sessionid", "filename", "temp",
           "filedata", "target", "replies", "go", "mishaps"}

(* The states of the parser inside the data of a part.                     *)
DataStates == {"s_part_data", "s_part_data_almost_boundary", "s_part_data_boundary"}

Checked(s) == request.granted /\ s.sessionid = Sid

(* Outside the data of a part, inside it, and when the parser has stopped. *)
Between(s) ==
  /\ DOMAIN s = Fields /\ s.go /\ s.target = Old
  /\ s.sessionid # None => Checked(s)

Within(s) ==
  /\ DOMAIN s = Fields /\ s.go /\ s.target = Old
  /\ s.parttype # "sessionid" /\ s.sessionid # None => Checked(s)
  /\ s.parttype = "filedata" => s.sessionid # None

Stopped(s) ==
  /\ DOMAIN s = Fields /\ ~s.go
  /\ s.target # Old => Checked(s)

Good(s, p) == IF p \in DataStates THEN Within(s) ELSE Between(s)

Inv == IF state = "stopped" THEN Stopped(st) ELSE Good(st, state)

-----------------------------------------------------------------------------
(* Nothing is stored by an answer that reports a failure.                  *)
LEMMA RefusedStops ==
  ASSUME NEW s, DOMAIN s = Fields, s.target # Old => Checked(s)
  PROVE  Stopped(Refuse(s)) /\ Stopped(Break(s))
BY DEF Refuse, Break, Respond, Stopped, Checked, Fields

(* Headers do not touch the id.                                            *)
LEMMA HeaderKeeps ==
  ASSUME NEW s, NEW data, Between(s)
  PROVE  Between(header_field(s, data)) /\ \A r \in header_value(s, data) : Between(r)
BY DEF header_field, header_value, Between, Checked, Fields

(* The part of the file begins only if there is an id.                     *)
LEMMA BeginsWithin ==
  ASSUME NEW s, Between(s), NEW r \in data_begin_cb(s)
  PROVE  Within(r) \/ Stopped(r)
<1>1. Stopped(Refuse(s)) /\ Stopped(Break(s))
  BY RefusedStops DEF Between
<1>2. CASE s.parttype # "filedata"
  BY <1>2 DEF data_begin_cb, Between, Within, Checked
<1>3. CASE s.parttype = "filedata" /\ (s.sessionid = None \/ s.filename = None)
  BY <1>1, <1>3 DEF data_begin_cb
<1>4. CASE s.parttype = "filedata" /\ s.sessionid # None /\ s.filename # None
  <2>1. Within([s EXCEPT !.temp = <<>>])
    BY <1>4 DEF Between, Within, Checked, Fields
  <2> QED
    BY <1>1, <1>4, <2>1 DEF data_begin_cb
<1> QED
  BY <1>2, <1>3, <1>4

(* Data changes the id only in the part of the id.                         *)
LEMMA DataKeeps ==
  ASSUME NEW s, Within(s), NEW data, NEW r \in data_cb(s, data)
  PROVE  Within(r) \/ Stopped(r)
<1>1. Stopped(Break(s))
  BY RefusedStops DEF Within
<1>2. CASE s.parttype = "sessionid"
  <2>1. r = [s EXCEPT !.sessionid = data]
    BY <1>2 DEF data_cb
  <2> QED
    BY <1>2, <2>1 DEF Within, Checked, Fields
<1>3. CASE s.parttype = "filename"
  <2>1. r = [s EXCEPT !.filename = data]
    BY <1>3 DEF data_cb
  <2> QED
    BY <1>3, <2>1 DEF Within, Checked, Fields
<1>4. CASE s.parttype = "filedata"
  <2>1. \/ r = [s EXCEPT !.temp = @ \o data, !.filedata = @ \/ data # <<>>]
        \/ r = Break(s)
    BY <1>4 DEF data_cb
  <2> QED
    BY <1>1, <1>4, <2>1 DEF Within, Checked, Fields
<1>5. CASE s.parttype \notin {"sessionid", "filename", "filedata"}
  BY <1>5 DEF data_cb
<1> QED
  BY <1>2, <1>3, <1>4, <1>5

(* The end of a part: an id is asked about, a file is stored.              *)
LEMMA EndsBetween ==
  ASSUME NEW s, Within(s), NEW r \in data_end_cb(s)
  PROVE  Between(r) \/ Stopped(r)
<1>1. Stopped(Refuse(s)) /\ Stopped(Break(s))
  BY RefusedStops DEF Within
<1>2. CASE s.parttype = "sessionid"
  <2>1. CASE Checked(s)
    <3>1. r = [s EXCEPT !.parttype = None] \/ r = Break(s)
      BY <1>2, <2>1 DEF data_end_cb, Checked
    <3> QED
      BY <1>1, <2>1, <3>1 DEF Within, Between, Checked, Fields
  <2>2. CASE ~Checked(s)
    BY <1>1, <1>2, <2>2 DEF data_end_cb, Checked
  <2> QED
    BY <2>1, <2>2
<1>3. CASE s.parttype = "filedata"
  <2>1. Checked(s) /\ DOMAIN s = Fields
    BY <1>3 DEF Within
  <2>2. r \in filecopy(s)
    BY <1>3 DEF data_end_cb
  <2>3. ASSUME NEW content PROVE Stopped(Stored(s, content))
    BY <2>1 DEF Stored, Respond, Stopped, Checked, Fields
  <2>4. \/ r \in {Refuse(s), Break(s), [Break(s) EXCEPT !.target = None]}
        \/ \E content : r = Stored(s, content)
        \/ \E content : r = [Stored(s, content) EXCEPT !.mishaps = @ \cup {"read"}]
        \/ \E content : r = [Killed(s) EXCEPT !.target = content]
    BY <2>2 DEF filecopy
  <2>5. Stopped([Break(s) EXCEPT !.target = None])
    BY <2>1 DEF Break, Refuse, Respond, Stopped, Checked, Fields
  <2>6. ASSUME NEW t, Stopped(t) PROVE Stopped([t EXCEPT !.mishaps = @ \cup {"read"}])
    BY <2>6 DEF Stopped, Checked, Fields
  <2>7. ASSUME NEW content PROVE Stopped([Killed(s) EXCEPT !.target = content])
    BY <2>1 DEF Killed, Stopped, Checked, Fields
  <2> QED
    BY <1>1, <2>3, <2>4, <2>5, <2>6, <2>7
<1>4. CASE s.parttype \notin {"sessionid", "filedata"}
  <2>1. r = [s EXCEPT !.parttype = None]
    BY <1>4 DEF data_end_cb
  <2> QED
    BY <1>4, <2>1 DEF Within, Between, Checked, Fields
<1> QED
  BY <1>2, <1>3, <1>4

(* Noting that a chunk has ended changes nothing else.                     *)
LEMMA SplitKeeps ==
  ASSUME NEW outcomes, NEW last \in BOOLEAN, NEW p,
         \A s \in outcomes : Good(s, p) \/ Stopped(s)
  PROVE  \A r \in Split(outcomes, last) : Good(r, p) \/ Stopped(r)
<1>1. ASSUME NEW s, Good(s, p) \/ Stopped(s)
      PROVE  LET t == [s EXCEPT !.mishaps = @ \cup {"split"}] IN Good(t, p) \/ Stopped(t)
  BY <1>1 DEF Good, Between, Within, Stopped, Checked, Fields
<1> QED
  BY <1>1 DEF Split

(* A case whose outcomes are good ends in a good state.                    *)
LEMMA ContinueInv ==
  ASSUME NEW outcomes, NEW p, NEW idx, NEW text, NEW n,
         Continue(outcomes, p, idx, text, n), p # "stopped",
         \A s \in outcomes : Good(s, p) \/ Stopped(s)
  PROVE  Inv'
<1>1. PICK s \in outcomes : st' = s /\ state' = IF s.go THEN p ELSE "stopped"
  BY DEF Continue
<1>2. request' = request
  BY DEF Continue
<1>3. CASE Good(s, p)
  <2>1. s.go
    BY <1>3 DEF Good, Within, Between
  <2> QED
    BY <1>1, <1>2, <1>3, <2>1 DEF Inv, Good, Within, Between, Checked
<1>4. CASE Stopped(s)
  <2>1. ~s.go
    BY <1>4 DEF Stopped
  <2> QED
    BY <1>1, <1>2, <1>4, <2>1 DEF Inv, Stopped, Checked
<1> QED
  BY <1>1, <1>3, <1>4

(* Moving on without a callback, on the same side of the data, and giving  *)
(* up.                                                                     *)
LEMMA GotoInv ==
  ASSUME Inv, state # "stopped", state \notin DataStates,
         NEW p, p # "stopped", p \notin DataStates, NEW idx, Goto(p, idx)
  PROVE  Inv'
<1>1. \A s \in {st} : Good(s, p) \/ Stopped(s)
  BY DEF Inv, Good
<1> QED
  BY <1>1, ContinueInv DEF Goto

LEMMA GiveUpInv ==
  ASSUME Inv, state # "stopped", GiveUp
  PROVE  Inv'
<1> DEFINE O == {[st EXCEPT !.go = FALSE]}
<1>1. Stopped([st EXCEPT !.go = FALSE])
  BY DEF Inv, Good, Between, Within, Stopped, Checked, Fields
<1>2. \A s \in O : Good(s, state) \/ Stopped(s)
  BY <1>1
<1>3. Continue(O, state, 0, <<>>, 0)
  BY DEF GiveUp
<1> HIDE DEF O
<1> QED
  BY <1>2, <1>3, ContinueInv

-----------------------------------------------------------------------------
(* The cases in which a header is read.                                    *)
LEMMA HeaderInv ==
  ASSUME Inv, NEW last \in BOOLEAN, s_header_field(last) \/ s_header_value(last)
  PROVE  Inv'
<1>1. /\ state \in {"s_header_field", "s_header_value_start", "s_header_value"}
      /\ Between(st)
  BY DEF Inv, Good, DataStates, s_header_field, s_header_value, Expect
<1>2. ASSUME NEW outcomes, \A s \in outcomes : Between(s),
             NEW p \in {"s_header_field", "s_header_value_start", "s_header_value",
                        "s_header_value_almost_done"},
             NEW idx, NEW text, NEW n,
             \/ Continue(outcomes, p, idx, text, n)
             \/ Continue(Split(outcomes, last), p, idx, text, n)
      PROVE  Inv'
  <2>1. \A s \in outcomes : Good(s, p) \/ Stopped(s)
    BY <1>2 DEF Good, DataStates
  <2>2. \A s \in Split(outcomes, last) : Good(s, p) \/ Stopped(s)
    BY <2>1, SplitKeeps
  <2> QED
    BY <1>2, <2>1, <2>2, ContinueInv
<1>3. CASE s_header_field(last)
  <2>1. CASE c = "CR"
    BY <1>1, <1>3, <2>1, GotoInv DEF s_header_field, Expect, DataStates
  <2>2. CASE c = "-"
    <3>1. Continue(Split({st}, last), state, index, Rest(last), 1)
      BY <1>3, <2>2 DEF s_header_field
    <3> QED
      BY <1>1, <1>2, <3>1
  <2>3. CASE c = ":"
    <3>1. Continue({header_field(st, frag)}, "s_header_value_start", index, <<>>, 1)
      BY <1>3, <2>3 DEF s_header_field
    <3>2. \A s \in {header_field(st, frag)} : Between(s)
      BY <1>1, HeaderKeeps
    <3> QED
      BY <1>2, <3>1, <3>2
  <2>4. CASE c \notin {"CR", "-", ":"}
    <3> DEFINE O == IF last THEN {header_field(st, Text)} ELSE {st}
    <3>1. Continue(Split(O, last), state, index, Rest(last), 1)
      BY <1>3, <2>4 DEF s_header_field
    <3>2. \A s \in O : Between(s)
      BY <1>1, HeaderKeeps
    <3> HIDE DEF O
    <3> QED
      BY <1>1, <1>2, <3>1, <3>2
  <2> QED
    BY <2>1, <2>2, <2>3, <2>4
<1>4. CASE s_header_value(last)
  <2>1. CASE c = "CR"
    <3>1. Continue(header_value(st, frag), "s_header_value_almost_done", index, <<>>, 1)
      BY <1>4, <2>1 DEF s_header_value
    <3>2. \A s \in header_value(st, frag) : Between(s)
      BY <1>1, HeaderKeeps
    <3> QED
      BY <1>2, <3>1, <3>2
  <2>2. CASE c # "CR"
    <3> DEFINE O == IF last THEN header_value(st, Text) ELSE {st}
    <3>1. Continue(Split(O, last), "s_header_value", index, Rest(last), 1)
      BY <1>4, <2>2 DEF s_header_value
    <3>2. \A s \in O : Between(s)
      BY <1>1, HeaderKeeps
    <3> HIDE DEF O
    <3> QED
      BY <1>2, <3>1, <3>2
  <2> QED
    BY <2>1, <2>2
<1> QED
  BY <1>3, <1>4

(* The first byte of the data, and those after it.                         *)
LEMMA PartDataInv ==
  ASSUME Inv, NEW last \in BOOLEAN, s_part_data(last)
  PROVE  Inv'
<1> DEFINE begun == IF state = "s_part_data_start" THEN data_begin_cb(st) ELSE {st}
           passed(text) == UNION {IF s.go THEN data_cb(s, text) ELSE {s} : s \in begun}
<1>1. \A s \in begun : Within(s) \/ Stopped(s)
  <2>1. CASE state = "s_part_data_start"
    <3>1. Between(st)
      BY <2>1 DEF Inv, Good, DataStates
    <3> QED
      BY <2>1, <3>1, BeginsWithin
  <2>2. CASE state = "s_part_data"
    BY <2>2 DEF Inv, Good, DataStates
  <2> QED
    BY <2>1, <2>2 DEF s_part_data, Expect
<1>2. ASSUME NEW text, NEW r \in passed(text)
      PROVE  Within(r) \/ Stopped(r)
  <2>1. PICK s \in begun : r \in IF s.go THEN data_cb(s, text) ELSE {s}
    BY <1>2
  <2>2. CASE Within(s)
    <3>1. r \in data_cb(s, text)
      BY <2>1, <2>2 DEF Within
    <3> QED
      BY <2>2, <3>1, DataKeeps
  <2>3. CASE Stopped(s)
    BY <2>1, <2>3 DEF Stopped
  <2> QED
    BY <1>1, <2>1, <2>2, <2>3
<1>3. CASE c = "CR"
  <2>1. Continue(passed(frag), "s_part_data_almost_boundary", index, <<>>, 1)
    BY <1>3 DEF s_part_data
  <2>2. \A s \in passed(frag) : Good(s, "s_part_data_almost_boundary") \/ Stopped(s)
    BY <1>2 DEF Good, DataStates
  <2> HIDE DEF passed
  <2> QED
    BY <2>1, <2>2, ContinueInv
<1>4. CASE c # "CR"
  <2> DEFINE O == IF last THEN passed(Text) ELSE begun
             cut == last /\ st.parttype # "filedata"
  <2>1. Continue(Split(O, cut), "s_part_data", index, Rest(last), 1)
    BY <1>4 DEF s_part_data
  <2>2. \A s \in O : Good(s, "s_part_data") \/ Stopped(s)
    BY <1>1, <1>2 DEF Good, DataStates
  <2>3. cut \in BOOLEAN
    OBVIOUS
  <2> HIDE DEF O, cut
  <2>4. \A s \in Split(O, cut) : Good(s, "s_part_data") \/ Stopped(s)
    BY <2>2, <2>3, SplitKeeps
  <2> QED
    BY <2>1, <2>4, ContinueInv
<1> QED
  BY <1>3, <1>4

(* What may be the boundary, and the end of the part behind it.            *)
LEMMA BoundaryInv ==
  ASSUME Inv, s_part_data_almost_boundary \/ s_part_data_boundary
  PROVE  Inv'
<1>1. Within(st)
  BY DEF Inv, Good, DataStates, s_part_data_almost_boundary, s_part_data_boundary, Expect
<1>2. ASSUME NEW text, NEW idx, NEW n, Continue(data_cb(st, text), "s_part_data", idx, <<>>, n)
      PROVE  Inv'
  <2>1. \A s \in data_cb(st, text) : Good(s, "s_part_data") \/ Stopped(s)
    BY <1>1, DataKeeps DEF Good, DataStates
  <2> QED
    BY <1>2, <2>1, ContinueInv
<1>3. ASSUME NEW p \in DataStates, NEW idx, Goto(p, idx) PROVE Inv'
  <2>1. \A s \in {st} : Good(s, p) \/ Stopped(s)
    BY <1>1 DEF Good
  <2>2. p # "stopped"
    BY DEF DataStates
  <2> QED
    BY <1>3, <2>1, <2>2, ContinueInv DEF Goto
<1>4. CASE s_part_data_almost_boundary
  <2>1. \/ Goto("s_part_data_boundary", 0)
        \/ Continue(data_cb(st, <<"CR">>), "s_part_data", index, <<>>, 0)
    BY <1>4 DEF s_part_data_almost_boundary
  <2> QED
    BY <1>2, <1>3, <2>1 DEF DataStates
<1>5. CASE s_part_data_boundary
  <2>1. \/ Continue(data_cb(st, SubSeq(Delimiter, 1, 2 + index)), "s_part_data", index, <<>>, 0)
        \/ Goto("s_part_data_boundary", index + 1)
        \/ Continue(data_end_cb(st), "s_part_data_almost_end", index + 1, <<>>, 1)
    BY <1>5 DEF s_part_data_boundary, Expect
  <2>2. \A s \in data_end_cb(st) : Good(s, "s_part_data_almost_end") \/ Stopped(s)
    BY <1>1, EndsBetween DEF Good, DataStates
  <2> QED
    BY <1>2, <1>3, <2>1, <2>2, ContinueInv DEF DataStates
<1> QED
  BY <1>4, <1>5

(* The cases that call nothing.                                            *)
LEMMA QuietInv ==
  ASSUME Inv,
         \/ s_start_boundary \/ s_headers_almost_done \/ s_header_value_start
         \/ s_header_value_almost_done \/ s_part_data_almost_end
         \/ s_part_data_final_hyphen \/ s_part_data_end \/ s_end
  PROVE  Inv'
<1>1. state \notin DataStates /\ state # "stopped"
  BY DEF DataStates, Expect, s_start_boundary, s_headers_almost_done, s_header_value_start,
         s_header_value_almost_done, s_part_data_almost_end, s_part_data_final_hyphen,
         s_part_data_end, s_end
<1>2. GiveUp \/ \E p, idx : p \notin DataStates /\ p # "stopped" /\ Goto(p, idx)
  <2>1. CASE s_start_boundary
    BY <1>1, <2>1 DEF s_start_boundary, DataStates
  <2>2. CASE s_headers_almost_done \/ s_header_value_start \/ s_header_value_almost_done
    BY <1>1, <2>2 DEF s_headers_almost_done, s_header_value_start,
                      s_header_value_almost_done, DataStates
  <2>3. CASE s_part_data_almost_end
    BY <2>3 DEF s_part_data_almost_end, DataStates
  <2>4. CASE s_part_data_final_hyphen \/ s_part_data_end \/ s_end
    BY <1>1, <2>4 DEF s_part_data_final_hyphen, s_part_data_end, s_end, DataStates
  <2> QED
    BY <2>1, <2>2, <2>3, <2>4
<1> QED
  BY <1>1, <1>2, GotoInv, GiveUpInv

-----------------------------------------------------------------------------
(* Every byte of the body, its end, and the page keep the invariant.       *)
LEMMA NextInv ==
  ASSUME Inv, [Next]_vars
  PROVE  Inv'
<1>1. ASSUME NEW last \in BOOLEAN, Parse(last) PROVE Inv'
  BY <1>1, HeaderInv, PartDataInv, BoundaryInv, QuietInv DEF Parse
<1>2. CASE Eof
  <2>1. DOMAIN st = Fields /\ st.target = Old
    BY <1>2 DEF Inv, Good, Between, Within, Stopped, Eof
  <2>2. \A m : Stopped([st EXCEPT !.go = FALSE, !.mishaps = m])
    BY <2>1 DEF Stopped, Checked, Fields
  <2>3. Stopped(st') /\ state' = "stopped" /\ request' = request
    BY <1>2, <2>2 DEF Eof
  <2> QED
    BY <2>3 DEF Inv, Stopped, Checked
<1>3. CASE finish_cb \/ UNCHANGED vars
  <2>1. UNCHANGED <<request, state, st>>
    BY <1>3 DEF finish_cb, vars
  <2> QED
    BY <2>1 DEF Inv, Good, Between, Within, Stopped, Checked
<1>4. CASE Kill
  <2>1. DOMAIN st = Fields /\ st.target = Old
    BY <1>4 DEF Inv, Good, Between, Within, Stopped, Kill
  <2>2. Stopped(Killed(st))
    BY <2>1 DEF Killed, Stopped, Checked, Fields
  <2>3. Stopped(st') /\ state' = "stopped" /\ request' = request
    BY <1>4, <2>2 DEF Kill
  <2> QED
    BY <2>3 DEF Inv, Stopped, Checked
<1> QED
  BY <1>1, <1>2, <1>3, <1>4 DEF Next

(* luci-upload stores a file only for a session that it asked about under  *)
(* its whole id and that had the right (data_begin_cb, data_end_cb),       *)
(* whatever the file holds and however the body is cut.                    *)
THEOREM OnlyIfGranted == Spec => []StoredIfGranted
<1>1. Init => Inv
  BY DEF Init, Inv, Good, Between, DataStates, Fields
<1>2. Inv => StoredIfGranted
  BY DEF Inv, Good, Between, Within, Stopped, Checked, StoredIfGranted
<1> QED
  BY <1>1, <1>2, NextInv, PTL DEF Spec

-----------------------------------------------------------------------------
(* What the form is, byte by byte.                                         *)
Tokens == {"CR", "LF", "content", "-", "dispo", "sition", ":", "SP", "form-data",
           "session", "id", "file", "name", "data", "quote", "rest", "type", "mime",
           "i", "d", "/tmp/", "b", "x"}

FormHead ==
  <<"-", "-", "b",
    "CR", "LF", "content", "-", "dispo", "sition", ":", "SP", "form-data",
    "session", "id", "quote", "CR", "LF", "CR", "LF", "i", "d",
    "CR", "LF", "-", "-", "b",
    "CR", "LF", "content", "-", "dispo", "sition", ":", "SP", "form-data",
    "file", "name", "quote", "CR", "LF", "CR", "LF", "/tmp/", "name",
    "CR", "LF", "-", "-", "b",
    "CR", "LF", "content", "-", "dispo", "sition", ":", "SP", "form-data",
    "file", "data", "quote", "rest", "CR", "LF",
    "content", "-", "type", ":", "SP", "mime", "CR", "LF", "CR", "LF">>

FormTail == <<"CR", "LF", "-", "-", "b", "-", "-", "CR", "LF">>

Shaped(body, f) ==
  /\ body \in Seq(Tokens) /\ Len(body) = Len(f) + 83
  /\ \A i \in Nat : 1 <= i /\ i <= 74 => body[i] = FormHead[i]
  /\ \A i \in 75 .. Len(f) + 74 : body[i] = f[i - 74]
  /\ \A i \in Len(f) + 75 .. Len(f) + 83 : body[i] = FormTail[i - (Len(f) + 74)]

LEMMA Joined ==
  ASSUME NEW s \in Seq(Tokens), NEW t \in Seq(Tokens), NEW m \in Nat, Len(s) = m
  PROVE  /\ s \o t \in Seq(Tokens) /\ Len(s \o t) = m + Len(t)
         /\ \A i \in 1 .. m : (s \o t)[i] = s[i]
         /\ \A i \in m + 1 .. m + Len(t) : (s \o t)[i] = t[i - m]
OBVIOUS

LEMMA SameSequence ==
  ASSUME NEW S, NEW s \in Seq(S), NEW t \in Seq(S), Len(s) = Len(t),
         \A i \in 1 .. Len(s) : s[i] = t[i]
  PROVE  s = t
OBVIOUS

LEMMA BodyShaped ==
  ASSUME NEW f \in Files
  PROVE  Shaped(Body(f), f)
<1> DEFINE front == Boundary
             \o FormPart(Spelling.sessionid, <<>>, <<>>, Sid) \o Delimiter
             \o FormPart(Spelling.filename, <<>>, <<>>, Name) \o Delimiter
           head == Newline \o DispositionField \o <<":", "SP", "form-data">>
             \o Spelling.filedata \o <<"quote">> \o <<"rest">> \o Newline
             \o (<<"content", "-", "type", ":", "SP", "mime">> \o Newline) \o Newline
           a == head \o f
           b == front \o a
           d == b \o Delimiter
           e == d \o <<"-", "-">>
<1>1. f \in Seq(Tokens) /\ Len(f) \in Nat
  BY FilesAssumption DEF Tokens
<1>2. Body(f) = e \o Newline
  BY DEF Body, FormPart
<1>3. front \in Seq(Tokens) /\ Len(front) = 49 /\ \A i \in 1 .. 49 : front[i] = FormHead[i]
  BY DEF FormHead, FormPart, Spelling, Newline, DispositionField, Sid, Name, Boundary,
         Delimiter, Tokens
<1>4. head \in Seq(Tokens) /\ Len(head) = 25 /\ \A i \in 1 .. 25 : head[i] = FormHead[i + 49]
  BY DEF FormHead, FormPart, Spelling, Newline, DispositionField, Tokens
<1>5. /\ Delimiter \in Seq(Tokens) /\ Len(Delimiter) = 5
      /\ \A i \in 1 .. 5 : Delimiter[i] = FormTail[i]
  BY DEF Delimiter, Newline, Boundary, Tokens, FormTail
<1>6. /\ a \in Seq(Tokens) /\ Len(a) = Len(f) + 25
      /\ \A i \in 1 .. 25 : a[i] = FormHead[i + 49]
      /\ \A i \in 26 .. Len(f) + 25 : a[i] = f[i - 25]
  <2> HIDE DEF head
  <2>1. PICK m \in Nat : m = 25
    OBVIOUS
  <2>2. Len(head) = m
    BY <2>1, <1>4
  <2>3. /\ a \in Seq(Tokens) /\ Len(a) = m + Len(f)
        /\ \A i \in 1 .. m : a[i] = head[i]
        /\ \A i \in m + 1 .. m + Len(f) : a[i] = f[i - m]
    BY <2>2, <1>1, <1>4, Joined, ZenonT(60)
  <2> HIDE DEF a
  <2>4. ASSUME NEW i \in 1 .. 25 PROVE a[i] = FormHead[i + 49]
    BY <2>1, <2>3, <1>4
  <2>5. ASSUME NEW i \in 26 .. Len(f) + 25 PROVE a[i] = f[i - 25]
    BY <2>1, <2>3, <1>1
  <2> QED
    BY <2>1, <2>3, <2>4, <2>5, <1>1
<1> HIDE DEF a, front
<1>7. /\ b \in Seq(Tokens) /\ Len(b) = Len(f) + 74
      /\ \A i \in 1 .. 74 : b[i] = FormHead[i]
      /\ \A i \in 75 .. Len(f) + 74 : b[i] = f[i - 74]
  <2>1. PICK m \in Nat : m = 49
    OBVIOUS
  <2>2. Len(front) = m
    BY <2>1, <1>3
  <2>3. /\ b \in Seq(Tokens) /\ Len(b) = m + Len(a)
        /\ \A i \in 1 .. m : b[i] = front[i]
        /\ \A i \in m + 1 .. m + Len(a) : b[i] = a[i - m]
    BY <2>2, <1>1, <1>3, <1>6, Joined, ZenonT(60)
  <2> HIDE DEF b
  <2>4. ASSUME NEW i \in 50 .. 74 PROVE b[i] = FormHead[i]
    <3>0. Len(a) = Len(f) + 25
      BY <1>6
    <3>1. i - m \in 1 .. 25 /\ i - m + 49 = i /\ i \in m + 1 .. m + Len(a)
      BY <3>0, <2>1, <1>1
    <3>2. b[i] = a[i - m]
      BY <3>1, <2>3
    <3>3. a[i - m] = FormHead[i - m + 49]
      BY <3>1, <1>6
    <3> QED
      BY <3>1, <3>2, <3>3
  <2>5. ASSUME NEW i \in 75 .. Len(f) + 74 PROVE b[i] = f[i - 74]
    <3>1. i - m \in 26 .. Len(f) + 25 /\ i - m - 25 = i - 74 /\ i \in m + 1 .. m + Len(a)
      BY <2>1, <1>1, <1>6
    <3>2. b[i] = a[i - m]
      BY <3>1, <2>3
    <3>3. a[i - m] = f[i - m - 25]
      BY <3>1, <1>6
    <3> QED
      BY <3>1, <3>2, <3>3
  <2>6. b \in Seq(Tokens) /\ Len(b) = Len(f) + 74
    BY <2>1, <2>3, <1>1, <1>6
  <2>7. ASSUME NEW i \in 1 .. 49 PROVE b[i] = FormHead[i]
    BY <2>1, <2>3, <1>3
  <2>8. \A i \in 1 .. 74 : i \in 1 .. 49 \/ i \in 50 .. 74
    OBVIOUS
  <2> QED
    BY <2>4, <2>5, <2>6, <2>7, <2>8
<1> HIDE DEF b
<1>8. /\ d \in Seq(Tokens) /\ Len(d) = Len(f) + 79
      /\ \A i \in 1 .. Len(f) + 74 : d[i] = b[i]
      /\ \A i \in Len(f) + 75 .. Len(f) + 79 : d[i] = FormTail[i - (Len(f) + 74)]
  <2>1. PICK m \in Nat : m = Len(f) + 74
    BY <1>1
  <2>2. Len(b) = m
    BY <2>1, <1>7
  <2>3. /\ d \in Seq(Tokens) /\ Len(d) = m + Len(Delimiter)
        /\ \A i \in 1 .. m : d[i] = b[i]
        /\ \A i \in m + 1 .. m + Len(Delimiter) : d[i] = Delimiter[i - m]
    BY <2>2, <1>5, <1>7, Joined, ZenonT(60)
  <2> HIDE DEF d
  <2>4. ASSUME NEW i \in Len(f) + 75 .. Len(f) + 79
        PROVE  d[i] = FormTail[i - (Len(f) + 74)]
    <3>1. i - m \in 1 .. 5 /\ i - m = i - (Len(f) + 74) /\ i \in m + 1 .. m + 5
      BY <2>1, <1>1
    <3> QED
      BY <3>1, <2>3, <1>5
  <2> QED
    BY <2>1, <2>3, <2>4, <1>1, <1>5
<1> HIDE DEF d
<1>9. /\ e \in Seq(Tokens) /\ Len(e) = Len(f) + 81
      /\ \A i \in 1 .. Len(f) + 79 : e[i] = d[i]
      /\ \A i \in Len(f) + 80 .. Len(f) + 81 : e[i] = "-"
  <2> DEFINE hyphens == <<"-", "-">>
  <2>1. hyphens \in Seq(Tokens) /\ Len(hyphens) = 2 /\ \A i \in 1 .. 2 : hyphens[i] = "-"
    BY DEF Tokens
  <2>2. PICK m \in Nat : m = Len(f) + 79
    BY <1>1
  <2>3. Len(d) = m
    BY <2>2, <1>8
  <2> HIDE DEF hyphens
  <2>4. e = d \o hyphens
    BY DEF hyphens
  <2> HIDE DEF e
  <2>5. /\ d \o hyphens \in Seq(Tokens) /\ Len(d \o hyphens) = m + Len(hyphens)
        /\ \A i \in 1 .. m : (d \o hyphens)[i] = d[i]
        /\ \A i \in m + 1 .. m + Len(hyphens) : (d \o hyphens)[i] = hyphens[i - m]
    BY <2>1, <2>3, <1>8, Joined, ZenonT(60)
  <2>6. ASSUME NEW i \in Len(f) + 80 .. Len(f) + 81 PROVE e[i] = "-"
    <3>1. i - m \in 1 .. 2 /\ i \in m + 1 .. m + 2
      BY <2>2, <1>1
    <3> QED
      BY <3>1, <2>1, <2>4, <2>5
  <2> QED
    BY <2>1, <2>2, <2>4, <2>5, <2>6, <1>1
<1> HIDE DEF e
<1>10. /\ e \o Newline \in Seq(Tokens) /\ Len(e \o Newline) = Len(f) + 83
       /\ \A i \in 1 .. Len(f) + 81 : (e \o Newline)[i] = e[i]
       /\ \A i \in Len(f) + 82 .. Len(f) + 83 : (e \o Newline)[i] = Newline[i - (Len(f) + 81)]
  <2>1. Newline \in Seq(Tokens) /\ Len(Newline) = 2
    BY DEF Tokens, Newline
  <2>2. PICK m \in Nat : m = Len(f) + 81
    BY <1>1
  <2>3. Len(e) = m
    BY <2>2, <1>9
  <2>4. /\ e \o Newline \in Seq(Tokens) /\ Len(e \o Newline) = m + Len(Newline)
        /\ \A i \in 1 .. m : (e \o Newline)[i] = e[i]
        /\ \A i \in m + 1 .. m + Len(Newline) : (e \o Newline)[i] = Newline[i - m]
    BY <2>1, <2>3, <1>9, Joined, ZenonT(60)
  <2> QED
    BY <2>1, <2>2, <2>4, <1>1
<1>11. /\ FormTail[6] = "-" /\ FormTail[7] = "-" /\ FormTail[8] = Newline[1] /\ FormTail[9] = Newline[2]
  BY DEF FormTail, Newline
<1>12. ASSUME NEW i \in Len(f) + 80 .. Len(f) + 83
       PROVE  (e \o Newline)[i] = FormTail[i - (Len(f) + 74)]
  <2>1. i \in {Len(f) + 80, Len(f) + 81, Len(f) + 82, Len(f) + 83}
    BY <1>1
  <2> QED
    BY <2>1, <1>1, <1>9, <1>10, <1>11, SMTT(30)
<1> HIDE DEF front, head, a, b, d
<1> DEFINE body == e \o Newline
<1>13. ASSUME NEW i \in 1 .. Len(f) + 74 PROVE body[i] = b[i]
  <2>1. i \in 1 .. Len(f) + 79 /\ i \in 1 .. Len(f) + 81
    BY <1>1
  <2> QED
    BY <2>1, <1>8, <1>9, <1>10
<1>14. \A i \in 1 .. 74 : i \in 1 .. Len(f) + 74
  BY <1>1
<1>15. ASSUME NEW i \in Len(f) + 75 .. Len(f) + 79 PROVE body[i] = FormTail[i - (Len(f) + 74)]
  BY <1>1, <1>8, <1>9, <1>10
<1> HIDE DEF body
<1>16. \A i \in Len(f) + 75 .. Len(f) + 83 :
         i \in Len(f) + 75 .. Len(f) + 79 \/ i \in Len(f) + 80 .. Len(f) + 83
  BY <1>1
<1>17. Shaped(body, f)
  <2>1. \A i \in 1 .. 74 : body[i] = FormHead[i]
    BY <1>7, <1>13, <1>14
  <2>2. ASSUME NEW i \in 75 .. Len(f) + 74 PROVE body[i] = f[i - 74]
    <3>1. i \in 1 .. Len(f) + 74
      BY <1>1
    <3> QED
      BY <3>1, <1>7, <1>13
  <2>3. \A i \in Len(f) + 75 .. Len(f) + 83 : body[i] = FormTail[i - (Len(f) + 74)]
    BY <1>12, <1>15, <1>16, ZenonT(60) DEF body
  <2>4. \A i \in Nat : 1 <= i /\ i <= 74 => body[i] = FormHead[i]
    BY <2>1
  <2> QED
    BY <1>10, <2>2, <2>3, <2>4 DEF Shaped, body
<1> QED
  BY <1>2, <1>17 DEF body

-----------------------------------------------------------------------------
(* The walk of the parser through the form.  What stands before the file   *)
(* and behind it is the same for every file, so that the position alone    *)
(* determines the state of the parser there.  f and g are what the request *)
(* carries, s is the state of main.c, and i, p, x, t are what at, state,   *)
(* index and frag are.                                                     *)
Form(r) == r \in {[file |-> f, body |-> Body(f), granted |-> g] : f \in Files, g \in BOOLEAN}

TailAt(f) == Len(f) + 80

Among(i, a, z) == a <= i /\ i <= z

(* Where the parser is in the name of a header, and in its value.          *)
FieldAt(i) ==
  \/ Among(i, 6, 10) \/ i = 18 \/ Among(i, 29, 33) \/ i = 41
  \/ Among(i, 52, 56) \/ Among(i, 65, 68) \/ i = 73

StartAt(i) == i \in {11, 12, 34, 35, 57, 58, 69, 70}
ValueAt(i) == Among(i, 13, 16) \/ Among(i, 36, 39) \/ Among(i, 59, 63) \/ i = 71

InHead(i, p, x) ==
  \/ Among(i, 1, 5) /\ p = "s_start_boundary" /\ x = i - 1
  \/ FieldAt(i) /\ p = "s_header_field"
  \/ StartAt(i) /\ p = "s_header_value_start"
  \/ ValueAt(i) /\ p = "s_header_value"
  \/ i \in {17, 40, 64, 72} /\ p = "s_header_value_almost_done"
  \/ i \in {19, 42, 74} /\ p = "s_headers_almost_done"
  \/ i \in {20, 43} /\ p = "s_part_data_start"
  \/ i \in {21, 22, 44, 45} /\ p = "s_part_data"
  \/ i \in {23, 46} /\ p = "s_part_data_almost_boundary"
  \/ Among(i, 24, 26) /\ p = "s_part_data_boundary" /\ x = i - 24
  \/ Among(i, 47, 49) /\ p = "s_part_data_boundary" /\ x = i - 47
  \/ i \in {27, 50} /\ p = "s_part_data_almost_end"
  \/ i \in {28, 51} /\ p = "s_part_data_end"

(* How many bytes that may belong to a delimiter are held back.            *)
Held(p, x) ==
  IF p = "s_part_data_almost_boundary" THEN 1
  ELSE IF p = "s_part_data_boundary" THEN 2 + x ELSE 0

(* In the file, or in the delimiter behind it; there the parser holds back *)
(* all that has come of the delimiter.                                     *)
Delayed(f, i, h) ==
  /\ h <= i - 75
  /\ \A j \in 1 .. h : Body(f)[i - h - 1 + j] = Delimiter[j]
  /\ i - 75 > Len(f) => h = i - 75 - Len(f)

InFile(f, i, p, x) ==
  /\ 75 <= i /\ i < TailAt(f)
  /\ p \in DataStates \cup {"s_part_data_start"}
  /\ p = "s_part_data_start" <=> i = 75
  /\ p = "s_part_data_boundary" => x <= 2
  /\ Delayed(f, i, Held(p, x))

InTail(f, i, p) ==
  \/ i = TailAt(f) /\ p = "s_part_data_almost_end"
  \/ i = TailAt(f) + 1 /\ p = "s_part_data_final_hyphen"
  \/ Among(i, TailAt(f) + 2, TailAt(f) + 4) /\ p = "s_end"

Placed(f, i, p, x) ==
  /\ i \in Nat /\ x \in Nat /\ x <= 4
  /\ InHead(i, p, x) \/ InFile(f, i, p, x) \/ InTail(f, i, p)

(* Nothing has been decided.                                               *)
Live(s) ==
  /\ DOMAIN s = Fields /\ s.go
  /\ s.replies = <<>> /\ s.target = Old
  /\ s.mishaps \subseteq {"split"}
  /\ s.parttype \in {None, "sessionid", "filename", "filedata"}

(* The temporary file, and the text that waits, are the first m bytes of   *)
(* the file; main.c knows if there is any.  This is so as far as the       *)
(* parser holds nothing back.                                              *)
Gathered(f, s, m, t) ==
  /\ s.temp \in Seq(Tokens) /\ t \in Seq(Tokens)
  /\ s.temp \o t = SubSeq(f, 1, m)
  /\ s.temp # <<>> => s.filedata

Copied(f, s, i, p, x, t) ==
  /\ Gathered(f, s, i - Held(p, x) - 75, t)
  /\ Held(p, x) > 0 => t = <<>>

(* What main.c knows, however the body is cut into chunks: before the      *)
(* file, and in it.                                                        *)
KnownHead(s, i) ==
  /\ i <= 19 => s.sessionid = None /\ s.filename = None
  /\ Among(i, 20, 26) => /\ s.parttype # "sessionid" => s.sessionid = None
                         /\ s.parttype # "filename" => s.filename = None
  /\ Among(i, 27, 43) => s.sessionid = None \/ s.filename = None
  /\ Among(i, 21, 26) \/ Among(i, 44, 49) => s.parttype # "filedata"

KnownFile(f, s, i, p, x, t) ==
  /\ i = 75 => t = <<>>
  /\ (75 < i /\ i < TailAt(f) /\ s.parttype = "filedata") => Copied(f, s, i, p, x, t)

(* What it knows when no chunk has ended inside a header, an id or a name; *)
(* then the end of the file is also the end of the request.                *)
Undivided(f, g, s, i) ==
  /\ Among(i, 11, 16) \/ Among(i, 34, 39) \/ Among(i, 57, 63) => s.is_content_disposition
  /\ Among(i, 69, 71) => ~s.is_content_disposition
  /\ Among(i, 17, 26) => s.parttype = "sessionid"
  /\ Among(i, 40, 49) => s.parttype = "filename"
  /\ i >= 64 => s.parttype = "filedata"
  /\ i >= 23 => s.sessionid = Sid
  /\ i >= 27 => g
  /\ i >= 46 => s.filename = Name
  /\ i < TailAt(f)

(* The text that waits at a position before the file.                      *)
TextFrom(f, a, i, t) == t = SubSeq(Body(f), a, i - 1)

Waiting(f, i, t) ==
  /\ Among(i, 6, 10) => TextFrom(f, 6, i, t)
  /\ Among(i, 12, 16) => TextFrom(f, 12, i, t)
  /\ Among(i, 20, 22) => TextFrom(f, 20, i, t)
  /\ Among(i, 29, 33) => TextFrom(f, 29, i, t)
  /\ Among(i, 35, 39) => TextFrom(f, 35, i, t)
  /\ Among(i, 43, 45) => TextFrom(f, 43, i, t)
  /\ Among(i, 52, 56) => TextFrom(f, 52, i, t)
  /\ Among(i, 58, 63) => TextFrom(f, 58, i, t)
  /\ Among(i, 65, 68) => TextFrom(f, 65, i, t)
  /\ Among(i, 70, 71) => TextFrom(f, 70, i, t)

Fits(f, g, s, i, p, x, t) ==
  /\ Placed(f, i, p, x) /\ Live(s)
  /\ KnownHead(s, i) /\ KnownFile(f, s, i, p, x, t)
  /\ s.mishaps = {} => Undivided(f, g, s, i) /\ Waiting(f, i, t)

Finished(f, g, s) ==
  /\ DOMAIN s = Fields /\ ~s.go
  /\ s.parttype \in {None, "sessionid", "filename", "filedata"}
  /\ s.mishaps \subseteq {"cut", "split", "io", "read", "killed"}
  /\ "read" \notin s.mishaps =>
       \/ s.target \in {Old, None} \cup [name : {s.filename}, content : {f}]
       \/ "killed" \in s.mishaps /\ s.replies = <<>>
  /\ Len(s.replies) <= 1
  /\ s.mishaps \cap {"cut", "split", "killed"} = {} => Len(s.replies) = 1
  /\ s.mishaps = {} /\ g /\ f # <<>> =>
       s.replies = <<"success">> /\ s.target = [name |-> Name, content |-> f]

Walk ==
  /\ Form(request)
  /\ page \in {"progress", "uploaded", "error"}
  /\ at \in 1 .. Len(request.body) + 1
  /\ IF state = "stopped" THEN Finished(request.file, request.granted, st) /\ index = 0
     ELSE Fits(request.file, request.granted, st, at, state, index, frag)

-----------------------------------------------------------------------------
(* The bytes before the file, by what the parser looks for.                *)
LEMMA HeadBytes ==
  /\ \A i \in {4, 16, 18, 22, 27, 39, 41, 45, 50, 63, 71, 73} : FormHead[i] = "CR"
  /\ \A i \in {5, 17, 19, 23, 28, 40, 42, 46, 51, 64, 72, 74} : FormHead[i] = "LF"
  /\ \A i \in {10, 33, 56, 68} : FormHead[i] = ":"
  /\ \A i \in {11, 34, 57, 69} : FormHead[i] = "SP"
  /\ \A i \in {7, 30, 53, 66} : FormHead[i] = "-"
<1>1. /\ FormHead[4] = "CR" /\ FormHead[16] = "CR" /\ FormHead[18] = "CR"
      /\ FormHead[22] = "CR" /\ FormHead[27] = "CR" /\ FormHead[39] = "CR"
      /\ FormHead[41] = "CR" /\ FormHead[45] = "CR" /\ FormHead[50] = "CR"
      /\ FormHead[63] = "CR" /\ FormHead[71] = "CR" /\ FormHead[73] = "CR"
  BY DEF FormHead
<1>2. /\ FormHead[5] = "LF" /\ FormHead[17] = "LF" /\ FormHead[19] = "LF"
      /\ FormHead[23] = "LF" /\ FormHead[28] = "LF" /\ FormHead[40] = "LF"
      /\ FormHead[42] = "LF" /\ FormHead[46] = "LF" /\ FormHead[51] = "LF"
      /\ FormHead[64] = "LF" /\ FormHead[72] = "LF" /\ FormHead[74] = "LF"
  BY DEF FormHead
<1>3. FormHead[10] = ":" /\ FormHead[33] = ":" /\ FormHead[56] = ":" /\ FormHead[68] = ":"
  BY DEF FormHead
<1>4. FormHead[11] = "SP" /\ FormHead[34] = "SP" /\ FormHead[57] = "SP" /\ FormHead[69] = "SP"
  BY DEF FormHead
<1>5. FormHead[7] = "-" /\ FormHead[30] = "-" /\ FormHead[53] = "-" /\ FormHead[66] = "-"
  BY DEF FormHead
<1> QED
  BY <1>1, <1>2, <1>3, <1>4, <1>5

(* The delimiters before the file.                                         *)
LEMMA HeadBoundary ==
  /\ \A i \in 1 .. 3 : FormHead[i] = Boundary[i]
  /\ \A i \in 24 .. 26 : FormHead[i] = Boundary[i - 23]
  /\ \A i \in 47 .. 49 : FormHead[i] = Boundary[i - 46]
<1>1. /\ FormHead[1] = "-" /\ FormHead[2] = "-" /\ FormHead[3] = "b"
      /\ FormHead[24] = "-" /\ FormHead[25] = "-" /\ FormHead[26] = "b"
      /\ FormHead[47] = "-" /\ FormHead[48] = "-" /\ FormHead[49] = "b"
  BY DEF FormHead
<1>2. Boundary[1] = "-" /\ Boundary[2] = "-" /\ Boundary[3] = "b"
  BY DEF Boundary
<1>3. /\ \A i \in 1 .. 3 : i = 1 \/ i = 2 \/ i = 3
      /\ \A i \in 24 .. 26 : i = 24 \/ i = 25 \/ i = 26
      /\ \A i \in 47 .. 49 : i = 47 \/ i = 48 \/ i = 49
  OBVIOUS
<1> QED
  BY <1>1, <1>2, <1>3

(* The bytes of the texts before the file.                                 *)
LEMMA HeadPlain ==
  /\ \A i \in {6, 8, 9, 29, 31, 32, 52, 54, 55, 65, 67} : FormHead[i] \notin {"CR", "-", ":"}
  /\ \A i \in (12 .. 15) \cup (35 .. 38) \cup (58 .. 62) \cup {70} :
       FormHead[i] \notin {"CR", "SP"}
  /\ \A i \in {20, 21, 43, 44} : FormHead[i] # "CR"
<1>1. /\ FormHead[6] = "content" /\ FormHead[8] = "dispo" /\ FormHead[9] = "sition"
      /\ FormHead[29] = "content" /\ FormHead[31] = "dispo" /\ FormHead[32] = "sition"
      /\ FormHead[52] = "content" /\ FormHead[54] = "dispo" /\ FormHead[55] = "sition"
      /\ FormHead[65] = "content" /\ FormHead[67] = "type"
  BY DEF FormHead
<1>2. /\ FormHead[12] = "form-data" /\ FormHead[13] = "session" /\ FormHead[14] = "id"
      /\ FormHead[15] = "quote"
      /\ FormHead[35] = "form-data" /\ FormHead[36] = "file" /\ FormHead[37] = "name"
      /\ FormHead[38] = "quote"
      /\ FormHead[58] = "form-data" /\ FormHead[59] = "file" /\ FormHead[60] = "data"
      /\ FormHead[61] = "quote" /\ FormHead[62] = "rest" /\ FormHead[70] = "mime"
  BY DEF FormHead
<1>3. /\ FormHead[20] = "i" /\ FormHead[21] = "d" /\ FormHead[43] = "/tmp/"
      /\ FormHead[44] = "name"
  BY DEF FormHead
<1>4. \A i \in (12 .. 15) \cup (35 .. 38) \cup (58 .. 62) \cup {70} :
        i \in {12, 13, 14, 15, 35, 36, 37, 38, 58, 59, 60, 61, 62, 70}
  OBVIOUS
<1> QED
  BY <1>1, <1>2, <1>3, <1>4

(* The body of a form, and its bytes before, behind and in the file.       *)
LEMMA FormShape ==
  ASSUME NEW f \in Files
  PROVE  /\ f \in Seq(Tokens) /\ Len(f) \in Nat
         /\ Body(f) \in Seq(Tokens) /\ Len(Body(f)) = Len(f) + 83
         /\ \A i \in Nat : 1 <= i /\ i <= 74 => Body(f)[i] = FormHead[i]
         /\ \A i \in 75 .. Len(f) + 74 : Body(f)[i] = f[i - 74]
         /\ \A i \in Len(f) + 75 .. Len(f) + 83 : Body(f)[i] = FormTail[i - (Len(f) + 74)]
<1>1. f \in Seq(Tokens)
  BY FilesAssumption DEF Tokens
<1>2. Len(f) \in Nat
  BY <1>1
<1>3. Shaped(Body(f), f)
  BY BodyShaped
<1> QED
  BY <1>1, <1>2, <1>3 DEF Shaped

(* A text grows by the byte behind it.                                     *)
LEMMA TextGrows ==
  ASSUME NEW b \in Seq(Tokens), NEW i \in 1 .. Len(b), NEW a \in 1 .. i
  PROVE  /\ Append(SubSeq(b, a, i - 1), b[i]) = SubSeq(b, a, i)
         /\ SubSeq(b, a, i) \in Seq(Tokens) /\ SubSeq(b, i, i - 1) = <<>>
OBVIOUS

(* A text that stands before the file, from a to z.                        *)
Spelled(d, a, z) ==
  /\ a \in Nat /\ z \in Nat /\ 1 <= a /\ a <= z /\ z <= 74
  /\ d \in Seq(Tokens) /\ Len(d) = z - a + 1
  /\ \A j \in 1 .. Len(d) : FormHead[a + j - 1] = d[j]

LEMMA TextIs ==
  ASSUME NEW f \in Files, NEW d, NEW a, NEW z, Spelled(d, a, z)
  PROVE  SubSeq(Body(f), a, z) = d
<1> DEFINE s == SubSeq(Body(f), a, z)
<1>1. /\ a \in Nat /\ z \in Nat /\ 1 <= a /\ a <= z /\ z <= 74
      /\ d \in Seq(Tokens) /\ Len(d) = z - a + 1
      /\ \A j \in 1 .. Len(d) : FormHead[a + j - 1] = d[j]
  BY DEF Spelled
<1>2. Body(f) \in Seq(Tokens) /\ z <= Len(Body(f))
  <2>1. /\ Body(f) \in Seq(Tokens) /\ Len(f) \in Nat /\ Len(Body(f)) = Len(f) + 83
    BY FormShape
  <2> QED
    BY <1>1, <2>1
<1>3. s \in Seq(Tokens) /\ Len(s) = Len(d) /\ \A j \in 1 .. Len(d) : s[j] = Body(f)[a + j - 1]
  BY <1>1, <1>2
<1>4. ASSUME NEW j \in 1 .. Len(d) PROVE Body(f)[a + j - 1] = FormHead[a + j - 1]
  <2>1. a + j - 1 \in Nat /\ 1 <= a + j - 1 /\ a + j - 1 <= 74
    BY <1>1
  <2> QED
    BY <2>1, FormShape
<1> HIDE DEF s
<1>5. \A j \in 1 .. Len(d) : s[j] = d[j]
  BY <1>1, <1>3, <1>4
<1>6. s = d
  BY <1>1, <1>3, <1>5, SameSequence
<1> QED
  BY <1>6 DEF s

(* The texts that the callbacks are called with.                           *)
LEMMA HeadTexts ==
  ASSUME NEW f \in Files
  PROVE  /\ SubSeq(Body(f), 6, 9) = DispositionField
         /\ SubSeq(Body(f), 29, 32) = DispositionField
         /\ SubSeq(Body(f), 52, 55) = DispositionField
         /\ SubSeq(Body(f), 65, 67) = <<"content", "-", "type">>
         /\ SubSeq(Body(f), 12, 15) = <<"form-data", "session", "id", "quote">>
         /\ SubSeq(Body(f), 35, 38) = <<"form-data", "file", "name", "quote">>
         /\ SubSeq(Body(f), 58, 62) = <<"form-data", "file", "data", "quote", "rest">>
         /\ SubSeq(Body(f), 20, 21) = Sid
         /\ SubSeq(Body(f), 43, 44) = Name
<1>1. /\ SubSeq(Body(f), 6, 9) = DispositionField
      /\ SubSeq(Body(f), 29, 32) = DispositionField
      /\ SubSeq(Body(f), 52, 55) = DispositionField
  <2>1. /\ Spelled(DispositionField, 6, 9)
        /\ Spelled(DispositionField, 29, 32)
        /\ Spelled(DispositionField, 52, 55)
    BY DEF Spelled, DispositionField, Tokens, FormHead
  <2> QED
    BY <2>1, TextIs, ZenonT(60)
<1>2. SubSeq(Body(f), 65, 67) = <<"content", "-", "type">>
  <2>1. Spelled(<<"content", "-", "type">>, 65, 67)
    BY DEF Spelled, Tokens, FormHead
  <2> QED
    BY <2>1, TextIs
<1>3. SubSeq(Body(f), 12, 15) = <<"form-data", "session", "id", "quote">>
  <2>1. Spelled(<<"form-data", "session", "id", "quote">>, 12, 15)
    BY DEF Spelled, Tokens, FormHead
  <2> QED
    BY <2>1, TextIs
<1>4. SubSeq(Body(f), 35, 38) = <<"form-data", "file", "name", "quote">>
  <2>1. Spelled(<<"form-data", "file", "name", "quote">>, 35, 38)
    BY DEF Spelled, Tokens, FormHead
  <2> QED
    BY <2>1, TextIs
<1>5. SubSeq(Body(f), 58, 62) = <<"form-data", "file", "data", "quote", "rest">>
  <2>1. Spelled(<<"form-data", "file", "data", "quote", "rest">>, 58, 62)
    BY DEF Spelled, Tokens, FormHead
  <2> QED
    BY <2>1, TextIs
<1>6. SubSeq(Body(f), 20, 21) = Sid /\ SubSeq(Body(f), 43, 44) = Name
  <2>1. Spelled(Sid, 20, 21)
    BY DEF Spelled, Sid, Tokens, FormHead
  <2>2. SubSeq(Body(f), 20, 21) = Sid
    BY <2>1, TextIs
  <2>3. Spelled(Name, 43, 44)
    BY DEF Spelled, Name, Tokens, FormHead
  <2>4. SubSeq(Body(f), 43, 44) = Name
    BY <2>3, TextIs
  <2> QED
    BY <2>2, <2>4
<1> QED
  BY <1>1, <1>2, <1>3, <1>4, <1>5, <1>6

(* What stands behind the file is a delimiter and the end of the form.     *)
LEMMA TailBytes ==
  ASSUME NEW f \in Files
  PROVE  /\ \A j \in 1 .. 5 : Body(f)[Len(f) + 74 + j] = Delimiter[j]
         /\ Body(f)[TailAt(f)] = "-" /\ Body(f)[TailAt(f) + 1] = "-"
<1>1. /\ \A j \in {1, 2, 3, 4, 5} : FormTail[j] = Delimiter[j]
      /\ FormTail[6] = "-" /\ FormTail[7] = "-"
  BY DEF FormTail, Delimiter, Boundary
<1>2. PICK n \in Nat : n = Len(f) + 74
  BY FormShape
<1>3. ASSUME NEW j \in 1 .. 7 PROVE Body(f)[n + j] = FormTail[j]
  <2>1. /\ n + j \in Len(f) + 75 .. Len(f) + 83
        /\ n + j - (Len(f) + 74) = j
    BY <1>2, FormShape
  <2> QED
    BY <2>1, FormShape
<1>4. TailAt(f) = n + 6 /\ TailAt(f) + 1 = n + 7
  BY <1>2, FormShape DEF TailAt
<1> QED
  BY <1>1, <1>2, <1>3, <1>4

-----------------------------------------------------------------------------
(* The callbacks, on a request of which nothing has been decided.          *)
LEMMA RefusedFinished ==
  ASSUME NEW f, NEW g, NEW s, Live(s), s.mishaps = {} => ~g \/ f = <<>>
  PROVE  Finished(f, g, Refuse(s))
<1> DEFINE q == Refuse(s)
<1>1. /\ DOMAIN q = Fields /\ ~q.go /\ q.parttype = s.parttype /\ q.mishaps = s.mishaps
      /\ q.target = Old /\ q.replies = <<"failure">>
  BY DEF Refuse, Respond, Live, Fields
<1>2. Len(q.replies) = 1
  BY <1>1
<1> HIDE DEF q
<1>3. Finished(f, g, q)
  BY <1>1, <1>2 DEF Finished, Live
<1> QED
  BY <1>3 DEF q

LEMMA BrokenFinished ==
  ASSUME NEW f, NEW g, NEW s, Live(s)
  PROVE  Finished(f, g, Break(s)) /\ Finished(f, g, [Break(s) EXCEPT !.target = None])
<1>1. ASSUME NEW q, DOMAIN q = Fields, ~q.go, q.parttype = s.parttype,
             q.mishaps = s.mishaps \cup {"io"}, q.target \in {Old, None},
             q.replies = <<"failure">>
      PROVE  Finished(f, g, q)
  <2>1. Len(q.replies) = 1
    BY <1>1
  <2> QED
    BY <1>1, <2>1 DEF Finished, Live
<1> DEFINE q == Break(s)
<1>2. /\ DOMAIN q = Fields /\ ~q.go /\ q.parttype = s.parttype
      /\ q.mishaps = s.mishaps \cup {"io"} /\ q.target = Old /\ q.replies = <<"failure">>
  BY DEF Break, Refuse, Respond, Live, Fields
<1> HIDE DEF q
<1> DEFINE r == [q EXCEPT !.target = None]
<1>3. /\ DOMAIN r = Fields /\ ~r.go /\ r.parttype = s.parttype
      /\ r.mishaps = s.mishaps \cup {"io"} /\ r.target = None /\ r.replies = <<"failure">>
  BY <1>2 DEF Fields
<1> HIDE DEF r
<1>4. Finished(f, g, q) /\ Finished(f, g, r)
  BY <1>1, <1>2, <1>3
<1> QED
  BY <1>4 DEF q, r

(* The whole file is stored, or a beginning of it if a read() failed.      *)
LEMMA StoredFinished ==
  ASSUME NEW f, NEW g, NEW s, Live(s), s.mishaps = {} => s.filename = Name
  PROVE  /\ Finished(f, g, Stored(s, f))
         /\ \A text : Finished(f, g, [Stored(s, text) EXCEPT !.mishaps = @ \cup {"read"}])
<1>1. ASSUME NEW text
      PROVE  LET q == Stored(s, text)
             IN  /\ DOMAIN q = Fields /\ ~q.go /\ q.parttype = s.parttype
                 /\ q.mishaps = s.mishaps /\ q.filename = s.filename
                 /\ q.target = [name |-> s.filename, content |-> text]
                 /\ q.replies = <<"success">>
  BY DEF Stored, Respond, Live, Fields
<1>2. Len(<<"success">>) = 1
  OBVIOUS
<1>3. Finished(f, g, Stored(s, f))
  <2> DEFINE q == Stored(s, f)
  <2>1. /\ DOMAIN q = Fields /\ ~q.go /\ q.parttype = s.parttype
        /\ q.mishaps = s.mishaps /\ q.filename = s.filename
        /\ q.target = [name |-> s.filename, content |-> f]
        /\ q.replies = <<"success">>
    BY <1>1
  <2> HIDE DEF q
  <2>2. Len(q.replies) = 1
    BY <1>2, <2>1
  <2>3. q.target \in [name : {q.filename}, content : {f}]
    BY <2>1
  <2>4. Finished(f, g, q)
    BY <2>1, <2>2, <2>3 DEF Finished, Live
  <2> QED
    BY <2>4 DEF q
<1>4. ASSUME NEW text
      PROVE  Finished(f, g, [Stored(s, text) EXCEPT !.mishaps = @ \cup {"read"}])
  <2> DEFINE q == [Stored(s, text) EXCEPT !.mishaps = @ \cup {"read"}]
  <2>1. /\ DOMAIN q = Fields /\ ~q.go /\ q.parttype = s.parttype
        /\ q.mishaps = s.mishaps \cup {"read"} /\ q.replies = <<"success">>
    BY <1>1 DEF Fields
  <2> HIDE DEF q
  <2>2. Len(q.replies) = 1
    BY <1>2, <2>1
  <2>3. Finished(f, g, q)
    BY <2>1, <2>2 DEF Finished, Live
  <2> QED
    BY <2>3 DEF q
<1> QED
  BY <1>3, <1>4

(* A process that is killed gives no answer, whatever it has written.      *)
LEMMA KilledFinished ==
  ASSUME NEW f, NEW g, NEW s, Live(s)
  PROVE  /\ Finished(f, g, Killed(s))
         /\ \A text : Finished(f, g, [Killed(s) EXCEPT !.target = text])
<1>1. ASSUME NEW q, DOMAIN q = Fields, ~q.go, q.parttype = s.parttype,
             q.mishaps = s.mishaps \cup {"killed"}, q.replies = <<>>
      PROVE  Finished(f, g, q)
  <2>1. Len(q.replies) = 0
    BY <1>1
  <2>2. q.mishaps \subseteq {"cut", "split", "io", "read", "killed"}
    BY <1>1 DEF Live
  <2>3. "killed" \in q.mishaps /\ q.mishaps # {} /\ q.mishaps \cap {"cut", "split", "killed"} # {}
    BY <1>1
  <2> QED
    BY <1>1, <2>1, <2>2, <2>3 DEF Finished, Live
<1> DEFINE q == Killed(s)
<1>2. /\ DOMAIN q = Fields /\ ~q.go /\ q.parttype = s.parttype
      /\ q.mishaps = s.mishaps \cup {"killed"} /\ q.replies = <<>>
  BY DEF Killed, Live, Fields
<1> HIDE DEF q
<1>3. ASSUME NEW text PROVE Finished(f, g, [q EXCEPT !.target = text])
  <2> DEFINE u == [q EXCEPT !.target = text]
  <2>1. /\ DOMAIN u = Fields /\ ~u.go /\ u.parttype = s.parttype
        /\ u.mishaps = s.mishaps \cup {"killed"} /\ u.replies = <<>>
    BY <1>2 DEF Fields
  <2> HIDE DEF u
  <2>2. Finished(f, g, u)
    BY <1>1, <2>1
  <2> QED
    BY <2>2 DEF u
<1>4. Finished(f, g, q)
  BY <1>1, <1>2
<1> QED
  BY <1>3, <1>4 DEF q

-----------------------------------------------------------------------------
(* What a case of the parser may leave behind: it goes on as the walk has  *)
(* it, or the request is finished.                                         *)
Outcome(f, g, s, i, p, x, t) == Fits(f, g, s, i, p, x, t) \/ Finished(f, g, s)

(* The same, when the chunk ends inside a text.                            *)
CutOutcome(f, g, s, i, p, x) ==
  \/ Placed(f, i, p, x) /\ Live(s) /\ KnownHead(s, i) /\ KnownFile(f, s, i, p, x, <<>>)
  \/ Finished(f, g, s)

LEMMA CutKeeps ==
  ASSUME NEW f, NEW g, NEW outcomes, NEW i, NEW p, NEW x,
         \A s \in outcomes : CutOutcome(f, g, s, i, p, x)
  PROVE  \A s \in Split(outcomes, TRUE) : Outcome(f, g, s, i, p, x, <<>>)
<1> SUFFICES ASSUME NEW s \in outcomes
             PROVE  Outcome(f, g, [s EXCEPT !.mishaps = @ \cup {"split"}], i, p, x, <<>>)
  BY DEF Split
<1> DEFINE q == [s EXCEPT !.mishaps = @ \cup {"split"}]
<1>1. ASSUME DOMAIN s = Fields
      PROVE  /\ DOMAIN q = Fields /\ q.mishaps = s.mishaps \cup {"split"}
             /\ q.go = s.go /\ q.replies = s.replies /\ q.target = s.target
             /\ q.parttype = s.parttype /\ q.sessionid = s.sessionid /\ q.filename = s.filename
             /\ q.temp = s.temp /\ q.filedata = s.filedata
  BY <1>1 DEF Fields
<1> HIDE DEF q
<1>2. CASE Placed(f, i, p, x) /\ Live(s) /\ KnownHead(s, i) /\ KnownFile(f, s, i, p, x, <<>>)
  <2>1. DOMAIN s = Fields
    BY <1>2 DEF Live
  <2>2. Live(q) /\ q.mishaps # {}
    BY <1>1, <1>2, <2>1 DEF Live
  <2>3. KnownHead(q, i)
    BY <1>1, <1>2, <2>1 DEF KnownHead
  <2>4. KnownFile(f, q, i, p, x, <<>>)
    BY <1>1, <1>2, <2>1 DEF KnownFile, Copied, Gathered
  <2> QED
    BY <1>2, <2>2, <2>3, <2>4 DEF Outcome, Fits, q
<1>3. CASE Finished(f, g, s)
  <2>1. DOMAIN s = Fields
    BY <1>3 DEF Finished
  <2>2. Finished(f, g, q)
    BY <1>1, <1>3, <2>1 DEF Finished
  <2> QED
    BY <2>2 DEF Outcome, q
<1> QED
  BY <1>2, <1>3 DEF CutOutcome

(* The request that is being read.                                         *)
Reads(f, g) == request.file = f /\ request.granted = g /\ request.body = Body(f)

LEMMA Opens ==
  ASSUME Walk
  PROVE  \E f \in Files, g \in BOOLEAN :
           /\ Reads(f, g)
           /\ state # "stopped" => Fits(f, g, st, at, state, index, frag)
           /\ state = "stopped" => Finished(f, g, st) /\ index = 0
<1>1. PICK f \in Files, g \in BOOLEAN : request = [file |-> f, body |-> Body(f), granted |-> g]
  BY DEF Walk, Form
<1>2. Reads(f, g)
  BY <1>1 DEF Reads
<1> QED
  BY <1>2 DEF Walk, Reads

LEMMA Closes ==
  ASSUME Walk, NEW f \in Files, NEW g \in BOOLEAN, Reads(f, g),
         NEW outcomes, NEW p, NEW x, NEW t, NEW n \in Nat, p # "stopped",
         Continue(outcomes, p, x, t, n), at + n <= Len(Body(f)) + 1,
         \A s \in outcomes : Outcome(f, g, s, at + n, p, x, t)
  PROVE  Walk'
<1>1. /\ request' = request /\ page' = page
      /\ \E s \in outcomes :
           /\ st' = s
           /\ state' = IF s.go THEN p ELSE "stopped"
           /\ index' = IF s.go THEN x ELSE 0
           /\ frag' = IF s.go THEN t ELSE <<>>
           /\ at' = IF s.go THEN at + n ELSE at
  BY DEF Continue
<1>2. PICK s \in outcomes :
        /\ st' = s
        /\ state' = IF s.go THEN p ELSE "stopped"
        /\ index' = IF s.go THEN x ELSE 0
        /\ frag' = IF s.go THEN t ELSE <<>>
        /\ at' = IF s.go THEN at + n ELSE at
  BY <1>1
<1>3. Form(request)' /\ page' \in {"progress", "uploaded", "error"}
  BY <1>1 DEF Walk, Form
<1>4. request'.file = f /\ request'.granted = g /\ request'.body = Body(f)
  BY <1>1 DEF Reads
<1>5. at \in Nat /\ 1 <= at /\ at <= Len(Body(f)) + 1 /\ Len(Body(f)) \in Nat
  BY FormShape DEF Walk, Reads
<1>6. CASE Fits(f, g, s, at + n, p, x, t)
  <2>1. s.go
    BY <1>6 DEF Fits, Live
  <2>2. st' = s /\ state' = p /\ index' = x /\ frag' = t /\ at' = at + n
    BY <1>2, <2>1
  <2>3. at' \in 1 .. Len(Body(f)) + 1
    BY <1>5, <2>2
  <2>4. Fits(f, g, st', at', state', index', frag')
    BY <1>6, <2>2
  <2> QED
    BY <1>3, <1>4, <2>2, <2>3, <2>4 DEF Walk
<1>7. CASE Finished(f, g, s)
  <2>1. ~s.go
    BY <1>7 DEF Finished
  <2>2. st' = s /\ state' = "stopped" /\ index' = 0 /\ at' = at
    BY <1>2, <2>1
  <2>3. at' \in 1 .. Len(Body(f)) + 1
    BY <1>5, <2>2
  <2> QED
    BY <1>3, <1>4, <1>7, <2>2, <2>3 DEF Walk
<1> QED
  BY <1>6, <1>7 DEF Outcome

-----------------------------------------------------------------------------
(* Before the file: a byte that calls nothing and ends a text, or stands   *)
(* outside of any; and one that belongs to a text.                         *)
QuietAt(i) ==
  \/ Among(i, 1, 5)
  \/ i \in {11, 17, 18, 19, 23, 24, 25, 27, 28, 34, 40, 41, 42, 46, 47, 48, 50, 51, 57, 64, 69,
            72, 73, 74}

TextAt(i) ==
  \/ Among(i, 6, 9) \/ Among(i, 12, 15) \/ Among(i, 29, 32) \/ Among(i, 35, 38)
  \/ Among(i, 52, 55) \/ Among(i, 58, 62) \/ Among(i, 65, 67) \/ i = 70
  \/ i \in {20, 21, 43, 44}

(* What waits when a text ends, or begins behind this byte.                *)
LEMMA TextBegins ==
  ASSUME NEW f \in Files, NEW i \in Nat, 1 <= i, i <= 74
  PROVE  TextFrom(f, i, i, <<>>)
<1>1. Body(f) \in Seq(Tokens) /\ Len(f) \in Nat /\ Len(Body(f)) = Len(f) + 83
  BY FormShape
<1>2. i \in 1 .. Len(Body(f)) /\ i \in 1 .. i
  BY <1>1
<1>3. SubSeq(Body(f), i, i - 1) = <<>>
  BY <1>1, <1>2, TextGrows
<1> QED
  BY <1>3 DEF TextFrom

LEMMA TextGoesOn ==
  ASSUME NEW f \in Files, NEW i \in Nat, i <= 74, NEW a \in Nat, 1 <= a, a <= i,
         NEW t, TextFrom(f, a, i, t)
  PROVE  TextFrom(f, a, i + 1, Append(t, Body(f)[i]))
<1>1. Body(f) \in Seq(Tokens) /\ Len(f) \in Nat /\ Len(Body(f)) = Len(f) + 83
  BY FormShape
<1>2. i \in 1 .. Len(Body(f)) /\ a \in 1 .. i
  BY <1>1
<1>3. Append(SubSeq(Body(f), a, i - 1), Body(f)[i]) = SubSeq(Body(f), a, i)
  BY <1>1, <1>2, TextGrows
<1>4. i + 1 - 1 = i
  OBVIOUS
<1> QED
  BY <1>3, <1>4 DEF TextFrom

LEMMA NothingWaits ==
  ASSUME NEW f \in Files, NEW i \in Nat, QuietAt(i)
  PROVE  Waiting(f, i + 1, <<>>)
<1>1. /\ TextFrom(f, 6, 6, <<>>) /\ TextFrom(f, 12, 12, <<>>) /\ TextFrom(f, 20, 20, <<>>)
      /\ TextFrom(f, 29, 29, <<>>) /\ TextFrom(f, 35, 35, <<>>) /\ TextFrom(f, 43, 43, <<>>)
      /\ TextFrom(f, 52, 52, <<>>) /\ TextFrom(f, 58, 58, <<>>) /\ TextFrom(f, 65, 65, <<>>)
      /\ TextFrom(f, 70, 70, <<>>)
  BY TextBegins
<1> QED
  BY <1>1 DEF Waiting, QuietAt, Among

LEMMA OneMoreWaits ==
  ASSUME NEW f \in Files, NEW i \in Nat, TextAt(i), NEW t, Waiting(f, i, t)
  PROVE  Waiting(f, i + 1, Append(t, Body(f)[i]))
<1> DEFINE u == Append(t, Body(f)[i])
<1>1. ASSUME NEW a \in Nat, 1 <= a, a <= i, i <= 74, TextFrom(f, a, i, t)
      PROVE  TextFrom(f, a, i + 1, u)
  BY <1>1, TextGoesOn
<1> HIDE DEF u
<1>2. CASE Among(i, 6, 9)
  <2>1. Among(i, 6, 10)
    BY <1>2 DEF Among
  <2>2. TextFrom(f, 6, i + 1, u)
    BY <1>1, <2>1 DEF Waiting, Among
  <2> QED
    BY <2>1, <2>2, <1>2 DEF Waiting, Among, u
<1>3. CASE Among(i, 12, 15)
  <2>1. Among(i, 12, 16)
    BY <1>3 DEF Among
  <2>2. TextFrom(f, 12, i + 1, u)
    BY <1>1, <2>1 DEF Waiting, Among
  <2> QED
    BY <2>1, <2>2, <1>3 DEF Waiting, Among, u
<1>4. CASE Among(i, 29, 32)
  <2>1. Among(i, 29, 33)
    BY <1>4 DEF Among
  <2>2. TextFrom(f, 29, i + 1, u)
    BY <1>1, <2>1 DEF Waiting, Among
  <2> QED
    BY <2>1, <2>2, <1>4 DEF Waiting, Among, u
<1>5. CASE Among(i, 35, 38)
  <2>1. Among(i, 35, 39)
    BY <1>5 DEF Among
  <2>2. TextFrom(f, 35, i + 1, u)
    BY <1>1, <2>1 DEF Waiting, Among
  <2> QED
    BY <2>1, <2>2, <1>5 DEF Waiting, Among, u
<1>6. CASE Among(i, 52, 55)
  <2>1. Among(i, 52, 56)
    BY <1>6 DEF Among
  <2>2. TextFrom(f, 52, i + 1, u)
    BY <1>1, <2>1 DEF Waiting, Among
  <2> QED
    BY <2>1, <2>2, <1>6 DEF Waiting, Among, u
<1>7. CASE Among(i, 58, 62)
  <2>1. Among(i, 58, 63)
    BY <1>7 DEF Among
  <2>2. TextFrom(f, 58, i + 1, u)
    BY <1>1, <2>1 DEF Waiting, Among
  <2> QED
    BY <2>1, <2>2, <1>7 DEF Waiting, Among, u
<1>8. CASE Among(i, 65, 67)
  <2>1. Among(i, 65, 68)
    BY <1>8 DEF Among
  <2>2. TextFrom(f, 65, i + 1, u)
    BY <1>1, <2>1 DEF Waiting, Among
  <2> QED
    BY <2>1, <2>2, <1>8 DEF Waiting, Among, u
<1>9. CASE i = 70
  <2>1. Among(i, 70, 71)
    BY <1>9 DEF Among
  <2>2. TextFrom(f, 70, i + 1, u)
    BY <1>1, <2>1 DEF Waiting, Among
  <2> QED
    BY <2>1, <2>2, <1>9 DEF Waiting, Among, u
<1>10. CASE i \in {20, 21}
  <2>1. Among(i, 20, 22)
    BY <1>10 DEF Among
  <2>2. TextFrom(f, 20, i + 1, u)
    BY <1>1, <2>1 DEF Waiting, Among
  <2> QED
    BY <2>1, <2>2, <1>10 DEF Waiting, Among, u
<1>11. CASE i \in {43, 44}
  <2>1. Among(i, 43, 45)
    BY <1>11 DEF Among
  <2>2. TextFrom(f, 43, i + 1, u)
    BY <1>1, <2>1 DEF Waiting, Among
  <2> QED
    BY <2>1, <2>2, <1>11 DEF Waiting, Among, u
<1> QED
  BY <1>2, <1>3, <1>4, <1>5, <1>6, <1>7, <1>8, <1>9, <1>10, <1>11 DEF TextAt

LEMMA Advance ==
  ASSUME NEW f \in Files, NEW g, NEW s, NEW i, NEW p, NEW x, NEW t, NEW q, NEW y,
         Fits(f, g, s, i, p, x, t), QuietAt(i), Placed(f, i + 1, q, y)
  PROVE  Fits(f, g, s, i + 1, q, y, <<>>)
<1>1. i \in Nat /\ 1 <= i /\ i <= 74
  BY DEF Fits, Placed, QuietAt, Among
<1>2. Len(f) \in Nat
  BY FormShape
<1>3. KnownHead(s, i + 1)
  BY <1>1 DEF Fits, KnownHead, QuietAt, Among
<1>4. KnownFile(f, s, i + 1, q, y, <<>>)
  BY <1>1 DEF KnownFile
<1>5. s.mishaps = {} => Undivided(f, g, s, i + 1)
  BY <1>1, <1>2 DEF Fits, Undivided, QuietAt, Among, TailAt
<1>6. Waiting(f, i + 1, <<>>)
  BY <1>1, NothingWaits
<1> QED
  BY <1>3, <1>4, <1>5, <1>6 DEF Fits

LEMMA Grow ==
  ASSUME NEW f \in Files, NEW g, NEW s, NEW i, NEW p, NEW x, NEW t, NEW q, NEW y,
         Fits(f, g, s, i, p, x, t), TextAt(i), Placed(f, i + 1, q, y),
         Among(i, 20, 21) \/ Among(i, 43, 44) => s.parttype # "filedata"
  PROVE  /\ Fits(f, g, s, i + 1, q, y, Append(t, Body(f)[i]))
         /\ KnownHead(s, i + 1) /\ i <= 74 /\ i \in Nat
<1>1. i \in Nat /\ 1 <= i /\ i <= 73
  BY DEF Fits, Placed, TextAt, Among
<1>2. Len(f) \in Nat
  BY FormShape
<1>3. KnownHead(s, i + 1)
  BY <1>1 DEF Fits, KnownHead, TextAt, Among
<1>4. KnownFile(f, s, i + 1, q, y, Append(t, Body(f)[i]))
  BY <1>1 DEF KnownFile
<1>5. s.mishaps = {} => Undivided(f, g, s, i + 1)
  BY <1>1, <1>2, SMTT(60) DEF Fits, Undivided, TextAt, Among, TailAt
<1>6. s.mishaps = {} => Waiting(f, i + 1, Append(t, Body(f)[i]))
  BY <1>1, OneMoreWaits DEF Fits
<1> QED
  BY <1>1, <1>3, <1>4, <1>5, <1>6 DEF Fits

(* The callbacks of a header leave what is known of the parts alone.       *)
HeaderAt(i) == Among(i, 6, 16) \/ Among(i, 29, 39) \/ Among(i, 52, 71)

Headed(s, q) ==
  /\ Live(q) /\ q.mishaps = s.mishaps
  /\ q.sessionid = s.sessionid /\ q.filename = s.filename

LEMMA FieldCalled ==
  ASSUME NEW s, Live(s), NEW data
  PROVE  LET q == header_field(s, data)
         IN  /\ Headed(s, q) /\ q.parttype = s.parttype
             /\ q.is_content_disposition = IsPrefix(data, DispositionField)
BY DEF Live, Headed, header_field, Fields

LEMMA ValueCalled ==
  ASSUME NEW s, Live(s), NEW data, NEW q \in header_value(s, data)
  PROVE  Headed(s, q) /\ q.is_content_disposition = s.is_content_disposition
<1>1. \A text : PartNamed(text) \in {"sessionid", "filename", "filedata"}
  BY DEF PartNamed
<1>2. q = s \/ \E text : q = [s EXCEPT !.parttype = PartNamed(text)]
  BY DEF header_value
<1> QED
  BY <1>1, <1>2 DEF Live, Headed, Fields

LEMMA HeadedKnown ==
  ASSUME NEW s, NEW q, Headed(s, q), NEW i \in Nat, HeaderAt(i), KnownHead(s, i)
  PROVE  KnownHead(q, i + 1)
BY DEF Headed, HeaderAt, KnownHead, Among

(* The byte that a case looks at before the file.                          *)
LEMMA HeadByte ==
  ASSUME NEW f \in Files, NEW g, Reads(f, g), at \in Nat, Among(at, 1, 74)
  PROVE  c = FormHead[at] /\ c = Body(f)[at] /\ at + 1 <= Len(Body(f)) + 1
<1>1. Len(f) \in Nat /\ Len(Body(f)) = Len(f) + 83 /\ Body(f)[at] = FormHead[at]
  BY FormShape DEF Among
<1> QED
  BY <1>1 DEF c, Reads, Among

(* A byte of a text that calls nothing, or ends a chunk.                   *)
LEMMA TextStep ==
  ASSUME Walk, NEW f \in Files, NEW g \in BOOLEAN, Reads(f, g),
         Fits(f, g, st, at, state, index, frag), TextAt(at),
         NEW last \in BOOLEAN, NEW p, p # "stopped", Placed(f, at + 1, p, index),
         NEW outcomes, Continue(Split(outcomes, last), p, index, Rest(last), 1),
         Among(at, 20, 21) \/ Among(at, 43, 44) => st.parttype # "filedata",
         ~last => outcomes = {st},
         last => \A q \in outcomes : Live(q) /\ KnownHead(q, at + 1)
  PROVE  Walk'
<1>1. at \in Nat /\ Among(at, 1, 74) /\ at + 1 \in Nat /\ at + 1 <= 74
  BY DEF Fits, Placed, TextAt, Among
<1>2. c = Body(f)[at] /\ at + 1 <= Len(Body(f)) + 1
  BY <1>1, HeadByte
<1>3. CASE ~last
  <2>1. Continue({st}, p, index, Append(frag, Body(f)[at]), 1)
    BY <1>2, <1>3 DEF Split, Rest, Text
  <2>2. Fits(f, g, st, at + 1, p, index, Append(frag, Body(f)[at]))
    BY Grow
  <2> QED
    BY <1>2, <2>1, <2>2, Closes DEF Outcome
<1>4. CASE last
  <2> DEFINE O == Split(outcomes, TRUE)
  <2>1. Continue(O, p, index, <<>>, 1)
    BY <1>4 DEF Rest
  <2>2. \A q \in outcomes : KnownFile(f, q, at + 1, p, index, <<>>)
    BY <1>1 DEF KnownFile
  <2>3. \A q \in outcomes : CutOutcome(f, g, q, at + 1, p, index)
    BY <1>4, <2>2 DEF CutOutcome
  <2>4. \A s \in O : Outcome(f, g, s, at + 1, p, index, <<>>)
    BY <2>3, CutKeeps
  <2> HIDE DEF O
  <2> QED
    BY <1>2, <2>1, <2>4, Closes
<1> QED
  BY <1>3, <1>4

(* A byte that moves on without a callback.                                *)
LEMMA QuietStep ==
  ASSUME Walk, NEW f \in Files, NEW g \in BOOLEAN, Reads(f, g),
         Fits(f, g, st, at, state, index, frag), QuietAt(at),
         NEW p, p # "stopped", NEW x, Placed(f, at + 1, p, x), Goto(p, x)
  PROVE  Walk'
<1>1. at \in Nat /\ Among(at, 1, 74)
  BY DEF Fits, Placed, QuietAt, Among
<1>2. at + 1 <= Len(Body(f)) + 1
  BY <1>1, HeadByte
<1>3. Fits(f, g, st, at + 1, p, x, <<>>)
  BY Advance
<1>4. Continue({st}, p, x, <<>>, 1)
  BY DEF Goto
<1> QED
  BY <1>2, <1>3, <1>4, Closes DEF Outcome

-----------------------------------------------------------------------------
(* Each case of the parser keeps to the walk: first those that call        *)
(* nothing before the file.                                                *)
LEMMA HeadPlaced ==
  ASSUME NEW f \in Files, NEW i \in Nat, NEW p, NEW x \in Nat, x <= 4
  PROVE  /\ InHead(i, p, x) => Placed(f, i, p, x)
         /\ i = 75 /\ p = "s_part_data_start" => Placed(f, i, p, x)
<1>1. Len(f) \in Nat
  BY FormShape
<1>2. ASSUME i = 75, p = "s_part_data_start" PROVE InFile(f, i, p, x)
  BY <1>1, <1>2 DEF InFile, Delayed, Held, TailAt
<1> QED
  BY <1>2 DEF Placed

LEMMA StartWalk ==
  ASSUME Walk, s_start_boundary
  PROVE  Walk'
<1>1. state = "s_start_boundary"
  BY DEF s_start_boundary, Expect
<1>2. PICK f \in Files, g \in BOOLEAN : Reads(f, g) /\ Fits(f, g, st, at, state, index, frag)
  BY <1>1, Opens
<1>3. at \in Nat /\ Among(at, 1, 5) /\ index \in Nat /\ index = at - 1
  BY <1>1, <1>2 DEF Fits, Placed, InHead, InFile, InTail, DataStates
<1>4. c = FormHead[at] /\ QuietAt(at)
  BY <1>2, <1>3, HeadByte DEF Among, QuietAt
<1>5. Len(Boundary) = 3
  BY DEF Boundary
<1>6. CASE at <= 3
  <2>1. c = Boundary[index + 1]
    BY <1>3, <1>4, <1>6, HeadBoundary DEF Among
  <2>2. Goto(state, index + 1)
    BY <1>3, <1>5, <1>6, <2>1 DEF s_start_boundary
  <2>3. Placed(f, at + 1, state, index + 1)
    BY <1>1, <1>3, <1>6, HeadPlaced DEF InHead, Among
  <2> QED
    BY <1>1, <1>2, <1>4, <2>2, <2>3, QuietStep
<1>7. CASE at = 4
  <2>1. Goto(state, index + 1)
    BY <1>3, <1>4, <1>5, <1>7, HeadBytes DEF s_start_boundary
  <2>2. Placed(f, at + 1, state, index + 1)
    BY <1>1, <1>3, <1>7, HeadPlaced DEF InHead, Among
  <2> QED
    BY <1>1, <1>2, <1>4, <2>1, <2>2, QuietStep
<1>8. CASE at = 5
  <2>1. Goto("s_header_field", 0)
    BY <1>3, <1>4, <1>5, <1>8, HeadBytes DEF s_start_boundary
  <2>2. Placed(f, at + 1, "s_header_field", 0)
    BY <1>3, <1>8, HeadPlaced DEF InHead, FieldAt, Among
  <2> QED
    BY <1>2, <1>4, <2>1, <2>2, QuietStep
<1> QED
  BY <1>3, <1>6, <1>7, <1>8 DEF Among

LEMMA QuietWalk ==
  ASSUME Walk,
         \/ s_headers_almost_done \/ s_header_value_start
         \/ s_header_value_almost_done \/ s_part_data_end
  PROVE  Walk'
<1>1. state \in {"s_headers_almost_done", "s_header_value_start",
                 "s_header_value_almost_done", "s_part_data_end"}
  BY DEF s_headers_almost_done, s_header_value_start, s_header_value_almost_done,
         s_part_data_end, Expect
<1>2. PICK f \in Files, g \in BOOLEAN : Reads(f, g) /\ Fits(f, g, st, at, state, index, frag)
  BY <1>1, Opens
<1>3. at \in Nat /\ index \in Nat /\ index <= 4 /\ InHead(at, state, index)
  BY <1>1, <1>2 DEF Fits, Placed, InFile, InTail, DataStates
<1>4. Among(at, 1, 74)
  BY <1>1, <1>3 DEF InHead, StartAt, Among
<1>5. c = FormHead[at]
  BY <1>2, <1>3, <1>4, HeadByte
<1>6. CASE s_headers_almost_done
  <2>1. at \in {19, 42, 74}
    BY <1>3, <1>6 DEF s_headers_almost_done, Expect, InHead
  <2>2. Goto("s_part_data_start", index)
    BY <1>5, <1>6, <2>1, HeadBytes DEF s_headers_almost_done
  <2>3. Placed(f, at + 1, "s_part_data_start", index)
    BY <1>3, <2>1, HeadPlaced DEF InHead
  <2>4. QuietAt(at)
    BY <2>1 DEF QuietAt
  <2> QED
    BY <1>2, <2>2, <2>3, <2>4, QuietStep
<1>7. CASE s_header_value_start
  <2>1. at \in {11, 12, 34, 35, 57, 58, 69, 70}
    BY <1>3, <1>7 DEF s_header_value_start, Expect, InHead, StartAt
  <2>2. at \in {11, 34, 57, 69} /\ Goto(state, index)
    <3>1. FormHead[12] # "SP" /\ FormHead[35] # "SP" /\ FormHead[58] # "SP" /\ FormHead[70] # "SP"
      BY HeadPlain
    <3> QED
      BY <1>5, <1>7, <2>1, <3>1 DEF s_header_value_start
  <2>3. Placed(f, at + 1, state, index)
    BY <1>3, <1>7, <2>2, HeadPlaced DEF InHead, StartAt, s_header_value_start, Expect
  <2>4. QuietAt(at)
    BY <2>2 DEF QuietAt
  <2> QED
    BY <1>1, <1>2, <2>2, <2>3, <2>4, QuietStep
<1>8. CASE s_header_value_almost_done
  <2>1. at \in {17, 40, 64, 72}
    BY <1>3, <1>8 DEF s_header_value_almost_done, Expect, InHead
  <2>2. Goto("s_header_field", index)
    BY <1>5, <1>8, <2>1, HeadBytes DEF s_header_value_almost_done
  <2>3. Placed(f, at + 1, "s_header_field", index)
    BY <1>3, <2>1, HeadPlaced DEF InHead, FieldAt, Among
  <2>4. QuietAt(at)
    BY <2>1 DEF QuietAt
  <2> QED
    BY <1>2, <2>2, <2>3, <2>4, QuietStep
<1>9. CASE s_part_data_end
  <2>1. at \in {28, 51}
    BY <1>3, <1>9 DEF s_part_data_end, Expect, InHead
  <2>2. Goto("s_header_field", index)
    BY <1>5, <1>9, <2>1, HeadBytes DEF s_part_data_end
  <2>3. Placed(f, at + 1, "s_header_field", index)
    BY <1>3, <2>1, HeadPlaced DEF InHead, FieldAt, Among
  <2>4. QuietAt(at)
    BY <2>1 DEF QuietAt
  <2> QED
    BY <1>2, <2>2, <2>3, <2>4, QuietStep
<1> QED
  BY <1>6, <1>7, <1>8, <1>9

(* Which header is the one that names the part.                            *)
LEMMA FieldNames ==
  /\ IsPrefix(DispositionField, DispositionField)
  /\ ~IsPrefix(<<"content", "-", "type">>, DispositionField)
<1>1. IsPrefix(DispositionField, DispositionField)
  BY DEF IsPrefix, DispositionField
<1> DEFINE d == <<"content", "-", "type">>
           s == SubSeq(d, 1, 3)
           t == SubSeq(DispositionField, 1, 3)
<1>2. d \in Seq(Tokens) /\ Len(d) = 3 /\ d[3] = "type"
  BY DEF Tokens
<1>3. /\ DispositionField \in Seq(Tokens) /\ Len(DispositionField) = 4
      /\ DispositionField[3] = "dispo"
  BY DEF Tokens, DispositionField
<1> HIDE DEF d
<1>4. s[3] = "type" /\ t[3] = "dispo"
  BY <1>2, <1>3
<1>5. ~IsPrefix(d, DispositionField)
  BY <1>2, <1>4 DEF IsPrefix
<1> QED
  BY <1>1, <1>5 DEF d

(* The name of a header.                                                   *)
LEMMA HeaderFieldWalk ==
  ASSUME Walk, NEW last \in BOOLEAN, s_header_field(last)
  PROVE  Walk'
<1>1. state = "s_header_field"
  BY DEF s_header_field, Expect
<1>2. PICK f \in Files, g \in BOOLEAN : Reads(f, g) /\ Fits(f, g, st, at, state, index, frag)
  BY <1>1, Opens
<1>3. at \in Nat /\ index \in Nat /\ index <= 4 /\ FieldAt(at) /\ Among(at, 1, 74)
  BY <1>1, <1>2 DEF Fits, Placed, InHead, InFile, InTail, DataStates, FieldAt, Among
<1>4. c = FormHead[at]
  BY <1>2, <1>3, HeadByte
<1>9. at + 1 <= Len(Body(f)) + 1
  BY <1>2, <1>3, HeadByte
<1>5. Live(st) /\ KnownHead(st, at)
  BY <1>2 DEF Fits
<1>6. CASE at \in {18, 41, 73}
  <2>0. c = "CR"
    BY <1>4, <1>6, HeadBytes
  <2>1. Goto("s_headers_almost_done", index)
    BY <2>0 DEF s_header_field
  <2>2. Placed(f, at + 1, "s_headers_almost_done", index)
    BY <1>3, <1>6, HeadPlaced DEF InHead
  <2>3. QuietAt(at)
    BY <1>6 DEF QuietAt
  <2> QED
    BY <1>2, <2>1, <2>2, <2>3, QuietStep
<1>7. CASE at \in {10, 33, 56, 68}
  <2> DEFINE q == header_field(st, frag)
  <2>0. c = ":"
    BY <1>4, <1>7, HeadBytes
  <2>1. Continue({q}, "s_header_value_start", index, <<>>, 1)
    BY <2>0 DEF s_header_field
  <2>2. Headed(st, q) /\ q.parttype = st.parttype
        /\ q.is_content_disposition = IsPrefix(frag, DispositionField)
    BY <1>5, FieldCalled
  <2> HIDE DEF q
  <2>3. Placed(f, at + 1, "s_header_value_start", index)
    BY <1>3, <1>7, HeadPlaced DEF InHead, StartAt
  <2>4. HeaderAt(at)
    BY <1>7 DEF HeaderAt, Among
  <2>5. KnownHead(q, at + 1) /\ KnownFile(f, q, at + 1, "s_header_value_start", index, <<>>)
    BY <1>3, <1>5, <1>7, <2>2, <2>4, HeadedKnown DEF KnownFile
  <2>6. ASSUME q.mishaps = {}
        PROVE  Undivided(f, g, q, at + 1) /\ Waiting(f, at + 1, <<>>)
    <3>1. Undivided(f, g, st, at) /\ Waiting(f, at, frag)
      BY <1>2, <2>2, <2>6 DEF Fits, Headed
    <3>2. ASSUME at # 68 PROVE q.is_content_disposition
      <4>1. \/ frag = SubSeq(Body(f), 6, 9) \/ frag = SubSeq(Body(f), 29, 32)
            \/ frag = SubSeq(Body(f), 52, 55)
        <5>1. CASE at = 10
          BY <3>1, <5>1 DEF Waiting, TextFrom, Among
        <5>2. CASE at = 33
          BY <3>1, <5>2 DEF Waiting, TextFrom, Among
        <5>3. CASE at = 56
          BY <3>1, <5>3 DEF Waiting, TextFrom, Among
        <5> QED
          BY <1>7, <3>2, <5>1, <5>2, <5>3
      <4>2. frag = DispositionField
        BY <4>1, HeadTexts
      <4> QED
        BY <2>2, <4>2, FieldNames
    <3>3. ASSUME at = 68 PROVE ~q.is_content_disposition
      <4>1. frag = SubSeq(Body(f), 65, 67)
        BY <3>1, <3>3 DEF Waiting, TextFrom, Among
      <4>2. frag = <<"content", "-", "type">>
        BY <4>1, HeadTexts, Zenon
      <4> QED
        BY <2>2, <4>2, FieldNames
    <3>6. Len(f) \in Nat
      BY FormShape
    <3>7. Undivided(f, g, q, at + 1)
      BY <1>7, <2>2, <3>1, <3>2, <3>3, <3>6 DEF Undivided, Among, Headed, TailAt
    <3> QED
      BY <1>7, <3>7 DEF Waiting, Among
  <2>7. Fits(f, g, q, at + 1, "s_header_value_start", index, <<>>)
    BY <2>2, <2>3, <2>5, <2>6 DEF Fits, Headed
  <2> QED
    BY <1>2, <1>9, <2>1, <2>7, Closes DEF Outcome
<1>8. CASE at \notin {10, 18, 33, 41, 56, 68, 73}
  <2>1. TextAt(at) /\ HeaderAt(at) /\ ~Among(at, 20, 21) /\ ~Among(at, 43, 44)
    BY <1>3, <1>8 DEF TextAt, HeaderAt, FieldAt, Among
  <2>2. Placed(f, at + 1, state, index)
    BY <1>1, <1>3, <1>8, HeadPlaced DEF InHead, FieldAt, Among
  <2>3. KnownHead(st, at + 1)
    BY <1>2, <2>1, <2>2, Grow
  <2>4. at \in {7, 30, 53, 66} \/ at \in {6, 8, 9, 29, 31, 32, 52, 54, 55, 65, 67}
    BY <1>3, <1>8 DEF FieldAt, Among
  <2>5. CASE at \in {7, 30, 53, 66}
    <3>0. c = "-"
      BY <1>4, <2>5, HeadBytes
    <3>1. Continue(Split({st}, last), state, index, Rest(last), 1)
      BY <3>0 DEF s_header_field
    <3>2. \A q \in {st} : Live(q) /\ KnownHead(q, at + 1)
      BY <1>5, <2>3
    <3> QED
      BY <1>1, <1>2, <2>1, <2>2, <3>1, <3>2, TextStep
  <2>6. CASE at \in {6, 8, 9, 29, 31, 32, 52, 54, 55, 65, 67}
    <3> DEFINE O == IF last THEN {header_field(st, Text)} ELSE {st}
    <3>0. c \notin {"CR", "-", ":"}
      BY <1>4, <2>6, HeadPlain
    <3>1. Continue(Split(O, last), state, index, Rest(last), 1)
      BY <3>0 DEF s_header_field
    <3>2. Headed(st, header_field(st, Text))
      BY <1>5, FieldCalled
    <3>3. KnownHead(header_field(st, Text), at + 1)
      BY <1>3, <1>5, <2>1, <3>2, HeadedKnown
    <3>4. last => \A q \in O : Live(q) /\ KnownHead(q, at + 1)
      BY <3>2, <3>3 DEF Headed
    <3>5. ~last => O = {st}
      OBVIOUS
    <3> HIDE DEF O
    <3> QED
      BY <1>1, <1>2, <2>1, <2>2, <3>1, <3>4, <3>5, TextStep
  <2> QED
    BY <2>4, <2>5, <2>6
<1> QED
  BY <1>6, <1>7, <1>8

(* Which part a name is that was read whole.                               *)
Pair(e, u, v) == e \in Seq(Tokens) /\ Len(e) = 2 /\ e[1] = u /\ e[2] = v

LEMMA SecondPair ==
  ASSUME NEW s \in Seq(Tokens), Len(s) >= 3
  PROVE  Pair(SubSeq(s, 2, 3), s[2], s[3])
BY DEF Pair

LEMMA WholePair ==
  ASSUME NEW e, NEW u, NEW v, Pair(e, u, v)
  PROVE  Pair(SubSeq(e, 1, 2), u, v)
BY DEF Pair

LEMMA SamePair ==
  ASSUME NEW a, NEW b, NEW u, NEW v, Pair(a, u, v), Pair(b, u, v)
  PROVE  a = b
<1>1. Len(a) = Len(b) /\ \A i \in 1 .. Len(a) : a[i] = b[i]
  BY DEF Pair
<1> QED
  BY <1>1, SameSequence DEF Pair

LEMMA PairPrefix ==
  ASSUME NEW e, NEW u, NEW v, Pair(e, u, v), NEW s, NEW y, NEW z, Pair(s, y, z)
  PROVE  IsPrefix(e, s) <=> u = y /\ v = z
<1> DEFINE a == SubSeq(e, 1, 2)
           b == SubSeq(s, 1, 2)
<1>1. Pair(a, u, v) /\ Pair(b, y, z)
  BY WholePair
<1>2. IsPrefix(e, s) <=> a = b
  BY DEF IsPrefix, Pair
<1> HIDE DEF a, b
<1>3. u = y /\ v = z => a = b
  BY <1>1, SamePair
<1>4. a = b => u = y /\ v = z
  BY <1>1 DEF Pair
<1> QED
  BY <1>2, <1>3, <1>4

LEMMA WholeNames ==
  /\ PartNamed(SubSeq(<<"form-data", "session", "id", "quote">>, 2, 3)) = "sessionid"
  /\ PartNamed(SubSeq(<<"form-data", "file", "name", "quote">>, 2, 3)) = "filename"
  /\ PartNamed(SubSeq(<<"form-data", "file", "data", "quote", "rest">>, 2, 3)) = "filedata"
<1>1. Pair(Spelling.filedata, "file", "data") /\ Pair(Spelling.filename, "file", "name")
  BY DEF Pair, Spelling, Tokens
<1>2. PartNamed(SubSeq(<<"form-data", "session", "id", "quote">>, 2, 3)) = "sessionid"
  <2> DEFINE d == <<"form-data", "session", "id", "quote">>
             e == SubSeq(d, 2, 3)
  <2>1. d \in Seq(Tokens) /\ Len(d) >= 3 /\ d[2] = "session" /\ d[3] = "id"
    BY DEF Tokens
  <2> HIDE DEF d
  <2>2. Pair(e, "session", "id")
    BY <2>1, SecondPair
  <2> HIDE DEF e
  <2>3. ~IsPrefix(e, Spelling.filedata) /\ ~IsPrefix(e, Spelling.filename)
    BY <1>1, <2>2, PairPrefix
  <2> QED
    BY <2>3 DEF PartNamed, e, d
<1>3. PartNamed(SubSeq(<<"form-data", "file", "name", "quote">>, 2, 3)) = "filename"
  <2> DEFINE d == <<"form-data", "file", "name", "quote">>
             e == SubSeq(d, 2, 3)
  <2>1. d \in Seq(Tokens) /\ Len(d) >= 3 /\ d[2] = "file" /\ d[3] = "name"
    BY DEF Tokens
  <2> HIDE DEF d
  <2>2. Pair(e, "file", "name")
    BY <2>1, SecondPair
  <2> HIDE DEF e
  <2>3. ~IsPrefix(e, Spelling.filedata) /\ IsPrefix(e, Spelling.filename)
    BY <1>1, <2>2, PairPrefix
  <2> QED
    BY <2>3 DEF PartNamed, e, d
<1>4. PartNamed(SubSeq(<<"form-data", "file", "data", "quote", "rest">>, 2, 3)) = "filedata"
  <2> DEFINE d == <<"form-data", "file", "data", "quote", "rest">>
             e == SubSeq(d, 2, 3)
  <2>1. d \in Seq(Tokens) /\ Len(d) >= 3 /\ d[2] = "file" /\ d[3] = "data"
    BY DEF Tokens
  <2> HIDE DEF d
  <2>2. Pair(e, "file", "data")
    BY <2>1, SecondPair
  <2> HIDE DEF e
  <2>3. IsPrefix(e, Spelling.filedata)
    BY <1>1, <2>2, PairPrefix
  <2> QED
    BY <2>3 DEF PartNamed, e, d
<1> QED
  BY <1>2, <1>3, <1>4

(* The name that was read is passed on with its closing quote.             *)
LEMMA WholeValue ==
  ASSUME NEW s, Live(s), s.is_content_disposition, NEW data \in Seq(Tokens),
         Len(data) >= 4, data[1] = "form-data", data[4] = "quote",
         NEW q \in header_value(s, data)
  PROVE  q.parttype = PartNamed(SubSeq(data, 2, 3))
<1>1. Contains(data, "quote")
  BY DEF Contains
<1>2. q = [s EXCEPT !.parttype = PartNamed(SubSeq(data, 2, 3))]
  BY <1>1 DEF header_value
<1> QED
  BY <1>2 DEF Live, Fields

LEMMA WholeValues ==
  ASSUME NEW s, Live(s), s.is_content_disposition, NEW q
  PROVE  /\ q \in header_value(s, <<"form-data", "session", "id", "quote">>)
              => q.parttype = "sessionid"
         /\ q \in header_value(s, <<"form-data", "file", "name", "quote">>)
              => q.parttype = "filename"
         /\ q \in header_value(s, <<"form-data", "file", "data", "quote", "rest">>)
              => q.parttype = "filedata"
<1>1. ASSUME q \in header_value(s, <<"form-data", "session", "id", "quote">>)
      PROVE  q.parttype = "sessionid"
  <2> DEFINE d == <<"form-data", "session", "id", "quote">>
  <2>1. d \in Seq(Tokens) /\ Len(d) >= 4 /\ d[1] = "form-data" /\ d[4] = "quote"
    BY DEF Tokens
  <2>2. q \in header_value(s, d) /\ PartNamed(SubSeq(d, 2, 3)) = "sessionid"
    BY <1>1, WholeNames
  <2> HIDE DEF d
  <2> QED
    BY <2>1, <2>2, WholeValue
<1>2. ASSUME q \in header_value(s, <<"form-data", "file", "name", "quote">>)
      PROVE  q.parttype = "filename"
  <2> DEFINE d == <<"form-data", "file", "name", "quote">>
  <2>1. d \in Seq(Tokens) /\ Len(d) >= 4 /\ d[1] = "form-data" /\ d[4] = "quote"
    BY DEF Tokens
  <2>2. q \in header_value(s, d) /\ PartNamed(SubSeq(d, 2, 3)) = "filename"
    BY <1>2, WholeNames
  <2> HIDE DEF d
  <2> QED
    BY <2>1, <2>2, WholeValue
<1>3. ASSUME q \in header_value(s, <<"form-data", "file", "data", "quote", "rest">>)
      PROVE  q.parttype = "filedata"
  <2> DEFINE d == <<"form-data", "file", "data", "quote", "rest">>
  <2>1. d \in Seq(Tokens) /\ Len(d) >= 4 /\ d[1] = "form-data" /\ d[4] = "quote"
    BY DEF Tokens
  <2>2. q \in header_value(s, d) /\ PartNamed(SubSeq(d, 2, 3)) = "filedata"
    BY <1>3, WholeNames
  <2> HIDE DEF d
  <2> QED
    BY <2>1, <2>2, WholeValue
<1> QED
  BY <1>1, <1>2, <1>3

(* The value of a header.                                                  *)
LEMMA HeaderValueWalk ==
  ASSUME Walk, NEW last \in BOOLEAN, s_header_value(last)
  PROVE  Walk'
<1>1. state = "s_header_value" \/ (state = "s_header_value_start" /\ c # "SP")
  BY DEF s_header_value, Expect
<1>2. PICK f \in Files, g \in BOOLEAN : Reads(f, g) /\ Fits(f, g, st, at, state, index, frag)
  BY <1>1, Opens
<1>3. at \in Nat /\ index \in Nat /\ index <= 4 /\ InHead(at, state, index)
  BY <1>1, <1>2 DEF Fits, Placed, InFile, InTail, DataStates
<1>4. Among(at, 1, 74)
  BY <1>1, <1>3 DEF InHead, StartAt, ValueAt, Among
<1>5. c = FormHead[at]
  BY <1>2, <1>3, <1>4, HeadByte
<1>6. at + 1 <= Len(Body(f)) + 1
  BY <1>2, <1>3, <1>4, HeadByte
<1>7. at \notin {11, 34, 57, 69}
  <2>1. CASE state = "s_header_value"
    BY <1>3, <2>1 DEF InHead, ValueAt, Among
  <2>2. CASE c # "SP"
    <3>1. /\ FormHead[11] = "SP" /\ FormHead[34] = "SP"
          /\ FormHead[57] = "SP" /\ FormHead[69] = "SP"
      BY HeadBytes
    <3> QED
      BY <1>5, <2>2, <3>1
  <2> QED
    BY <1>1, <2>1, <2>2
<1>8. StartAt(at) \/ ValueAt(at)
  BY <1>1, <1>3 DEF InHead
<1>9. Live(st) /\ KnownHead(st, at)
  BY <1>2 DEF Fits
<1>10. CASE at \in {16, 39, 63, 71}
  <2>1. c = "CR"
    BY <1>5, <1>10, HeadBytes
  <2>2. Continue(header_value(st, frag), "s_header_value_almost_done", index, <<>>, 1)
    BY <2>1 DEF s_header_value
  <2>3. Placed(f, at + 1, "s_header_value_almost_done", index)
    BY <1>3, <1>10, HeadPlaced DEF InHead
  <2>4. HeaderAt(at)
    BY <1>10 DEF HeaderAt, Among
  <2>5. ASSUME NEW q \in header_value(st, frag)
        PROVE  Fits(f, g, q, at + 1, "s_header_value_almost_done", index, <<>>)
    <3>1. Headed(st, q) /\ q.is_content_disposition = st.is_content_disposition
      BY <1>9, ValueCalled
    <3>2. KnownHead(q, at + 1)
      BY <1>3, <1>9, <2>4, <3>1, HeadedKnown
    <3>3. KnownFile(f, q, at + 1, "s_header_value_almost_done", index, <<>>)
      BY <1>10 DEF KnownFile
    <3>4. ASSUME q.mishaps = {}
          PROVE  Undivided(f, g, q, at + 1) /\ Waiting(f, at + 1, <<>>)
      <4>1. Undivided(f, g, st, at) /\ Waiting(f, at, frag)
        BY <1>2, <3>1, <3>4 DEF Fits, Headed
      <4>2. CASE at = 16
        <5>1. st.is_content_disposition /\ frag = SubSeq(Body(f), 12, 15)
          BY <4>1, <4>2 DEF Undivided, Waiting, TextFrom, Among
        <5>2. q.parttype = "sessionid"
          BY <1>9, <5>1, HeadTexts, WholeValues
        <5> QED
          BY <3>1, <4>1, <4>2, <5>2, FormShape DEF Undivided, Waiting, Among, Headed, TailAt
      <4>3. CASE at = 39
        <5>1. st.is_content_disposition /\ frag = SubSeq(Body(f), 35, 38)
          BY <4>1, <4>3 DEF Undivided, Waiting, TextFrom, Among
        <5>2. q.parttype = "filename"
          BY <1>9, <5>1, HeadTexts, WholeValues
        <5> QED
          BY <3>1, <4>1, <4>3, <5>2, FormShape DEF Undivided, Waiting, Among, Headed, TailAt
      <4>4. CASE at = 63
        <5>1. st.is_content_disposition /\ frag = SubSeq(Body(f), 58, 62)
          BY <4>1, <4>4 DEF Undivided, Waiting, TextFrom, Among
        <5>2. q.parttype = "filedata"
          BY <1>9, <5>1, HeadTexts, WholeValues
        <5> QED
          BY <3>1, <4>1, <4>4, <5>2, FormShape DEF Undivided, Waiting, Among, Headed, TailAt
      <4>5. CASE at = 71
        <5>1. ~st.is_content_disposition
          BY <4>1, <4>5 DEF Undivided, Among
        <5>2. q = st
          BY <5>1 DEF header_value
        <5> QED
          BY <4>1, <4>5, <5>2, FormShape DEF Undivided, Waiting, Among, TailAt
      <4> QED
        BY <1>10, <4>2, <4>3, <4>4, <4>5
    <3> QED
      BY <2>3, <3>1, <3>2, <3>3, <3>4 DEF Fits, Headed
  <2> QED
    BY <1>2, <1>6, <2>2, <2>5, Closes DEF Outcome
<1>11. CASE at \notin {16, 39, 63, 71}
  <2>1. TextAt(at) /\ HeaderAt(at) /\ ~Among(at, 20, 21) /\ ~Among(at, 43, 44)
    BY <1>3, <1>7, <1>8, <1>11 DEF TextAt, HeaderAt, StartAt, ValueAt, Among
  <2>2. Placed(f, at + 1, "s_header_value", index)
    BY <1>3, <1>7, <1>8, <1>11, HeadPlaced DEF InHead, StartAt, ValueAt, Among
  <2>3. c # "CR"
    <3>1. \/ Among(at, 12, 15) \/ Among(at, 35, 38) \/ Among(at, 58, 62) \/ at = 70
      BY <1>3, <1>7, <1>8, <1>11 DEF StartAt, ValueAt, Among
    <3>2. at \in (12 .. 15) \cup (35 .. 38) \cup (58 .. 62) \cup {70}
      BY <1>3, <3>1 DEF Among
    <3> QED
      BY <1>5, <3>2, HeadPlain
  <2> DEFINE O == IF last THEN header_value(st, Text) ELSE {st}
  <2>4. Continue(Split(O, last), "s_header_value", index, Rest(last), 1)
    BY <2>3 DEF s_header_value
  <2>5. \A q \in header_value(st, Text) : Headed(st, q)
    BY <1>9, ValueCalled
  <2>6. \A q \in header_value(st, Text) : KnownHead(q, at + 1)
    BY <1>3, <1>9, <2>1, <2>5, HeadedKnown
  <2>7. last => \A q \in O : Live(q) /\ KnownHead(q, at + 1)
    BY <2>5, <2>6 DEF Headed
  <2>8. ~last => O = {st}
    OBVIOUS
  <2> HIDE DEF O
  <2> QED
    BY <1>2, <2>1, <2>2, <2>4, <2>7, <2>8, TextStep
<1> QED
  BY <1>10, <1>11

-----------------------------------------------------------------------------
(* The callbacks of the data.  A part that claims to be the file, before   *)
(* an id and a name have come, is refused.                                 *)
LEMMA BeginCalled ==
  ASSUME NEW f \in Files, NEW g \in BOOLEAN, NEW s, NEW i, NEW x, NEW t,
         Fits(f, g, s, i, "s_part_data_start", x, t), NEW q \in data_begin_cb(s)
  PROVE  \/ Finished(f, g, q)
         \/ q = s /\ s.parttype # "filedata"
         \/ i = 75 /\ s.parttype = "filedata" /\ q = [s EXCEPT !.temp = <<>>]
<1>1. i \in Nat /\ (i = 20 \/ i = 43 \/ i = 75)
  BY DEF Fits, Placed, InHead, InFile, InTail
<1>2. Live(s) /\ KnownHead(s, i) /\ (s.mishaps = {} => Undivided(f, g, s, i))
  BY DEF Fits
<1>3. CASE s.parttype # "filedata"
  BY <1>3 DEF data_begin_cb
<1>4. CASE s.parttype = "filedata" /\ (s.sessionid = None \/ s.filename = None)
  <2>1. s.mishaps # {}
    BY <1>1, <1>2, <1>4, NoneAssumption DEF Undivided, Among
  <2>2. q = Refuse(s)
    BY <1>4 DEF data_begin_cb
  <2> QED
    BY <1>2, <2>1, <2>2, RefusedFinished
<1>5. CASE s.parttype = "filedata" /\ s.sessionid # None /\ s.filename # None
  <2>1. i = 75
    BY <1>1, <1>2, <1>5 DEF KnownHead, Among
  <2>2. q = [s EXCEPT !.temp = <<>>] \/ q = Break(s)
    BY <1>5 DEF data_begin_cb
  <2>3. CASE q = Break(s)
    BY <1>2, <2>3, BrokenFinished
  <2> QED
    BY <1>5, <2>1, <2>2, <2>3
<1> QED
  BY <1>3, <1>4, <1>5

(* An id or a name is kept; nothing else changes.                          *)
LEMMA ShortPassed ==
  ASSUME NEW s, Live(s), s.parttype # "filedata", NEW data, NEW q \in data_cb(s, data)
  PROVE  /\ Live(q) /\ q.mishaps = s.mishaps /\ q.parttype = s.parttype
         /\ q.sessionid = IF s.parttype = "sessionid" THEN data ELSE s.sessionid
         /\ q.filename = IF s.parttype = "filename" THEN data ELSE s.filename
<1>1. CASE s.parttype = "sessionid"
  <2>1. q = [s EXCEPT !.sessionid = data]
    BY <1>1 DEF data_cb
  <2> QED
    BY <1>1, <2>1 DEF Live, Fields
<1>2. CASE s.parttype = "filename"
  <2>1. q = [s EXCEPT !.filename = data]
    BY <1>2 DEF data_cb
  <2> QED
    BY <1>2, <2>1 DEF Live, Fields
<1>3. CASE s.parttype \notin {"sessionid", "filename", "filedata"}
  <2>1. q = s
    BY <1>3 DEF data_cb
  <2> QED
    BY <1>3, <2>1
<1> QED
  BY <1>1, <1>2, <1>3

LEMMA ShortKnown ==
  ASSUME NEW s, Live(s), s.parttype # "filedata", NEW data, NEW q \in data_cb(s, data),
         NEW i \in Nat, i \in {20, 21, 22, 43, 44, 45}, KnownHead(s, i)
  PROVE  KnownHead(q, i + 1)
<1>1. /\ q.parttype = s.parttype
      /\ s.parttype # "sessionid" => q.sessionid = s.sessionid
      /\ s.parttype # "filename" => q.filename = s.filename
  BY ShortPassed
<1> QED
  BY <1>1 DEF KnownHead, Among

(* A piece of the file is appended.                                        *)
Carried(s, q) ==
  /\ Live(q) /\ q.mishaps = s.mishaps /\ q.parttype = s.parttype
  /\ s.parttype = "filedata" => q.sessionid = s.sessionid /\ q.filename = s.filename

Appended(s, data, q) ==
  /\ q.temp = s.temp \o data
  /\ s.filedata \/ data # <<>> => q.filedata

LEMMA FilePassed ==
  ASSUME NEW f, NEW g, NEW s, Live(s), NEW data, NEW q \in data_cb(s, data)
  PROVE  \/ Finished(f, g, q)
         \/ /\ Carried(s, q)
            /\ s.parttype = "filedata" => Appended(s, data, q)
<1>1. CASE s.parttype # "filedata"
  BY <1>1, ShortPassed DEF Carried
<1>2. CASE s.parttype = "filedata"
  <2> DEFINE r == [s EXCEPT !.temp = @ \o data, !.filedata = @ \/ data # <<>>]
  <2>1. q = r \/ q = Break(s)
    BY <1>2 DEF data_cb
  <2>2. /\ DOMAIN r = DOMAIN s /\ r.go = s.go /\ r.replies = s.replies /\ r.target = s.target
        /\ r.mishaps = s.mishaps /\ r.parttype = s.parttype
        /\ r.sessionid = s.sessionid /\ r.filename = s.filename
        /\ r.temp = s.temp \o data /\ r.filedata = (s.filedata \/ data # <<>>)
    BY DEF Live, Fields
  <2> HIDE DEF r
  <2>3. Live(r)
    BY <2>2 DEF Live
  <2>4. CASE q = r
    BY <2>2, <2>3, <2>4, Zenon DEF Carried, Appended
  <2>5. CASE q = Break(s)
    BY <2>5, BrokenFinished
  <2> QED
    BY <2>1, <2>4, <2>5
<1> QED
  BY <1>1, <1>2

LEMMA ShortFits ==
  ASSUME NEW f \in Files, NEW g, NEW s, NEW i \in {22, 45}, NEW p, NEW x, NEW t,
         Fits(f, g, s, i, p, x, t), s.parttype # "filedata",
         NEW q \in data_cb(s, t), NEW r, NEW y, Placed(f, i + 1, r, y)
  PROVE  Fits(f, g, q, i + 1, r, y, <<>>)
<1>1. /\ Live(s) /\ KnownHead(s, i)
      /\ s.mishaps = {} => Undivided(f, g, s, i) /\ Waiting(f, i, t)
  BY DEF Fits
<1>2. /\ Live(q) /\ q.mishaps = s.mishaps /\ q.parttype = s.parttype
      /\ q.sessionid = IF s.parttype = "sessionid" THEN t ELSE s.sessionid
      /\ q.filename = IF s.parttype = "filename" THEN t ELSE s.filename
  BY <1>1, ShortPassed
<1>3. KnownHead(q, i + 1) /\ KnownFile(f, q, i + 1, r, y, <<>>)
  BY <1>1, ShortKnown DEF KnownFile
<1>4. ASSUME q.mishaps = {} PROVE Undivided(f, g, q, i + 1) /\ Waiting(f, i + 1, <<>>)
  <2>1. Undivided(f, g, s, i) /\ Waiting(f, i, t)
    BY <1>1, <1>2, <1>4
  <2>2. Len(f) \in Nat
    BY FormShape
  <2>3. CASE i = 22
    <3>1. s.parttype = "sessionid" /\ t = Sid
      <4>1. s.parttype = "sessionid" /\ t = SubSeq(Body(f), 20, 21)
        BY <2>1, <2>3 DEF Undivided, Waiting, TextFrom, Among
      <4> QED
        BY <4>1, HeadTexts
    <3>2. q.sessionid = Sid
      BY <1>2, <3>1
    <3> QED
      BY <1>2, <2>2, <2>3, <3>1, <3>2 DEF Undivided, Waiting, Among, TailAt
  <2>4. CASE i = 45
    <3>1. s.parttype = "filename" /\ t = Name /\ s.sessionid = Sid /\ g
      <4>1. /\ s.parttype = "filename" /\ t = SubSeq(Body(f), 43, 44)
            /\ s.sessionid = Sid /\ g
        BY <2>1, <2>4 DEF Undivided, Waiting, TextFrom, Among
      <4> QED
        BY <4>1, HeadTexts
    <3>2. q.filename = Name /\ q.sessionid = Sid
      BY <1>2, <3>1
    <3> QED
      BY <1>2, <2>2, <2>4, <3>1, <3>2 DEF Undivided, Waiting, Among, TailAt
  <2> QED
    BY <2>3, <2>4
<1> QED
  BY <1>2, <1>3, <1>4 DEF Fits

(* The data of the first two parts.                                        *)
LEMMA HeadDataWalk ==
  ASSUME Walk, NEW last \in BOOLEAN, s_part_data(last), at <= 74
  PROVE  Walk'
<1> DEFINE begun == IF state = "s_part_data_start" THEN data_begin_cb(st) ELSE {st}
           passed(text) == UNION {IF s.go THEN data_cb(s, text) ELSE {s} : s \in begun}
<1>1. state = "s_part_data" \/ state = "s_part_data_start"
  BY DEF s_part_data, Expect
<1>2. PICK f \in Files, g \in BOOLEAN : Reads(f, g) /\ Fits(f, g, st, at, state, index, frag)
  BY <1>1, Opens
<1>3. at \in Nat /\ index \in Nat /\ index <= 4 /\ InHead(at, state, index)
  <2>1. Len(f) \in Nat
    BY FormShape
  <2> QED
    BY <1>1, <1>2, <2>1 DEF Fits, Placed, InFile, InTail, TailAt, Among
<1>4. /\ state = "s_part_data_start" => at \in {20, 43}
      /\ state = "s_part_data" => at \in {21, 22, 44, 45}
  BY <1>3 DEF InHead
<1>5. at \in {20, 21, 22, 43, 44, 45}
  BY <1>1, <1>4
<1>6. c = FormHead[at]
  BY <1>2, <1>3, <1>5, HeadByte DEF Among
<1>7. at + 1 <= Len(Body(f)) + 1
  BY <1>2, <1>3, <1>5, HeadByte DEF Among
<1>8. Live(st) /\ KnownHead(st, at)
  BY <1>2 DEF Fits
<1>9. CASE st.parttype = "filedata"
  <2>1. state = "s_part_data_start" /\ at \in {20, 43}
    BY <1>1, <1>4, <1>8, <1>9 DEF KnownHead, Among
  <2>2. \A s \in begun : Finished(f, g, s)
    BY <1>2, <1>9, <2>1, BeginCalled
  <2>3. \A text : passed(text) = begun
    BY <2>2 DEF Finished
  <2>4. c # "CR"
    BY <1>6, <2>1, HeadPlain
  <2>5. Continue(Split(begun, FALSE), "s_part_data", index, Rest(last), 1)
    BY <1>9, <2>3, <2>4 DEF s_part_data
  <2>6. Continue(begun, "s_part_data", index, Rest(last), 1)
    BY <2>5 DEF Split
  <2> HIDE DEF begun
  <2> QED
    BY <1>2, <1>7, <2>2, <2>6, Closes DEF Outcome
<1>10. CASE st.parttype # "filedata"
  <2>1. begun = {st}
    BY <1>10 DEF data_begin_cb
  <2>2. ASSUME NEW text PROVE passed(text) = data_cb(st, text)
    BY <1>8, <2>1 DEF Live
  <2>3. CASE at \in {22, 45}
    <3>1. c = "CR"
      BY <1>6, <2>3, HeadBytes
    <3>2. Continue(passed(frag), "s_part_data_almost_boundary", index, <<>>, 1)
      BY <3>1 DEF s_part_data
    <3>3. Continue(data_cb(st, frag), "s_part_data_almost_boundary", index, <<>>, 1)
      BY <2>2, <3>2
    <3>4. Placed(f, at + 1, "s_part_data_almost_boundary", index)
      BY <1>3, <2>3, HeadPlaced DEF InHead
    <3>5. \A q \in data_cb(st, frag) :
            Fits(f, g, q, at + 1, "s_part_data_almost_boundary", index, <<>>)
      BY <1>2, <1>10, <2>3, <3>4, ShortFits, ZenonT(60)
    <3> QED
      BY <1>2, <1>7, <3>3, <3>5, Closes DEF Outcome
  <2>4. CASE at \in {20, 21, 43, 44}
    <3> DEFINE O == IF last THEN data_cb(st, Text) ELSE {st}
    <3>1. c # "CR"
      BY <1>6, <2>4, HeadPlain
    <3>2. Continue(Split(IF last THEN passed(Text) ELSE begun, last), "s_part_data", index,
                   Rest(last), 1)
      BY <1>10, <3>1 DEF s_part_data
    <3>3. passed(Text) = data_cb(st, Text)
      BY <2>2
    <3>4. Continue(Split(O, last), "s_part_data", index, Rest(last), 1)
      BY <2>1, <3>2, <3>3
    <3>5. Placed(f, at + 1, "s_part_data", index)
      BY <1>3, <2>4, HeadPlaced DEF InHead
    <3>6. \A q \in data_cb(st, Text) : Live(q)
      BY <1>8, <1>10, ShortPassed
    <3>7. \A q \in data_cb(st, Text) : KnownHead(q, at + 1)
      BY <1>3, <1>5, <1>8, <1>10, ShortKnown
    <3>8. last => \A q \in O : Live(q) /\ KnownHead(q, at + 1)
      BY <3>6, <3>7
    <3>9. ~last => O = {st}
      OBVIOUS
    <3>10. TextAt(at)
      BY <2>4 DEF TextAt
    <3> HIDE DEF O
    <3> QED
      BY <1>2, <1>10, <3>4, <3>5, <3>8, <3>9, <3>10, TextStep
  <2> QED
    BY <1>5, <2>3, <2>4
<1> QED
  BY <1>9, <1>10

(* The end of the first two parts: an id is asked about.                   *)
LEMMA ShortEnds ==
  ASSUME NEW f \in Files, NEW g \in BOOLEAN, Reads(f, g), NEW s, NEW i \in {26, 49},
         NEW p, NEW x, NEW t, Fits(f, g, s, i, p, x, t), NEW q \in data_end_cb(s),
         NEW r, NEW y, Placed(f, i + 1, r, y)
  PROVE  Outcome(f, g, q, i + 1, r, y, <<>>)
<1>1. /\ Live(s) /\ KnownHead(s, i) /\ s.parttype # "filedata"
      /\ s.mishaps = {} => Undivided(f, g, s, i)
  BY DEF Fits, KnownHead, Among
<1>2. request.granted = g
  BY DEF Reads
<1> DEFINE e == [s EXCEPT !.parttype = None]
<1>3. /\ Live(e) /\ e.mishaps = s.mishaps
      /\ e.sessionid = s.sessionid /\ e.filename = s.filename
  BY <1>1 DEF Live, Fields
<1>4. \/ q = e /\ (s.parttype = "sessionid" => g)
      \/ q = Break(s)
      \/ q = Refuse(s) /\ s.parttype = "sessionid" /\ ~(g /\ s.sessionid = Sid)
  BY <1>1, <1>2 DEF data_end_cb
<1> HIDE DEF e
<1>5. CASE q = e /\ (s.parttype = "sessionid" => g)
  <2>1. KnownHead(e, i + 1) /\ KnownFile(f, e, i + 1, r, y, <<>>)
    BY <1>1, <1>3 DEF KnownHead, KnownFile, Among
  <2>2. ASSUME s.mishaps = {} PROVE Undivided(f, g, e, i + 1) /\ Waiting(f, i + 1, <<>>)
    <3>1. Undivided(f, g, s, i)
      BY <1>1, <2>2
    <3>2. g /\ s.sessionid = Sid /\ (i = 49 => s.filename = Name)
      BY <1>1, <1>5, <3>1 DEF Undivided, Among
    <3>3. Len(f) \in Nat
      BY FormShape
    <3> QED
      BY <1>3, <3>2, <3>3 DEF Undivided, Waiting, Among, TailAt
  <2> QED
    BY <1>3, <1>5, <2>1, <2>2 DEF Fits, Outcome
<1>6. CASE q = Break(s)
  BY <1>1, <1>6, BrokenFinished, ZenonT(60) DEF Outcome
<1>7. CASE q = Refuse(s) /\ s.parttype = "sessionid" /\ ~(g /\ s.sessionid = Sid)
  <2>1. s.mishaps = {} => ~g
    BY <1>1, <1>7 DEF Undivided, Among
  <2> QED
    BY <1>1, <1>7, <2>1, RefusedFinished DEF Outcome
<1> QED
  BY <1>4, <1>5, <1>6, <1>7

LEMMA HeadBoundaryWalk ==
  ASSUME Walk, s_part_data_almost_boundary \/ s_part_data_boundary, at <= 74
  PROVE  Walk'
<1>1. state \in {"s_part_data_almost_boundary", "s_part_data_boundary"}
  BY DEF s_part_data_almost_boundary, s_part_data_boundary, Expect
<1>2. PICK f \in Files, g \in BOOLEAN : Reads(f, g) /\ Fits(f, g, st, at, state, index, frag)
  BY <1>1, Opens
<1>3. at \in Nat /\ index \in Nat /\ index <= 4 /\ InHead(at, state, index)
  <2>1. Len(f) \in Nat
    BY FormShape
  <2> QED
    BY <1>1, <1>2, <2>1 DEF Fits, Placed, InFile, InTail, TailAt, Among
<1>4. Among(at, 1, 74)
  BY <1>1, <1>3 DEF InHead, Among
<1>5. c = FormHead[at]
  BY <1>2, <1>3, <1>4, HeadByte
<1>6. at + 1 <= Len(Body(f)) + 1
  BY <1>2, <1>3, <1>4, HeadByte
<1>7. CASE s_part_data_almost_boundary
  <2>1. at \in {23, 46}
    BY <1>3, <1>7 DEF s_part_data_almost_boundary, Expect, InHead
  <2>2. c = "LF"
    BY <1>5, <2>1, HeadBytes
  <2>3. Goto("s_part_data_boundary", 0)
    BY <1>7, <2>2 DEF s_part_data_almost_boundary
  <2>4. Placed(f, at + 1, "s_part_data_boundary", 0)
    BY <1>3, <2>1, HeadPlaced DEF InHead, Among
  <2>5. QuietAt(at)
    BY <2>1 DEF QuietAt
  <2> QED
    BY <1>2, <2>3, <2>4, <2>5, QuietStep
<1>8. CASE s_part_data_boundary
  <2>1. state = "s_part_data_boundary"
    BY <1>8 DEF s_part_data_boundary, Expect
  <2>2. \/ at \in 24 .. 26 /\ index = at - 24
        \/ at \in 47 .. 49 /\ index = at - 47
    BY <1>3, <2>1 DEF InHead, Among
  <2>3. c = Boundary[index + 1]
    <3>1. CASE at \in 24 .. 26 /\ index = at - 24
      <4>1. index + 1 = at - 23
        BY <3>1
      <4>2. FormHead[at] = Boundary[at - 23]
        BY <3>1, HeadBoundary
      <4> QED
        BY <1>5, <4>1, <4>2
    <3>2. CASE at \in 47 .. 49 /\ index = at - 47
      <4>1. index + 1 = at - 46
        BY <3>2
      <4>2. FormHead[at] = Boundary[at - 46]
        BY <3>2, HeadBoundary
      <4> QED
        BY <1>5, <4>1, <4>2
    <3> QED
      BY <2>2, <3>1, <3>2
  <2>4. Len(Boundary) = 3
    BY DEF Boundary
  <2>5. CASE index < 2
    <3>1. Goto(state, index + 1)
      BY <1>3, <1>8, <2>3, <2>4, <2>5 DEF s_part_data_boundary
    <3>2. at \in {24, 25, 47, 48}
      BY <1>3, <2>2, <2>5
    <3>3. QuietAt(at)
      BY <3>2 DEF QuietAt
    <3>4. InHead(at + 1, state, index + 1)
      BY <1>3, <2>1, <2>2, <3>2 DEF InHead, Among
    <3>5. Placed(f, at + 1, state, index + 1)
      BY <1>3, <2>5, <3>4, HeadPlaced
    <3> QED
      BY <1>1, <1>2, <3>1, <3>3, <3>5, QuietStep
  <2>6. CASE index >= 2
    <3>1. index = 2 /\ at \in {26, 49}
      BY <1>3, <2>2, <2>6
    <3>2. Continue(data_end_cb(st), "s_part_data_almost_end", 3, <<>>, 1)
      BY <1>8, <2>3, <2>4, <3>1 DEF s_part_data_boundary
    <3>3. Placed(f, at + 1, "s_part_data_almost_end", 3)
      BY <1>3, <3>1, HeadPlaced DEF InHead
    <3>4. \A q \in data_end_cb(st) : Outcome(f, g, q, at + 1, "s_part_data_almost_end", 3, <<>>)
      BY <1>2, <3>1, <3>3, ShortEnds, ZenonT(60)
    <3> QED
      BY <1>2, <1>6, <3>2, <3>4, Closes
  <2> QED
    BY <1>3, <2>5, <2>6
<1> QED
  BY <1>7, <1>8

(* Behind the file nothing is learnt any more.                             *)
LEMMA TailFits ==
  ASSUME NEW f \in Files, NEW g, NEW s, NEW i, NEW p, NEW x, NEW t,
         Fits(f, g, s, i, p, x, t), i >= TailAt(f), NEW r, NEW y, Placed(f, i + 1, r, y)
  PROVE  Fits(f, g, s, i + 1, r, y, <<>>)
<1>1. i \in Nat /\ Len(f) \in Nat
  BY FormShape DEF Fits, Placed
<1>2. s.mishaps # {}
  BY <1>1 DEF Fits, Undivided, TailAt
<1>3. KnownHead(s, i + 1) /\ KnownFile(f, s, i + 1, r, y, <<>>)
  BY <1>1 DEF KnownHead, KnownFile, Among, TailAt
<1> QED
  BY <1>2, <1>3 DEF Fits

LEMMA TailStep ==
  ASSUME Walk, NEW f \in Files, NEW g \in BOOLEAN, Reads(f, g),
         Fits(f, g, st, at, state, index, frag), at >= TailAt(f), at <= Len(Body(f)),
         NEW p, p # "stopped", Placed(f, at + 1, p, index), Goto(p, index)
  PROVE  Walk'
<1>1. at \in Nat /\ Len(Body(f)) \in Nat
  BY FormShape DEF Fits, Placed
<1>2. at + 1 <= Len(Body(f)) + 1
  BY <1>1
<1>3. Fits(f, g, st, at + 1, p, index, <<>>)
  BY TailFits
<1>4. Continue({st}, p, index, <<>>, 1)
  BY DEF Goto
<1> QED
  BY <1>2, <1>3, <1>4, Closes DEF Outcome

LEMMA EndWalk ==
  ASSUME Walk, s_part_data_almost_end \/ s_part_data_final_hyphen \/ s_end
  PROVE  Walk'
<1>1. state \in {"s_part_data_almost_end", "s_part_data_final_hyphen", "s_end"}
  BY DEF s_part_data_almost_end, s_part_data_final_hyphen, s_end, Expect
<1>2. PICK f \in Files, g \in BOOLEAN : Reads(f, g) /\ Fits(f, g, st, at, state, index, frag)
  BY <1>1, Opens
<1>3. /\ at \in Nat /\ index \in Nat /\ index <= 4
      /\ InHead(at, state, index) \/ InTail(f, at, state)
  BY <1>1, <1>2 DEF Fits, Placed, InFile, DataStates
<1>4. Len(f) \in Nat /\ Len(Body(f)) = Len(f) + 83
  BY FormShape
<1>5. at <= Len(Body(f)) /\ c = Body(f)[at]
  BY <1>2 DEF Reads, c, s_part_data_almost_end, s_part_data_final_hyphen, s_end, Expect
<1>6. CASE InHead(at, state, index)
  <2>1. at \in {27, 50} /\ state = "s_part_data_almost_end"
    BY <1>1, <1>6 DEF InHead
  <2>2. c = FormHead[at]
    BY <1>2, <1>3, <2>1, HeadByte DEF Among
  <2>3. c = "CR"
    BY <2>1, <2>2, HeadBytes
  <2>4. Goto("s_part_data_end", index)
    BY <2>1, <2>3 DEF s_part_data_almost_end, s_part_data_final_hyphen, s_end, Expect
  <2>5. Placed(f, at + 1, "s_part_data_end", index)
    BY <1>3, <2>1, HeadPlaced DEF InHead
  <2>6. QuietAt(at)
    BY <2>1 DEF QuietAt
  <2> QED
    BY <1>2, <2>4, <2>5, <2>6, QuietStep
<1>7. CASE InTail(f, at, state)
  <2>1. \/ at = TailAt(f) /\ state = "s_part_data_almost_end"
        \/ at = TailAt(f) + 1 /\ state = "s_part_data_final_hyphen"
        \/ Among(at, TailAt(f) + 2, TailAt(f) + 4) /\ state = "s_end"
    BY <1>7 DEF InTail
  <2>2. at >= TailAt(f)
    BY <1>3, <1>4, <2>1 DEF Among, TailAt
  <2>3. Body(f)[TailAt(f)] = "-" /\ Body(f)[TailAt(f) + 1] = "-"
    BY TailBytes
  <2>4. CASE at = TailAt(f) /\ state = "s_part_data_almost_end"
    <3>1. Goto("s_part_data_final_hyphen", index)
      <4>1. c = "-"
        BY <1>5, <2>3, <2>4
      <4> QED
        BY <2>4, <4>1 DEF s_part_data_almost_end, s_part_data_final_hyphen, s_end, Expect
    <3>2. Placed(f, at + 1, "s_part_data_final_hyphen", index)
      BY <1>3, <2>4 DEF Placed, InTail
    <3> QED
      BY <1>2, <1>5, <2>2, <3>1, <3>2, TailStep
  <2>5. CASE at = TailAt(f) + 1 /\ state = "s_part_data_final_hyphen"
    <3>1. Goto("s_end", index)
      <4>1. c = "-"
        BY <1>5, <2>3, <2>5
      <4> QED
        BY <2>5, <4>1 DEF s_part_data_almost_end, s_part_data_final_hyphen, s_end, Expect
    <3>2. Placed(f, at + 1, "s_end", index)
      BY <1>3, <1>4, <2>5 DEF Placed, InTail, Among, TailAt
    <3> QED
      BY <1>2, <1>5, <2>2, <3>1, <3>2, TailStep
  <2>6. CASE Among(at, TailAt(f) + 2, TailAt(f) + 4) /\ state = "s_end"
    <3>1. Goto(state, index)
      BY <2>6 DEF s_part_data_almost_end, s_part_data_final_hyphen, s_end, Expect
    <3>2. Placed(f, at + 1, state, index)
      BY <1>3, <1>4, <1>5, <2>6 DEF Placed, InTail, Among, TailAt
    <3> QED
      BY <1>1, <1>2, <1>5, <2>2, <3>1, <3>2, TailStep
  <2> QED
    BY <2>1, <2>4, <2>5, <2>6
<1> QED
  BY <1>3, <1>6, <1>7

(* The end of the body, wherever it comes, and the page.                   *)
LEMMA EofWalk ==
  ASSUME Walk, Eof
  PROVE  Walk'
<1>1. st.go /\ UNCHANGED <<request, at, page>> /\ state' = "stopped" /\ index' = 0
  BY DEF Eof
<1>2. state # "stopped"
  BY <1>1, Opens DEF Finished
<1>3. PICK f \in Files, g \in BOOLEAN : Reads(f, g) /\ Fits(f, g, st, at, state, index, frag)
  BY <1>2, Opens
<1>4. /\ Live(st) /\ at \in Nat /\ Len(f) \in Nat /\ Len(Body(f)) = Len(f) + 83
      /\ st.mishaps = {} => Undivided(f, g, st, at)
  BY <1>3, FormShape DEF Fits, Placed
<1> DEFINE m == IF at <= Len(request.body) THEN st.mishaps \cup {"cut"} ELSE st.mishaps
           q == [st EXCEPT !.go = FALSE, !.mishaps = m]
<1>5. m \subseteq {"cut", "split"} /\ m # {}
  <2>1. CASE at <= Len(request.body)
    BY <1>4, <2>1 DEF Live
  <2>2. CASE ~(at <= Len(request.body))
    <3>1. at >= TailAt(f)
      BY <1>3, <1>4, <2>2 DEF Reads, TailAt
    <3>2. st.mishaps # {}
      BY <1>4, <3>1 DEF Undivided, TailAt
    <3> QED
      BY <1>4, <2>2, <3>2 DEF Live
  <2> QED
    BY <2>1, <2>2
<1>6. st' = q
  BY DEF Eof
<1> HIDE DEF m
<1>7. /\ DOMAIN q = Fields /\ ~q.go /\ q.mishaps = m /\ q.parttype = st.parttype
      /\ q.replies = <<>> /\ q.target = Old
  BY <1>4 DEF Live, Fields
<1> HIDE DEF q
<1>8. Finished(f, g, q)
  <2>1. Len(q.replies) = 0
    BY <1>7
  <2>2. q.mishaps \cap {"cut", "split", "killed"} # {}
    BY <1>5, <1>7
  <2> QED
    BY <1>4, <1>5, <1>7, <2>1, <2>2 DEF Finished, Live
<1>9. /\ Form(request)' /\ page' \in {"progress", "uploaded", "error"}
      /\ at' \in 1 .. Len(request'.body) + 1
  BY <1>1 DEF Walk, Form
<1>10. request'.file = f /\ request'.granted = g
  BY <1>1, <1>3 DEF Reads
<1> QED
  BY <1>1, <1>6, <1>8, <1>9, <1>10 DEF Walk

LEMMA KillWalk ==
  ASSUME Walk, Kill
  PROVE  Walk'
<1>1. st.go /\ UNCHANGED <<request, at, page>> /\ state' = "stopped" /\ index' = 0
  BY DEF Kill
<1>2. state # "stopped"
  BY <1>1, Opens DEF Finished
<1>3. PICK f \in Files, g \in BOOLEAN : Reads(f, g) /\ Fits(f, g, st, at, state, index, frag)
  BY <1>2, Opens
<1>4. Finished(f, g, st')
  BY <1>3, KilledFinished DEF Fits, Kill
<1>5. /\ Form(request)' /\ page' \in {"progress", "uploaded", "error"}
      /\ at' \in 1 .. Len(request'.body) + 1
  BY <1>1 DEF Walk, Form
<1>6. request'.file = f /\ request'.granted = g
  BY <1>1, <1>3 DEF Reads
<1> QED
  BY <1>1, <1>4, <1>5, <1>6 DEF Walk

LEMMA PageWalk ==
  ASSUME Walk, finish_cb \/ UNCHANGED vars
  PROVE  Walk'
<1>1. UNCHANGED <<request, at, state, index, frag, st>>
  BY DEF finish_cb, vars
<1>2. page' \in {"progress", "uploaded", "error"}
  BY DEF Walk, finish_cb, vars
<1>3. Form(request)' /\ at' \in 1 .. Len(request'.body) + 1
  BY <1>1 DEF Walk, Form
<1>4. IF state' = "stopped" THEN Finished(request'.file, request'.granted, st') /\ index' = 0
      ELSE Fits(request'.file, request'.granted, st', at', state', index', frag')
  BY <1>1 DEF Walk
<1> QED
  BY <1>2, <1>3, <1>4 DEF Walk

-----------------------------------------------------------------------------
(* In the file: where the bytes that may belong to a delimiter lead.  The  *)
(* delimiter behind the file is the first one.                             *)
LEMMA FileBytes ==
  ASSUME NEW f \in Files, NEW i \in Nat, i >= 75, i < TailAt(f)
  PROVE  /\ i - 75 < Len(f) => Body(f)[i] = f[i - 74]
         /\ i - 75 >= Len(f) => Body(f)[i] = Delimiter[i - 74 - Len(f)]
<1>1. Len(f) \in Nat
  BY FormShape
<1>2. ASSUME i - 75 < Len(f) PROVE Body(f)[i] = f[i - 74]
  <2>1. i \in 75 .. Len(f) + 74
    BY <1>1, <1>2
  <2> QED
    BY <2>1, FormShape
<1>3. ASSUME i - 75 >= Len(f) PROVE Body(f)[i] = Delimiter[i - 74 - Len(f)]
  <2> DEFINE j == i - 74 - Len(f)
  <2>1. j \in 1 .. 5 /\ Len(f) + 74 + j = i
    BY <1>1, <1>3 DEF TailAt
  <2> HIDE DEF j
  <2>2. Body(f)[Len(f) + 74 + j] = Delimiter[j]
    BY <2>1, TailBytes
  <2> QED
    BY <2>1, <2>2 DEF j
<1> QED
  BY <1>2, <1>3

LEMMA DelimiterBytes ==
  /\ Delimiter \in Seq(Tokens) /\ Len(Delimiter) = 5
  /\ Delimiter[1] = "CR" /\ Delimiter[2] = "LF"
  /\ Boundary[1] = Delimiter[3] /\ Boundary[2] = Delimiter[4] /\ Boundary[3] = Delimiter[5]
  /\ Boundary[1] # "CR" /\ Boundary[2] # "CR" /\ Boundary[3] # "CR"
  /\ Len(Boundary) = 3
BY DEF Delimiter, Boundary, Tokens

(* Nothing is held back.                                                   *)
LEMMA ReadPlaced ==
  ASSUME NEW f \in Files, NEW i, NEW p \in {"s_part_data", "s_part_data_start"}, NEW x,
         Placed(f, i, p, x), InFile(f, i, p, x)
  PROVE  /\ Body(f)[i] = "CR" => Placed(f, i + 1, "s_part_data_almost_boundary", x)
         /\ Body(f)[i] # "CR" => /\ i - 75 < Len(f)
                                 /\ Placed(f, i + 1, "s_part_data", x)
<1>1. i \in Nat /\ i >= 75 /\ i < TailAt(f) /\ x \in Nat /\ x <= 4 /\ Len(f) \in Nat
  BY FormShape DEF Placed, InFile
<1>2. i - 75 <= Len(f)
  BY <1>1 DEF InFile, Delayed, Held
<1>3. Delimiter[1] = "CR"
  BY DelimiterBytes
<1>4. ASSUME Body(f)[i] = "CR" PROVE Placed(f, i + 1, "s_part_data_almost_boundary", x)
  <2>1. Held("s_part_data_almost_boundary", x) = 1
    BY DEF Held
  <2>2. i + 1 - 1 - 1 + 1 = i
    BY <1>1
  <2>3. InFile(f, i + 1, "s_part_data_almost_boundary", x)
    BY <1>1, <1>2, <1>3, <1>4, <2>1, <2>2 DEF InFile, Delayed, DataStates, TailAt
  <2> QED
    BY <1>1, <2>3 DEF Placed
<1>5. ASSUME Body(f)[i] # "CR" PROVE i - 75 < Len(f) /\ Placed(f, i + 1, "s_part_data", x)
  <2>1. i - 75 < Len(f)
    <3>1. ASSUME i - 75 = Len(f) PROVE FALSE
      <4>1. i - 74 - Len(f) = 1
        BY <1>1, <3>1
      <4> QED
        BY <1>1, <1>3, <1>5, <3>1, <4>1, FileBytes
    <3> QED
      BY <1>1, <1>2, <3>1
  <2>2. InFile(f, i + 1, "s_part_data", x)
    BY <1>1, <2>1 DEF InFile, Delayed, DataStates, TailAt, Held
  <2> QED
    BY <1>1, <2>1, <2>2 DEF Placed
<1> QED
  BY <1>4, <1>5

(* A CR is held back.                                                      *)
LEMMA NewlinePlaced ==
  ASSUME NEW f \in Files, NEW i, NEW x, Placed(f, i, "s_part_data_almost_boundary", x),
         InFile(f, i, "s_part_data_almost_boundary", x)
  PROVE  /\ i > 75 /\ Body(f)[i - 1] = "CR"
         /\ Body(f)[i] = "LF" => Placed(f, i + 1, "s_part_data_boundary", 0)
         /\ Body(f)[i] # "LF" => i - 75 <= Len(f) /\ Placed(f, i, "s_part_data", x)
<1>1. i \in Nat /\ i >= 75 /\ i < TailAt(f) /\ x \in Nat /\ x <= 4 /\ Len(f) \in Nat
  BY FormShape DEF Placed, InFile
<1>2. Delimiter[1] = "CR" /\ Delimiter[2] = "LF"
  BY DelimiterBytes
<1>3. Held("s_part_data_almost_boundary", x) = 1
  BY DEF Held
<1>4. /\ 1 <= i - 75 /\ Body(f)[i - 1 - 1 + 1] = Delimiter[1]
      /\ i - 75 > Len(f) => 1 = i - 75 - Len(f)
  BY <1>3 DEF InFile, Delayed
<1>5. i > 75 /\ Body(f)[i - 1] = "CR"
  <2>1. i - 1 - 1 + 1 = i - 1
    BY <1>1
  <2> QED
    BY <1>1, <1>2, <1>4, <2>1
<1>6. i - 75 = Len(f) => Body(f)[i] = "CR"
  <2>1. i - 75 = Len(f) => i - 74 - Len(f) = 1
    BY <1>1
  <2> QED
    BY <1>1, <1>2, <2>1, FileBytes
<1>7. i - 75 > Len(f) => Body(f)[i] = "LF"
  <2>1. i - 75 > Len(f) => i - 74 - Len(f) = 2
    BY <1>1, <1>4
  <2> QED
    BY <1>1, <1>2, <2>1, FileBytes
<1>8. ASSUME Body(f)[i] = "LF" PROVE Placed(f, i + 1, "s_part_data_boundary", 0)
  <2>1. PICK h \in Nat : h = 2 /\ h = Held("s_part_data_boundary", 0)
    BY DEF Held
  <2>2. i + 1 - h - 1 + 1 = i - 1 /\ i + 1 - h - 1 + 2 = i
    BY <1>1, <2>1
  <2>3. \A j \in 1 .. h : Body(f)[i + 1 - h - 1 + j] = Delimiter[j]
    <3>1. \A j \in 1 .. h : j = 1 \/ j = 2
      BY <2>1
    <3> QED
      BY <1>2, <1>5, <1>8, <2>2, <3>1
  <2>4. i + 1 - 75 > Len(f) => h = i + 1 - 75 - Len(f)
    BY <1>1, <1>4, <1>6, <1>8, <2>1
  <2>5. 75 <= i + 1 /\ i + 1 < TailAt(f) /\ i + 1 # 75 /\ h <= i + 1 - 75
    BY <1>1, <1>4, <1>5, <2>1 DEF TailAt
  <2>6. InFile(f, i + 1, "s_part_data_boundary", 0)
    <3>1. Delayed(f, i + 1, h)
      BY <1>1, <2>1, <2>3, <2>4, <2>5 DEF Delayed
    <3> QED
      BY <2>1, <2>5, <3>1 DEF InFile, DataStates
  <2> QED
    BY <1>1, <2>6 DEF Placed
<1>9. ASSUME Body(f)[i] # "LF" PROVE i - 75 <= Len(f) /\ Placed(f, i, "s_part_data", x)
  <2>1. i - 75 <= Len(f)
    BY <1>1, <1>7, <1>9
  <2>2. InFile(f, i, "s_part_data", x)
    BY <1>1, <1>5, <2>1 DEF InFile, Delayed, DataStates, Held
  <2> QED
    BY <1>1, <2>1, <2>2 DEF Placed
<1> QED
  BY <1>5, <1>8, <1>9

(* Nothing in the file looks like a whole delimiter.                       *)
LEMMA NoDelimiter ==
  ASSUME NEW f \in Files, NEW i \in Nat, i >= 79, i - 75 < Len(f),
         \A j \in 1 .. Len(Delimiter) : Body(f)[i - 5 + j] = Delimiter[j]
  PROVE  FALSE
<1>1. PICK k \in Nat, n \in Nat : k = i - 78 /\ n = 5
  OBVIOUS
<1>2. f \in Seq(Tokens) /\ Len(f) \in Nat /\ Delimiter \in Seq(Tokens) /\ Len(Delimiter) = n
  BY <1>1, FormShape, DelimiterBytes
<1>3. ASSUME NEW j \in 1 .. n PROVE f[k + j - 1] = Delimiter[j]
  <2>1. i - 5 + j \in 75 .. Len(f) + 74 /\ i - 5 + j - 74 = k + j - 1
    BY <1>1, <1>2
  <2>2. Body(f)[i - 5 + j] = f[i - 5 + j - 74]
    BY <2>1, FormShape
  <2> QED
    BY <1>2, <2>1, <2>2
<1> DEFINE s == SubSeq(f, k, Len(f))
           a == SubSeq(s, 1, Len(Delimiter))
<1>4. /\ s \in Seq(Tokens) /\ Len(s) >= n
      /\ \A j \in 1 .. n : s[j] = f[k + j - 1]
  BY <1>1, <1>2, SMTT(30)
<1> HIDE DEF s
<1>5. /\ a \in Seq(Tokens) /\ Len(a) = Len(Delimiter)
      /\ \A j \in 1 .. Len(a) : a[j] = s[j]
  BY <1>2, <1>4
<1> HIDE DEF a
<1>6. a = Delimiter
  <2>1. \A j \in 1 .. Len(a) : a[j] = Delimiter[j]
    BY <1>2, <1>3, <1>4, <1>5
  <2> QED
    BY <1>2, <1>5, <2>1, SameSequence
<1>7. SubSeq(Delimiter, 1, Len(Delimiter)) = Delimiter
  BY <1>2
<1>8. IsPrefix(Delimiter, s)
  BY <1>2, <1>4, <1>6, <1>7 DEF IsPrefix, a
<1>9. k \in 1 .. Len(f)
  BY <1>1, <1>2, SMTT(30)
<1> QED
  BY <1>8, <1>9, FilesAssumption DEF s

(* A CR, an LF and a part of the boundary are held back.                   *)
LEMMA BoundaryPlaced ==
  ASSUME NEW f \in Files, NEW i, NEW x, Placed(f, i, "s_part_data_boundary", x),
         InFile(f, i, "s_part_data_boundary", x)
  PROVE  /\ i > 75 /\ x <= 2 /\ Delayed(f, i, 2 + x)
         /\ Body(f)[i] # Boundary[x + 1] => i - 75 <= Len(f) /\ Placed(f, i, "s_part_data", x)
         /\ Body(f)[i] = Boundary[x + 1] /\ x < 2
              => Placed(f, i + 1, "s_part_data_boundary", x + 1)
         /\ Body(f)[i] = Boundary[x + 1] /\ x = 2 => i + 1 = TailAt(f)
<1>1. i \in Nat /\ i >= 75 /\ i < TailAt(f) /\ x \in Nat /\ x <= 2 /\ Len(f) \in Nat
  BY FormShape DEF Placed, InFile
<1>2. Delayed(f, i, 2 + x)
  <2>1. Held("s_part_data_boundary", x) = 2 + x
    BY DEF Held
  <2> QED
    BY <2>1 DEF InFile
<1>3. /\ 2 + x <= i - 75 /\ i > 75
      /\ i - 75 > Len(f) => 2 + x = i - 75 - Len(f)
  BY <1>1, <1>2 DEF Delayed
<1>4. Boundary[x + 1] # "CR" /\ Boundary[x + 1] = Delimiter[3 + x]
  <2>1. x = 0 \/ x = 1 \/ x = 2
    BY <1>1
  <2> QED
    BY <2>1, DelimiterBytes
<1>5. i - 75 = Len(f) => Body(f)[i] = "CR"
  <2>1. i - 75 = Len(f) => i - 74 - Len(f) = 1
    BY <1>1
  <2> QED
    BY <1>1, <2>1, FileBytes, DelimiterBytes
<1>6. i - 75 > Len(f) => Body(f)[i] = Boundary[x + 1]
  <2>1. i - 75 > Len(f) => i - 74 - Len(f) = 3 + x
    BY <1>1, <1>3
  <2> QED
    BY <1>1, <1>4, <2>1, FileBytes
<1>7. ASSUME Body(f)[i] # Boundary[x + 1]
      PROVE  i - 75 <= Len(f) /\ Placed(f, i, "s_part_data", x)
  <2>1. i - 75 <= Len(f)
    BY <1>1, <1>6, <1>7
  <2>2. InFile(f, i, "s_part_data", x)
    BY <1>1, <1>3, <2>1 DEF InFile, Delayed, DataStates, Held
  <2> QED
    BY <1>1, <2>1, <2>2 DEF Placed
<1>8. ASSUME Body(f)[i] = Boundary[x + 1]
      PROVE  \A j \in 1 .. 3 + x : Body(f)[i + 1 - (3 + x) - 1 + j] = Delimiter[j]
  <2> SUFFICES ASSUME NEW j \in 1 .. 3 + x
               PROVE  Body(f)[i + 1 - (3 + x) - 1 + j] = Delimiter[j]
    OBVIOUS
  <2>1. i + 1 - (3 + x) - 1 + j = i - (2 + x) - 1 + j /\ j \in Nat
    BY <1>1
  <2>2. CASE j = 3 + x
    <3>1. i - (2 + x) - 1 + j = i
      BY <1>1, <2>2
    <3> QED
      BY <1>4, <1>8, <2>1, <2>2, <3>1
  <2>3. CASE j # 3 + x
    <3>1. j \in 1 .. 2 + x
      BY <1>1, <2>3
    <3> QED
      BY <1>2, <2>1, <3>1 DEF Delayed
  <2> QED
    BY <2>2, <2>3
<1>9. ASSUME Body(f)[i] = Boundary[x + 1], x < 2
      PROVE  Placed(f, i + 1, "s_part_data_boundary", x + 1)
  <2>1. Held("s_part_data_boundary", x + 1) = 3 + x
    BY <1>1 DEF Held
  <2>2. i + 1 - 75 > Len(f) => 3 + x = i + 1 - 75 - Len(f)
    BY <1>1, <1>3, <1>4, <1>5, <1>9
  <2>3. 75 <= i + 1 /\ i + 1 < TailAt(f) /\ i + 1 # 75 /\ 3 + x <= i + 1 - 75
    BY <1>1, <1>3, <1>4, <1>5, <1>9 DEF TailAt
  <2>4. Delayed(f, i + 1, 3 + x)
    BY <1>1, <1>8, <1>9, <2>2, <2>3 DEF Delayed
  <2>5. InFile(f, i + 1, "s_part_data_boundary", x + 1)
    BY <1>1, <1>9, <2>1, <2>3, <2>4 DEF InFile, DataStates
  <2> QED
    BY <1>1, <1>9, <2>5 DEF Placed
<1>10. ASSUME Body(f)[i] = Boundary[x + 1], x = 2
       PROVE  i + 1 = TailAt(f)
  <2>1. CASE i - 75 < Len(f)
    <3>1. ASSUME NEW j \in 1 .. Len(Delimiter) PROVE Body(f)[i - 5 + j] = Delimiter[j]
      <4>1. i + 1 - (3 + x) - 1 + j = i - 5 + j /\ j \in 1 .. 3 + x
        BY <1>1, <1>10, DelimiterBytes
      <4> QED
        BY <1>8, <1>10, <4>1
    <3>2. i >= 79
      BY <1>1, <1>3, <1>10
    <3> QED
      BY <1>1, <2>1, <3>1, <3>2, NoDelimiter
  <2>2. CASE i - 75 = Len(f)
    BY <1>4, <1>5, <1>10, <2>2
  <2>3. CASE i - 75 > Len(f)
    BY <1>1, <1>3, <1>10, <2>3 DEF TailAt
  <2> QED
    BY <1>1, <2>1, <2>2, <2>3
<1> QED
  BY <1>1, <1>2, <1>3, <1>7, <1>9, <1>10

(* What has been gathered of the file grows by what the body says, and     *)
(* goes from the text that waits into the temporary file.                  *)
LEMMA Longer ==
  ASSUME NEW f \in Seq(Tokens), NEW m \in Nat, NEW d \in Seq(Tokens),
         m + Len(d) <= Len(f), \A j \in 1 .. Len(d) : f[m + j] = d[j]
  PROVE  SubSeq(f, 1, m) \o d = SubSeq(f, 1, m + Len(d))
<1> DEFINE a == SubSeq(f, 1, m)
           b == SubSeq(f, 1, m + Len(d))
           e == a \o d
<1>1. a \in Seq(Tokens) /\ Len(a) = m /\ \A j \in 1 .. m : a[j] = f[j]
  OBVIOUS
<1>2. b \in Seq(Tokens) /\ Len(b) = m + Len(d) /\ \A j \in 1 .. Len(b) : b[j] = f[j]
  OBVIOUS
<1> HIDE DEF a, b
<1>3. /\ e \in Seq(Tokens) /\ Len(e) = m + Len(d)
      /\ \A j \in 1 .. m : e[j] = a[j]
      /\ \A j \in m + 1 .. m + Len(d) : e[j] = d[j - m]
  BY <1>1, Joined, SMTT(30)
<1> HIDE DEF e
<1>4. ASSUME NEW j \in 1 .. Len(e) PROVE e[j] = b[j]
  <2>1. CASE j \in 1 .. m
    BY <1>1, <1>2, <1>3, <2>1
  <2>2. CASE j \notin 1 .. m
    <3>1. PICK k \in 1 .. Len(d) : k = j - m /\ m + k = j
      BY <1>3, <2>2
    <3>2. e[j] = d[k] /\ b[j] = f[m + k]
      BY <1>2, <1>3, <3>1
    <3> QED
      BY <3>2
  <2> QED
    BY <2>1, <2>2
<1>5. e = b
  BY <1>2, <1>3, <1>4, SameSequence
<1> QED
  BY <1>5 DEF a, b, e

LEMMA ThreeJoined ==
  ASSUME NEW s \in Seq(Tokens), NEW t \in Seq(Tokens), NEW u \in Seq(Tokens)
  PROVE  (s \o t) \o u = s \o (t \o u)
BY ConcatAssociative

LEMMA TextGathered ==
  ASSUME NEW f \in Seq(Tokens), NEW s, NEW m \in Nat, m < Len(f), NEW t, Gathered(f, s, m, t)
  PROVE  Gathered(f, s, m + 1, Append(t, f[m + 1]))
<1> DEFINE e == <<f[m + 1]>>
           temp == s.temp
<1>1. /\ temp \in Seq(Tokens) /\ t \in Seq(Tokens)
      /\ temp \o t = SubSeq(f, 1, m) /\ (temp # <<>> => s.filedata)
  BY DEF Gathered
<1>2. f[m + 1] \in Tokens
  OBVIOUS
<1> HIDE DEF temp
<1>3. Append(t, f[m + 1]) = t \o e
  BY <1>1, <1>2
<1>4. e \in Seq(Tokens) /\ Len(e) = 1 /\ e[1] = f[m + 1]
  BY <1>2
<1> HIDE DEF e
<1>5. t \o e \in Seq(Tokens) /\ (temp \o t) \o e = temp \o (t \o e)
  <2>1. (temp \o t) \o e = temp \o (t \o e)
    BY <1>1, <1>4, ThreeJoined
  <2>2. t \o e \in Seq(Tokens)
    BY <1>1, <1>4, ConcatProperties, Zenon
  <2> QED
    BY <2>1, <2>2
<1>6. SubSeq(f, 1, m) \o e = SubSeq(f, 1, m + 1)
  <2>1. m + Len(e) <= Len(f) /\ \A j \in 1 .. Len(e) : f[m + j] = e[j]
    BY <1>4
  <2> QED
    BY <1>4, <2>1, Longer
<1>7. temp \o Append(t, f[m + 1]) = SubSeq(f, 1, m + 1) /\ Append(t, f[m + 1]) \in Seq(Tokens)
  BY <1>1, <1>3, <1>5, <1>6
<1> QED
  BY <1>1, <1>7 DEF Gathered, temp

LEMMA HeldGathered ==
  ASSUME NEW f \in Seq(Tokens), NEW s, NEW m \in Nat, NEW d \in Seq(Tokens),
         m + Len(d) <= Len(f), \A j \in 1 .. Len(d) : f[m + j] = d[j],
         Gathered(f, s, m, <<>>)
  PROVE  Gathered(f, s, m + Len(d), d)
<1> DEFINE temp == s.temp
<1>1. temp \in Seq(Tokens) /\ temp \o <<>> = SubSeq(f, 1, m) /\ (temp # <<>> => s.filedata)
  BY DEF Gathered
<1> HIDE DEF temp
<1>2. temp = SubSeq(f, 1, m)
  BY <1>1
<1>3. SubSeq(f, 1, m) \o d = SubSeq(f, 1, m + Len(d))
  BY Longer
<1> QED
  BY <1>1, <1>2, <1>3 DEF Gathered, temp

(* What the file's part keeps of a request, when m bytes of the file are   *)
(* gathered.                                                               *)
Kept(f, s, q, m, t) ==
  /\ Carried(s, q)
  /\ s.parttype = "filedata" => Gathered(f, q, m, t)

LEMMA FileCalled ==
  ASSUME NEW f, NEW g, NEW s, NEW b, NEW m, NEW d, Kept(f, s, b, m, d),
         NEW q \in data_cb(b, d)
  PROVE  Finished(f, g, q) \/ Kept(f, s, q, m, <<>>)
<1>1. Live(b) /\ Carried(s, b)
  BY DEF Kept, Carried
<1>2. \/ Finished(f, g, q)
      \/ /\ Carried(b, q)
         /\ b.parttype = "filedata" => Appended(b, d, q)
  BY <1>1, FilePassed
<1>3. Carried(b, q) => Carried(s, q)
  BY <1>1 DEF Carried
<1>4. ASSUME Carried(b, q), s.parttype = "filedata", Appended(b, d, q)
      PROVE  Gathered(f, q, m, <<>>)
  <2> DEFINE temp == b.temp
             all == q.temp
  <2>1. /\ temp \in Seq(Tokens) /\ d \in Seq(Tokens) /\ all = temp \o d
        /\ temp \o d = SubSeq(f, 1, m) /\ (temp # <<>> => b.filedata)
    BY <1>4 DEF Kept, Gathered, Appended
  <2> HIDE DEF temp, all
  <2>2. all \in Seq(Tokens)
    BY <2>1, ConcatProperties
  <2>3. all \o <<>> = all /\ <<>> \in Seq(Tokens)
    BY <2>2, ConcatEmptySeq, EmptySeq
  <2>4. all # <<>> => temp # <<>> \/ d # <<>>
    BY <2>1, ConcatEqualIffEmpty
  <2>5. all # <<>> => q.filedata
    BY <1>4, <2>1, <2>4, Zenon DEF Appended, temp
  <2> QED
    BY <2>1, <2>2, <2>3, <2>5, Zenon DEF Gathered, all
<1>5. Carried(b, q) /\ s.parttype = "filedata" => b.parttype = "filedata"
  BY <1>1 DEF Carried
<1> QED
  BY <1>2, <1>3, <1>4, <1>5 DEF Kept

LEMMA FileFits ==
  ASSUME NEW f \in Files, NEW g, NEW s, NEW i, NEW p, NEW x, NEW t,
         Fits(f, g, s, i, p, x, t), i >= 75,
         NEW j, j > 75, NEW r \in DataStates, NEW y, Placed(f, j, r, y),
         NEW q, NEW m, NEW u, Kept(f, s, q, m, u),
         j - Held(r, y) - 75 = m, Held(r, y) > 0 => u = <<>>
  PROVE  Fits(f, g, q, j, r, y, u)
<1>1. i \in Nat /\ j \in Nat /\ Len(f) \in Nat
  BY FormShape DEF Fits, Placed
<1>2. j < TailAt(f)
  BY <1>1 DEF Placed, InHead, InFile, InTail, DataStates, FieldAt, StartAt, ValueAt, Among
<1>3. Carried(s, q) /\ Live(q)
  BY DEF Kept, Carried
<1>4. KnownHead(q, j)
  BY <1>1 DEF KnownHead, Among
<1>5. KnownFile(f, q, j, r, y, u)
  BY <1>1, <1>3 DEF KnownFile, Kept, Carried, Copied
<1>6. ASSUME q.mishaps = {} PROVE Undivided(f, g, q, j) /\ Waiting(f, j, u)
  <2>1. Undivided(f, g, s, i)
    BY <1>3, <1>6 DEF Fits, Carried
  <2>2. s.parttype = "filedata" /\ s.sessionid = Sid /\ s.filename = Name /\ g
    BY <1>1, <2>1 DEF Undivided
  <2>3. q.parttype = "filedata" /\ q.sessionid = Sid /\ q.filename = Name
    BY <1>3, <2>2 DEF Carried
  <2> QED
    BY <1>1, <1>2, <2>2, <2>3 DEF Undivided, Waiting, Among
<1> QED
  BY <1>3, <1>4, <1>5, <1>6 DEF Fits

(* The data of the file.                                                   *)
LEMMA FileDataWalk ==
  ASSUME Walk, NEW last \in BOOLEAN, s_part_data(last), at >= 75
  PROVE  Walk'
<1> DEFINE begun == IF state = "s_part_data_start" THEN data_begin_cb(st) ELSE {st}
           passed(text) == UNION {IF s.go THEN data_cb(s, text) ELSE {s} : s \in begun}
<1>1. state \in {"s_part_data", "s_part_data_start"}
  BY DEF s_part_data, Expect
<1>2. PICK f \in Files, g \in BOOLEAN : Reads(f, g) /\ Fits(f, g, st, at, state, index, frag)
  BY <1>1, Opens
<1>3. /\ f \in Seq(Tokens) /\ Len(f) \in Nat /\ Len(Body(f)) = Len(f) + 83
  BY FormShape
<1>4. Placed(f, at, state, index) /\ at \in Nat /\ InFile(f, at, state, index)
  BY <1>1, <1>2 DEF Fits, Placed, InHead, InTail, Among
<1>5. c = Body(f)[at] /\ at + 1 <= Len(Body(f)) + 1 /\ Held(state, index) = 0
  BY <1>1, <1>2, <1>3, <1>4 DEF c, Reads, InFile, TailAt, Held
<1>6. Live(st) /\ KnownFile(f, st, at, state, index, frag)
  BY <1>2 DEF Fits
<1>7. ASSUME NEW b \in begun
      PROVE  Finished(f, g, b) \/ (b.go /\ Kept(f, st, b, at - 75, frag))
  <2>1. CASE state = "s_part_data_start"
    <3>1. \/ Finished(f, g, b)
          \/ b = st /\ st.parttype # "filedata"
          \/ at = 75 /\ st.parttype = "filedata" /\ b = [st EXCEPT !.temp = <<>>]
      BY <1>2, <2>1, BeginCalled
    <3>2. CASE b = st /\ st.parttype # "filedata"
      BY <1>6, <3>2 DEF Kept, Carried, Live
    <3>3. CASE at = 75 /\ st.parttype = "filedata" /\ b = [st EXCEPT !.temp = <<>>]
      <4>1. Carried(st, b) /\ b.temp = <<>>
        BY <1>6, <3>3 DEF Carried, Live, Fields
      <4>2. frag = <<>> /\ at - 75 = 0
        BY <1>6, <3>3 DEF KnownFile
      <4>3. <<>> \o <<>> = SubSeq(f, 1, 0) /\ <<>> \in Seq(Tokens)
        BY <1>3
      <4> QED
        BY <4>1, <4>2, <4>3 DEF Kept, Gathered, Carried, Live
    <3> QED
      BY <3>1, <3>2, <3>3
  <2>2. CASE state = "s_part_data"
    <3>1. b = st /\ st.go /\ Carried(st, st)
      BY <1>6, <2>2 DEF Carried, Live
    <3>2. at # 75
      BY <1>4, <2>2 DEF InFile
    <3>3. ASSUME st.parttype = "filedata" PROVE Gathered(f, st, at - 75, frag)
      <4>1. Gathered(f, st, at - Held(state, index) - 75, frag)
        BY <1>4, <1>6, <3>2, <3>3 DEF KnownFile, Copied, InFile
      <4>2. at - Held(state, index) - 75 = at - 75
        BY <1>4, <1>5
      <4> QED
        BY <4>1, <4>2
    <3> QED
      BY <3>1, <3>3 DEF Kept
  <2> QED
    BY <1>1, <2>1, <2>2
<1>8. ASSUME NEW m, NEW text,
             \A b \in begun : Finished(f, g, b) \/ (b.go /\ Kept(f, st, b, m, text)),
             NEW q \in passed(text)
      PROVE  Finished(f, g, q) \/ Kept(f, st, q, m, <<>>)
  <2>1. PICK b \in begun : q \in IF b.go THEN data_cb(b, text) ELSE {b}
    BY <1>8
  <2>2. CASE Finished(f, g, b)
    BY <2>1, <2>2 DEF Finished
  <2>3. CASE b.go /\ Kept(f, st, b, m, text)
    BY <2>1, <2>3, FileCalled
  <2> QED
    BY <1>8, <2>2, <2>3
<1>9. CASE c = "CR"
  <2>1. Continue(passed(frag), "s_part_data_almost_boundary", index, <<>>, 1)
    BY <1>9 DEF s_part_data
  <2>2. Placed(f, at + 1, "s_part_data_almost_boundary", index)
    BY <1>1, <1>4, <1>5, <1>9, ReadPlaced
  <2>3. "s_part_data_almost_boundary" \in DataStates
    BY DEF DataStates
  <2>4. \A q \in passed(frag) : Finished(f, g, q) \/ Kept(f, st, q, at - 75, <<>>)
    BY <1>7, <1>8
  <2> HIDE DEF passed
  <2>5. ASSUME NEW q \in passed(frag)
        PROVE  Outcome(f, g, q, at + 1, "s_part_data_almost_boundary", index, <<>>)
    <3>1. ASSUME Kept(f, st, q, at - 75, <<>>)
          PROVE  Fits(f, g, q, at + 1, "s_part_data_almost_boundary", index, <<>>)
      <4>1. PICK j \in Nat, m \in Int : j = at + 1 /\ m = at - 75
        BY <1>4
      <4>2. Placed(f, j, "s_part_data_almost_boundary", index) /\ Kept(f, st, q, m, <<>>)
        BY <2>2, <3>1, <4>1, Zenon
      <4>3. j - Held("s_part_data_almost_boundary", index) - 75 = m /\ j > 75
        BY <1>4, <4>1 DEF Held
      <4>4. Fits(f, g, q, j, "s_part_data_almost_boundary", index, <<>>)
        BY <1>2, <2>3, <4>2, <4>3, FileFits
      <4> QED
        BY <4>1, <4>4
    <3> QED
      BY <2>4, <3>1 DEF Outcome
  <2> QED
    BY <1>2, <1>5, <2>1, <2>5, Closes
<1>10. CASE c # "CR"
  <2>1. at - 75 < Len(f) /\ Placed(f, at + 1, "s_part_data", index)
    BY <1>1, <1>4, <1>5, <1>10, ReadPlaced
  <2>2. c = f[at - 75 + 1] /\ at - 75 \in Nat
    <3>1. at < TailAt(f) /\ at - 74 = at - 75 + 1
      BY <1>4 DEF InFile
    <3> QED
      BY <1>4, <1>5, <2>1, <3>1, FileBytes
  <2>3. "s_part_data" \in DataStates /\ ~(Held("s_part_data", index) > 0)
    BY DEF Held, DataStates
  <2>4. ASSUME NEW b \in begun
        PROVE  Finished(f, g, b) \/ (b.go /\ Kept(f, st, b, at - 75 + 1, Text))
    <3>1. CASE b.go /\ Kept(f, st, b, at - 75, frag)
      <4>1. st.parttype = "filedata" => Gathered(f, b, at - 75 + 1, Append(frag, f[at - 75 + 1]))
        BY <1>3, <2>1, <2>2, <3>1, TextGathered DEF Kept
      <4> QED
        BY <2>2, <3>1, <4>1 DEF Kept, Text
    <3> QED
      BY <1>7, <3>1
  <2>5. \A q \in passed(Text) : Finished(f, g, q) \/ Kept(f, st, q, at - 75 + 1, <<>>)
    BY <1>8, <2>4
  <2> DEFINE O == IF last THEN passed(Text) ELSE begun
             cut == last /\ st.parttype # "filedata"
  <2>6. Continue(Split(O, cut), "s_part_data", index, Rest(last), 1)
    BY <1>10 DEF s_part_data
  <2>7. \A q \in O : Finished(f, g, q) \/ Kept(f, st, q, at - 75 + 1, Rest(last))
    BY <2>4, <2>5 DEF Rest
  <2> HIDE DEF O
  <2>8. ASSUME NEW q \in O
        PROVE  Outcome(f, g, q, at + 1, "s_part_data", index, Rest(last))
    <3>1. ASSUME Kept(f, st, q, at - 75 + 1, Rest(last))
          PROVE  Fits(f, g, q, at + 1, "s_part_data", index, Rest(last))
      <4>1. PICK j \in Nat, m \in Int : j = at + 1 /\ m = at - 75 + 1
        BY <1>4
      <4>2. Placed(f, j, "s_part_data", index) /\ Kept(f, st, q, m, Rest(last))
        BY <2>1, <3>1, <4>1, Zenon
      <4>3. j - Held("s_part_data", index) - 75 = m /\ j > 75
        BY <1>4, <4>1 DEF Held
      <4>4. Fits(f, g, q, j, "s_part_data", index, Rest(last))
        BY <1>2, <2>3, <4>2, <4>3, FileFits
      <4> QED
        BY <4>1, <4>4
    <3> QED
      BY <2>7, <3>1 DEF Outcome
  <2>9. CASE cut
    <3>1. Rest(last) = <<>>
      BY <2>9 DEF Rest
    <3>2. \A q \in O : CutOutcome(f, g, q, at + 1, "s_part_data", index)
      BY <2>8, <3>1 DEF CutOutcome, Outcome, Fits
    <3>3. \A q \in Split(O, TRUE) : Outcome(f, g, q, at + 1, "s_part_data", index, <<>>)
      BY <3>2, CutKeeps
    <3>4. Continue(Split(O, TRUE), "s_part_data", index, <<>>, 1)
      BY <2>6, <2>9, <3>1
    <3> QED
      BY <1>2, <1>5, <3>3, <3>4, Closes
  <2>10. CASE ~cut
    <3>1. Continue(O, "s_part_data", index, Rest(last), 1)
      BY <2>6, <2>10 DEF Split
    <3> QED
      BY <1>2, <1>5, <2>8, <3>1, Closes
  <2> QED
    BY <2>9, <2>10
<1> QED
  BY <1>9, <1>10

(* What is held back belongs to the file if no delimiter has come; then it *)
(* is passed on, and otherwise nothing was gathered since.                 *)
LEMMA FirstBytes ==
  ASSUME NEW d \in Seq(Tokens), NEW h \in Nat, h <= Len(d)
  PROVE  /\ SubSeq(d, 1, h) \in Seq(Tokens) /\ Len(SubSeq(d, 1, h)) = h
         /\ \A j \in 1 .. h : SubSeq(d, 1, h)[j] = d[j]
         /\ h = 1 => SubSeq(d, 1, h) = <<d[1]>>
<1> DEFINE e == SubSeq(d, 1, h)
           b == <<d[1]>>
<1>1. e \in Seq(Tokens) /\ Len(e) = h /\ \A j \in 1 .. h : e[j] = d[j]
  OBVIOUS
<1>2. h = 1 => b \in Seq(Tokens) /\ Len(b) = 1 /\ b[1] = d[1]
  OBVIOUS
<1> HIDE DEF e, b
<1>3. h = 1 => e = b
  BY <1>1, <1>2, SameSequence
<1> QED
  BY <1>1, <1>3 DEF e, b

LEMMA HeldText ==
  ASSUME NEW f \in Files, NEW i \in Nat, NEW h \in Nat, Delayed(f, i, h), i - 75 <= Len(f),
         NEW m \in Nat, m + h = i - 75
  PROVE  \A j \in 1 .. h : f[m + j] = Delimiter[j]
<1> SUFFICES ASSUME NEW j \in 1 .. h PROVE f[m + j] = Delimiter[j]
  OBVIOUS
<1>1. PICK k \in Nat : k = m + 74 + j
  OBVIOUS
<1>2. Len(f) \in Nat
  BY FormShape
<1>3. k >= 75 /\ k - 75 < Len(f) /\ k < TailAt(f)
  BY <1>1, <1>2 DEF TailAt
<1>4. k = i - h - 1 + j /\ k - 74 = m + j
  BY <1>1
<1>5. Body(f)[k] = f[k - 74]
  BY <1>1, <1>3, FileBytes
<1>6. Body(f)[k] = Delimiter[j]
  BY <1>4 DEF Delayed
<1> QED
  BY <1>4, <1>5, <1>6

LEMMA HeldPassed ==
  ASSUME NEW f \in Files, NEW s, NEW i \in Nat, NEW h \in Nat, h <= 5, Delayed(f, i, h),
         i - 75 <= Len(f), Gathered(f, s, i - h - 75, <<>>)
  PROVE  Gathered(f, s, i - 75, SubSeq(Delimiter, 1, h))
<1> DEFINE d == SubSeq(Delimiter, 1, h)
<1>1. PICK m \in Nat : m = i - h - 75 /\ m + h = i - 75
  BY DEF Delayed
<1>2. d \in Seq(Tokens) /\ Len(d) = h /\ \A j \in 1 .. h : d[j] = Delimiter[j]
  BY DelimiterBytes, FirstBytes
<1>3. \A j \in 1 .. h : f[m + j] = Delimiter[j]
  BY <1>1, HeldText
<1> HIDE DEF d
<1>4. f \in Seq(Tokens) /\ m + Len(d) <= Len(f) /\ m + Len(d) = i - 75
  BY <1>1, <1>2, FormShape
<1>5. \A j \in 1 .. Len(d) : f[m + j] = d[j]
  BY <1>2, <1>3
<1>6. Gathered(f, s, m, <<>>)
  BY <1>1
<1>7. Gathered(f, s, m + Len(d), d)
  BY <1>2, <1>4, <1>5, <1>6, HeldGathered
<1> QED
  BY <1>4, <1>7 DEF d

LEMMA HeldKept ==
  ASSUME NEW f \in Files, NEW g, NEW s, NEW i, NEW p, NEW x, NEW t, Fits(f, g, s, i, p, x, t),
         i > 75, InFile(f, i, p, x), NEW h \in Nat, h = Held(p, x), h > 0, h <= 5
  PROVE  /\ Kept(f, s, s, i - h - 75, <<>>)
         /\ i - 75 <= Len(f) => Kept(f, s, s, i - 75, SubSeq(Delimiter, 1, h))
<1>1. i \in Nat /\ i < TailAt(f) /\ Carried(s, s)
  BY DEF Fits, Placed, InFile, Carried, Live
<1>2. Delayed(f, i, h)
  BY DEF InFile
<1>3. ASSUME s.parttype = "filedata" PROVE Gathered(f, s, i - h - 75, <<>>)
  <2>1. Copied(f, s, i, p, x, t)
    BY <1>1, <1>3 DEF Fits, KnownFile
  <2> QED
    BY <2>1 DEF Copied
<1>4. ASSUME i - 75 <= Len(f), s.parttype = "filedata"
      PROVE  Gathered(f, s, i - 75, SubSeq(Delimiter, 1, h))
  BY <1>1, <1>2, <1>3, <1>4, HeldPassed
<1> QED
  BY <1>1, <1>3, <1>4 DEF Kept

(* The end of the part of the file: it is stored.                          *)
LEMMA FileEnds ==
  ASSUME NEW f \in Files, NEW g \in BOOLEAN, NEW s, NEW i, NEW t,
         Fits(f, g, s, i, "s_part_data_boundary", 2, t), i + 1 = TailAt(f),
         NEW q \in data_end_cb(s)
  PROVE  Outcome(f, g, q, i + 1, "s_part_data_almost_end", 3, <<>>)
<1>1. /\ i \in Nat /\ f \in Seq(Tokens) /\ Len(f) \in Nat
      /\ Live(s) /\ (s.mishaps = {} => Undivided(f, g, s, i))
      /\ KnownFile(f, s, i, "s_part_data_boundary", 2, t)
  BY FormShape DEF Fits, Placed
<1>2. i >= 79
  BY <1>1 DEF TailAt
<1>3. CASE s.parttype # "filedata"
  <2> DEFINE e == [s EXCEPT !.parttype = None]
  <2>1. s.mishaps # {}
    BY <1>1, <1>2, <1>3 DEF Undivided
  <2>2. Live(e) /\ e.mishaps = s.mishaps
    BY <1>1 DEF Live, Fields
  <2>3. q = e \/ q = Refuse(s) \/ q = Break(s)
    BY <1>3 DEF data_end_cb
  <2> HIDE DEF e
  <2>4. Placed(f, i + 1, "s_part_data_almost_end", 3)
    BY <1>1 DEF Placed, InTail
  <2>5. KnownHead(e, i + 1) /\ KnownFile(f, e, i + 1, "s_part_data_almost_end", 3, <<>>)
    BY <1>1, <1>2 DEF KnownHead, KnownFile, Among
  <2>6. Fits(f, g, e, i + 1, "s_part_data_almost_end", 3, <<>>)
    BY <2>1, <2>2, <2>4, <2>5 DEF Fits
  <2>7. Finished(f, g, Refuse(s)) /\ Finished(f, g, Break(s))
    BY <1>1, <2>1, RefusedFinished, BrokenFinished
  <2> QED
    BY <2>3, <2>6, <2>7 DEF Outcome
<1>4. CASE s.parttype = "filedata"
  <2>1. Copied(f, s, i, "s_part_data_boundary", 2, t)
    BY <1>1, <1>2, <1>4 DEF KnownFile
  <2>2. Gathered(f, s, Len(f), <<>>)
    <3>1. Held("s_part_data_boundary", 2) = 4
      BY DEF Held
    <3>2. i - 4 - 75 = Len(f)
      BY <1>1 DEF TailAt
    <3> QED
      BY <2>1, <3>1, <3>2 DEF Copied
  <2>3. s.temp = f /\ (s.filedata \/ f = <<>>)
    <3>1. s.temp \o <<>> = s.temp
      BY <2>2, ConcatEmptySeq DEF Gathered
    <3>2. SubSeq(f, 1, Len(f)) = f
      BY <1>1
    <3> QED
      BY <2>2, <3>1, <3>2 DEF Gathered
  <2>4. q \in filecopy(s)
    BY <1>4 DEF data_end_cb
  <2>5. s.mishaps = {} => s.filename = Name
    BY <1>1, <1>2 DEF Undivided
  <2>6. CASE ~s.filedata
    <3>1. q = Refuse(s) /\ f = <<>>
      BY <2>3, <2>4, <2>6 DEF filecopy
    <3> QED
      BY <1>1, <3>1, RefusedFinished DEF Outcome
  <2>7. CASE s.filedata
    <3>1. \/ q = Stored(s, f) \/ q = Break(s) \/ q = [Break(s) EXCEPT !.target = None]
          \/ \E text : q = [Stored(s, text) EXCEPT !.mishaps = @ \cup {"read"}]
          \/ \E text : q = [Killed(s) EXCEPT !.target = text]
      BY <2>3, <2>4, <2>7 DEF filecopy
    <3>2. /\ Finished(f, g, Stored(s, f))
          /\ \A text : Finished(f, g, [Stored(s, text) EXCEPT !.mishaps = @ \cup {"read"}])
      BY <1>1, <2>5, StoredFinished
    <3>3. Finished(f, g, Break(s)) /\ Finished(f, g, [Break(s) EXCEPT !.target = None])
      BY <1>1, BrokenFinished
    <3>4. \A text : Finished(f, g, [Killed(s) EXCEPT !.target = text])
      BY <1>1, KilledFinished
    <3> QED
      BY <3>1, <3>2, <3>3, <3>4 DEF Outcome
  <2> QED
    BY <2>6, <2>7
<1> QED
  BY <1>3, <1>4

(* What may be the delimiter behind the file.                              *)
LEMMA FileBoundaryWalk ==
  ASSUME Walk, s_part_data_almost_boundary \/ s_part_data_boundary, at >= 75
  PROVE  Walk'
<1>1. state \in {"s_part_data_almost_boundary", "s_part_data_boundary"}
  BY DEF s_part_data_almost_boundary, s_part_data_boundary, Expect
<1>2. PICK f \in Files, g \in BOOLEAN : Reads(f, g) /\ Fits(f, g, st, at, state, index, frag)
  BY <1>1, Opens
<1>3. /\ f \in Seq(Tokens) /\ Len(f) \in Nat /\ Len(Body(f)) = Len(f) + 83
  BY FormShape
<1>4. Placed(f, at, state, index) /\ at \in Nat /\ index \in Nat /\ InFile(f, at, state, index)
  BY <1>1, <1>2 DEF Fits, Placed, InHead, InTail, Among
<1>5. c = Body(f)[at] /\ at + 1 <= Len(Body(f)) + 1 /\ at + 0 <= Len(Body(f)) + 1
  BY <1>2, <1>3, <1>4 DEF c, Reads, InFile, TailAt
<1>6. ASSUME NEW j \in Nat, j > 75, NEW r \in DataStates, NEW y, Placed(f, j, r, y),
             NEW m, j - Held(r, y) - 75 = m,
             NEW q, Finished(f, g, q) \/ Kept(f, st, q, m, <<>>)
      PROVE  Outcome(f, g, q, j, r, y, <<>>)
  BY <1>2, <1>6, FileFits DEF Outcome
<1>7. ASSUME NEW h \in Nat, h = Held(state, index), h > 0, h <= 5, at > 75,
             at - 75 <= Len(f), Placed(f, at, "s_part_data", index),
             Continue(data_cb(st, SubSeq(Delimiter, 1, h)), "s_part_data", index, <<>>, 0)
      PROVE  Walk'
  <2>1. Kept(f, st, st, at - 75, SubSeq(Delimiter, 1, h))
    BY <1>2, <1>4, <1>7, HeldKept
  <2>2. \A q \in data_cb(st, SubSeq(Delimiter, 1, h)) :
          Finished(f, g, q) \/ Kept(f, st, q, at - 75, <<>>)
    BY <2>1, FileCalled
  <2>3. at - Held("s_part_data", index) - 75 = at - 75 /\ "s_part_data" \in DataStates
    BY <1>4 DEF Held, DataStates
  <2>4. \A q \in data_cb(st, SubSeq(Delimiter, 1, h)) :
          Outcome(f, g, q, at, "s_part_data", index, <<>>)
    BY <1>4, <1>6, <1>7, <2>2, <2>3
  <2>5. at + 0 = at
    BY <1>4
  <2> QED
    BY <1>2, <1>5, <1>7, <2>4, <2>5, Closes
<1>8. ASSUME NEW h \in Nat, h = Held(state, index), h > 0, h <= 5, at > 75,
             NEW y, Held("s_part_data_boundary", y) = h + 1,
             Placed(f, at + 1, "s_part_data_boundary", y), Goto("s_part_data_boundary", y)
      PROVE  Walk'
  <2>1. PICK j \in Nat, m \in Int : j = at + 1 /\ m = at - h - 75
    BY <1>4
  <2>2. Kept(f, st, st, m, <<>>)
    BY <1>2, <1>4, <1>8, <2>1, HeldKept
  <2>3. /\ j - Held("s_part_data_boundary", y) - 75 = m /\ j > 75
        /\ "s_part_data_boundary" \in DataStates
    BY <1>4, <1>8, <2>1 DEF DataStates
  <2>4. Outcome(f, g, st, j, "s_part_data_boundary", y, <<>>)
    BY <1>6, <1>8, <2>1, <2>2, <2>3
  <2>5. Continue({st}, "s_part_data_boundary", y, <<>>, 1)
    BY <1>8 DEF Goto
  <2> QED
    BY <1>2, <1>5, <2>1, <2>4, <2>5, Closes
<1>9. CASE s_part_data_almost_boundary
  <2>1. state = "s_part_data_almost_boundary"
    BY <1>9 DEF s_part_data_almost_boundary, Expect
  <2>2. Held(state, index) = 1 /\ Held("s_part_data_boundary", 0) = 2
    BY <2>1 DEF Held
  <2>3. /\ at > 75
        /\ c = "LF" => Placed(f, at + 1, "s_part_data_boundary", 0)
        /\ c # "LF" => at - 75 <= Len(f) /\ Placed(f, at, "s_part_data", index)
    BY <1>4, <1>5, <2>1, NewlinePlaced
  <2>4. CASE c = "LF"
    BY <1>8, <1>9, <2>2, <2>3, <2>4 DEF s_part_data_almost_boundary
  <2>5. CASE c # "LF"
    <3>1. PICK h \in Nat : h = 1
      OBVIOUS
    <3>2. SubSeq(Delimiter, 1, h) = <<"CR">>
      BY <3>1, DelimiterBytes, FirstBytes
    <3>3. Continue(data_cb(st, <<"CR">>), "s_part_data", index, <<>>, 0)
      BY <1>9, <2>5 DEF s_part_data_almost_boundary
    <3>4. Continue(data_cb(st, SubSeq(Delimiter, 1, h)), "s_part_data", index, <<>>, 0)
      BY <3>2, <3>3, Zenon
    <3>5. h = Held(state, index) /\ h > 0 /\ h <= 5
      BY <2>2, <3>1
    <3> QED
      BY <1>7, <2>3, <2>5, <3>4, <3>5
  <2> QED
    BY <2>4, <2>5
<1>10. CASE s_part_data_boundary
  <2>1. state = "s_part_data_boundary"
    BY <1>10 DEF s_part_data_boundary, Expect
  <2>2. Held(state, index) = 2 + index /\ Held("s_part_data_boundary", index + 1) = 2 + index + 1
    BY <1>4, <2>1 DEF Held
  <2>3. /\ at > 75 /\ index <= 2
        /\ c # Boundary[index + 1] => at - 75 <= Len(f) /\ Placed(f, at, "s_part_data", index)
        /\ c = Boundary[index + 1] /\ index < 2
             => Placed(f, at + 1, "s_part_data_boundary", index + 1)
        /\ c = Boundary[index + 1] /\ index = 2 => at + 1 = TailAt(f)
    BY <1>4, <1>5, <2>1, BoundaryPlaced
  <2>4. CASE c # Boundary[index + 1]
    <3>1. Continue(data_cb(st, SubSeq(Delimiter, 1, 2 + index)), "s_part_data", index, <<>>, 0)
      BY <1>10, <2>4 DEF s_part_data_boundary
    <3>2. 2 + index \in Nat /\ 2 + index > 0 /\ 2 + index <= 5
      BY <1>4, <2>3
    <3> QED
      BY <1>7, <2>2, <2>3, <2>4, <3>1, <3>2
  <2>5. CASE c = Boundary[index + 1] /\ index < 2
    <3>1. Goto("s_part_data_boundary", index + 1)
      BY <1>4, <1>10, <2>1, <2>5, DelimiterBytes DEF s_part_data_boundary
    <3>2. 2 + index \in Nat /\ 2 + index > 0 /\ 2 + index <= 5
      BY <1>4, <2>3
    <3> QED
      BY <1>8, <2>2, <2>3, <2>5, <3>1, <3>2
  <2>6. CASE c = Boundary[index + 1] /\ index = 2
    <3>1. Continue(data_end_cb(st), "s_part_data_almost_end", 3, <<>>, 1)
      BY <1>10, <2>6, DelimiterBytes DEF s_part_data_boundary
    <3>2. \A q \in data_end_cb(st) : Outcome(f, g, q, at + 1, "s_part_data_almost_end", 3, <<>>)
      BY <1>2, <2>1, <2>3, <2>6, FileEnds
    <3> QED
      BY <1>2, <1>5, <3>1, <3>2, Closes
  <2> QED
    BY <1>4, <2>3, <2>4, <2>5, <2>6
<1> QED
  BY <1>9, <1>10

-----------------------------------------------------------------------------
(* Every byte of the body, its end, and the page keep to the walk.         *)
LEMMA WalkStarts ==
  ASSUME Init
  PROVE  Walk
<1>1. PICK f \in Files, g \in BOOLEAN : request = [file |-> f, body |-> Body(f), granted |-> g]
  BY DEF Init
<1>2. /\ Form(request) /\ request.file = f /\ request.granted = g
      /\ at = 1 /\ state = "s_start_boundary" /\ index = 0 /\ frag = <<>> /\ page = "progress"
  BY <1>1 DEF Init, Form
<1>3. at \in 1 .. Len(request.body) + 1
  BY <1>1, <1>2, FormShape
<1>4. /\ Live(st) /\ st.sessionid = None /\ st.filename = None
      /\ st.mishaps = {}
  BY DEF Init, Live, Fields
<1>5. Placed(f, 1, "s_start_boundary", 0)
  <2>1. InHead(1, "s_start_boundary", 0)
    BY DEF InHead, Among
  <2> QED
    BY <2>1 DEF Placed
<1>6. KnownHead(st, 1) /\ KnownFile(f, st, 1, "s_start_boundary", 0, <<>>)
  BY <1>4 DEF KnownHead, KnownFile, Among
<1>7. Undivided(f, g, st, 1) /\ Waiting(f, 1, <<>>)
  BY FormShape DEF Undivided, Waiting, Among, TailAt
<1>8. Fits(f, g, st, 1, "s_start_boundary", 0, <<>>)
  BY <1>4, <1>5, <1>6, <1>7 DEF Fits
<1> QED
  BY <1>2, <1>3, <1>8 DEF Walk

LEMMA WalkNext ==
  ASSUME Walk, [Next]_vars
  PROVE  Walk'
<1>1. at \in Nat
  BY DEF Walk
<1>2. ASSUME NEW last \in BOOLEAN, Parse(last) PROVE Walk'
  <2>1. CASE s_part_data(last)
    BY <1>1, <2>1, HeadDataWalk, FileDataWalk
  <2>2. CASE s_part_data_almost_boundary \/ s_part_data_boundary
    BY <1>1, <2>2, HeadBoundaryWalk, FileBoundaryWalk
  <2> QED
    BY <1>2, <2>1, <2>2, StartWalk, HeaderFieldWalk, QuietWalk, HeaderValueWalk, EndWalk
       DEF Parse
<1>3. CASE Eof
  BY <1>3, EofWalk
<1>4. CASE finish_cb \/ UNCHANGED vars
  BY <1>4, PageWalk
<1>5. CASE Kill
  BY <1>5, KillWalk
<1> QED
  BY <1>2, <1>3, <1>4, <1>5 DEF Next

LEMMA AlwaysWalks == Spec => []Walk
BY WalkStarts, WalkNext, PTL DEF Spec

(* The parser never looks past its boundary[], nor gives up on a form.     *)
THEOREM UploadTypeCorrect == Spec => []TypeOK
<1>1. ASSUME Walk PROVE TypeOK
  <2>1. PICK f \in Files, g \in BOOLEAN :
          /\ Reads(f, g)
          /\ state # "stopped" => Fits(f, g, st, at, state, index, frag)
          /\ state = "stopped" => Finished(f, g, st) /\ index = 0
    BY <1>1, Opens
  <2>2. page \in {"progress", "uploaded", "error"} /\ at \in 1 .. Len(request.body) + 1
    BY <1>1 DEF Walk
  <2>3. Len(Boundary) = 3
    BY DelimiterBytes
  <2>4. CASE state = "stopped"
    BY <2>1, <2>2, <2>3, <2>4 DEF TypeOK, States, Finished
  <2>5. CASE state # "stopped"
    <3>1. Placed(f, at, state, index) /\ Live(st)
      BY <2>1, <2>5 DEF Fits
    <3>2. state \in States
      BY <3>1 DEF Placed, InHead, InFile, InTail, DataStates, States
    <3>3. index \in 0 .. Len(Boundary) + 1
      BY <2>3, <3>1 DEF Placed
    <3>4. state = "s_part_data_boundary" => index < Len(Boundary)
      BY <2>3, <3>1 DEF Placed, InHead, InFile, InTail, Among
    <3> QED
      BY <2>2, <2>5, <3>1, <3>2, <3>3, <3>4 DEF TypeOK, Live
  <2> QED
    BY <2>4, <2>5
<1> QED
  BY <1>1, AlwaysWalks, PTL

(* What is decided about a request, while it is read and behind it.        *)
LEMMA Decided ==
  ASSUME Walk
  PROVE  \/ st.go /\ st.target = Old /\ Len(st.replies) = 0
         \/ ~st.go /\ Finished(request.file, request.granted, st)
<1>1. CASE state = "stopped"
  BY <1>1 DEF Walk, Finished
<1>2. CASE state # "stopped"
  <2>1. Live(st)
    BY <1>2 DEF Walk, Fits
  <2>2. Len(<<>>) = 0
    OBVIOUS
  <2> QED
    BY <2>1, <2>2 DEF Live
<1> QED
  BY <1>1, <1>2

(* However the body is cut into chunks, whatever in the file looks like    *)
(* the boundary (s_part_data_boundary), and wherever a write fails or the  *)
(* connection breaks, the target is the whole file or nothing of it; a     *)
(* part of it is left by a killed process only, which gives no answer.     *)
THEOREM StoredWhole == Spec => []AllOrNothing
<1>1. Walk => AllOrNothing
  BY Decided DEF AllOrNothing, Finished
<1> QED
  BY <1>1, AlwaysWalks, PTL

(* No request is answered twice, and one that is read whole, and without   *)
(* a cut inside a header or a value by a process that lives, is answered   *)
(* (response(), main_upload).                                              *)
THEOREM OneAnswer == Spec => []AnsweredOnce
<1>1. Walk => AnsweredOnce
  BY Decided DEF AnsweredOnce, Finished
<1> QED
  BY <1>1, AlwaysWalks, PTL

(* An upload that is allowed, has content and meets no mishap succeeds.    *)
THEOREM AllowedUploadSucceeds == Spec => []UploadSucceeds
<1>1. Walk => UploadSucceeds
  BY Decided DEF UploadSucceeds, Finished
<1> QED
  BY <1>1, AlwaysWalks, PTL

=============================================================================

-------------------------------- MODULE Upload --------------------------------
(***************************************************************************)
(* luci-upload: main.c and multipart_parser.c under src/io.  The form of   *)
(* L.ui.upload() is posted to it as multipart/form-data; it reads the body *)
(* in chunks of any size, parses it byte by byte, and stores the file that *)
(* the form carries if the session may upload.  Its answer is read by the  *)
(* finish_cb of the page.                                                  *)
(*                                                                         *)
(* A byte of the body, or a run of bytes between two of which a chunk may  *)
(* end without making a difference, is one token.  The parser's "mark" is  *)
(* kept as the text it has behind it: frag is what lies between mark and   *)
(* the current byte, which is lost when the chunk ends.                    *)
(*                                                                         *)
(* init_parser() hands the parser a pointer into its own stack frame.      *)
(* The model is of the builds in which that memory stays as it is.         *)
(***************************************************************************)
EXTENDS Naturals, Sequences, SequencesExt

CONSTANTS
  Files,  \* contents the user may choose to upload
  None,   \* a pointer that is NULL, a descriptor that is -1, a file that is gone
  Old     \* whatever was in the place of the target before

Boundary == <<"-", "-", "b">>
Delimiter == <<"CR", "LF">> \o Boundary

ASSUME FilesAssumption ==
  /\ Files \subseteq Seq({"x", "CR", "LF", "-", "b"})
  /\ \A f \in Files : ~ \E i \in 1 .. Len(f) : IsPrefix(Delimiter, SubSeq(f, i, Len(f)))

VARIABLES
  request,  \* [file, body, granted]: the form, and the rights of its session
  at,       \* position of the current byte in the body
  state,    \* p->state
  index,    \* p->index
  frag,     \* buf + mark .. buf + i
  st,       \* the state of main.c, its output, and the target file
  page      \* what the page shows: "progress", "uploaded", "error"

vars == <<request, at, state, index, frag, st, page>>

-----------------------------------------------------------------------------
(* The form, as a browser encodes it.                                      *)
Spelling == [sessionid |-> <<"session", "id">>,
             filename  |-> <<"file", "name">>,
             filedata  |-> <<"file", "data">>]

Sid  == <<"i", "d">>
Name == <<"/tmp/", "name">>

Newline == <<"CR", "LF">>
DispositionField == <<"content", "-", "dispo", "sition">>

(* What stands between two delimiters: Spelling, value, other headers.     *)
FormPart(spelling, rest, headers, value) ==
  Newline \o DispositionField \o <<":", "SP", "form-data">> \o spelling \o <<"quote">> \o rest
    \o Newline \o headers \o Newline \o value

Body(file) ==
  Boundary
    \o FormPart(Spelling.sessionid, <<>>, <<>>, Sid) \o Delimiter
    \o FormPart(Spelling.filename, <<>>, <<>>, Name) \o Delimiter
    \o FormPart(Spelling.filedata, <<"rest">>,
                <<"content", "-", "type", ":", "SP", "mime">> \o Newline, file)
    \o Delimiter \o <<"-", "-">> \o Newline

ASSUME NoneAssumption == None \notin {Sid, Name}

c == request.body[at]

-----------------------------------------------------------------------------
(* The callbacks of main.c: what they make of "st", as the set of possible *)
(* outcomes.  A callback that fails has called response(), and stops the   *)
(* parser (go).                                                            *)
Respond(s, reply) == [s EXCEPT !.replies = Append(@, reply), !.go = FALSE]
Refuse(s) == Respond(s, "failure")
Break(s)  == [Refuse(s) EXCEPT !.mishaps = @ \cup {"io"}]

header_field(s, data) ==
  [s EXCEPT !.is_content_disposition = IsPrefix(data, DispositionField)]

(* The names that begin with the text are tried in order: the last wins.   *)
PartNamed(text) ==
  IF IsPrefix(text, Spelling.filedata) THEN "filedata"
  ELSE IF IsPrefix(text, Spelling.filename) THEN "filename" ELSE "sessionid"

(* The search for the closing quote looks at one byte behind the data,     *)
(* which is whatever the buffer holds there.                               *)
header_value(s, data) ==
  IF ~s.is_content_disposition \/ Len(data) < 2 \/ data[1] # "form-data" THEN {s}
  ELSE IF Contains(data, "quote")
  THEN {[s EXCEPT !.parttype = PartNamed(SubSeq(data, 2, 3))]}
  ELSE {s, [s EXCEPT !.parttype = PartNamed(Tail(data))]}

data_begin_cb(s) ==
  IF s.parttype # "filedata" THEN {s}
  ELSE IF s.sessionid = None \/ s.filename = None THEN {Refuse(s)}
  ELSE {[s EXCEPT !.temp = <<>>], Break(s)}

(* Mutation: the last piece of the file decides whether there was any.     *)
data_cbForgetsData(s, data) ==
  CASE s.parttype = "sessionid" -> {[s EXCEPT !.sessionid = data]}
    [] s.parttype = "filename"  -> {[s EXCEPT !.filename = data]}
    [] s.parttype = "filedata"  ->
         {[s EXCEPT !.temp = @ \o data, !.filedata = data # <<>>]}
           \cup (IF data = <<>> THEN {} ELSE {Break(s)})
    [] OTHER -> {s}

(* A value that comes in two pieces is replaced by the second one; the     *)
(* pieces of the file are appended.                                        *)
data_cb(s, data) ==
  CASE s.parttype = "sessionid" -> {[s EXCEPT !.sessionid = data]}
    [] s.parttype = "filename"  -> {[s EXCEPT !.filename = data]}
    [] s.parttype = "filedata"  ->
         {[s EXCEPT !.temp = @ \o data, !.filedata = @ \/ data # <<>>]}
           \cup (IF data = <<>> THEN {} ELSE {Break(s)})
    [] OTHER -> {s}

Stored(s, content) ==
  [Respond(s, "success") EXCEPT !.target = [name |-> s.filename, content |-> content]]

(* The process is ended from outside.                                      *)
Killed(s) == [s EXCEPT !.go = FALSE, !.mishaps = @ \cup {"killed"}]

(* filecopy() and the response() after it.  Opening the target may fail,   *)
(* which leaves it alone; a write or the chmod may, and then response()    *)
(* removes it; a failing read() is taken for the end of the file.  Killed  *)
(* between two writes it leaves what was written.                          *)
filecopy(s) ==
  IF ~s.filedata THEN {Refuse(s)}
  ELSE {Stored(s, s.temp), Break(s), [Break(s) EXCEPT !.target = None]}
         \cup {[Stored(s, p) EXCEPT !.mishaps = @ \cup {"read"}] : p \in Prefixes(s.temp)}
         \cup {[Killed(s) EXCEPT !.target = [name |-> s.filename, content |-> p]] :
                 p \in Prefixes(s.temp)}

(* Mutation: the session is not asked about.                               *)
data_end_cbUnchecked(s) ==
  IF s.parttype = "filedata" THEN filecopy(s)
  ELSE {[s EXCEPT !.parttype = None]}

(* Mutation: a failed copy is answered twice.                              *)
data_end_cbAnswersTwice(s) ==
  IF s.parttype = "sessionid"
  THEN IF request.granted /\ s.sessionid = Sid
       THEN {[s EXCEPT !.parttype = None], Break(s)} ELSE {Refuse(s)}
  ELSE IF s.parttype = "filedata"
  THEN {IF r.replies = <<"failure">> THEN Respond(r, "success") ELSE r : r \in filecopy(s)}
  ELSE {[s EXCEPT !.parttype = None]}

(* session_access() is asked about the session id as it was stored; it     *)
(* knows the whole id only, and fails without an answer from ubus.         *)
data_end_cb(s) ==
  IF s.parttype = "sessionid"
  THEN IF request.granted /\ s.sessionid = Sid
       THEN {[s EXCEPT !.parttype = None], Break(s)} ELSE {Refuse(s)}
  ELSE IF s.parttype = "filedata" THEN filecopy(s)
  ELSE {[s EXCEPT !.parttype = None]}

-----------------------------------------------------------------------------
(* multipart_parser_execute(): one action per case of its switch.          *)
(* "last" says that the chunk ends with this byte.                         *)
Expect(p) == state = p /\ at <= Len(request.body)

(* A case ends: with an outcome of its callbacks, and where parsing goes.  *)
Continue(outcomes, next, idx, text, n) ==
  /\ \E s \in outcomes :
       /\ st' = s
       /\ state' = IF s.go THEN next ELSE "stopped"
       /\ index' = IF s.go THEN idx ELSE 0
       /\ frag' = IF s.go THEN text ELSE <<>>
       /\ at' = IF s.go THEN at + n ELSE at
  /\ UNCHANGED <<request, page>>

Goto(next, idx) == Continue({st}, next, idx, <<>>, 1)

(* A byte no case expects: the parser gives up.                            *)
GiveUp == Continue({[st EXCEPT !.go = FALSE]}, state, 0, <<>>, 0)

(* History: the chunk ends inside the text of a header or of a value.      *)
Split(outcomes, last) ==
  IF last THEN {[s EXCEPT !.mishaps = @ \cup {"split"}] : s \in outcomes} ELSE outcomes

(* The text after this byte, in a case that passes what it has on at the   *)
(* end of a chunk.                                                         *)
Text == Append(frag, c)
Rest(last) == IF last THEN <<>> ELSE Text

s_start_boundary ==
  /\ Expect("s_start_boundary")
  /\ IF index < Len(Boundary)
     THEN IF c = Boundary[index + 1] THEN Goto(state, index + 1) ELSE GiveUp
     ELSE IF index = Len(Boundary)
     THEN IF c = "CR" THEN Goto(state, index + 1) ELSE GiveUp
     ELSE IF c = "LF" THEN Goto("s_header_field", 0) ELSE GiveUp

(* A "-" at the end of a chunk is not passed on.                           *)
s_header_field(last) ==
  /\ Expect("s_header_field")
  /\ CASE c = "CR" -> Goto("s_headers_almost_done", index)
       [] c = "-"  -> Continue(Split({st}, last), state, index, Rest(last), 1)
       [] c = ":"  -> Continue({header_field(st, frag)}, "s_header_value_start", index, <<>>, 1)
       [] OTHER    -> Continue(Split(IF last THEN {header_field(st, Text)} ELSE {st}, last),
                               state, index, Rest(last), 1)

s_headers_almost_done ==
  /\ Expect("s_headers_almost_done")
  /\ IF c = "LF" THEN Goto("s_part_data_start", index) ELSE GiveUp

s_header_value_start ==
  /\ Expect("s_header_value_start")
  /\ c = "SP"
  /\ Goto(state, index)

(* A CR at the end of a chunk passes the value on twice; the second time   *)
(* changes nothing.                                                        *)
s_header_value(last) ==
  /\ Expect("s_header_value") \/ (Expect("s_header_value_start") /\ c # "SP")
  /\ IF c = "CR"
     THEN Continue(header_value(st, frag), "s_header_value_almost_done", index, <<>>, 1)
     ELSE Continue(Split(IF last THEN header_value(st, Text) ELSE {st}, last),
                   "s_header_value", index, Rest(last), 1)

s_header_value_almost_done ==
  /\ Expect("s_header_value_almost_done")
  /\ IF c = "LF" THEN Goto("s_header_field", index) ELSE GiveUp

(* The first byte of the data falls through from s_part_data_start, where  *)
(* headers_complete calls data_begin_cb.                                   *)
s_part_data(last) ==
  /\ Expect("s_part_data") \/ Expect("s_part_data_start")
  /\ LET begun == IF state = "s_part_data_start" THEN data_begin_cb(st) ELSE {st}
         passed(text) == UNION {IF s.go THEN data_cb(s, text) ELSE {s} : s \in begun}
     IN  IF c = "CR"
         THEN Continue(passed(frag), "s_part_data_almost_boundary", index, <<>>, 1)
         ELSE Continue(Split(IF last THEN passed(Text) ELSE begun,
                             last /\ st.parttype # "filedata"),
                       "s_part_data", index, Rest(last), 1)

(* Mutation: the comparison goes on where the last boundary ended.         *)
s_part_data_almost_boundaryKeepsIndex ==
  /\ Expect("s_part_data_almost_boundary")
  /\ IF c = "LF" THEN Goto("s_part_data_boundary", index)
     ELSE Continue(data_cb(st, <<"CR">>), "s_part_data", index, <<>>, 0)

(* The byte after a CR that is data is looked at again, as data.           *)
s_part_data_almost_boundary ==
  /\ Expect("s_part_data_almost_boundary")
  /\ IF c = "LF" THEN Goto("s_part_data_boundary", 0)
     ELSE Continue(data_cb(st, <<"CR">>), "s_part_data", index, <<>>, 0)

(* Mutation: only the CR and LF before a false boundary are passed on.     *)
s_part_data_boundaryDropsHyphens ==
  /\ Expect("s_part_data_boundary")
  /\ IF c # Boundary[index + 1]
     THEN Continue(data_cb(st, <<"CR", "LF">>), "s_part_data", index, <<>>, 0)
     ELSE IF index + 1 < Len(Boundary) THEN Goto(state, index + 1)
     ELSE Continue(data_end_cb(st), "s_part_data_almost_end", index + 1, <<>>, 1)

(* lookbehind[] holds CR, LF and the part of the boundary that has come.   *)
s_part_data_boundary ==
  /\ Expect("s_part_data_boundary")
  /\ IF c # Boundary[index + 1]
     THEN Continue(data_cb(st, SubSeq(Delimiter, 1, 2 + index)), "s_part_data", index, <<>>, 0)
     ELSE IF index + 1 < Len(Boundary) THEN Goto(state, index + 1)
     ELSE Continue(data_end_cb(st), "s_part_data_almost_end", index + 1, <<>>, 1)

s_part_data_almost_end ==
  /\ Expect("s_part_data_almost_end")
  /\ CASE c = "-"  -> Goto("s_part_data_final_hyphen", index)
       [] c = "CR" -> Goto("s_part_data_end", index)
       [] OTHER    -> GiveUp

s_part_data_final_hyphen ==
  /\ Expect("s_part_data_final_hyphen")
  /\ IF c = "-" THEN Goto("s_end", index) ELSE GiveUp

s_part_data_end ==
  /\ Expect("s_part_data_end")
  /\ IF c = "LF" THEN Goto("s_header_field", index) ELSE GiveUp

s_end == Expect("s_end") /\ Goto(state, index)

(* main_upload: read() reports the end, because everything was read or     *)
(* because the connection broke.  A chunk ends before it, so no text is    *)
(* waiting.                                                                *)
Eof ==
  /\ st.go
  /\ frag = <<>>
  /\ st' = [st EXCEPT !.go = FALSE,
              !.mishaps = IF at <= Len(request.body) THEN @ \cup {"cut"} ELSE @]
  /\ state' = "stopped"
  /\ index' = 0
  /\ UNCHANGED <<request, at, frag, page>>

(* The process is ended between two steps, by the web server or the system.*)
Kill ==
  /\ st.go
  /\ st' = Killed(st)
  /\ state' = "stopped"
  /\ index' = 0
  /\ frag' = <<>>
  /\ UNCHANGED <<request, at, page>>

(* finish_cb: what cannot be parsed gets an "error" of the page's making;  *)
(* a "failure" that the server reports is none.                            *)
finish_cb ==
  /\ ~st.go
  /\ page = "progress"
  /\ page' = IF st.replies = <<>> THEN "error" ELSE "uploaded"
  /\ UNCHANGED <<request, at, state, index, frag, st>>

-----------------------------------------------------------------------------
Init ==
  /\ request \in {[file |-> f, body |-> Body(f), granted |-> g] : f \in Files, g \in BOOLEAN}
  /\ at = 1
  /\ state = "s_start_boundary"
  /\ index = 0
  /\ frag = <<>>
  /\ st = [is_content_disposition |-> FALSE, parttype |-> None, sessionid |-> None,
           filename |-> None, temp |-> None, filedata |-> FALSE, target |-> Old,
           replies |-> <<>>, go |-> TRUE, mishaps |-> {}]
  /\ page = "progress"

Parse(last) ==
  \/ s_start_boundary
  \/ s_header_field(last)
  \/ s_headers_almost_done
  \/ s_header_value_start
  \/ s_header_value(last)
  \/ s_header_value_almost_done
  \/ s_part_data(last)
  \/ s_part_data_almost_boundary
  \/ s_part_data_boundary
  \/ s_part_data_almost_end
  \/ s_part_data_final_hyphen
  \/ s_part_data_end
  \/ s_end

Next ==
  \/ \E last \in BOOLEAN : (at = Len(request.body) => last) /\ Parse(last)
  \/ Eof
  \/ Kill
  \/ finish_cb

Spec == Init /\ [][Next]_vars

-----------------------------------------------------------------------------
States == {"s_start_boundary", "s_header_field", "s_headers_almost_done",
           "s_header_value_start", "s_header_value", "s_header_value_almost_done",
           "s_part_data_start", "s_part_data", "s_part_data_almost_boundary",
           "s_part_data_boundary", "s_part_data_almost_end",
           "s_part_data_final_hyphen", "s_part_data_end", "s_end", "stopped"}

(* In particular the parser never looks past its boundary[], and gives up  *)
(* on no form whatever the chunks.                                         *)
TypeOK ==
  /\ at \in 1 .. Len(request.body) + 1
  /\ state \in States
  /\ st.go <=> state # "stopped"
  /\ index \in 0 .. Len(Boundary) + 1
  /\ state = "s_part_data_boundary" => index < Len(Boundary)
  /\ st.parttype \in {None, "sessionid", "filename", "filedata"}
  /\ st.mishaps \subseteq {"cut", "split", "io", "read", "killed"}
  /\ page \in {"progress", "uploaded", "error"}

(* The file is stored whole or not at all: whichever way the body was cut  *)
(* into chunks, wherever the connection or a write broke, and whatever in  *)
(* the file looks like the boundary.  A part of it is left by a process    *)
(* that is killed, and that gives no answer then; and by a failing read()  *)
(* of the temporary file (filecopy).                                       *)
AllOrNothing ==
  "read" \notin st.mishaps =>
    \/ st.target \in {Old, None} \cup [name : {st.filename}, content : {request.file}]
    \/ "killed" \in st.mishaps /\ st.replies = <<>>

(* Nothing is stored unless the session was asked about under its whole    *)
(* id, and had the right.                                                  *)
StoredIfGranted == st.target # Old => request.granted /\ st.sessionid = Sid

(* Every request is answered once; one whose header or value came in two   *)
(* pieces, or that broke off or was killed, may remain without an answer   *)
(* (main_upload).                                                          *)
AnsweredOnce ==
  /\ Len(st.replies) <= 1
  /\ (~st.go /\ st.mishaps \cap {"cut", "split", "killed"} = {}) => Len(st.replies) = 1

(* Without a mishap, an upload that is allowed and has content succeeds,   *)
(* under the name that was asked for, wherever the file was cut.           *)
UploadSucceeds ==
  (~st.go /\ st.mishaps = {} /\ request.granted /\ request.file # <<>>) =>
    st.replies = <<"success">> /\ st.target = [name |-> Name, content |-> request.file]

(* "The backup archive was uploaded completely", which system.upgrade.js   *)
(* says when the success callback of L.ui.upload() runs.                   *)
UploadedCompletely ==
  page = "uploaded" => st.replies = <<"success">>
=============================================================================

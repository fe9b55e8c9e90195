------------------------------ MODULE Validation ------------------------------
(***************************************************************************)
(* L.cbi.validation: the compiler of datatype expressions and the checks   *)
(* they are built from, against what the expressions mean.  The parsers of *)
(* addresses are Addresses' subject.                                       *)
(*                                                                         *)
(* A datatype is a sequence of tokens: "(", ")", "," and labels.  A text   *)
(* is a record: whether it begins with "!", and its words; a word is a     *)
(* number, a range of two numbers, or a name.  The checks by a regular     *)
(* expression alone (host names, MAC addresses, keys) are not modelled.    *)
(***************************************************************************)
EXTENDS Integers, Sequences, SequencesExt

CONSTANTS
  Numbers,  \* numbers that occur in datatypes and texts
  Names     \* names that occur in datatypes and texts

VARIABLE input  \* the datatype that is compiled

Number(n)   == [is |-> "number", a |-> n, b |-> n, name |-> ""]
Span(m, n)  == [is |-> "span",   a |-> m, b |-> n, name |-> ""]
Name(x)     == [is |-> "name",   a |-> 0, b |-> 0, name |-> x]
Words       == {Number(n) : n \in Numbers} \cup {Name(x) : x \in Names}
Text(b, ws) == [bang |-> b, words |-> ws]

-----------------------------------------------------------------------------
(* compile(): the scan of the code, character by character, with the start *)
(* of the current label, the depth of parentheses and the stack.           *)
Types == {"integer", "uinteger", "port", "portrange", "string",
          "range", "min", "max", "or", "and", "neg", "list"}

Literal(w) == [is |-> "literal",  fn |-> "", word |-> w,       args |-> <<>>]
Fn(f)      == [is |-> "function", fn |-> f,  word |-> Name(""), args |-> <<>>]
Args(s)    == [is |-> "args",     fn |-> "", word |-> Name(""), args |-> s]
Failed     == [is |-> "error",    fn |-> "", word |-> Name(""), args |-> <<>>]

Label(tok) == [is |-> "label", word |-> tok]
Sign(c)    == [is |-> c, word |-> Name("")]

Pushed(stack, tok) ==
  IF tok.word.is = "name" /\ tok.word.name \in Types
  THEN stack \o <<Fn(tok.word.name), Args(<<>>)>>
  ELSE Append(stack, Literal(tok.word))

(* Mutation: a parenthesis closes the argument list at any depth.          *)
ClosesAny(depth) == TRUE

Closes(depth) == depth - 1 <= 0

RECURSIVE Compile(_)
Compile(code) ==
  LET step(st, i) ==
        LET tok == Append(code, Sign(","))[i] IN
        CASE tok.is = "label" -> st
          [] tok.is \in {"(", ","} ->
               [(IF st.depth > 0 THEN st
                 ELSE [st EXCEPT !.stack = IF st.pos < i THEN Pushed(@, code[st.pos]) ELSE @,
                                 !.pos = i + 1])
                EXCEPT !.depth = IF tok.is = "(" THEN @ + 1 ELSE @]
          [] tok.is = ")" ->
               LET n == Len(st.stack) IN
               IF ~Closes(st.depth) THEN [st EXCEPT !.depth = @ - 1]
               ELSE [stack |-> IF n < 2 \/ st.stack[n - 1].is # "function"
                               THEN Append(st.stack, Failed)
                               ELSE [st.stack EXCEPT ![n] =
                                       Args(Compile(SubSeq(code, st.pos, i - 1)))],
                     pos |-> i + 1, depth |-> st.depth - 1]
  IN  FoldLeft(step, [pos |-> 1, depth |-> 0, stack |-> <<>>],
               [i \in 1..Len(code) + 1 |-> i]).stack

-----------------------------------------------------------------------------
(* types: one check applied to a text, with its compiled arguments.        *)
IsInt(v) == ~v.bang /\ Len(v.words) = 1 /\ v.words[1].is = "number"
Num(v) == v.words[1].a
PortNumber(n) == n >= 0 /\ n <= 65535

Stripped(v) == Text(FALSE, v.words)

(* The arguments of the check at i are in the next element.                *)
Arguments(stack, i) == stack[i + 1].args

RECURSIVE Apply(_, _, _)
Apply(fn, args, v) ==
  LET n(i) == args[i].word.a
      (* or and and go over literals and over checks with their arguments. *)
      elements == {i \in DOMAIN args : args[i].is # "args"}
      holds(i, u) == IF args[i].is = "literal" THEN u = Text(FALSE, <<args[i].word>>)
                     ELSE Apply(args[i].fn, Arguments(args, i), u)
  IN  CASE fn = "string"   -> TRUE
        [] fn = "integer"  -> IsInt(v)
        [] fn = "uinteger" -> IsInt(v) /\ Num(v) >= 0
        [] fn = "port"     -> IsInt(v) /\ PortNumber(Num(v))
        [] fn = "portrange" ->
             \/ IsInt(v) /\ PortNumber(Num(v))
             \/ /\ ~v.bang /\ Len(v.words) = 1 /\ v.words[1].is = "span"
                /\ PortNumber(v.words[1].a) /\ PortNumber(v.words[1].b)
                /\ v.words[1].a <= v.words[1].b
        [] fn = "range"    -> IsInt(v) /\ Num(v) >= n(1) /\ Num(v) <= n(2)
        [] fn = "min"      -> IsInt(v) /\ Num(v) >= n(1)
        [] fn = "max"      -> IsInt(v) /\ Num(v) <= n(1)
        [] fn = "or"       -> \E i \in elements : holds(i, v)
        [] fn = "and"      -> \A i \in elements : holds(i, v)
        [] fn = "neg"      -> \E i \in elements : holds(i, Stripped(v))
        [] fn = "list"     -> /\ Len(args) > 0 /\ args[1].is = "function"
                              /\ \A i \in DOMAIN v.words :
                                   Apply(args[1].fn, args[2].args,
                                         Text(v.bang /\ i = 1, <<v.words[i]>>))

(* handleValidate: only the first check of the stack counts.               *)
Accepts(stack, v) ==
  stack # <<>> /\ stack[1].is = "function" => Apply(stack[1].fn, Arguments(stack, 1), v)

-----------------------------------------------------------------------------
(* What a datatype means: a tree of checks, and how it is written.         *)
Tree(f, ts) == [fn |-> f, word |-> Name(""), subs |-> ts]
Leaf(w)     == [fn |-> "",  word |-> w,       subs |-> <<>>]

Simple == {Leaf(w) : w \in Words}
            \cup {Tree(f, <<>>) : f \in {"uinteger", "port", "string"}}
            \cup {Tree("range", <<Leaf(Number(m)), Leaf(Number(n))>>) : m, n \in Numbers}
            \cup {Tree(f, <<Leaf(Number(n))>>) : f \in {"min", "max"}, n \in Numbers}
Checks   == {t \in Simple : t.fn # ""}
Combined == {Tree(f, <<s, t>>) : f \in {"or", "and", "neg"}, s, t \in Simple}
              \cup {Tree("list", <<t>>) : t \in Checks}
Nested   == {Tree(f, <<Tree("list", <<s>>), t>>) : f \in {"or", "neg"}, s, t \in Checks}
              \cup {Tree("list", <<Tree("or", <<s, t>>)>>) : s, t \in Simple}

RECURSIVE Written(_)
Written(t) ==
  LET list[k \in 0..Len(t.subs)] ==
        IF k = 0 THEN <<>>
        ELSE list[k - 1] \o (IF k = 1 THEN <<>> ELSE <<Sign(",")>>) \o Written(t.subs[k])
  IN  IF t.fn = "" THEN <<Label(t.word)>>
      ELSE <<Label(Name(t.fn))>>
             \o (IF t.subs = <<>> THEN <<>>
                 ELSE <<Sign("(")>> \o list[Len(t.subs)] \o <<Sign(")")>>)

RECURSIVE Means(_, _)
Means(t, v) ==
  CASE t.fn = ""     -> v = Text(FALSE, <<t.word>>)
    [] t.fn = "or"   -> \E k \in DOMAIN t.subs : Means(t.subs[k], v)
    [] t.fn = "and"  -> \A k \in DOMAIN t.subs : Means(t.subs[k], v)
    [] t.fn = "neg"  -> \E k \in DOMAIN t.subs : Means(t.subs[k], Stripped(v))
    [] t.fn = "list" -> \A i \in DOMAIN v.words :
                          Means(t.subs[1], Text(v.bang /\ i = 1, <<v.words[i]>>))
    [] OTHER         -> Apply(t.fn, [k \in DOMAIN t.subs |-> Literal(t.subs[k].word)], v)

Texts == {Text(b, ws) : b \in BOOLEAN, ws \in BoundedSeq(Words, 2) \ {<<>>}}
           \cup {Text(FALSE, <<Span(m, n)>>) : m, n \in Numbers}

-----------------------------------------------------------------------------
Init ==
  input \in Checks \cup Combined \cup Nested

Next == UNCHANGED input
Spec == Init /\ [][Next]_input

-----------------------------------------------------------------------------
(* The compiled datatype accepts what the datatype means, for parentheses  *)
(* up to three deep; what a single check accepts is the same on both sides *)
(* (compile, types).                                                       *)
CompiledMeans ==
  \A v \in Texts : Accepts(Compile(Written(input)), v) = Means(input, v)
=============================================================================

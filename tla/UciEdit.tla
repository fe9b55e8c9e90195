------------------------------- MODULE UciEdit -------------------------------
(***************************************************************************)
(* What a configuration editing session promises to the person in front of *)
(* it, before any question of staging maps, batches or replies: there is   *)
(* one draft, every edit is visible in it at once, committing makes the    *)
(* disk equal to the draft (up to the names the server gives to sections   *)
(* that have none), and the session comes back showing the disk.           *)
(* UciContext implements this.                                             *)
(***************************************************************************)
CONSTANTS Sid, Opt, Val, Unset

VARIABLES
  draft,   \* section name -> options, what the user sees and edits
  disk,    \* section name -> options, what the server holds
  mode     \* "closed" | "editing" | "committing" | "committed"

vars == <<draft, disk, mode>>

Options == [Opt -> Val \cup {Unset}]
Blank   == [o \in Opt |-> Unset]
Configs == UNION {[S -> Options] : S \in SUBSET Sid}
Nothing == [s \in {} |-> Blank]

Init ==
  /\ draft = Nothing
  /\ disk \in Configs
  /\ mode = "closed"

(* The session opens, or comes back, on exactly what the disk holds. *)
Open ==
  /\ mode = "closed"
  /\ draft' = disk
  /\ mode' = "editing"
  /\ UNCHANGED disk

Create(s) ==
  /\ mode = "editing"
  /\ s \notin DOMAIN draft
  /\ draft' = [t \in DOMAIN draft \cup {s} |-> IF t = s THEN Blank ELSE draft[t]]
  /\ UNCHANGED <<disk, mode>>

Drop(s) ==
  /\ mode = "editing"
  /\ s \in DOMAIN draft
  /\ draft' = [t \in DOMAIN draft \ {s} |-> draft[t]]
  /\ UNCHANGED <<disk, mode>>

Put(s, o, w) ==
  /\ mode = "editing"
  /\ s \in DOMAIN draft
  /\ draft' = [draft EXCEPT ![s] = [@ EXCEPT ![o] = w]]
  /\ UNCHANGED <<disk, mode>>

Discard ==
  /\ mode = "editing"
  /\ draft' = Nothing
  /\ mode' = "closed"
  /\ UNCHANGED disk

Commit ==
  /\ mode = "editing"
  /\ mode' = "committing"
  /\ UNCHANGED <<draft, disk>>

(* A renaming sends the draft's sections to distinct names and leaves the  *)
(* ones the disk already knows under their own.                            *)
Renamings ==
  {r \in [DOMAIN draft -> Sid] :
     /\ \A s, t \in DOMAIN draft : r[s] = r[t] => s = t
     /\ \A s \in DOMAIN draft \cap DOMAIN disk : r[s] = s}

Written ==
  /\ mode = "committing"
  /\ \E r \in Renamings :
       /\ DOMAIN disk' = {r[s] : s \in DOMAIN draft}
       /\ \A s \in DOMAIN draft : disk'[r[s]] = draft[s]
  /\ disk' \in Configs
  /\ mode' = "committed"
  /\ UNCHANGED draft

(* The draft is dropped for a fresh copy of the disk, or is kept because   *)
(* it already is one.                                                      *)
Release ==
  /\ mode = "committed"
  /\ draft' = Nothing
  /\ mode' = "closed"
  /\ UNCHANGED disk

Resume ==
  /\ mode = "committed"
  /\ draft = disk
  /\ mode' = "editing"
  /\ UNCHANGED <<draft, disk>>

Next ==
  \/ Open \/ Discard \/ Commit \/ Written \/ Release \/ Resume
  \/ \E s \in Sid : Create(s) \/ Drop(s)
  \/ \E s \in Sid, o \in Opt, w \in Val \cup {Unset} : Put(s, o, w)

Spec == Init /\ [][Next]_vars
=============================================================================

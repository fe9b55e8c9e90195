------------------------------ MODULE Packages ------------------------------
(***************************************************************************)
(* The package lists of system.software.js and the opkg calls of luci2.c   *)
(* behind them: the server cuts windows of at most Limit lines out of what *)
(* opkg prints, the page puts them together again.  The list changes in    *)
(* between (another administrator, the user's other tab), and calls may be *)
(* lost.  A package is the number of its line.                             *)
(***************************************************************************)
EXTENDS Integers, Sequences, SequencesExt, Sublists

CONSTANTS
  Limit,    \* lines in one answer, 100
  MaxLines  \* bound: lines opkg prints

ASSUME PackagesAssumption == Limit \in Nat \ {0} /\ MaxLines \in Nat

VARIABLES
  lines,      \* what opkg prints: can opkg_parse_list read the line? (external)
  fetch,      \* what _fetchPackages() waits for: "none", "first", "batch"
  what,       \* for whom: "installed", "page"
  offset,     \* its arguments
  limit,
  windows,    \* the batch it has posted: <<offset, limit>> of each call
  packages,   \* what it has got
  total,      \* packages.total, 0 for undefined
  buttons,    \* the offset and the total that "previous" and "next" go by
  disturbed   \* history: the list changed or an answer was lost since it began

software == <<lines, fetch, what, offset, limit, windows, packages, total, buttons, disturbed>>

-----------------------------------------------------------------------------
(* The lines after "from" up to "until", as far as opkg prints them.       *)
Lines(from, until) ==
  LET end   == IF until < Len(lines) THEN until ELSE Len(lines)
      count == IF from < end THEN end - from ELSE 0
  IN  [i \in 1 .. count |-> from + i]

(* opkg_exec_list: the server gives no more lines than Limit.              *)
Size(count) == IF count \in 1 .. Limit THEN count ELSE Limit

(* Mutation: "<=" for "<" where the lines before the window are skipped.   *)
WindowLate(from, count) == Lines(from + 1, from + 1 + Size(count))

(* opkg_parse_list: the lines in the window requested.                     *)
Window(from, count) == Lines(from, from + Size(count))

(* Those of them that have a name and a version.                           *)
Parsed(window) == Within(window, {n \in DOMAIN lines : lines[n]})

(* The calls for the rest: each asks for what is left, modulo the size of  *)
(* an answer.  "end" is a limit, taken for a position in the list.         *)
Calls(from, end) == IF from < end THEN (end - from + Limit - 1) \div Limit ELSE 0

Rest(from, end) ==
  LET Start(k) == from + (k - 1) * Limit
      Until(k) == IF Start(k) + Limit < end THEN Start(k) + Limit ELSE end
  IN  [k \in 1 .. Calls(from, end) |->
         <<Start(k), IF Until(k) % Limit = 0 THEN Limit ELSE Until(k) % Limit>>]

-----------------------------------------------------------------------------
Fetch(whom, from, count) ==
  /\ fetch' = "first" /\ what' = whom
  /\ offset' = from /\ limit' = count
  /\ packages' = <<>> /\ total' = 0
  /\ disturbed' = FALSE
  /\ UNCHANGED <<lines, windows, buttons>>

(* The fetch is over.  A page remembers where it is; the list of what is   *)
(* installed is followed by the page, fetched again.                       *)
Done ==
  /\ fetch' = "none" /\ windows' = <<>>
  /\ buttons' = IF what = "page" THEN <<offset, total'>> ELSE buttons

(* The first answer.  A window without a line has no total, and ends the   *)
(* fetch; so does one with as many packages as were wanted.                *)
First ==
  LET window == Window(offset, limit)
      got    == Parsed(window)
      wanted == IF limit <= 0 THEN Len(lines) ELSE limit
  IN  /\ fetch = "first"
      /\ packages' = got
      /\ total' = IF window = <<>> THEN 0 ELSE Len(lines)
      /\ IF window = <<>> \/ Len(got) >= wanted
         THEN Done
         ELSE /\ fetch' = "batch"
              /\ windows' = Rest(offset + Len(got), wanted)
              /\ UNCHANGED buttons
      /\ UNCHANGED <<lines, what, offset, limit, disturbed>>

(* The answers of the batch are appended in the order of its calls.        *)
Batch ==
  LET answers == [k \in DOMAIN windows |-> Window(windows[k][1], windows[k][2])]
  IN  /\ fetch = "batch"
      /\ packages' = packages \o FlattenSeq([k \in DOMAIN windows |-> Parsed(answers[k])])
      /\ total' = IF \E k \in DOMAIN answers : answers[k] # <<>> THEN Len(lines) ELSE total
      /\ Done
      /\ UNCHANGED <<lines, what, offset, limit, disturbed>>

(* No answer: the first call yields {}, the batch yields [].               *)
Lose ==
  /\ fetch # "none"
  /\ disturbed' = TRUE
  /\ UNCHANGED total
  /\ Done
  /\ UNCHANGED <<lines, what, offset, limit, packages>>

-----------------------------------------------------------------------------
(* fetchInstalledList, when the view is opened and after a package was     *)
(* installed or removed; in both cases fetchPackageList follows.           *)
FetchInstalled == fetch = "none" /\ Fetch("installed", 0, 0)

FetchPage(from) == fetch = "none" /\ Fetch("page", from, Limit)

(* The buttons.                                                            *)
Previous == buttons[1] > 0 /\ FetchPage(buttons[1] - Limit)
Following == buttons[1] + Limit < buttons[2] /\ FetchPage(buttons[1] + Limit)

(* Somebody installs or removes a package, or updates the lists.           *)
Change(list) ==
  /\ lines' = list
  /\ disturbed' = TRUE
  /\ UNCHANGED <<fetch, what, offset, limit, windows, packages, total, buttons>>

PackagesInit ==
  /\ lines \in BoundedSeq(BOOLEAN, MaxLines)
  /\ fetch = "first" /\ what = "installed"
  /\ offset = 0 /\ limit = 0
  /\ windows = <<>> /\ packages = <<>> /\ total = 0
  /\ buttons = <<0, 0>>
  /\ disturbed = FALSE

PackagesNext ==
  \/ First
  \/ Batch
  \/ Lose
  \/ FetchInstalled
  \/ FetchPage(buttons[1])
  \/ FetchPage(0)
  \/ Previous
  \/ Following
  \/ Len(lines) < MaxLines /\ \E readable \in BOOLEAN : Change(Append(lines, readable))
  \/ lines # <<>> /\ Change(Front(lines))

PackagesSpec == PackagesInit /\ [][PackagesNext]_software

-----------------------------------------------------------------------------
PackagesTypeOK ==
  /\ lines \in Seq(BOOLEAN) /\ Len(lines) <= MaxLines
  /\ fetch \in {"none", "first", "batch"} /\ what \in {"installed", "page"}
  /\ offset >= 0 /\ offset % Limit = 0 /\ limit \in {0, Limit}
  /\ fetch # "batch" => windows = <<>>
  /\ packages \in Seq(1 .. MaxLines)
  /\ total \in 0 .. MaxLines
  /\ buttons[1] % Limit = 0 /\ buttons[2] \in 0 .. MaxLines

(* Where windows meet, no package is lost and none comes twice: unless the *)
(* list changed or an answer was lost meanwhile, the page has the packages *)
(* of its lines, and the table of what is installed has all of them, in    *)
(* their order - if every line could be read (_fetchPackages).             *)
WindowsMeet ==
  fetch = "none" /\ ~disturbed /\ (\A n \in DOMAIN lines : lines[n]) =>
    packages = Lines(offset, IF what = "page" THEN offset + Limit ELSE Len(lines))
=============================================================================

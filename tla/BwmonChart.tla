----------------------------- MODULE BwmonChart -----------------------------
(***************************************************************************)
(* What the bandwidth monitor promises to the page that draws its charts:  *)
(* for every device it knows and every counter, the H most recent          *)
(* increments, the oldest first, each one the difference of two            *)
(* successive readings.  Nothing is said of how they are stored.           *)
(***************************************************************************)
EXTENDS Integers

CONSTANTS
  Dev,      \* network devices
  Type,     \* counters of a device: rx_bytes, tx_bytes, ...
  Counter,  \* what a counter may read
  H,        \* RPC_BWMON_HISTORY
  U32       \* an increment is kept modulo U32

VARIABLES
  known,    \* the devices that have a chart
  last,     \* last[d][t]: the reading the next increment is taken from
  chart     \* chart[d][t][j], j = 0 the oldest increment, H - 1 the newest

vars == <<known, last, chart>>

Init ==
  /\ known = {}
  /\ last = [d \in Dev |-> [t \in Type |-> 0]]
  /\ chart = [d \in Dev |-> [t \in Type |-> [j \in 0 .. H - 1 |-> 0]]]

Shifted(row, increment) ==
  [j \in 0 .. H - 1 |-> IF j = H - 1 THEN increment ELSE row[j + 1]]

(* One tick reads some devices; those read for the first time start with   *)
(* an empty chart, the others shift theirs by one increment.               *)
Sample(seen, added, reading) ==
  /\ known' = known \cup added
  /\ last' = [d \in Dev |-> IF d \in seen \cap known' THEN reading[d] ELSE last[d]]
  /\ chart' = [d \in Dev |->
       IF d \in seen \cap known
       THEN [t \in Type |-> Shifted(chart[d][t], (reading[d][t] - last[d][t]) % U32)]
       ELSE chart[d]]

Next ==
  \E seen \in SUBSET Dev : \E added \in SUBSET (seen \ known),
     reading \in [seen -> [Type -> Counter]] : Sample(seen, added, reading)

Spec == Init /\ [][Next]_vars
=============================================================================

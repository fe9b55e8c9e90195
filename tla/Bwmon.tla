-------------------------------- MODULE Bwmon --------------------------------
(***************************************************************************)
(* src/rpcd/bwmon.c: once a second the collector reads the counters of     *)
(* every network device it finds and keeps, per counter, a ring of the     *)
(* last H increments.  The ubus calls run in the same event loop, between  *)
(* two ticks, and dump the rings from their oldest entry.                  *)
(***************************************************************************)
EXTENDS Integers

CONSTANTS
  Dev,   \* names under /sys/class/net
  Type,  \* RX_BYTES, TX_BYTES, RX_PACKETS, TX_PACKETS
  H,     \* RPC_BWMON_HISTORY, 120
  U32,   \* 2^32
  K      \* U64 / U32

ASSUME BwmonAssumption ==
  /\ H \in Nat \ {0}
  /\ U32 \in Nat \ {0}
  /\ K \in Nat \ {0}

U64 == K * U32
Counter == 0 .. U64 - 1

VARIABLES
  devices,  \* the avl tree: devices a struct was allocated for
  pos,      \* dev->pos, -1 before the first reading
  prev,     \* dev->prev[type]
  values    \* dev->values[type][0 .. H - 1]

vars == <<devices, pos, prev, values>>

Slot == 0 .. H - 1

(* rpc_bwmon_dump_stats: one counter of a device, as the page gets it.     *)
Dump(d, t) == [j \in Slot |-> values[d][t][(pos[d] + j) % H]]

-----------------------------------------------------------------------------
(* Mutation: the first reading is stored as if it were an increment.       *)
PutFirstValue(d, t, value) ==
  [values[d][t] EXCEPT ![IF pos[d] >= 0 THEN pos[d] ELSE 0] =
     ((value - prev[d][t]) % U64) % U32]

(* put_value: 64-bit subtraction, then the cast.                           *)
PutValue(d, t, value) ==
  IF pos[d] >= 0
  THEN [values[d][t] EXCEPT ![pos[d]] = ((value - prev[d][t]) % U64) % U32]
  ELSE values[d][t]

(* Mutation: the position runs one past the ring before it starts again.   *)
AdvanceLate(p) == (p + 1) % (H + 1)

Advance(p) == (p + 1) % H

(* rpc_bwmon_collect.  "seen" is what readdir() lists; a device that is up *)
(* gets a struct unless calloc() fails; each one that has a struct is      *)
(* read, up or not.  A counter reads anything: a driver may reset it, and  *)
(* read_int() yields 0 once the device is gone.                            *)
Collect(seen, added, reading) ==
  /\ devices' = devices \cup added
  /\ LET read == seen \cap devices'
     IN  /\ values' = [d \in Dev |->
              IF d \in read
              THEN [t \in Type |-> PutValue(d, t, reading[d][t])]
              ELSE values[d]]
         /\ prev' = [d \in Dev |-> IF d \in read THEN reading[d] ELSE prev[d]]
         /\ pos' = [d \in Dev |-> IF d \in read THEN Advance(pos[d]) ELSE pos[d]]

-----------------------------------------------------------------------------
(* A device outside "devices" is as get_device() would make it.            *)
Init ==
  /\ devices = {}
  /\ pos = [d \in Dev |-> -1]
  /\ prev = [d \in Dev |-> [t \in Type |-> 0]]
  /\ values = [d \in Dev |-> [t \in Type |-> [j \in Slot |-> 0]]]

(* "added" is chosen among the devices that are up and were not known:     *)
(* which of those seen are up is the choice of the environment.            *)
Next ==
  \E seen \in SUBSET Dev : \E added \in SUBSET (seen \ devices),
     reading \in [seen -> [Type -> Counter]] : Collect(seen, added, reading)

Spec == Init /\ [][Next]_vars

-----------------------------------------------------------------------------
(* Between two ticks every device that can be dumped has a position inside *)
(* its ring: rpc_bwmon_dump_stats never indexes values[][] with the -1 of  *)
(* get_device().                                                           *)
TypeOK ==
  /\ devices \subseteq Dev
  /\ pos \in [Dev -> Slot \cup {-1}]
  /\ \A d \in Dev : pos[d] = -1 <=> d \notin devices
  /\ prev \in [Dev -> [Type -> Counter]]
  /\ values \in [Dev -> [Type -> [Slot -> 0 .. U32 - 1]]]

Chart == INSTANCE BwmonChart WITH
  known <- devices,
  last <- prev,
  chart <- [d \in Dev |-> [t \in Type |-> Dump(d, t)]]

(* The rings are charts: rpc_bwmon_stats always delivers the last H        *)
(* increments in the order they were measured, none lost or repeated when  *)
(* the ring wraps, and the very first reading of a device is no increment. *)
ImplementsChart == Chart!Spec
=============================================================================

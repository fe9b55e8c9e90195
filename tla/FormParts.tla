------------------------------ MODULE FormParts ------------------------------
(***************************************************************************)
(* The forms, tables and lists of the views that keep a state, side by     *)
(* side: "form" is the widgets of one section, "sections" the walk of a    *)
(* map through its sections, "address" the parsers of addresses,           *)
(* "packages" the lists of system.software, "devices" the form of an       *)
(* interface, "switch" the tables of network.switch.  They share no state  *)
(* here: one part moves, and the others stay as they begin.                *)
(***************************************************************************)
EXTENDS CbiForm, CbiSections, NetDevices, SwitchVlan, Packages, Addresses

VARIABLE part

partsvars == <<part, vars, sections, given, software, netvars, switchvars>>

-----------------------------------------------------------------------------
(* The parts that are not looked at begin in a state in which there is     *)
(* little to check: no section, device, package or VLAN.                   *)
NoForm     == uci = (CHOOSE u \in Stored : TRUE) /\ Init
NoSections == nested = FALSE /\ modal = FALSE /\ top = <<>> /\ SectionsInit
NoAddress  == /\ given = [kind |-> "mask", of |-> CHOOSE m \in [1 .. MaskLength -> Bytes] : TRUE]
              /\ AddressesInit
NoSoftware == lines = <<>> /\ PackagesInit
NoDevices  == /\ ifname = [n \in Net |-> <<>>] /\ bridged = {} /\ network = [w \in Wifi |-> {}]
              /\ NetInit
NoSwitch   == server = <<>> /\ SwitchInit

PartsInit ==
  /\ IF part = "form"     THEN Init          ELSE NoForm
  /\ IF part = "sections" THEN SectionsInit  ELSE NoSections
  /\ IF part = "address"  THEN AddressesInit ELSE NoAddress
  /\ IF part = "packages" THEN PackagesInit  ELSE NoSoftware
  /\ IF part = "devices"  THEN NetInit       ELSE NoDevices
  /\ IF part = "switch"   THEN SwitchInit    ELSE NoSwitch

Form     == Next         /\ UNCHANGED <<sections, given, software, netvars, switchvars>>
Sections == SectionsNext /\ UNCHANGED <<vars, given, software, netvars, switchvars>>
Software == PackagesNext /\ UNCHANGED <<vars, sections, given, netvars, switchvars>>
Devices  == NetNext      /\ UNCHANGED <<vars, sections, given, software, switchvars>>
Tables   == SwitchNext   /\ UNCHANGED <<vars, sections, given, software, netvars>>

PartsNext ==
  /\ UNCHANGED part
  /\ \/ part = "form"     /\ Form
     \/ part = "sections" /\ Sections
     \/ part = "packages" /\ Software
     \/ part = "devices"  /\ Devices
     \/ part = "switch"   /\ Tables

PartsSpec == PartsInit /\ [][PartsNext]_partsvars

-----------------------------------------------------------------------------
(* The types of the parts that move (CbiForm, CbiSections, Packages,       *)
(* NetDevices, SwitchVlan).                                                *)
FormsTypeOK ==
  /\ part = "form"     => TypeOK
  /\ part = "sections" => SectionsTypeOK
  /\ part = "packages" => PackagesTypeOK
  /\ part = "devices"  => NetTypeOK
  /\ part = "switch"   => SwitchTypeOK
=============================================================================

----------------------------- MODULE SwitchVlan ------------------------------
(***************************************************************************)
(* network.switch: a table of VLANs for each switch, with a field for the  *)
(* VLAN id and one for each port, all of them sections of one package.     *)
(* execute() makes the tables in a loop whose variables are those of the   *)
(* function: what the handlers of every table read when they run is what   *)
(* the loop left behind for the last switch (shared).                      *)
(*                                                                         *)
(* The ports of a VLAN are kept as one text, here the sequence of its      *)
(* words, [port, mark].  A VLAN id is a text; "" stands for none.          *)
(* Left out: the options of the switches themselves, and pages without the *)
(* right to write.                                                         *)
(***************************************************************************)
EXTENDS Naturals, Sequences, SequencesExt, FiniteSets, Sublists

CONSTANTS
  Switches, \* the switches in the order of the page: [name, ports, vlans, vid]
  VlanSid,  \* the names sections of type switch_vlan can have
  TypedIds, \* the texts a user may type as a VLAN id
  Value,    \* text -> the number it reads as, NaN if it has other characters
  Numeral,  \* the texts of 1, 2, ...
  StoredVlans, \* the VLANs the server may hold at first
  MaxEdits, \* bound: fields the user edits
  MaxSteps  \* bound: buttons the user presses

VARIABLES
  vlans,   \* L.uci.get(): section -> [device, vlan, vid, ports]
  table,   \* section -> what its fields hold: [id, port]
  server,  \* what the server has been told to keep
  edits,
  steps

switchvars == <<vlans, table, server, edits, steps>>

NaN == 0
shared == Last(Switches)

SwitchOf(row) == CHOOSE s \in ToSet(Switches) : s.name = row.device
PortsOf(s)    == 0 .. s.ports - 1

(* A section of type switch_vlan: a mark is left out, "u", or "t", and the *)
(* id is in the option "vlan", or in another one that the switch has       *)
(* (called "vid" here).                                                    *)
Words == [port : Nat, mark : {"", "u", "t"}]
Row   == [device : {s.name : s \in ToSet(Switches)},
          vlan : DOMAIN Value, vid : DOMAIN Value, ports : Seq(Words)]

ASSUME SwitchesAssumption ==
  /\ Switches \in Seq(ToSet(Switches)) /\ Switches # <<>>
  /\ \A s \in ToSet(Switches) : s.ports \in Nat /\ s.vlans \in Nat /\ s.vid \in {"vlan", "vid"}
  /\ \A s, t \in ToSet(Switches) : s.name = t.name => s = t
  /\ \A u \in StoredVlans : DOMAIN u \subseteq VlanSid /\ u \in [DOMAIN u -> Row]
  /\ TypedIds \cup {""} \subseteq DOMAIN Value
  /\ \A j \in 1 .. shared.vlans - 1 : Numeral[j] \in DOMAIN Value /\ Value[Numeral[j]] = j
  /\ MaxEdits \in Nat /\ MaxSteps \in Nat

(* vlans.filter *)
VlanRows(u, s) == {sid \in DOMAIN u : u[sid].device = s.name}

-----------------------------------------------------------------------------
(* vo.ucivalue: the option of the last switch, or "vlan".                  *)
IdOf(row) == IF Value[row[shared.vid]] = NaN THEN row.vlan ELSE row[shared.vid]

(* Mutation: a word without a mark is taken for a tagged port.             *)
PortOfTagged(row, p) ==
  LET words == SelectSeq(row.ports, LAMBDA w : w.port = p)
  IN  IF words = <<>> THEN "n" ELSE "t"

(* switchPortState.ucivalue: the first word of the port.                   *)
PortOf(row, p) ==
  LET words == Within(row.ports, {w \in ToSet(row.ports) : w.port = p})
  IN  IF words = <<>> THEN "n" ELSE IF words[1].mark = "" THEN "u" ELSE words[1].mark

TablesOf(u) ==
  [sid \in DOMAIN u |->
     [id   |-> IdOf(u[sid]),
      port |-> [p \in PortsOf(SwitchOf(u[sid])) |-> PortOf(u[sid], p)]]]

(* vo.save, ports: the fields are found by section and port, whatever      *)
(* table they are in; one that is not there has no value, which is not "n".*)
NewPorts(fields) ==
  LET state(p) == IF p \in DOMAIN fields.port THEN fields.port[p] ELSE "undefined"
      chosen   == Within([i \in 1 .. shared.ports |-> i - 1], {p \in Nat : state(p) # "n"})
  IN  [i \in DOMAIN chosen |-> [port |-> chosen[i],
                                mark |-> IF state(chosen[i]) = "u" THEN "" ELSE "t"]]

(* vo.save, then the save() of AbstractValue for the id.                   *)
SavedRow(row, fields) ==
  LET ported == [row EXCEPT !.ports = NewPorts(fields)]
  IN  IF IdOf(row) = fields.id THEN ported
      ELSE [ported EXCEPT ![SwitchOf(row).vid] = fields.id]

SavedVlans == [sid \in DOMAIN vlans |-> SavedRow(vlans[sid], table[sid])]

-----------------------------------------------------------------------------
(* The datatype of the id: no two rows of the last table have the same     *)
(* text, and it is a number in the range of the last switch.               *)
MaxVid == IF shared.vid = "vlan" THEN shared.vlans - 1 ELSE 4095

IdsValid ==
  /\ \A a, b \in VlanRows(vlans, shared) :
       a # b /\ table[a].id # "" => table[a].id # table[b].id
  /\ \A sid \in DOMAIN vlans : Value[table[sid].id] \in 1 .. MaxVid

(* The datatype of a port: untagged in one row of its own table at most.   *)
UntaggedOnce(s, t) ==
  \A p \in PortsOf(s) :
    Cardinality({sid \in VlanRows(vlans, s) : t[sid].port[p] = "u"}) <= 1

PortsValid == \A s \in ToSet(Switches) : UntaggedOnce(s, table)

-----------------------------------------------------------------------------
(* The user's edits.                                                       *)
EditFields(sid, fields) ==
  /\ edits < MaxEdits /\ edits' = edits + 1
  /\ table' = [table EXCEPT ![sid] = fields]
  /\ UNCHANGED <<vlans, server, steps>>

EditId(sid) ==
  \E t \in TypedIds : EditFields(sid, [table[sid] EXCEPT !.id = t])

EditPort(sid) ==
  \E p \in DOMAIN table[sid].port, state \in {"n", "u", "t"} :
    EditFields(sid, [table[sid] EXCEPT !.port[p] = state])

PressButton == steps < MaxSteps /\ steps' = steps + 1 /\ UNCHANGED edits

(* Map.redraw *)
DrawTables(u) == vlans' = u /\ table' = TablesOf(u)

(* Mutation: the ids in use are looked up before the form is saved.        *)
UsedBefore(s) == {vlans[sid].vlan : sid \in VlanRows(vlans, s)}

(* vlans.add, first loop: it runs after the form was saved.                *)
Used(s) == {SavedVlans[sid].vlan : sid \in VlanRows(vlans, s)}

Free(s) == {j \in 1 .. shared.vlans - 1 : Numeral[j] \notin Used(s)}

(* handleAdd and vlans.add: the form is saved to the cache as it is, and   *)
(* the first free id goes into a new section, if there is one.             *)
AddVlan(s) ==
  /\ PressButton
  /\ IF Free(s) = {} THEN DrawTables(SavedVlans)
     ELSE \E new \in VlanSid \ DOMAIN vlans :
            LET j == CHOOSE i \in Free(s) : \A k \in Free(s) : i <= k
            IN  DrawTables([sid \in DOMAIN vlans \cup {new} |->
                              IF sid # new THEN SavedVlans[sid]
                              ELSE [device |-> s.name, vlan |-> Numeral[j],
                                    vid |-> "", ports |-> <<>>]])
  /\ UNCHANGED server

(* handleRemove: the form is saved to the cache as it is.                  *)
RemoveVlan(sid) ==
  /\ PressButton
  /\ DrawTables([i \in DOMAIN vlans \ {sid} |-> SavedVlans[i]])
  /\ UNCHANGED server

(* Map.send: nothing happens while a field is wrong.                       *)
SendVlans ==
  /\ PressButton
  /\ IdsValid /\ PortsValid
  /\ DrawTables(SavedVlans)
  /\ server' = SavedVlans

(* Another page is opened, a form of the same package is saved there, and  *)
(* the user comes back: everything staged is sent, the rest is lost.       *)
SendElsewhere ==
  /\ PressButton
  /\ DrawTables(vlans)
  /\ server' = vlans

(* Map.reset *)
ResetVlans ==
  /\ PressButton
  /\ DrawTables(server)
  /\ UNCHANGED server

SwitchInit ==
  /\ server \in StoredVlans
  /\ vlans = server
  /\ table = TablesOf(server)
  /\ edits = 0
  /\ steps = 0

SwitchNext ==
  \/ \E sid \in DOMAIN vlans : EditId(sid) \/ EditPort(sid) \/ RemoveVlan(sid)
  \/ \E s \in ToSet(Switches) : AddVlan(s)
  \/ SendVlans \/ SendElsewhere \/ ResetVlans

SwitchSpec == SwitchInit /\ [][SwitchNext]_switchvars

-----------------------------------------------------------------------------
SwitchTypeOK ==
  /\ \A u \in {vlans, server} : DOMAIN u \subseteq VlanSid /\ u \in [DOMAIN u -> Row]
  /\ DOMAIN table = DOMAIN vlans
  /\ \A sid \in DOMAIN vlans :
       table[sid] \in [id : DOMAIN Value, port : [PortsOf(SwitchOf(vlans[sid])) -> {"n", "u", "t"}]]
  /\ edits \in 0 .. MaxEdits /\ steps \in 0 .. MaxSteps

(* The switches the variables of the loop are right for.                   *)
Alike(s) == s.ports = shared.ports /\ s.vlans = shared.vlans /\ s.vid = shared.vid

(* Whatever was edited, saving the tables and drawing them again shows     *)
(* what they showed, on every switch like the last one: the text of the    *)
(* ports is read as it was written, and no table writes the fields of      *)
(* another one (vo.save, vo.ucivalue, switchPortState).                    *)
VlansSavedAsShown ==
  LET again == TablesOf(SavedVlans)
  IN  \A s \in ToSet(Switches) : Alike(s) =>
        \A sid \in VlanRows(vlans, s) :
          /\ again[sid].port = table[sid].port
          /\ Value[table[sid].id] # NaN => again[sid].id = table[sid].id

(* The ids of a table are in range, and no two of them are one VLAN to the *)
(* switch, which reads numbers.                                            *)
SoundIds(s, u, t) ==
  \A a \in VlanRows(u, s) :
    /\ Value[t[a].id] \in 1 .. s.vlans - 1
    /\ \A b \in VlanRows(u, s) \ {a} : Value[t[a].id] # Value[t[b].id]

(* The ids are written as the page writes them: "2", never "02".           *)
PlainIds(s) == \A sid \in VlanRows(vlans, s) : \E j \in 1 .. s.vlans - 1 : table[sid].id = Numeral[j]

(* The button "Add VLAN entry" never makes a table wrong that was right:   *)
(* the number it picks is in range and not in use, ids that were just      *)
(* typed and not saved included; so for switches that count VLANs by       *)
(* number, while no id has a zero in front (handleAdd, vlans.add, which    *)
(* looks texts up).                                                        *)
AddKeepsSound ==
  \A s \in ToSet(Switches) :
    AddVlan(s) /\ Alike(s) /\ s.vid = "vlan" /\ PlainIds(s) /\ SoundIds(s, vlans, table)
      => SoundIds(s, vlans', table')

(* In every run of the page no click on "Add VLAN entry" takes an id out   *)
(* of range or the number that another row shows, while each is shown as   *)
(* the page would write it (handleAdd, vlans.add).                         *)
AddedIsValid == [][AddKeepsSound]_switchvars

(* "Port must not be untagged in multiple VLANs": so for what the server   *)
(* is told to keep, if it was so at first.                                 *)
UntaggedOnceKept ==
  \A s \in ToSet(Switches) : \A p \in PortsOf(s) :
    Cardinality({sid \in VlanRows(server, s) : PortOf(server[sid], p) = "u"}) <= 1
=============================================================================

------------------------------ MODULE MCForms -------------------------------
(***************************************************************************)
(* What the user fills in, reads and presses: the parts of FormParts, and  *)
(* as one more of them, "datatype", the checks behind the fields           *)
(* (Validation).                                                           *)
(*                                                                         *)
(* One form has a field of each kind with dependencies like those of a     *)
(* protocol's; three sections, subsections among them; datatypes of three  *)
(* levels; masks of three bytes and the addresses of one group; up to five *)
(* packages in windows of two; two interfaces, bridged or not and at first *)
(* without a port, a wifi section that belongs to any of them, and two     *)
(* ports, of which the server names one; and two switches of two ports and *)
(* three VLANs.                                                            *)
(***************************************************************************)
EXTENDS FormParts

CONSTANT Parts  \* the parts a run looks at

MCDeclared == <<"proto", "_confirm", "netmask", "dns", "update", "tunnelid">>
None == <<>>
Static == <<[dep |-> "proto" :> Str("static"), add |-> TRUE, known |-> 6]>>
MCKinds ==
  [f \in ToSet(MCDeclared) |->
  CASE f = "proto" -> "List" [] f = "_confirm" -> "Button" [] f = "netmask" -> "Combo"
    [] f = "dns" -> "Dynamic" [] f = "update" -> "Checkbox" [] f = "tunnelid" -> "Input"]
MCOptions ==
  [f \in ToSet(MCDeclared) |->
  CASE f = "proto" ->
         [optional |-> FALSE, keep |-> TRUE, initial |-> Str("static"),
          choices |-> <<"static", "6in4">>, rejects |-> {}, depends |-> None]
    [] f = "_confirm" ->
         [optional |-> TRUE, keep |-> TRUE, initial |-> Undefined,
          choices |-> None, rejects |-> {},
          depends |-> <<[dep |-> "proto" :> Str("6in4"), add |-> FALSE, known |-> 6]>>]
    [] f = "netmask" ->
         [optional |-> TRUE, keep |-> TRUE, initial |-> Undefined,
          choices |-> <<"x">>, rejects |-> {"bad"}, depends |-> Static]
    [] f = "dns" ->
         [optional |-> TRUE, keep |-> TRUE, initial |-> Undefined,
          choices |-> None, rejects |-> {"bad"}, depends |-> Static]
    [] f = "update" ->
         [optional |-> TRUE, keep |-> TRUE, initial |-> Bool(TRUE),
          enabled |-> "1", disabled |-> "0",
          choices |-> None, rejects |-> {}, depends |-> Static]
    [] f = "tunnelid" ->
         [optional |-> FALSE, keep |-> FALSE, initial |-> Undefined,
          choices |-> None, rejects |-> {"bad"},
          depends |-> <<[dep |-> "update" :> Bool(TRUE), add |-> FALSE, known |-> 5],
                        [dep |-> "proto" :> Str("static"), add |-> TRUE, known |-> 6]>>]]
MCKind(f)   == MCKinds[f]
MCOption(f) == MCOptions[f]
MCSplitWords == [t \in {"x", "x x"} |-> IF t = "x x" THEN <<"x", "x">> ELSE <<t>>]
MCTyped ==
  [f \in ToSet(MCDeclared) |-> CASE f = "tunnelid" -> {"", "x", "bad"}
                                 [] f = "dns"      -> {"", "bad"}
                                 [] OTHER          -> {""}]
MCStored ==
  {[proto    |-> Str(p), _confirm |-> Undefined, netmask |-> Undefined,
    dns      |-> d,      update   |-> Str("0"),  tunnelid |-> Undefined]
     : p \in {"static", "pppoe"}, d \in {Undefined, Str("x x")}}

MCOrder ==
  <<<<"bridge", "lan">>, <<"bridge", "wan">>,
    <<"ethernet", "eth0">>, <<"ethernet", "eth1">>, <<"wifi", "w0">>>>

Switch0 == [name |-> "switch0", ports |-> 2, vlans |-> 4, vid |-> "vlan"]
Switch1 == [name |-> "switch1", ports |-> 2, vlans |-> 4, vid |-> "vlan"]
MCValue ==
  [t \in {"", "1", "2", "02", "3", "x"} |->
     CASE t = "1" -> 1 [] t \in {"2", "02"} -> 2 [] t = "3" -> 3 [] t \in {"", "x"} -> 0]
MCNumeral == <<"1", "2", "3">>
MCSwitches == <<Switch0, Switch1>>
Word(p, mark)         == [port |-> p, mark |-> mark]
Vlan(s, t, words)     == [device |-> s.name, vlan |-> t, vid |-> "", ports |-> words]
MCVlans ==
  { <<>>,
    [v1 |-> Vlan(Switch0, "1", <<Word(0, ""), Word(1, "t")>>)],
    [v1 |-> Vlan(Switch0, "2", <<Word(1, "u"), Word(0, "t")>>), v2 |-> Vlan(Switch1, "1", <<>>)],
    [v1 |-> Vlan(Switch1, "1", <<Word(0, "")>>), v2 |-> Vlan(Switch1, "2", <<Word(1, "")>>)] }

MCDotted == {<<192, 0, 2, 1>>}

VARIABLE input

V == INSTANCE Validation WITH Numbers <- {-1, 5}, Names <- {"auto"}

allvars == <<partsvars, input>>

NoInput == input = [fn |-> "port", word |-> V!Name(""), subs |-> <<>>]

FormsInit ==
  /\ part \in Parts
  /\ PartsInit
  /\ IF part = "datatype" THEN V!Init ELSE NoInput

FormsNext ==
  \/ PartsNext /\ UNCHANGED input
  \/ part = "datatype" /\ V!Next /\ UNCHANGED partsvars

FormsSpec == FormsInit /\ [][FormsNext]_allvars

(* Validation: a compiled datatype accepts what the datatype means         *)
(* (AbstractValue._compile, L.cbi.validation.types).                       *)
CompiledMeans == part = "datatype" => V!CompiledMeans
=============================================================================

----------------------------- MODULE NetDevices ------------------------------
(***************************************************************************)
(* L.NetworkModel: the objects it keeps for devices and interfaces, how    *)
(* they are filled from the configuration, and the form of an interface    *)
(* that shows them and moves devices between interfaces.  Objects are made *)
(* once and never removed; they are brought up to date by the refreshes of *)
(* the status pages only, in any order with the edits.                     *)
(*                                                                         *)
(* A device is its kind with the name it comes from: a port, the interface *)
(* of a wifi section, or the bridge of an interface.  Left out: protocols  *)
(* without devices, aliases of interfaces, VLANs of a switch, and          *)
(* interfaces that only the status knows.                                  *)
(***************************************************************************)
EXTENDS Naturals, Sequences, SequencesExt, FiniteSets, Sublists

CONSTANTS
  Net,     \* sections of type interface
  Port,    \* network devices there can be
  Wifi,    \* sections of type wifi-iface
  Order,   \* the devices as the lists of the page sort them
  Plugged, \* the ports the device list of the server names
  Initial, \* bound: devices an interface has in the configuration at first
  MaxSaves \* bound: forms that are saved

VARIABLES
  ifname,   \* option of an interface: its devices
  bridged,  \* the interfaces of type bridge
  network,  \* option of a wifi section: its interfaces
  known,    \* deviceObjects: the devices there is an object for
  ports,    \* bridge -> its cached ports
  l2dev,    \* interface -> its cached device below (None: it has none)
  fresh,    \* history: which refreshes have run since the last change
  saves     \* history: how many forms were saved

netvars   == <<ifname, bridged, network, known, ports, l2dev, fresh, saves>>
netconfig == <<ifname, bridged, network>>
cache     == <<known, ports, l2dev>>

NoDevice == <<"none", "">>

PortDev(p)  == <<"ethernet", p>>
WifiDev(w)  == <<"wifi", w>>
BridgeOf(n) == <<"bridge", n>>
KindOf(d)   == d[1]
Device      == {PortDev(p) : p \in Port} \cup {WifiDev(w) : w \in Wifi}
                 \cup {BridgeOf(n) : n \in Net}

ASSUME NetAssumption ==
  /\ Net # {} /\ Plugged \subseteq Port
  /\ Order \in Seq(Device) /\ Device \subseteq ToSet(Order)
  /\ Initial \in Nat /\ MaxSaves \in Nat

(* isBridgeable() *)
Bridgeable(d) == KindOf(d) \in {"ethernet", "wifi"}

Sorted(D) == Within(Order, D)

-----------------------------------------------------------------------------
(* What the configuration says of an interface: its option, and the wifi   *)
(* sections that name it.                                                  *)
WifiOf(n, nw, devs) == {d \in devs : KindOf(d) = "wifi" /\ n \in nw[d[2]]}

Named == {PortDev(p) : p \in Plugged} \cup {WifiDev(w) : w \in Wifi}
           \cup {BridgeOf(n) : n \in bridged} \cup (UNION {ToSet(ifname[n]) : n \in Net})

(* loadDevicesCallback: there is an object for every device the server or  *)
(* the configuration names, and the bridges get their ports.               *)
DevicesLoaded ==
  /\ known' = known \cup Named
  /\ ports' = [n \in Net |-> IF n \in bridged
                             THEN Sorted(ToSet(ifname[n]) \cup WifiOf(n, network, known'))
                             ELSE ports[n]]

(* Mutation: the wifi sections are not looked at.                          *)
LowerDeviceOfOption(n) ==
  IF n \in bridged THEN BridgeOf(n)
  ELSE IF ifname[n] = <<>> THEN NoDevice ELSE ifname[n][1]

(* loadInterfacesCallback: the device below an interface; it is the one    *)
(* above, too (l3dev), for the protocols modelled.                         *)
LowerDevice(n) ==
  IF n \in bridged THEN BridgeOf(n)
  ELSE LET all == ifname[n] \o Sorted(WifiOf(n, network, known))
       IN  IF all = <<>> THEN NoDevice ELSE all[1]

RefreshDevices ==
  /\ DevicesLoaded
  /\ fresh' = fresh \cup {"devices"}
  /\ UNCHANGED <<netconfig, l2dev, saves>>

RefreshInterfaces ==
  /\ l2dev' = [n \in Net |-> LowerDevice(n)]
  /\ fresh' = fresh \cup {"interfaces"}
  /\ UNCHANGED <<netconfig, known, ports, saves>>

-----------------------------------------------------------------------------
(* isInNetwork(), from the cached objects.                                 *)
InNetwork(d, n) ==
  \/ l2dev[n] = d
  \/ /\ KindOf(l2dev[n]) = "bridge" /\ l2dev[n] \in known
     /\ d \in ToSet(ports[l2dev[n][2]])

(* getSubdevices() or getPhysdev(): the devices setDevices() replaces.     *)
OldDevices(n) ==
  IF l2dev[n] \notin known THEN <<>>
  ELSE IF KindOf(l2dev[n]) = "bridge" THEN ports[l2dev[n][2]] ELSE <<l2dev[n]>>

Detached(opts, d, n) ==
  [ifname  |-> Within(opts.ifname, ToSet(opts.ifname) \ {d}),
   network |-> IF KindOf(d) = "wifi" THEN [opts.network EXCEPT ![d[2]] = @ \ {n}]
               ELSE opts.network]

(* Mutation: a wifi section is put into this interface only.               *)
AttachedAlone(opts, d, n) ==
  CASE KindOf(d) = "wifi" -> [opts EXCEPT !.network[d[2]] = {n}]
    [] KindOf(d) # "wifi" /\ d \notin ToSet(opts.ifname) -> [opts EXCEPT !.ifname = Append(@, d)]
    [] OTHER -> opts

(* removeFromInterface(), attachToInterface()                              *)
Attached(opts, d, n) ==
  CASE KindOf(d) = "wifi" -> [opts EXCEPT !.network[d[2]] = @ \cup {n}]
    [] KindOf(d) # "wifi" /\ d \notin ToSet(opts.ifname) -> [opts EXCEPT !.ifname = Append(@, d)]
    [] OTHER -> opts

(* The two loops of setDevices().                                          *)
AllDetached(opts, old, n) ==
  LET loop[i \in 0 .. Len(old)] ==
        IF i = 0 THEN opts ELSE Detached(loop[i - 1], old[i], n)
  IN  loop[Len(old)]

AllAttached(opts, chosen, n) ==
  LET loop[i \in 0 .. Len(chosen)] ==
        IF i = 0 THEN opts
        ELSE IF chosen[i] \in known THEN Attached(loop[i - 1], chosen[i], n) ELSE loop[i - 1]
  IN  loop[Len(chosen)]

(* Mutation: the old devices are not removed.                              *)
SetDevicesKeepsOld(n, chosen) ==
  LET opts == [ifname |-> ifname[n], network |-> network]
  IN  IF OldDevices(n) = chosen THEN opts ELSE AllAttached(opts, chosen, n)

(* setDevices(): compared with the cached devices, nothing is done if they *)
(* are the same; else they are removed, and the given ones attached.       *)
SetDevices(n, chosen) ==
  LET opts == [ifname |-> ifname[n], network |-> network]
  IN  IF OldDevices(n) = chosen THEN opts
      ELSE AllAttached(AllDetached(opts, OldDevices(n), n), chosen, n)

-----------------------------------------------------------------------------
(* A list draws the devices there are objects for: check boxes for those   *)
(* that can be ports of a bridge, or radio buttons for all and for none.   *)
Listed(n, bridge) ==
  IF bridge THEN {d \in known : Bridgeable(d)} ELSE known \cup {NoDevice}

DrawnDevices(n, bridge) == {d \in Listed(n, bridge) : InNetwork(d, n)}

(* A device is typed in: it gets an object, and is drawn.                  *)
HandleKeydown ==
  /\ \E p \in Port : known' = known \cup {PortDev(p)}
  /\ UNCHANGED <<netconfig, ports, l2dev, fresh, saves>>

(* formvalue(); without a device it is undefined, and save() makes a list  *)
(* of that.                                                                *)
FormValues(n, bridge) ==
  {<<NoDevice>>} \cup (IF bridge THEN {Sorted(D) : D \in SUBSET Listed(n, TRUE) \ {{}}}
                            ELSE {<<d>> : d \in Listed(n, FALSE)})

(* The Save button of the form: the type, then the list that goes with it, *)
(* whatever the user has made of them.  The cached objects stay as they    *)
(* are, and so does the form that is drawn from them next.                 *)
SaveForm(n, bridge, chosen) ==
  /\ saves < MaxSaves /\ saves' = saves + 1
  /\ LET set == SetDevices(n, chosen)
     IN  /\ ifname'  = [ifname EXCEPT ![n] = set.ifname]
         /\ network' = set.network
  /\ bridged' = IF bridge THEN bridged \cup {n} ELSE bridged \ {n}
  /\ fresh' = IF netconfig' = netconfig THEN fresh ELSE {}
  /\ UNCHANGED cache

SaveDevices ==
  \E n \in Net, bridge \in BOOLEAN :
    \E chosen \in FormValues(n, bridge) : SaveForm(n, bridge, chosen)

(* init() *)
NetInit ==
  /\ ifname \in [Net -> {s \in BoundedSeq({PortDev(p) : p \in Port}, Initial) : IsInjective(s)}]
  /\ bridged \in SUBSET Net
  /\ network \in [Wifi -> SUBSET Net]
  /\ known = Named
  /\ ports = [n \in Net |-> IF n \in bridged
                            THEN Sorted(ToSet(ifname[n]) \cup WifiOf(n, network, known))
                            ELSE <<>>]
  /\ l2dev = [n \in Net |-> LowerDevice(n)]
  /\ fresh = {"devices", "interfaces"}
  /\ saves = 0

NetNext == \/ RefreshDevices \/ RefreshInterfaces
           \/ HandleKeydown \/ SaveDevices

NetSpec == NetInit /\ [][NetNext]_netvars

-----------------------------------------------------------------------------
NetTypeOK ==
  /\ \A n \in Net : ToSet(ifname[n]) \subseteq known /\ IsInjective(ifname[n])
  /\ bridged \subseteq Net
  /\ network \in [Wifi -> SUBSET Net]
  /\ known \subseteq Device
  /\ \A n \in Net : ToSet(ports[n]) \subseteq known /\ l2dev[n] \in Device \cup {NoDevice}
  /\ fresh \subseteq {"devices", "interfaces"}
  /\ saves \in 0..MaxSaves

MembersOf(n, names, nw) == ToSet(names) \cup WifiOf(n, nw, known)
Members(n) == MembersOf(n, ifname[n], network)

(* Once both refreshes have run since the last change, in either order,    *)
(* what the form and the badges show is what is configured: the ports of a *)
(* bridge, or the device of an interface (loadDevicesCallback,             *)
(* loadInterfacesCallback, isInNetwork).                                   *)
FreshShowsConfigured ==
  fresh = {"devices", "interfaces"} =>
    \A n \in Net :
      IF n \in bridged
      THEN DrawnDevices(n, TRUE) = {d \in Members(n) : Bridgeable(d)}
      ELSE IF Members(n) = {} THEN l2dev[n] = NoDevice ELSE l2dev[n] \in Members(n)

(* The device below an interface is all it has: a bridge with its ports,   *)
(* or one device that is not a bridge itself.                              *)
OneLayer(n) == n \in bridged \/ \A d, e \in Members(n) : d = e /\ Bridgeable(d)

(* Whatever the cache holds, saving the form of an interface leaves behind *)
(* of its devices only those that were not chosen and that the cache does  *)
(* not know of.  It has every chosen one, unless the cache names a device  *)
(* that is not configured; and with both refreshes run since the last      *)
(* change it has exactly the chosen ones, wired or wireless, if they are   *)
(* ports of its bridge or it had one device at most and no bridge of       *)
(* another interface (setDevices, removeFromInterface, attachToInterface). *)
SavedAsChosen ==
  \A n \in Net :
    LET old == ToSet(OldDevices(n))
        has == Members(n)
        one == fresh = {"devices", "interfaces"} /\ OneLayer(n)
    IN  \A chosen \in FormValues(n, TRUE) \cup FormValues(n, FALSE) :
          LET set  == SetDevices(n, chosen)
              got  == MembersOf(n, set.ifname, set.network)
              want == ToSet(chosen) \ {NoDevice}
          IN  /\ got \ want = has \ (old \cup want)
              /\ old \subseteq has => want \subseteq got
              /\ one => got = want

(* Saving it takes no device from another interface, however stale the     *)
(* cache is (setDevices).                                                  *)
OthersKeep ==
  \E n \in Net : \A m \in Net \ {n} :
    /\ ifname'[m] = ifname[m]
    /\ m \in bridged' <=> m \in bridged
    /\ \A w \in Wifi : m \in network'[w] <=> m \in network[w]

(* In every run each step leaves the devices of all interfaces but one as  *)
(* they are: a form saves its own interface only (setDevices).             *)
OthersKeepDevices == [][OthersKeep]_netvars
=============================================================================

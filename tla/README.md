# A verification project for LuCI2

LuCI2 is the web interface of an OpenWrt router. A single page of JavaScript
(`luci2.js` and one file per view) talks JSON-RPC over `/ubus` to `rpcd` on the
device; two C plugins of `rpcd` (`luci2.c`, `bwmon.c`) and two CGI programs
(`luci-upload`, `luci-backup`, in `src/io/main.c`) do what the stock ubus
objects do not. This directory holds TLA+ models of its core logic, the TLC
configurations that check them and TLAPS proofs about them.

The paths below are relative to `src/luci2/` of the repository;
`luci2.js` is `htdocs/luci2/luci2.js`.

## 1. Inventory

| Component | Source | State it keeps | Operations | What is hard about it |
|---|---|---|---|---|
| `L.UCIContext` | luci2.js 818-1350 | `state.values` (what was loaded), `creates`, `changes`, `deletes`, `reorder`, `newidx` | load, unload, add, remove, set, unset, get, sections, swap, save, apply, changes | Four staging maps over a cache, kept consistent by hand; a save chain of three or four round trips during which edits may go on; replies that are not looked at |
| Order of sections | luci2.js 888-931, 1016-1049, 1197-1213, 6545-7120 | `.index` of every section object | sections (renumbers as it lists), swap, reorderSections; handleAdd, handleRemove, handleSort | Created sections keep the new number, loaded ones are copies and do not |
| `UCIContext.apply` | luci2.js 1295-1333 | `date`, `try_deadline`, a timer | apply, confirm, rollback by the device | Timeouts on both sides, overlapping calls, lost replies |
| `L.rpc` | luci2.js 640-815 | `_id`, `_batch`, `_requests` | declare, call, batch, flush, `_call_cb` | One shared open batch; results told apart by position; timeouts |
| `L.session`, `L.ui.login` | luci2.js 3074-3152, 3444-3557, luci2.html | session id in the hash and in `L.globals`, heartbeat interval, deferred, dialog | login, isAlive, start/stopHeartbeat, ACL cache | Heartbeat against timeouts; sessions that die; lost replies |
| `L.NetworkModel` | luci2.js 1562-2985 | device and interface objects, aliases, RPC caches | loadCache, refreshDevices, getStatus, setDevices, ... | Derived caches that go stale; batches nested in callbacks |
| `L.ui` views, menu, dialogs | luci2.js 3154-4450 | current view, timers, one dialog, one loading cover | renderView, changeView, repeat/finish, updateChanges, reconnect | Timers outliving their view; one dialog for all |
| `L.cbi` forms | luci2.js 4450-7667 | widget instances, dependencies, active panels and tabs | load, save, validate, toggle, add/remove items | Dependencies between fields; saving what is hidden; validation of compound values |
| `L.wireless`, `L.firewall`, proto/ | luci2.js 1354-1560, proto/*.js | none of their own | lookups, forms | little |
| views | view/*.js | per page | paging of packages, VLAN editing, firmware upgrade | Paging arithmetic; renumbering of VLANs; a multi-step upgrade |
| rpcd plugin `bwmon` | src/rpcd/bwmon.c | an AVL tree of devices, a ring per counter | collect (each second), devices, statistics | Ring arithmetic, first reading, counter resets |
| rpcd plugin `luci2` | src/rpcd/luci2.c | none across calls, files of the device | about 40 ubus methods | fork/exec, truncate-and-write files, windowed lists |
| `luci-upload` | src/io/main.c, multipart_parser.c | parser state, `st`, a temporary and a target file | upload | A parser fed in arbitrary chunks; I/O errors half way |
| `luci-backup` | src/io/main.c 215-264, 574-634 | a pipe | backup | pipe and fork |

How they interact: forms call `UCIContext` synchronously while the user edits;
`UCIContext`, `NetworkModel`, `session` and the views call the device through
`L.rpc`, and everything after the call is in a continuation; `L.ui.login` and
the heartbeat replace the session under whatever else is going on; upload and
backup are plain form posts beside the RPC channel, authorised by the session id
in the form. On the device `rpcd` runs everything in one event loop, and each
CGI request is a process of its own.

What makes them correct, in one line each:

- `UCIContext`: what the form shows is what `get()` answers; what is saved is
  what the form showed; with nothing staged, the form shows the device.
- Order: the row that is moved moves; the order shown is the order saved.
- `apply`: a success that is reported was a commit; every call ends.
- `L.rpc`: every caller is called back, once, with its own result.
- Session: one heartbeat, one login; a live session is kept, a dead one noticed.
- `bwmon`: the chart is the last 120 increments in the order they were measured.
- upload: whole file or none; only if allowed; one answer.

`PROJECT.json` lists the hazards behind these at the lines where they bite.

## 2. Modules

| Module | Models | Depends on |
|---|---|---|
| `UciEdit` | abstract: an editing session with one draft and one disk | |
| `UciContext` | cache, staging maps, save and load chains of one package, the server's copy | instantiates `UciEdit` |
| `UciContext_proofs` | theorems about `UciContext` | |
| `UciOrder` | `.index`, rows, reordering, adding, removing, the save round trip | |
| `UciApply` | `apply()` and its confirmation loop against the device's rollback timer | |
| `Changes_proofs` | theorems about `UciOrder`, `UciApply` and the two beside each other | extends `MCChanges` |
| `CbiForm` | the fields of one section: drawing, editing, validation marks, dependencies, saving | |
| `CbiSections` | the walk of a map through its sections and subsections; panels; page and dialog | |
| `Validation` | the datatype compiler and the checks | |
| `Addresses` | `isNetmask()` and `parseIPv6()` | |
| `NetDevices` | device and interface objects of `NetworkModel`, the device list of an interface form | |
| `SwitchVlan` | the VLAN tables of `network.switch` | |
| `Packages` | the package lists of `system.software` and the windows `luci2.c` cuts out of them | |
| `Sublists` | the loops that copy a part of a list, as a function to reason about | extended by `CbiForm`, `NetDevices`, `SwitchVlan`, `Packages` |
| `Sublists_proofs` | induction over numbers, and what `Within` of `Sublists` keeps | |
| `FormParts` | `CbiForm`, `CbiSections`, `NetDevices`, `SwitchVlan`, `Packages`, `Addresses` beside each other | extends the six |
| `Lists_proofs` | theorems about `Packages`, `CbiSections`, `Addresses` | |
| `Forms_proofs` | theorems about `CbiForm`, `NetDevices`, `SwitchVlan` and `FormParts` | extends `FormParts`, `Lists_proofs` |
| `Rpc` | the JSON-RPC client and its callers | |
| `Session` | login, session check, heartbeat | |
| `ViewTimers` | entering and leaving views, their timers | |
| `Page_proofs` | theorems about `Rpc`, `Session`, `ViewTimers` and the three beside each other | extends `MCPage` |
| `BwmonChart` | abstract: the last H increments per counter | |
| `Bwmon` | the rings of `bwmon.c` | instantiates `BwmonChart` |
| `Bwmon_proofs` | theorems about `Bwmon` | |
| `Upload` | `luci-upload`, its parser, and the page that reads its answer | |
| `Upload_proofs` | theorems about `Upload` | |
| `MCPage` | `Session`, `Rpc`, `ViewTimers` beside each other | extends all three |
| `MCChanges` | `UciOrder`, `UciApply` beside each other | extends both |
| `MCForms` | `FormParts`, and `Validation` beside it | extends `FormParts`, instantiates `Validation` |
| other `MC*` | the instances of a single module that TLC checks | |

Operators under a comment that begins with "Mutation:" are deliberate
faults, next to the definition they vary. No specification uses them: they are
there to be put in its place, to see that the properties notice.

### UciContext

`loaded` and `values` are `state.values[conf]`; `creates` and `changes` are the
maps of that name; `state.deletes` is split into `removed` (sections marked
`true`) and `unsets` (lists of options); `touched` says that the package is a
key of one of the three staging maps, which is what `save()` collects in `pkgs`.
`phase[c]` is the position of a chain of continuations:
`idle -> writing -> written -> (ordering) -> reloading -> reloaded -> counting`
and back for a save (`counting` is `updateChanges()`, after which `Map.load()` asks
again for what is not cached), `opening -> opened -> idle` for the load of a page or
a reset. The batch that `save()` posts (`batch[c]`) is a copy of the staging maps
(it is serialised at once); the server takes it in one step, in the order adds,
sets, deletes, and may rename anonymous sections as rpcd does. A load is read by the
server in one step (`reply[c]`) and fills the cache in a later one.

Nothing in `send()`, `reset()` or `L.uci.save()` asks whether a chain is under way:
what holds up all input is the loading dialog (`covered`), one for the whole page. A
chain that ends takes it away, and so does a view that was entered and is ready
(`Navigate`); then another chain may begin while the first runs on, and `Chain` are
those that may. `overtaken` is a history variable: the cache was filled with an
answer that the server had read before a write of another chain. `set()` on a section
in any of its three conditions (created, loaded, deleted) follows the branches of the
code. `Faults` selects dropped batches, lost loads and navigation.

### UciOrder

Tracks `.index` exactly, with a stable sort and the number of `sections()` calls
that each handler makes, since every call renumbers the created sections. `slot`
is the insertion order of a name in its map. The page has one section type and
no subsections, which is the case in which every handler's calls are known.

### Rpc

`_requests` maps the ids of open calls to their index in the batch; a post
remembers which of its ids belong to the caller that flushed it (`own`), because
that caller reads the results from the front. The callers are: single calls,
`batch(); k calls; flush()`, and `loadCache(0)`, whose callback opens a second
batch. `got` is what each caller was handed.

### Session

`calls` are the RPCs in flight with their age in ticks; `beats` the running
intervals. One tick is `L.globals.timeout / Timeout`. The server issues and drops
sessions at will. The page can be reloaded at any time, and the dialog can be
dismissed, which is why a run may stop (no deadlock check).

### CbiForm

A field is a record of the options of its declaration; its widget holds what the
element in the page holds. Every value carries its type in the script, because
`changed()` compares types and `toggle()` tells `true` from a text. A text is a
model string, `SplitWords` says how `split(/\s+/)` cuts it, and a field names the texts
it rejects. `Validated` is the cascade of `handleValidate`: a field that is right
toggles and validates its dependents, which do the same. `Resave` stands for
`handleAdd`, `handleRemove` and `handleSort`, which save the form without
validating it and draw it again; they may happen only where sections can be added
or removed. `Press` is the "Change protocol" button, whose handler finds neither
section nor protocol and only draws the form again.

`L.uci.get()` hands out the array of the cache, and drawing a `DynamicList` pushes the
blank row of an empty one into it (`AfterDraw`): after an emptied list was staged and
drawn again the cache holds one empty entry, and each further save of the form writes
the empty list. `TypeOK` and `IdleSaveWritesNothing` confine this to lists whose
emptying is staged; `rpcd` keeps no list without entries, so a load ends it
(`Reloaded`). An optional checkbox is compared with its initial value by `==`
(`LooselyEqual`), for which `false`, `"0"` and `""` are the same.

### CbiSections

`NextIndex` is the loop of `AbstractSection.save()`, whose counter is a global
variable: in a section with subsections it goes on where the innermost loop has
stopped. `Visited` are the indices it comes to; if none of them is past the end
the page hangs (`frozen`). `lost` records the sections whose edits were drawn
over. `modal` maps are dialogs: their Save closes them after every `send()`, also
after one that refused a wrong form.

### Validation

Datatypes are token sequences; `Compile` is the scan of the source with its depth
counter and its stack, `Apply` are the checks. The reference (`Means`) interprets
the tree of which the tokens are the writing, for parentheses up to three deep; the
single checks are the same operators on both sides, so it is the compiler and the
combinators that are compared. `Addresses` has the parsers of
addresses by themselves: `ParseIPv6` works on groups, `IsNetmask` on bytes. To the
right of `::` an address with dots is four bytes; without `::` the source reads it as
one hexadecimal group (`ReadAsHex`). The reference (`BytesOf`) knows nothing of
this, and `AddressesParsed` claims the bytes of every proper address except those.
These are pure functions: a state is one input, and the runs enumerate the inputs.
The two modules are apart because the operators of the compiler are recursive.

### NetDevices

`ifname`, `bridged`, `network` are what is staged in the packages network and
wireless; `known`, `ports`, `l2dev` are the cached objects. Objects are made once;
the refreshes bring them up to date in any order and at any time, and saving a
form does not. Ports need not be plugged in, and a port may be typed in that has
no object yet.

`SavedAsChosen` is a statement about every state of the cache: the devices a save
leaves behind are exactly those that were not chosen and that the cache does not
know of (`OldDevices`). That these are none is claimed only after both refreshes and
for `OneLayer` interfaces: `getPhysdev()` is one object, so that of a port and a
wireless network without a bridge, or beside the bridge of another interface, one
stays behind although the cache is up to date.

### SwitchVlan

`vlans` is what `L.uci.get()` answers, `table` what the fields in the page hold,
`server` what the server has been told to keep. `execute()` makes the tables in a
loop over the switches, and the handlers read its variables long after it has
ended: `shared` is the last switch, and the ranges, the option that holds the id
and the ports that are written are those of `shared` for every table. Only
`IdOf`, `NewPorts`, `MaxVid`, `Free` and `IdsValid` read it, as the code does;
`SavedRow` and `UntaggedOnce` take what belongs to the row's own table. The text of
the ports is the sequence of its words. A button that adds or removes a row saves
the form first, whatever it holds; `SendVlans` is refused while a field is wrong.
`SendElsewhere` stands for leaving the page, saving a form of the same package on
another one and coming back: `L.uci.save()` sends what is staged, not what the
form shows.

Ids are texts in the page and numbers to the switch (`Value`). `AddedIsValid` compares
numbers, and claims something only while every id is written as the page writes it
(`PlainIds`): with "02" in a row, "Add VLAN entry" picks 2, and the datatype of the
field lets both rows pass. Both switches of the runs are `Alike`, so that what `shared` does to a switch that differs from the last is
in the model but not in the runs.

### ViewTimers

An instance of a view is its number; `timeouts` is the `_timeouts` array of those
that have one (`finish()` deletes it, `repeat()` makes it again), and a loop
remembers its index in it. Script, template and answers arrive at any time, in
any order, after any number of navigations, or not at all: the requests for script
and template have no timeout and no callback for a failure, and a callback that
throws (`luci2.js:1691`, `:1794`, `:2263`, `:2462`, on what a lost batch left
undefined) leaves the deferred pending that `render()` or `repeat()` waits for
(`ScriptLost`, `RenderLost`, `PollLost`). `stalled` notes the instances that lost
something since they were last entered, and `ShownViewPolls` asks the others to
keep polling, also after answers that failed in the ordinary way (`Answered` with
`ok` FALSE). `hashchange` events are counted until
the browser delivers them; a login writes the hash and causes one. `abandoned`
counts what was under way when views were left, the measure `LeftViewsStop` is
stated in.

### Packages

A package is the number of the line in opkg's output; `lines` says which lines
`opkg_parse_list` can read. The window a call gets, the calls the page makes for
the rest (with its arithmetic modulo the window size) and the buttons are exact.
Somebody else may change the list, and calls may be lost, at any time;
`disturbed` remembers it.

### UciApply

`clock` is in seconds; `date` is the value of `new Date()` as `apply()` took it.
The device's side (`pending`, `left`, `committed`, `reverted`) is rpcd's and is
modelled from how it is used. The 250 ms and 1000 ms timers are steps without a
duration.

### Bwmon

`Collect` is one whole run of `rpc_bwmon_collect` over whatever devices
`readdir` shows. Reads may return anything, so counter resets and devices that
disappear in the middle are included; H, U32 and K (the quotient of the two
integer widths) are parameters.

### Upload

One action per `case` of `multipart_parser_execute`; a token of the body is a
byte or a run of bytes inside which a chunk boundary has the same effect as at
its ends. `frag` is the text between `mark` and the current byte and is dropped
when the chunk ends, so that code which forgets to emit loses data in the model
as well. The callbacks of `main.c` are operators from a state of `st` to the set
of its possible next states, errors included. `mishaps` is a history variable:
`cut` (the connection broke), `split` (a chunk ended inside a header or a field
value), `io` (an operation failed and was noticed), `read` (one failed and was
not), `killed` (the process was ended). `filecopy` is one step whose outcomes include
that of a process that is killed between `O_TRUNC` and the last write, with any
part of the file in the target; `Kill` ends the process between two steps. The body is always one that the page's form produces, so the branches in
which the parser gives up are there but not taken, which `AnsweredOnce` shows.
`filemode` parts are left out: the form has none. `init_parser()` leaves the
parser with a pointer into a dead stack frame; the model assumes a build in which
the frame stays intact.

## 3. Runs

| Run | Instance | Shows |
|---|---|---|
| `uci` | 3 names, 1 option, 2 values, 2 chains, no faults | `TypeOK`, `StagingConsistent`; refinement of `UciEdit` |
| `uci_faults` | 1 name, 1 option, 1 value, 2 chains, all faults | `CleanViewIsStore` survives dropped batches, lost loads and chains that overlap, a named section posted twice included; every chain ends |
| `changes` | `UciOrder`: 4 names (symmetric), 2 created; `UciApply`: 2 calls, rollback after 2 s | rows, saved order and moves agree as long as sections were only added or only removed since the load; no success without a commit of its own, however calls overlap and replies are lost |
| `order_move` | 3 names, 2 created | **violated**: after a removal and an addition "Move up" may move nothing, or another row |
| `page` | `Session`: 3 sessions, timeout of 2 ticks; `Rpc`: 4 calls, batches of 2; `ViewTimers`: 2 views, 3 renderings | one thing at a time, live sessions kept, dead ones noticed, waiting ends; requests and answers paired, own answers unless a callback threw, everyone called back; left views stop, the shown one polls unless something of its own was lost |
| `apply_settles` | 1 call | **violated**: the confirmation loop never ends after a rollback |
| `forms` | `CbiForm`: 6 fields, one of each kind; `CbiSections`: 3 sections, with and without subsections, page and dialog; `Validation`: datatypes of up to three levels; `Addresses`: masks of 3 bytes, addresses of up to 8 groups; `Packages`: 5 lines, windows of 2; `NetDevices`: 2 interfaces, 2 ports (one unplugged), none of which an interface has at first, 1 wifi section of any of them, 2 saves; `SwitchVlan`: 2 switches of 2 ports and 3 VLANs, 3 section names, 2 edits, 2 buttons | a field is shown exactly when it is needed; an idle save writes nothing, but for a list whose emptying is staged; a redraw costs no edit; flat maps save every section; datatypes mean what they say; addresses and masks are parsed right, but for the dotted end of an address without `::`; windows meet; fresh objects show the configuration; saving gives an interface the chosen devices, leaves behind those the cache does not know and takes none from another; VLANs are saved as shown, and the id "Add VLAN entry" picks is valid while ids are written as the page writes them |
| `sections_saved` | same | **violated**: with subsections, sections are skipped by a save, or it never ends |
| `vlan_saved` | same | **violated**: a port that is untagged in two VLANs reaches the server |
| `bwmon` | 2 devices, ring of 3, 2-bit counters | rings implement `BwmonChart` |
| `upload` | every file of at most 3 tokens and longer ones close to the delimiter; every chunking | whole file or none, only if granted, one answer, success without mishaps; a part only from a process killed while copying, which does not answer |
| `upload_shown` | same | **violated**: a failure is shown as a completed upload |

`MCPage`, `MCChanges` and `MCForms` put modules beside each other that share no
state. In `MCForms` a behaviour is one of one of the parts, named by `part`, and the
others stay in one of their initial states (`NoForm`, `NoSections`, ... of
`FormParts`). They save the start of a model checker for each, and hide nothing:
every property is one of a single part (`Parts` says which of them a run looks at), and that the parts do beside each other what
they do alone is proved (`PageIsItsParts`, `ChangesAreParts`, `FormsAreParts`).

Why the bounds are enough. `UciContext`: sections interact only through names
(two to conflict, a third for the server to choose); an option has at most three
conditions (loaded, changed, unset), for which two values suffice; with faults,
one name is enough for an answer that a write overtook and for a section that two
chains post, and two chains overlap in every way (that an anonymous section is stored
twice under two names is beyond this instance; `CleanView` is proved for any number). `UciOrder`: a
wrong exchange needs a removed, a created and two loaded sections. `Rpc`: the
deviations need two batches and a call between them. `Session`: one session from
an earlier page, one before and one after an expiry; two ticks are the least in
which an answer may come before, at or after a timeout. `ViewTimers`: three
renderings let a view be left and entered again while its first loop waits.
`CbiForm`: the dependencies have the shapes of the protocol forms (an alternative,
a conjunction, a chain of two, a hidden field that is dropped); two rows show
every way a row can go. `CbiSections`: two top sections and one below are the least
in which the counter skips one, and one with itself below it the least in which it
goes round. `Packages`: five lines are two full windows and a part. `NetDevices`:
a device, the interface that has it, and another that must not lose it; two saves
for a cache that is stale when it is used, the first of which gives an interface the
ports the configuration starts without. `SwitchVlan`: three rows over two
switches give two in one table and one in the other; two edits make two rows
conflict, two buttons stage the conflict and send it. `UciApply`: two calls overlap in every
way. `Bwmon`: a ring of three has an oldest, a middle and a newest entry, and two
devices share nothing. `Upload`: three tokens reach every pair of parser states in
the data, and the longer files every length of a false boundary, followed by data,
by CR and by another one.

### Fairness

`UciContext`, `Rpc`: every `$.ajax` call has `timeout: L.globals.timeout` and the
same function handles success and failure (`.then(cb, cb)`), so each request is
settled: weak fairness of the settling steps. `Session`: timers fire, time
passes, calls settle; nothing is assumed of the user or the server. `ViewTimers`:
a script or a rendering that is waited for arrives or is lost (`Arrive`,
`Rendered`), and a loop goes on to its next timer or fetch or ends (`Step`): that
something is answered is not assumed, what is lost is noted in `stalled`. `UciApply`: calls settle, timers fire, also the device's
rollback timer. The other modules have safety properties only: what happens in
them is what a user or the device does, of which nothing is assumed, or a loop
of its own.

### Disagreements between code and documentation

1. *Move up* (`luci2.js:1041`): `sections()` assigns numbers from 0 to the objects
   it returns, but returns loaded sections as copies. After a loaded section was
   removed, the remaining loaded numbers have a gap and the created section is
   given a number in it.
2. *Save with subsections* (`luci2.js:6450`): `for (i = 0; ...)` without `var`. The
   save of a subsection runs the same loop; when it returns, `i` is the number of
   sections it found. The outer loop skips sections, or returns to one for ever.
3. *Frozen date* (`luci2.js:1317`): `date.getTime() < try_deadline` is always true.
4. *Upload failures* (`luci2.js:3324`): the page tests `json.error`, the server
   writes `"failure"`; the "uploaded completely" dialog follows a failed upload.
5. *Untagged twice* (`luci2.js:6625`): `handleAdd()` and `handleRemove()` save the
   form to the cache without validating it, and `L.uci.save()` sends whatever is
   staged, for any form. "Port must not be untagged in multiple VLANs"
   (`network.switch.js:59`) does not keep it from the server.

Smaller ones that no run is spent on, modelled as the code has them:

- *Open batch* (`luci2.js:1691`): if the batch of `loadCache(0)` is lost,
  `rpcCache.swlist` is undefined and reading its length throws after
  `L.rpc.batch()`. The next call of anybody is collected instead of sent, and
  results are read from shifted positions. `OwnAnswerUnlessThrown` holds only of
  behaviours without this exception (`thrown`).
- *Change protocol* (`luci2.js:2880`): `ev.data.sid` is undefined, so nothing is
  cleared although the description says so (`Press` of `CbiForm`).
- *First view* (`luci2.js:3866`): an address that names no view is completed by
  `setHash()`, whose event renders the view a second time; the first instance is
  never finished (`Start` of `ViewTimers`; counted in `abandoned`).
- *Unreadable lines* (`system.software.js:51`): a line opkg_parse_list cannot read
  shifts the windows after it; and a limit is taken for a position in the list
  (`WindowsMeet` is claimed of lists whose lines can all be read).
- *Last switch* (`network.switch.js:238`): the tables of all switches use the ports,
  the id option and the range of the last one. `VlansSavedAsShown` and `AddedIsValid`
  are claimed of switches that are like it; a switch with fewer ports than the
  last one gets words for ports it does not have.
- *A thousand sections* (`luci2.js:987`): a new section is numbered from 1000 on, to
  come after the loaded ones; in a package with more of them it is drawn among
  them. The theorems about the order say so in their hypothesis.
- *Dotted netmasks* (`luci2.js:556`): `parseIPv6()` gives an address with dots to
  `parseIPv4()` to the right of `::` only. Without `::`, `parseInt(..., 16)` reads its
  first byte as a hexadecimal group, and zeros fill up the rest; the netmask
  `ffff:ffff:ffff:ffff:ffff:ffff:255.255.255.0` is refused with "Must be a valid IPv6
  netmask6" (`:4644`). `AddressesParsed` excepts these bytes.
- *Ids as texts* (`network.switch.js:248`): "VLAN ID must be unique" is checked on
  texts: "02" and "2" are two VLANs to the page and one to the switch.
- *Blank row* (`luci2.js:5769`): drawing an emptied list that is staged puts an empty
  entry into the cache (`AfterDraw` of `CbiForm`).
- *Devices left behind* (`luci2.js:2748`): `setDevices()` removes the one device
  that `getPhysdev()` finds, or the ports of its bridge; what else the interface has
  stays (`SavedAsChosen`).
- *Number of a new VLAN* (`network.switch.js:195`): `vlans.add` looks for a free number
  in option `vlan` only, also where the id is kept in `vid`, `pvid` or `tag`.

## 4. Proofs

`UciContext_proofs` (for every set of names, options, values):

- `TypeCorrect`: the type invariant, one lemma per action.
- `CleanView`: for any faults and any number of chains that overlap.
  `CleanViewIsStore` is not inductive, because it says nothing of the states inside
  a chain. The strengthening (`CacheInv`) ties the batches to the phases of their
  chains, and the cache to all of them: untouched maps are empty, only a chain that
  writes has a batch, an untouched batch is empty, and a loaded cache that was not
  overtaken equals the store unless a batch that will be followed by `unload()` has
  been written.
- `StagingConsistency`: inductive together with the type invariant, with the fact that
  the loading dialog is shown exactly while a chain is under way and that there is one
  at most (`OneChain`), and with what a load finds (`LoadsInv`); assumes that neither
  loads are lost nor the page is left during a save (with these, edits may be
  staged for sections of an unloaded package).
- `Refinement`: without faults every step of `UciContext` is a step of `UciEdit`
  or a stutter, under the mapping `draft <- View, disk <- store, mode <- Mode`.
  The write step needs that the posted batch still is the staged state, which
  holds because nothing is editable during a chain (`BatchIsStaged`, `OneChain`).

`Bwmon_proofs` (for every ring size, counter width and set of devices):

- `TypeCorrect`: in particular `pos[d] = -1` exactly for the devices that have no
  struct, so no dump indexes with -1.
- `RingIsChart`: every collector run is a `Sample` of `BwmonChart`. It rests on
  two lemmas on arithmetic modulo H (advancing the position by one shifts the
  dump by one) and one on subtraction modulo U64 and then U32. The invariant it
  needs is that the ring of a device without a struct is all zero.

`Page_proofs`, the part on `Session` (for every set of sessions and every timeout):

- `TypeCorrect`: the type invariant, which says that no call outlives its timeout.
- `Exclusive`: `OneAtATime`. By itself it is not inductive: two answers of the
  heartbeat could each enter `login()`. The strengthening (`Inv`) adds that a call
  of the heartbeat and the interval that made it sum up to `Interval`; since that
  is twice the timeout, the call is gone before the interval fires again. It also
  says that nothing runs before the document is ready and that a check is always
  of the session in the hash.
- `SessionKept`: `ValidSessionKept`, an action property. It needs the reasons why
  a call was made (`Reasons`): a check of a session that is valid, on a page that
  was running, comes of a heartbeat that was lost.

`Changes_proofs`, the part on `UciOrder` (for every finite set of names and every number of sections made):

- `OrderTypeCorrect`: the type invariant, of which the part that matters is that
  the rows are the sections and are numbered from 0 without a gap. Every number
  `sections()` gives is a rank in a strict order (`SortIsStrict`), and ranks of a
  finite set leave no gap (`RankNumbers`). That the order is strict, also for
  sections with the same `.index`, needs that no two names have the same place in
  their map (`Shape`).
- `SavedInOrder`, `OthersInOrder`, `MoveExchanges`: `SavedOrderIsShown`,
  `OthersKeepOrder` and `MoveExchangesRows`. The strengthening (`Ordered`) is about
  states in which sections were only added or only removed since the load:
  `.index` puts the sections in the order of the rows and calling `sections()`
  again changes nothing (`Faithful`); if nothing was moved, this is the order in
  which the server keeps what it is sent (`Natural`); and what it has been told is
  the order shown (`Told`). Two numberings without a gap that agree on the order
  are one (`OneNumbering`), so the rows after the save are the rows before it.
  These three theorems are about packages of at most 1000 sections: `add()`
  numbers a new section 1000 and more, which must be above the numbers of the
  loaded ones (see the end of section 3).

`Changes_proofs`, the part on `UciApply` (for every finite set of calls and every timeout):

- `ApplyTypeCorrect`: the type invariant.
- `NoFalseSuccess`: `EachSuccessCommitsOne`. The invariant counts: a call that
  holds, or has reported, a positive reply to "confirm" has a claim, and a claim
  is made in the step in which the device commits what is pending. That one
  commit cannot serve two claims needs that what is pending was never settled
  before, and that the changes of a call that has not been sent are not.

`Changes_proofs`, the composition (`MCChanges`): `ChangesAreParts` says that each of
the two modules runs as it would alone, `ChangesTypeCorrect` that `ChangesTypeOK` is
invariant, and `ChangesPartsHold` that the four properties of the run hold in it, for
packages of at most 1000 sections.

`Page_proofs`, the part on `Rpc` (for every number of calls and every size of a batch):

- `RpcTypeCorrect`: the type invariant.
- `RequestsAlwaysMatch`: `RequestsMatch`. The invariant (`Sound`) adds that no
  message is in two posts, or in a post and in the open batch; it is stated of
  its arguments, because the callback of `loadCache(0)` opens its second batch
  with what an answer has left of the entries and the posts. The other half of the
  property, no entry without a message, is inductive beside it (`Exact`).
- `CallersGetOwnAnswer`: `OwnAnswerUnlessThrown`. While nothing threw, no batch is
  open outside its block, and what a caller reads is all there is in its post
  (`Orderly`).

`Page_proofs`, the part on `ViewTimers` (for every finite menu and every number of renderings):

- `LeftViewsDoStop`: `LeftViewsStop`. Nothing bounds the timers that are left
  behind by what the step at hand does: an answer may set one for a view that was
  left long ago. The invariant keeps an account instead (`Account`): requests for
  scripts, renderings and loops, waiting or not (`Busy`), are together at most one
  more than was ever abandoned, and if they are one more, one of them is of use: a
  script on its way, or a rendering or a loop of the view that is shown
  (`Current`). That one is no stray timer, so the strays are at most as many as
  was abandoned (`StraysAreFew`); and `renderView()` abandons what waits, clears
  every timer that is no stray, and begins one thing that is of use
  (`EnterSettles`), so that the account is right again. A timer id that is
  overwritten in the array of its view becomes a stray, but the loop that
  overwrites it is then the one of use (`AnsweredKeeps`).
- `ViewTypeCorrect`: the type invariant. That instances stay in their range needs
  that each was made for one call of `renderView()` (`Budget`).

`Page_proofs`, the composition (`MCPage`): `PageIsItsParts`, `PageTypeCorrect` and
`PagePartsHold` say of the page as a whole what is said of `Session`, `Rpc` and
`ViewTimers` alone. The theorems about the specifications of the parts cannot be
used for it as they stand, since these have their own fairness; what is used is that
their invariants hold at first and are kept by every step (`PageInvAlways`).

The sums of these proofs are those of the community modules, which add up the
values of a function in an order that is not specified; `SumAdds` shows that any
order gives the same (`SumChanges`: a sum changes as its only changed summand does).

`Upload_proofs` (for every file without the delimiter, every session and every
chunking):

- `OnlyIfGranted`: `StoredIfGranted`. Nothing is used of what the body says or of
  the order of its parts. The invariant depends on where the parser is: between
  two parts an id that is there has been asked about and was granted (`Between`);
  inside a part, this is so unless the part is the one that carries the id, and
  a part of the file has begun only if there is an id (`Within`); when the parser
  has stopped, what was stored was granted (`Stopped`).
- `UploadTypeCorrect`, `StoredWhole`, `OneAnswer`, `AllowedUploadSucceeds`: the
  type invariant, `AllOrNothing`, `AnsweredOnce`, `UploadSucceeds`. They share one
  invariant, `Walk`, which follows the parser through the form. Before and behind
  the file the bytes are the same in every request, so that the position alone
  says in which state the parser is and how much of the boundary it has matched
  (`Placed`), and what the callbacks have learned (`KnownHead`). In the file, the
  temporary file, the text that waits to be passed on and the bytes held back as
  a possible delimiter are together the file up to the position (`Gathered`,
  `Copied`): this is what a false boundary, cut anywhere, must not break. That the
  delimiter is not found too early is the assumption on the files, and that
  it is found at all is that the parser starts to match again at a CR
  (`NoDelimiter`). As long as no chunk ended inside a header or a value, what the
  callbacks were handed was whole (`Undivided`, `Waiting`), so that the upload
  that is allowed succeeds. `Finished` says what all this comes to at the end.

`Lists_proofs`, the part on `Packages` (for every size of a window and every output
of `opkg`):

- `NoPackageIsLost`: `WindowsMeet`. A fetch that nothing disturbs has, after its first
  answer, the lines up to some position, and the windows it has posted for the rest
  (`Rest`) begin there, follow each other without a gap and reach the end it wants.
  What must be shown is about arithmetic: the size asked for is a remainder modulo
  `Limit` except where it is `Limit` itself, so the windows are as long as the steps
  between them (`WindowOfCall`), and as many as reach the end (`CallsReachTheEnd`).
  Their answers one after the other are the lines in between (`LinesJoin`,
  `AllAreAppended`). The invariant (`PackagesInv`) adds to `WindowsMeet` the types and
  what is true while a batch is under way (`BatchGoesOn`).
- `PackagesTypeCorrect`: the type invariant; offsets are multiples of `Limit`, since
  the buttons move by it.

`Lists_proofs`, the part on `CbiSections` (for every number of sections):

- `FlatMapsSaveAll`: `FlatEditsSaved`. The set of indices the loop of
  `AbstractSection.save()` comes to is a recursive function over the number of rounds
  (`Visited`). Without subsections, or with a single section, the counter is the index
  of the section that was saved, so that every round adds one index (`FlatVisits`),
  and after as many rounds as there are sections it has come to the end.
- `SectionsTypeCorrect`: the type invariant, by `SectionsTypes`: what is edited is shown,
  and the open panel is the index of a section that is drawn.

`Lists_proofs`, the part on `Addresses` (for every length of a mask, every bytes and groups):

- `AddressesAreParsed`: `AddressesParsed`. A mask is accepted exactly if it has a
  prefix length: the first byte that is not 255 (`FirstOtherIs`) is one of the eight
  with high bits only (`HighBitsArePartial`), which gives the length, and the other
  way about `MaskOf` of a length has one such byte at most (`MaskOfIs`). An address is
  parsed to 16 bytes, those of its groups in their places and zeros between; of an
  address that ends with dots without `::` this is said of its six groups only.

`Forms_proofs` (for every list of fields with any options and dependencies, every
network, and every page of switches). What a form shows and saves is decided by
folds and recursive functions over lists: the alternatives a field collects
(`FoldLeft` over the calls of `depends()`), the cascade of `handleValidate`, the
loops of `setDevices()` and of `formvalue()`. Their lemmas all rest on one
(`Induction`): a set of numbers with 0 in it, closed under successor, has every
number in it.

- `ShownAsDeclared`, `IdleSaves`, `EditsSurviveRedraw`: `ShownIffDependsOn`,
  `IdleSaveWritesNothing`, `RedrawKeepsEdits` of `CbiForm`. The invariant
  (`FormInv`) says that the cache holds what an option can be, the widgets what
  their kind can hold, and that every field is shown as its parents ask, as far as
  they are right. That a cascade from the edited field is enough is shown of
  `Validated` (`ValidatedShows`): a field whose parents are right was looked at by
  the cascade, or none of its parents was changed by it. That an idle save writes
  nothing (or the empty list once more), and that a redraw loses nothing, both
  come from reading back what is drawn (`DrawnReads`, `SavedReads`), kind by kind.
  `IdleSaveWritesNothing` is about values a field can show: a select that is given a value it does not offer
  falls back on its first option, and saves that.
- `SwitchTyped`: the type invariant of `SwitchVlan`, which is inductive;
  `TablesSurviveSave`: `VlansSavedAsShown`, that the words written for the ports
  (`PortsWritten`) read as the fields they were written from; `AddedVlanIsValid`:
  `AddedIsValid`, since the id picked is the least number that no row of the saved
  table shows, and the saved rows show what the fields did; that its text is in no row
  only means that its number is in none because ids are plain (`PlainIds`).
- `FreshIsConfigured`, `ChosenIsSaved`, `OthersAreLeft`: `FreshShowsConfigured`,
  `SavedAsChosen`, `OthersKeepDevices` of `NetDevices`. The invariant (`NetInv`)
  says that options and cached lists name devices there are objects for (the
  wireless ones always have one, which is why attaching never skips a device of
  the list), and splits "fresh" in two: the cached ports of the bridges agree with
  the configuration if the devices were refreshed since the last change, the devices
  below the interfaces if the interfaces were. `SetDevicesDoes` follows both loops of
  `setDevices()` (`AllDetachedDoes`, `AllAttachedDoes`): no member of another
  interface is touched, and what is left is what was chosen and what the cache did not
  name. After both refreshes what the cache names is what the interface has, if it is
  `OneLayer` (`FreshOldIs`).
- `FormTypeCorrect`: the type invariant of `CbiForm`, beside `FormInv`. The texts of a
  field (`TextsOf`) are those it can be given: typed, offered, stored, or initial. What
  is drawn of a value among them is among them (`ReadTexts`, `WidgetDrawn`), and so is
  what a save writes (`SavedTexts`); a list is never drawn without a row; the only empty
  text in the cache is the one that drawing an emptied list puts there (`Emptied`); and a mark is
  on a row there is, since a row is marked when it is typed into and all marks of a
  list go when its rows are made anew (`ValidatedTyped`, `RowsTypes`).
- `NetTypeCorrect`: the type invariant of `NetDevices`, beside `NetInv`. No device is
  in an option twice: detaching keeps a part of a list without repetition
  (`DetachedOnce`), and attaching appends a name only if no member of the list has it
  (`TakenOnce`).

`Forms_proofs`, the composition (`FormParts`): `FormsAreParts` says that each of the
six modules runs as it would alone, `FormsTypeCorrect` that `FormsTypeOK` is invariant,
and `FormsPartsHold` that the eleven properties of the runs about them hold in it. They
are about `FormParts` and not about `MCForms`, which adds `Validation` to it: a step of
`MCForms` is one of `FormParts`, or one of `Validation` that leaves it as it is.

One of these proofs failed for a good reason: `Written` of `CbiForm` was a CASE two
of whose guards held at once for an optional checkbox that is set to its initial
value, so that it did not say which the code tries first. It does now. Otherwise
the models only changed in form: loops over lists became recursive functions.

The assumptions are those the modules state: `SessionAssumption` (the markers are
no sessions, the timeout is positive), `RpcAssumption` (the bounds are numbers),
`SidAssumption` (the names of one package are finitely many), `FilesAssumption` (no
file contains the delimiter, which the browser chooses so) and `NoneAssumption` of
`Upload`, `ViewAssumption` (the menu is finite and has the default view),
`PackagesAssumption` (a window has a line at least), `SectionsAssumption` (the bounds
are numbers), `AddressesAssumption` (bytes and groups are numbers, addresses with dots
have four bytes), the assumptions of
`UciContext` on distinct markers and of `Bwmon` on positive sizes. For the forms:
`FieldsAssumption` is about how the forms of the source declare their fields (a
ComboBox is optional, no field depends on a `DynamicList`, a select has a choice, a
checkbox writes two different texts); `CheckboxAssumption`, that the state in which an
optional checkbox is unset is the one it is drawn with when it is not set;
`ValuesAssumption`, that an option is not an
empty text, holds no empty entry, and has no blanks around the words of a text that is
read as a list: `uci` deletes an option that is set to an empty text, but the page
does not check what it is sent, and a configuration file edited by hand could hold
such a text; then an idle save would remove it. `SwitchesAssumption` (the switches
have different names, and the texts the page writes for numbers read as these numbers)
and `NetAssumption` (the order in which devices are sorted has all of them). What a
single theorem needs beyond them is in its statement: `NoFalseSuccess` that `Call` is
finite and does not contain `None`, those about the order of sections that there are
at most 1000.

Only model-checked: the liveness properties (`ChainEnds`, `EveryCallSettles`,
`DeadSessionNoticed`, `WaitEnds`, `ShownViewPolls`), which are out of TLAPS's
reach; and `CompiledMeans` of `Validation`, whose operators are recursive over
datatypes, so that a proof of it would be an induction over data. Every other property
of a passing run is stated by a theorem.

## 5. Not modelled, and what could follow

- The options of the switches and their read-only pages; the names rpcd gives to
  new sections of `SwitchVlan` (they are those of `UciContext`).
- The handlers of `luci2.c` other than the package lists: single calls of the
  operating system (files, password, LEDs, processes, routes, log), fork and exec;
  what can go wrong in them is a crash between two calls of stdio or a child that
  returns into the event loop, with nothing on the page's side to state a property
  of. `luci-backup`: one pipe.
- `L.ui.tabs`, tables, badges, the menu, the changes indicator, `L.wireless`,
  `L.firewall`: lookups and layout. `MultiValue`, `PasswordValue`, `DummyValue`: no
  state beyond that of the fields modelled.
- Aliases, VLANs of switches and status getters of `NetworkModel`.
- Checks of datatypes that are one regular expression.
- Vendored libraries (jQuery, bootstrap, peity), translations, formatting, the
  protocol files (declarations of fields), the templates, and the stock ubus
  objects behind the page except as far as their use shows.

Theorems that could follow: `CompiledMeans` for the datatypes of a bounded depth, with
the compiler as a recursive function over the length of the source.

# VPNExiter in TLA+

VPNExiter is a small Go web service. Its user picks a VPN vendor and an exit from
a menu; the service renders the vendor's configuration template with that exit,
installs the file on a router (over ssh, or on the machine it runs on), restarts
the VPN daemon there and reports whether the tunnel is up. Its page is a set of tabs
that the browser loads one by one. This directory holds a
TLA+ model of it, the TLC runs that check the model, and TLAPS proofs of the
results that matter most. `PROJECT.json` ties every definition to the lines it
models, every property to the runs that check it and to a mutation of the code
that breaks it, and lists the hazards of the code.

## 1. Inventory

| part | source | state | operations |
|---|---|---|---|
| vpn package | `vpn/vpn.go`, `ssh.go`, `local.go` | one `VpnServer` (mode, and `Vendor`, `Exit`, set at run time), shared by all requests; temporary files | `UpdateConfig`, `Restart`, `IsUp`, `Status` |
| web service | `cmd/main.go` | one `GlobalState` (`Connected`, `ConnectedStr`, `Vendor`, `Exit`, `ExitPath`, `StatusOutput`, `Vendors`), no lock | `SelectExit`, `Status`, `SetState` |
| vendor loader, menu | `cmd/vendor.go`, `servermap.go`, `main.go` | the `ServerMap` of each vendor | `loadVendors`, `LoadVendors`, `buildServerMap`, `loadServers`, `FindServerMapEntry`, `GenHTML` |
| configuration | `cmd/config.go` | `Konf`, read once | `LoadConfig`, `Levels`, `GetPath`, `GetServers`, `GetPathKeys` |
| AJAX calls | `cmd/ajax.go`, `api.go` | none | `vendors`, `levels`, `level`, `servers`, `exits` |
| speedtest | `cmd/speedtest.go`, `ajax.go` | none | `runSpeedtest`, `Speedtest` |
| authentication, start-up | `cmd/main.go` | none | `BasicAuthHandler`, `main` |
| browser page | `templates/index.html`, `static/jquery-ui.js` (tabs), `static/jquery.js` (ajax) | the active tab, the tabs being loaded, the request in flight, timers, the panels | clicks, keys, `load`, `abort`, `beforeLoad`, `fail` |
| other templates and static UI | `templates/`, `static/` | none | rendering (jQuery is vendored) |
| build, CI, example | `Makefile`, `Dockerfile`, ... | - | - |
| environment | - | the router's file, its VPN daemon and tunnel, ssh, DNS | commands, copies, lookups, each of which may fail |

How they interact. `net/http` (under echo) runs every request on a goroutine of
its own. Request handlers call the methods of the one `VpnServer` and store into
the one `GlobalState`; nothing locks either. `loadVendors` is one more goroutine:
it replaces `GS.Vendors` at start-up and, with `dns_refresh_minutes` of at least 5,
again and again. The browser asks for `/status`, `/select_exit`, a speedtest or `/version`
when their tab is opened, each time anew, and drops the request when another tab is
opened first; the server handles a dropped request all the same. The router is changed only by `UpdateConfig` (its file) and
`Restart` (its daemon), and its tunnel comes and goes by itself. If the process
dies, the router goes on with what it has.

What is hard here, and what makes each part correct:

* **vpn package.** `UpdateConfig` stores two strings and reads them back three
  times; a remote copy truncates the file before filling it; a stop that fails
  leaves the old daemon, whose tunnel looks like success; errors of `Dial` and
  `NewSession` are dropped and the nil used, so a call may end in a panic at any
  command; the error of `os.Open` is dropped too, and there the nil is read as an empty
  file, so a copy that sent nothing is a success. *Correct:* a success of
  `UpdateConfig` means that the asked-for file is installed, or in that one case a file
  cut short, and never another one; a success of `Restart` that the daemon loaded what
  is installed, over ssh a whole configuration; and an answer is about the vendor the
  server remembers.
* **web service.** `SelectExit` makes ten stores to shared state around three
  calls that may each fail, and updates the state before looking at the first
  error; status pages interleave with it; `GS.Vendors[vendor]` is dereferenced
  unchecked. *Correct:* a redirect means the switch happened, a failure is never
  shown as up, "Up" names what runs, every request ends.
* **vendor loader.** Lookups fail and change; levels may disagree with the
  servers; the menu outlives the map it was made from. *Correct:* readers see only
  complete maps, nothing but failed lookups is missing, links lead somewhere.
* **AJAX calls.** Sequential and read-only. *Correct:* a query of the exits is
  answered with the lists the loader finds in the same configuration.
* **browser page.** One task at a time, but a request lives through many: it is sent,
  answered, failed or aborted, and completes in a timer after that; meanwhile tabs
  are clicked, keys wait for their delay, and all of them write to the panels.
  *Correct:* one request at a time, every tab can be opened again, the panel of the
  open tab shows the answer to its own last request.
* **configuration, speedtest.** Sequential and read-only; a speedtest runs for long, and
  takes from GS afterwards a label that no template shows.

## 2. Modules

| module | models |
|---|---|
| `VpnServer` | the vpn package and its router, statement by statement |
| `VpnServerProofs` | theorems about it |
| `VpnExiter` | the web service; EXTENDS `VpnServer` and composes the handlers with its calls |
| `VpnExiterProofs` | theorems about the whole service: what a switch does |
| `VpnReportProofs` | theorems about what the service reports of it |
| `Switcher` | abstract specification: what `SelectExit` promises whoever uses the service |
| `SwitcherProofs` | theorem: the service implements it |
| `VendorLoader` | `loadVendors`, the ServerMaps, the menu and the search for an exit |
| `VendorLoaderProofs` | theorems about how the maps are built |
| `VendorSearchProofs` | theorems about searching them: the exit chosen, the menu, the abstract specification |
| `VendorCache` | abstract specification: what `loadVendors` promises the readers of `GS.Vendors` |
| `ExitMap` | `GET /exits/:vendor`; EXTENDS `VendorLoader`, whose configurations it walks |
| `Tabs` | the page: jQuery UI's tabs, their requests and timers, the page's handlers |
| `Panels` | abstract specification: what a page of tabs promises its user |
| `TabsProofs` | theorems about the page |
| `MCVpnServer`, `MCVpnExiter`, `MCVendorLoader`, `MCExitMap` | instances for TLC: configurations, failures, symmetry |

### VpnServer

A call made by goroutine `h` is a small program. `vpc[h]` is the next statement,
`op[h]` the method, `arg[h]` the arguments of its last `UpdateConfig`, `draft[h]`
the `ConfigTemplate` being filled, `cmd[h]` the vendor named by a rendered command,
`tries[h]` the polls made, `out[h]` what `Status` printed, `ret[h]` the result. Each
access to the shared `vs` and each command on the router is a step. `file`,
`loaded` and `up` are the router: the configuration file, the configuration the
daemon was started with, and its tunnel. `konf` is the configuration, chosen by
the initial state and never changed: the mode, which vendors have a template,
which command templates render, whether `router.check_command` is set.

* *UpdateConfig*: `SetVendor`, `SetExit`; `ReadTemplate`, `ReadServer`,
  `ReadVendor`, `RenderConfig`/`RenderFails` (createConfig); then over ssh
  `BeginCopy`, `EndCopy`, `CopyNothing`, `ConnectFails`, `CopyFails`, or locally `Rename`,
  `RenameFails`. The deferred `os.Remove` is in each step that returns after
  createConfig over ssh; locally a failed rename leaves the temporary file.
  `CopyNothing` (fault `"open"`) is the path of ssh.go:45: `os.Open` fails, its error is
  dropped, `CopyFile` gets a nil file and sends no bytes, and the call returns no error.
* *Restart*: `Dial`, `StopDaemon`, `StartDaemon`, their failures, then at most
  `WaitSeconds` polls: over ssh `RenderCheck`, `ExecCheck`; locally `LocalCheck`,
  which runs another command than `IsUp` does and looks at its exit status only.
* *IsUp*, *Status*: `RenderCheck`/`ExecCheck`, `RenderStatus`/`ExecStatus`.
* *Panics*: `NilServer` (NewVpn returned nil), `DialFails`, `LoseSession` end the
  call with result "panic".
* *Environment*: `Establish`, `Drop` (tunnel), `VpnCrash` (the process dies and
  starts again; the router keeps its state). A command that reports failure may
  or may not have had its effect. `Faults` says which failures a run includes.

A configuration file is abstracted to the template it came from and the two
fields filled in (`[tmpl, server, vendor]`), or `Partial` (cut short, perhaps to
nothing), or `NoConfig`. A daemon that loads `Partial` runs, and brings no tunnel up.
Two goroutines racing on a Go string can leave or see a mixture of its pointer and
length: an access that races with a store of another value yields a special
`"torn"` value besides the possible whole ones (`Racy`).

`Overlap` names an assumption about callers that the code does not enforce:
`"none"`: calls take turns; `"readers"`: `IsUp` and `Status` run at any time, at most
one `UpdateConfig` or `Restart` is in progress; `"all"`: anything goes. What holds
under which value is the point of the model: the code has no lock, so a
deployment in which two users select exits at once is in the `"all"` case.

### VpnExiter

`gs` is GS without its Vendors; `vendors` is GS.Vendors, abstracted to the set of
exits `FindServerMapEntry` locates for each vendor; `pc[h]` is the handler's next
statement. While a handler is inside a `VpnServer` call its steps are those of
`VpnServer`; it waits for `vpc[h] = "done"` and goes on with `ret[h]`. Each store to
GS is a step: `SaveVendor`, `SaveExit`, `MarkDown`, `MarkUp`, `NoteState` (the state),
then the word for it, `SetPath` twice (set, read back and append),
`SetStatusOutput`. `Respond` ends a request: page, error page, redirect or aborted by
a panic. The branch of `SelectExit` for `success = false` without an error is not
modelled: neither Restart returns that. `/status/:action` is the same handler, the
action being commented out. An exit's path in the map is abstracted to the exit
itself; the real paths are those of `VendorLoader`. `LoadVendors` publishes any
member of `Snapshots`, in one store. `Crash` forgets everything but the router.

`Switcher` is what all this amounts to for a user: one exit at a time is asked for; the
page names it; only then, and for no other exit, is the daemon stopped and started, with
the configuration of the exit or with one that serves none (`Broken`: an empty copy);
the answer comes only when the daemon runs the former; and nothing else, be it a status page, a
refresh of the vendors or a switch that fails on its way, changes the daemon or what
the page names. Its refinement mapping (`Promise`, at the end of `VpnExiter`) takes an exit
to be asked for as long as its request is in progress, and answered when that is about to
redirect; what runs is what the daemon loaded, what is shown is GS. The calls of the
VpnServer, its file, temporary values and polls are stutters of it. It does not
claim that a page names the exit that runs, which is false (`exiter_stale_page`).

### VendorLoader and VendorCache

A ServerMap is given by its set of paths: to Map entries, to List elements, to
nodes whose keys are links. `vcmap` is the map being built, `todo` the calls of
`loadServers` still to be made, `job` the call in progress (`rest`: the servers not
yet looked at). Each DNS lookup is a step and answers as it likes. Calls of
`loadServers` fill disjoint subtrees and may be made in any order. `menu` is a page
someone opened at some time. `FindServerMapEntry` is a recursive function from the
node searched to the set of paths it may return, because Go iterates over maps in
random order. `CacheSpec` states, by a refinement mapping to `VendorCache`, that
readers only ever see complete maps and that exits needing no lookup stay.

### ExitMap

`Exits` is a whole request, for it reads the configuration only. A configuration tree
is given by the paths of its lists, as in `VendorLoader`, and the answer by the paths
at which it holds a list. `walkLevels` is a recursive function from nodes to such
sets. koanf's `MapKeys`, `Strings` and `StringsMap` are modelled by what they return
for a map, a list and anything else.

### Tabs and Panels

A behaviour is the life of one page, from `_create` on. A browser runs one task at a
time, so an action is a whole task with the callbacks it calls: an input (`Click`,
`ArrowKey`, `CtrlArrowKey`, `ActivateKey`), the end of the 300 ms that an activation by
arrow key waits (`Activate`), an event of the network (`Respond`, `Fail`), a timer of
`load` (`Complete`). `Switch` is `_eventHandler` from its guards on: it makes the tab
active, aborts `that.xhr`, which runs the fail handlers at once, and calls `load`, which
calls the page's `beforeLoad`, sends the new request and marks its tab. `reqs` holds the
requests made, numbered in their order: where the jqXHR stands, and whether the 1 ms
timer that its callbacks set is due. Those timers run in the order in which they were
set (`Complete`), and a delayed activation not before those that were due when
it was asked for (`behind`); otherwise the order of tasks is free. `inFlight` is
`jQuery.active`. A panel shows nothing, one of the page's two messages, or the answer
to a request, given by its number. `last` is a history variable for the properties.

The page knows two panels by ids that the widget generates, `ui-id-4` and `ui-id-6`:
those of the second and third tab, whatever they are (without a speedtest the third is
Version, and says "Running Speedtest..." while it loads). `Panels` numbers questions
instead of requests and knows no abort, lock or timer: opening a tab asks, and what is
shown is the answer to the tab's last question, or a message. Its refinement mapping
takes a question to be open until its answer is shown or the page's message is.

External to `src/`, and modelled by how it is used: the router's daemon (`DaemonStarts`:
start leaves a running daemon alone; `Established`: the check command of the
example configuration asks for the connection of the vendor, and with an empty
vendor lists all), go-scp (at the version of go.mod `CopyFile` ignores the error of
reading its source, and sends what it could read), koanf (`Paths`, `List`, `KeyPaths`),
net/http.

## 3. Runs

| run | instance | shows |
|---|---|---|
| `vpnserver_serial` | 2 goroutines taking turns, 2 vendors, 2 exits, 2 polls, 6 configurations (ssh, local, unknown mode; missing template; commands that do not render), all failures | `VpnTypeOK`, `InstalledAsAsked`, `OneVendorPerConfig`, `RestartRunsFile`, `PositiveAnswer` |
| `vpnserver_readers` | 2 goroutines, readers interleaved, ssh, failing copies and commands, temporary files that do not open | `InstalledAsAsked`, `OneVendorPerConfig`, `RestartRunsFile`, and `WriterInv`, the inductive invariant |
| `exiter_serial` | 1 request at a time, all configurations and failures, crashes, refreshes | `TypeOK`, `SwitchInstalls`, `SwitchReported`, `UpNamesRunningVendor`, `FailureNotShownUp`, `LocateFindsVendor`, and `ReportInv`, the inductive invariant of what is reported; refinement `SwitcherSpec` |
| `exiter_readers` | 2 requests, status pages during a switch, the same failures | `SwitchInstalls`, and `SwitchInv`, the inductive invariant; refinement `SwitcherSpec` |
| `exiter_live` | 2 requests, fairness, a failing Dial | `EveryRequestEnds`; refinement `VpnSpec` |
| `vendors_load` | 14 configurations: 0 to 3 levels, fitting or not; 2 hosts that share an address | `LoaderTypeOK`, `OnlyFailedLookupsMissing`, `FindsWhatIsThere`, `LinksStayValid`; `LoaderInv` and `PlacesInv`, the inductive invariants; `VendorsGetLoaded`; refinement `CacheSpec` |
| `page_tabs` | 3 tabs, 4 requests, every order of tasks | `TabsTypeOK`, `OneRequest`, `LoadingSettles`, `ActivePanelHonest`; `LoadsEnd`; refinement `PanelsSpec` |
| `vpnserver_mixed_config` | 2 overlapping UpdateConfig calls | *violated*: `ConfigForAGivenVendor` |
| `vpnserver_unopened_file` | a temporary file that does not open for the copy | *violated*: `RemoteConfigUpdated` |
| `vpnserver_local_poll` | local mode, documented keys | *violated*: `PollSeesTunnel` |
| `exiter_stale_page` | a failed copy, then a forced page | *violated*: `PageNamesRunningExit` |
| `exits_walk` | the configurations of `vendors_load` | *violated*: `MapOfAllExits` |

The last five are disagreements between the code and its own words, described
under "findings" in `PROJECT.json`: a configuration mixed from two vendors when
exits are selected at the same time; an update over ssh that "succeeds" with an empty
file, because the error of `os.Open` is dropped; a local Restart that polls an
undocumented key and so reports failure with the tunnel up; a status page that says "Up" next to an exit
that was never installed; and a map of all exits of a vendor that holds none of its
servers, because `walkLevels` compares the depth the wrong way round.

There is no run for one more: with a router.mode it does not know `NewVpn` returns nil,
and every method panics instead of returning its "Unsupported VpnServer.Type" error
(vpn.go:63). `NilServer` models the panic, and `ReportInv` (`ModeInv`) says in
`exiter_serial` that nothing is reported up, and no request gets past its first call, in
such a mode.

Some properties are weaker than one may wish, because the stronger ones are false.
`InstalledAsAsked` allows a file cut short, over ssh and if the temporary file did not
open (`vpnserver_unopened_file`), and then the daemon is started with it: so
`SwitchInv` says of the Restart that follows only that the file is the exit's or cut short,
and `Switcher` lets `Start` run `Broken`. Such a Restart fails, and what holds again
from there on is exact (`RestartRunsFile`, `SwitchInstalls`). `SwitchReported` is
checked for requests that take turns only (a status page in between may put the state it
read earlier back), and neither `SwitchInstalls` nor `Switcher` speaks of
`GS.Connected`. `UpNamesRunningVendor` speaks of the vendor, not the exit
(`exiter_stale_page` shows why). `LocateFindsVendor` is about vendors that are loaded: before
that the lookup does panic, and what is shown then is `FailureNotShownUp`.

Bounds. Two goroutines: every property relates at most one writer and the others
by what they read, and a race needs two parties. Two vendors and two exits: enough
to tell the installed one from another one. `WaitSeconds` is 5 in the code, 1 or 2
here: one poll that fails and one that ends the loop; the theorems hold for any
value. Four requests of a page (`MaxLoads`): one aborted, one answered or failed and
still to be completed, one made for the same tab afterwards, and one more; three tabs,
two of which the page treats alike and one it does not. `tries` is bounded by the
code itself, and there are no state constraints. Symmetry is used on goroutines and exits, which no
definition tells apart, `SwitcherSpec` and its mapping included, and in no run with a
liveness property; vendors are told apart by the configurations.
Deadlock is checked in every run.

Fairness. `FairSpec` is weak fairness of each handler's own steps and of its steps
inside a VpnServer call: goroutines are scheduled, and a command or a connection
attempt returns or fails. It asks nothing of clients, of the tunnel or of the
loader. The code sets no timeout on ssh or on commands, so "returns or fails" is an
assumption on the network and the router, not something the code guarantees.
`LoaderSpec` is weak fairness of the loader: its lookups and its sleep end.
`TabsSpec` is weak fairness of the network and of the timers of `load`: a request is
answered or fails in the end (the page sets no timeout; the server answers because
`EveryRequestEnds`), and a browser runs what is due. Nothing is asked of the user, nor of
the delayed activation. As a question of `Panels` is open only while its tab is being
loaded, `LoadsEnd` also says that every question is settled.

## 4. Proofs

For every value of the constants (any goroutines, vendors, exits, configurations,
failures, `WaitSeconds` > 0):

| theorem | says |
|---|---|
| `VpnTypeCorrect` | `VpnSpec => []VpnTypeOK`, for every `Overlap` |
| `WriterInvariant`, `UpdateInstalls`, `FileOfOneVendor`, `RestartLoadsFile` | `VpnSpec => []WriterInv`, `[]InstalledAsAsked`, `[]OneVendorPerConfig`, `[]RestartRunsFile`, if `Overlap # "all"` |
| `IsUpSpeaksOfVendor` | `VpnSpec => []PositiveAnswer`, if `Overlap = "none"` |
| `ServiceImplementsVpnServer` | `Spec => VpnSpec`: the handlers call the package only as it allows |
| `ServiceTypeCorrect` | `Spec => []TypeOK`, for every `Overlap` |
| `ServiceSwitchesSafely` | `Spec => [](OneVendorPerConfig /\ InstalledAsAsked /\ RestartRunsFile)`, if `Overlap # "all"` |
| `ReportInvariant`, `SwitchIsReported`, `UpIsOfRunningVendor`, `FailureIsNotUp` | `Spec => []ReportInv`, `[]SwitchReported`, `[]UpNamesRunningVendor`, `[]FailureNotShownUp`, if `Overlap = "none"` and `""` is not a vendor |
| `LocatedVendorIsLoaded` | `Spec => []LocateFindsVendor`, if `Overlap # "all"` |
| `LoaderTypeCorrect`, `LoaderInvariant`, `LoaderComplete` | `LoaderSpec => []LoaderTypeOK`, `[]LoaderInv`, `[]OnlyFailedLookupsMissing` |
| `PlacesInvariant`, `SearchFindsWhatIsThere`, `LinksLead` | `LoaderSpec => []PlacesInv`, `[]FindsWhatIsThere`, `[]LinksStayValid` |
| `LoaderImplementsCache` | `LoaderSpec => CacheSpec` |
| `PageTypeCorrect`, `PageOneRequest`, `PageLoadingSettles`, `PageHonest` | `TabsSpec => []TabsTypeOK`, `[]OneRequest`, `[]LoadingSettles`, `[]ActivePanelHonest` |
| `PageImplementsPanels` | `TabsSpec => PanelsSpec` |
| `SwitchInvariant`, `RedirectMeansSwitched` | `Spec => []SwitchInv`, `[]SwitchInstalls`, if `Overlap # "all"` |
| `ServiceImplementsSwitcher` | `Spec => SwitcherSpec`, if `Overlap # "all"` |

Assumptions: `WaitAssumption`, `SentinelAssumption` (`Partial` and `NoConfig` are not
whole files and differ) and `OverlapAssumption`; `ExitAssumption` (`""` is not an
exit: main.go takes it for the menu), used in the rows about switches and reports;
`TabsAssumption` for the page; for the loader
`KonfAssumption` and `AnswersAssumption` (the refresh interval is an integer; lists and
their paths are sequences of the configuration's names; addresses are names) and
`NilAssumption` (`Nil`, which stands for "not yet", is no call, no server maps and no sets
of exits). TLC evaluates each
in every run of its module.

`VpnTypeOK` is not inductive: `tries` would overflow but for `PollsLeft` (a call that
has not ended has polls left). `TypeInv` adds it. `InstalledAsAsked` and the others
are not inductive either: that EndCopy installs the right file depends on the draft
being right, which depends on what the server remembered while it was read, which
depends on no other writer being between its two stores. `SafeInv` strengthens
them with `OneWriter` and, for each statement of a call, what it has achieved so far
(`UpdateProgress`, `RestartProgress`), and with `CutMeansSsh`: only a remote copy cuts the
file short. The proof has one lemma per group of
statements (`UpdateSafe`, `CheckedSafe`, ...); `NoRace` shows that a lone writer reads what it
wrote, and `OthersKeep` that a step of one call cannot disturb another's part: it is
a writer and the other is not, or it changes nothing the other's part speaks of.
`ServiceImplementsVpnServer` needs no invariant: each step of the service is a call, a
return or a step of the package, or leaves it alone. `ServiceTypeCorrect` does, because
`NoteState` stores what a call returned: `CallsInv` says that the call in progress is the
one that the handler's statement makes and returns a result of its method. It holds
whatever overlaps, as no step touches the call of another handler.

`SwitchInstalls` is about the last statement of a request that made three calls, so
its invariant `SwitchInv` follows the request: `CallOf` says which call a handler is
in and for which exit, `ResultOf` what that call may return, `SwitchProgress` what
the switch has achieved when it stands at `pc[h]`, `OneSwitch` that there is no
other. It is inductive on top of `SafeInv`, which the service inherits through
`ServiceImplementsVpnServer`: where `SelectExit` goes on to `Restart`, `SafeInv` gives
that the file is the one asked for or was cut short; where it goes on to `Status`, that the
daemon has loaded it, and that it is whole: over ssh the Restart has seen the tunnel up,
which a file cut short never brings up, and locally no file is cut short. `VpnStepEffect` sums up what a statement of the package may do to
what handlers rely on; `SwitchKeeps` shows that a step of one handler disturbs no
other; the rest is one lemma per group of handler statements (`SavingSwitch`,
`RestartingSwitch`, `RestartedSwitch`, `ReportingSwitch`, `StatusSwitch`, ...).

What is reported needs more. `SwitchInv` says little of `gs.Connected` and nothing of
it between requests, and `"readers"` would not do: a status page may put an older state
back. With requests that take turns (`TakeTurns`), `ReportInv` relates GS to what
the last call found: `ModeInv` (a panic or a missing mode happens before anything is
stored), `UpIsTrue` (GS says Up only of the vendor that the daemon has loaded, except
where the statement that will say otherwise is the next one), `VendorsAgree` (GS and the
VpnServer remember the same vendor, but between the stores of one request),
`VendorStored` and `ReportOf` (what each statement of a handler has reported so far).
After a crash the VpnServer remembers no vendor, `""`, and the check command then lists
every tunnel: the theorems exclude a request for the vendor `""` (`/select_exit//e`), which
would make that answer its own. `LocatedVendorIsLoaded` needs an invariant only of the
template: by the time `SelectExit` looks the exit up, its vendor has been rendered, so
it is configured and in every map published.

For the loader, `LoaderInv` says of the map being built: every element of a list was put
there by a call of `loadServers` that has ended (`Ended`, `OfCall`), every server of an
ended call is in its place (`Placed`), and the call in progress has come as far as
`rest` says (`JobInv`). `Owner` is the point where it matters that the keys of the last level
all have the same length: what one call puts into the map is never at the place of
another call's server, so `AttachInv` can add it. `HostAdded` does the same for the hosts of
one list. When there is nothing left to do every call has ended, and what `Publish`
stores has the property.

That a search finds its exit takes three steps. `PlacesInv` says where a map has Maps and
lists: at places of the configuration only (`MapPlace`, `ListPlace`), so no deeper than
its levels and two more keys, with every inner level there; and, for the menu, that
without a refresh the vendors are published once. Then the recursive function
`FindServerMapEntry` has to be shown to be defined: at the deepest nodes, and from
there upwards. As the library's induction theorems take an operator, induction is
stated with sets instead, by the least element of a set of numbers (`NatBySet`). With
its equation at hand, `FoundIsThere` shows that what it returns ends in the exit and is in the map,
and `ThereIsFound`, along the path of the exit, that it returns something if the exit
is there. `FixedLocated` and `LocatedOffered` turn this into the promise of
`VendorCache`: an exit in a list that is not looked up is located in what `Publish` stores,
and what is located is in a list or an answer to a lookup.

`ServiceImplementsSwitcher` rests on the invariants above. `OneAsked`: with one switch at a
time, what is asked is its exit. Only `Restart` touches the daemon
(`StepEffect`), `SwitchInv` says for which exit and that GS names it by then, and that
the daemon serves it when `SelectExit` redirects. There is one lemma per group of handler
statements; most of them change nothing that `Switcher` sees.

For the page, `LoadInv` says that a request is pending (sent, or its timer due) only if it
is the last one of its tab, that the tabs marked are those with a pending request, that
`that.xhr` is the last request made for as long as it is pending, and what the active
panel shows as soon as it is not (`ShownInv`). It is inductive, and each of the
properties follows from it. One lemma shows what `Switch` does, for all
the tasks that may switch; `TimerOrder` is the point where the order of timers
matters. The refinement has one step per action.

Model-checked only: liveness (`EveryRequestEnds`, `VendorsGetLoaded`, `LoadsEnd`), as the
prover handles neither fairness nor ENABLED.

## 5. Not modelled

* `walkServerMap` (prints), `insertServers`, `getServers` (called by nothing).
* AJAX calls other than `exits`, and configuration access: one look-up of a path
  each. (A call of `level` on an inner level may fall through to `servers`; `exits`
  encodes its answer twice.)
* speedtest: one command whose JSON is copied field by field. The vendor, exit and state
  it takes from GS after the run are shown by no template, and the command goes on
  when the browser drops its request.
* Authentication (one comparison per request, no state), build, CI, container.
* Templates other than `index.html`: layout. The script of `status.html` lacks its closing
  `);`, so its buttons are never made, and `vpnexiter.js` is loaded by no template.
* Most of the vendored libraries. Of the 29 590 lines of JavaScript under `static/` the page
  runs the tabs widget and `jQuery.ajax`, which are modelled; the menu and button widgets,
  which decorate two fragments; and, below all of these, selectors, events, effects and
  the DOM, which are taken as the browser is. The rest (date pickers, dialogs,
  sliders, draggables, ...) is code that this program never calls, and a model of it
  would say nothing about it. Of the tabs widget, `collapsible`, `disabled`, animations,
  `refresh` and `destroy` are not used by the page and not modelled; nor is which
  tab has the focus, or the aria attributes (ctrl and an arrow after an arrow leaves
  `aria-selected` on a tab that is never activated).
* Within the modelled parts: wording, logging; the ssh key and password set-up; ssh connections
  as such (a command runs or the session is lost); temporary files of earlier calls
  of the same goroutine; reordering of the racing store to `GS.Vendors` by weakly
  ordered processors (it is one word, published in one step here).

## 6. Plan

Done: `VpnServer` and its proofs; `VpnExiter` with the refinements to `VpnServer` and
`Switcher`, its two invariants and the theorems about what a switch does and reports;
`VendorLoader` with its abstract specification, its two invariants and the theorems about what is
built and found; `ExitMap`; `Tabs` with its abstract specification and proofs. Every safety
property that a passing run checks is also a theorem. Left: the page composed with the
service, where the requests of an abandoned tab go on.

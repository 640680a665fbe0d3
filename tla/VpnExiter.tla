----------------------------- MODULE VpnExiter -----------------------------
(***************************************************************************)
(* The web service: the request handlers SelectExit and Status of main.go  *)
(* over the one GlobalState they share, the goroutine loadVendors that     *)
(* publishes GS.Vendors, and the VpnServer and router of module VpnServer. *)
(*                                                                         *)
(* net/http runs every request on a goroutine of its own and GlobalState   *)
(* has no lock, so each access to it is a step.  While a handler is inside *)
(* a VpnServer call its steps are those of VpnServer; here it waits for    *)
(* vpc[h] = "done" and continues with ret[h].                              *)
(***************************************************************************)
EXTENDS VpnServer, Sequences

(* A request for the exit "" is one for the menu (SelectExit).             *)
ASSUME ExitAssumption == "" \notin Exits

VARIABLES
  gs,       \* GS, without its Vendors
  vendors,  \* GS.Vendors: for each loaded vendor, the exits that
            \* FindServerMapEntry locates in its ServerMap
  pc        \* pc[h]: next statement of the handler run by h

exiterVars == <<gs, vendors, pc>>
vpnState   == <<vs, router, vpc, ret, params, work, temps>>
vars       == <<vpnVars, exiterVars>>

GsVendor == VendorName \cup {"Unknown"}
GsExit   == ExitName \cup {"Unselected"}
Tribool  == {"True", "False", "Maybe"}
Words    == {"Up", "Down", "Unknown State", "torn"}

ExiterPc == {"idle", "update", "saveVendor", "saveExit", "down", "downStr",
             "restart", "fetch", "locate", "path", "append", "up", "upStr",
             "redirect", "check", "noteStr", "read", "show",
             "failed", "panicked"}

NoVendors == [v \in {} |-> {}]

(* What LoadVendors may build: one entry for every configured vendor; with *)
(* resolve_servers an exit whose lookup fails is left out of the map.      *)
Snapshots ==
  {m \in [konf.listed -> SUBSET Exits] : \A v \in konf.listed :
     IF v \in konf.resolve THEN m[v] \subseteq konf.offers[v]
                           ELSE m[v] = konf.offers[v]}

TypeOK ==
  /\ VpnTypeOK
  /\ gs \in [Vendor : GsVendor, Exit : GsExit, Connected : Tribool,
             ConnectedStr : Words, ExitPath : Seq(VendorName \cup ExitName),
             StatusOutput : ConfigFile]
  /\ vendors \in {NoVendors} \cup Snapshots
  /\ pc \in [Handlers -> ExiterPc]

(* The initial value of GS in main.go.                                     *)
NewGlobalState ==
  [Vendor |-> "Unknown", Exit |-> "Unselected", Connected |-> "Maybe",
   ConnectedStr |-> "Down", ExitPath |-> << >>, StatusOutput |-> NoConfig]

Init ==
  /\ VpnInit
  /\ gs = NewGlobalState
  /\ vendors = NoVendors
  /\ pc = All("idle")

-----------------------------------------------------------------------------
Move(h, from, to) == pc[h] = from /\ pc' = [pc EXCEPT ![h] = to]
Returned(h, from) == pc[h] = from /\ vpc[h] = "done"

(* Which requests may be in progress at once: as for calls, a Status       *)
(* request being a reader.  Only SelectExit sets arg.                      *)
MayServe(h, reader) ==
  \A g \in Handlers \ {h} :
    \/ pc[g] = "idle"
    \/ Overlap = "readers" /\ (reader \/ arg[g] = NoArg)
    \/ Overlap = "all"

At(h, places) == {g \in Handlers \ {h} : pc[g] \in places}

(* SetState stores a Tribool, then the word for it.                        *)
Word(t) == CASE t = "True" -> "Up" [] t = "False" -> "Down" [] OTHER -> "Unknown State"

WordOf(h) == Word(CASE pc[h] = "downStr" -> "False"
                    [] pc[h] = "upStr"   -> "True"
                    [] OTHER             -> ret[h])

SetConnected(h, from, to, t) ==
  /\ Move(h, from, to)
  /\ gs' = [gs EXCEPT !.Connected = t]
  /\ UNCHANGED <<vpnState, vendors>>

SetConnectedStr(h) ==
  \E w \in Racy(WordOf(h), {WordOf(g) : g \in At(h, {"downStr", "upStr", "noteStr"})}) :
    gs' = [gs EXCEPT !.ConnectedStr = w]

SetStatusOutput(h) ==
  LET others == {g \in At(h, {"fetch", "read"}) : vpc[g] = "done" /\ ret[g] = "ok"}
  IN  \E o \in RacyWith(out[h], {out[g] : g \in others}, Partial) :
        gs' = [gs EXCEPT !.StatusOutput = o]

-----------------------------------------------------------------------------
(* SelectExit: GET /select_exit/:vendor/:exit.                             *)

SelectExit(h, v, e) ==
  /\ MayServe(h, FALSE)
  /\ Move(h, "idle", "update")
  /\ UpdateConfig(h, v, e)
  /\ UNCHANGED <<gs, vendors>>

Updated(h) ==
  /\ Returned(h, "update")
  /\ Move(h, "update", IF ret[h] = "panic" THEN "panicked" ELSE "saveVendor")
  /\ UNCHANGED <<vpnState, gs, vendors>>

(* The new vendor and exit are stored before err is looked at.             *)
SaveVendor(h) ==
  /\ Move(h, "saveVendor", "saveExit")
  /\ \E v \in Racy(arg[h].vendor, {arg[g].vendor : g \in At(h, {"saveVendor"})}) :
       gs' = [gs EXCEPT !.Vendor = v]
  /\ UNCHANGED <<vpnState, vendors>>

SaveExit(h) ==
  /\ Move(h, "saveExit", "down")
  /\ \E e \in Racy(arg[h].exit, {arg[g].exit : g \in At(h, {"saveExit"})}) :
       gs' = [gs EXCEPT !.Exit = e]
  /\ UNCHANGED <<vpnState, vendors>>

(* Mutant: SelectExit does not report the connection down.                 *)
MarkDownForgotten(h) ==
  /\ Move(h, "down", "downStr")
  /\ UNCHANGED <<vpnState, gs, vendors>>

MarkDown(h) == SetConnected(h, "down", "downStr", "False")

(* ... then an error of UpdateConfig ends the request.                     *)
(* Mutant: the error is not looked at.                                     *)
RestartAnyway(h) ==
  /\ Move(h, "downStr", "restart")
  /\ SetConnectedStr(h)
  /\ Restart(h)
  /\ UNCHANGED vendors

RestartOrFail(h) ==
  /\ pc[h] = "downStr"
  /\ SetConnectedStr(h)
  /\ \/ ret[h] = "error" /\ Move(h, "downStr", "failed") /\ UNCHANGED vpnState
     \/ ret[h] # "error" /\ Move(h, "downStr", "restart") /\ Restart(h)
  /\ UNCHANGED vendors

(* Restart returns false only together with an error, so the branch for    *)
(* success = false is never taken.                                         *)
Restarted(h) ==
  /\ Returned(h, "restart")
  /\ \/ ret[h] = "ok"    /\ Move(h, "restart", "fetch")    /\ Status(h)
     \/ ret[h] = "error" /\ Move(h, "restart", "failed")   /\ UNCHANGED vpnState
     \/ ret[h] = "panic" /\ Move(h, "restart", "panicked") /\ UNCHANGED vpnState
  /\ UNCHANGED <<gs, vendors>>

(* The Status call both handlers make, and where each goes on.             *)
Fetched(h, from, to) ==
  /\ Returned(h, from)
  /\ \/ ret[h] = "ok"    /\ Move(h, from, to)         /\ SetStatusOutput(h)
     \/ ret[h] = "error" /\ Move(h, from, "failed")   /\ UNCHANGED gs
     \/ ret[h] = "panic" /\ Move(h, from, "panicked") /\ UNCHANGED gs
  /\ UNCHANGED <<vpnState, vendors>>

(* GS.Vendors[vendor] is nil for a vendor that is not loaded, and is       *)
(* dereferenced; FindServerMapEntry may not find the exit.                 *)
Locate(h) ==
  LET v == arg[h].vendor IN
  /\ \/ v \notin DOMAIN vendors /\ Move(h, "locate", "panicked")
     \/ v \in DOMAIN vendors /\ arg[h].exit \notin vendors[v] /\ Move(h, "locate", "failed")
     \/ v \in DOMAIN vendors /\ arg[h].exit \in vendors[v] /\ Move(h, "locate", "path")
  /\ UNCHANGED <<vpnState, gs, vendors>>

(* GS.ExitPath is set to the vendor, then read back and extended.          *)
NewPath(h) == IF pc[h] = "path" THEN <<arg[h].vendor>> ELSE Append(gs.ExitPath, arg[h].exit)

SetPath(h, from, to) ==
  /\ Move(h, from, to)
  /\ \E p \in RacyWith(NewPath(h), {NewPath(g) : g \in At(h, {"path", "append"})}, <<"torn">>) :
       gs' = [gs EXCEPT !.ExitPath = p]
  /\ UNCHANGED <<vpnState, vendors>>

(* Mutant: SelectExit leaves it to the next status page to report up.      *)
MarkUpForgotten(h) ==
  /\ Move(h, "up", "upStr")
  /\ UNCHANGED <<vpnState, gs, vendors>>

MarkUp(h) == SetConnected(h, "up", "upStr", "True")

Redirect(h) ==
  /\ Move(h, "upStr", "redirect")
  /\ SetConnectedStr(h)
  /\ UNCHANGED <<vpnState, vendors>>

-----------------------------------------------------------------------------
(* Status: GET /status, and /status/:action, whose action is not read.     *)

StatusPage(h, forced) ==
  /\ MayServe(h, TRUE)
  /\ \/ /\ gs.Connected = "Maybe" \/ forced
        /\ Move(h, "idle", "check")
        /\ IsUp(h)
     \/ /\ gs.Connected # "Maybe" /\ ~forced
        /\ Move(h, "idle", "show")
        /\ UNCHANGED vpnState
  /\ UNCHANGED <<gs, vendors>>

CheckPanics(h) ==
  /\ Returned(h, "check") /\ ret[h] = "panic"
  /\ Move(h, "check", "panicked")
  /\ UNCHANGED <<vpnState, gs, vendors>>

NoteState(h) ==
  /\ Returned(h, "check") /\ ret[h] # "panic"
  /\ SetConnected(h, "check", "noteStr", ret[h])

NoteWord(h) ==
  /\ Move(h, "noteStr", "read")
  /\ SetConnectedStr(h)
  /\ Status(h)
  /\ UNCHANGED vendors

(* The handler returns: the page is rendered from GS, or an error page or  *)
(* a redirect is sent, or the panicking goroutine is ended by net/http.    *)
Respond(h) ==
  /\ pc[h] \in {"redirect", "failed", "panicked", "show"}
  /\ pc' = [pc EXCEPT ![h] = "idle"]
  /\ IF vpc[h] = "done" THEN Return(h) ELSE UNCHANGED vpnState
  /\ UNCHANGED <<gs, vendors>>

-----------------------------------------------------------------------------
(* loadVendors: builds a new map aside and publishes it in one store; the  *)
(* loop that does it again runs only with dns_refresh_minutes >= 5.        *)
(* Mutants: the map is published while it is being built; the VpnServer is *)
(* made anew with it.                                                      *)
LoadVendorsInPlace ==
  /\ vendors = NoVendors \/ konf.refresh
  /\ \E m \in Snapshots : \E done \in SUBSET DOMAIN m :
       vendors' = [v \in done |-> m[v]]
  /\ UNCHANGED <<vpnState, gs, pc>>

LoadVendorsAndServer ==
  /\ vendors = NoVendors \/ konf.refresh
  /\ vendors' \in Snapshots
  /\ vs' = NewVpn
  /\ UNCHANGED <<router, vpc, ret, params, work, temps, gs, pc>>

LoadVendors ==
  /\ vendors = NoVendors \/ konf.refresh
  /\ vendors' \in Snapshots
  /\ UNCHANGED <<vpnState, gs, pc>>

Crash ==
  /\ VpnCrash
  /\ gs' = NewGlobalState
  /\ vendors' = NoVendors
  /\ pc' = All("idle")

HandlerStep(h) ==
  /\ \/ Updated(h) \/ SaveVendor(h) \/ SaveExit(h) \/ MarkDown(h)
     \/ RestartOrFail(h) \/ Restarted(h) \/ Fetched(h, "fetch", "locate")
     \/ Locate(h) \/ SetPath(h, "path", "append") \/ SetPath(h, "append", "up")
     \/ MarkUp(h) \/ Redirect(h)
     \/ CheckPanics(h) \/ NoteState(h) \/ NoteWord(h) \/ Fetched(h, "read", "show")
     \/ Respond(h)
  /\ UNCHANGED konf

Request(h) ==
  /\ \/ \E v \in Vendors, e \in Exits : SelectExit(h, v, e)
     \/ \E forced \in BOOLEAN : StatusPage(h, forced)
  /\ UNCHANGED konf

Next ==
  \/ \E h \in Handlers : Request(h) \/ HandlerStep(h)
  \/ (\E h \in Handlers : VpnStep(h)) /\ UNCHANGED exiterVars
  \/ Tunnel /\ UNCHANGED exiterVars
  \/ (LoadVendors \/ Crash) /\ UNCHANGED konf

Spec == Init /\ [][Next]_vars

(* Goroutines are scheduled fairly and the commands they wait for return.  *)
(* Nothing is asked of callers, of the tunnel or of the vendor loader.     *)
FairSpec ==
  /\ Spec
  /\ \A h \in Handlers : WF_vars(HandlerStep(h)) /\ WF_vars(VpnStep(h) /\ UNCHANGED exiterVars)

-----------------------------------------------------------------------------
(* Properties.                                                             *)

Quiet == \A h \in Handlers : pc[h] = "idle"

(* When SelectExit answers with its redirect, the file on the router, the  *)
(* daemon, the VpnServer, and the vendor, exit and path in GS are those of *)
(* the exit that was asked for, whatever failed or crashed before and      *)
(* whatever status pages are served meanwhile (main.go SelectExit; unless  *)
(* Overlap is "all").                                                      *)
SwitchInstalls ==
  \A h \in Handlers : pc[h] = "redirect" =>
    LET v == arg[h].vendor  e == arg[h].exit IN
    /\ file = CfgFor(v, e)
    /\ loaded = file
    /\ vs = [Vendor |-> v, Exit |-> e]
    /\ gs.Vendor = v /\ gs.Exit = e /\ gs.ExitPath = <<v, e>>

(* ... and the connection is reported up, with the status output of that   *)
(* very daemon (requests that take turns).                                 *)
SwitchReported ==
  \A h \in Handlers : pc[h] = "redirect" =>
    gs.Connected = "True" /\ gs.ConnectedStr = "Up" /\ gs.StatusOutput = loaded

(* Between requests, "Up" next to a vendor means that the daemon runs a    *)
(* configuration of that vendor, however the requests before it ended      *)
(* (requests that take turns).                                             *)
UpNamesRunningVendor ==
  Quiet /\ gs.Connected = "True" =>
    /\ loaded \in Config
    /\ gs.Vendor \in {"Unknown", loaded.vendor}

(* A SelectExit that ends in an error page or a panic leaves the           *)
(* connection reported as not up, at whatever step it failed (requests     *)
(* that take turns).                                                       *)
FailureNotShownUp ==
  \A h \in Handlers :
    pc[h] \in {"failed", "panicked"} /\ arg[h] # NoArg => gs.Connected # "True"

(* Why these hold: at most one SelectExit is in progress, and where it     *)
(* stands says which call it is in and what it has made of GS, the server, *)
(* the file and the daemon.  This is the inductive invariant of the        *)
(* proofs, on top of that of the vpn package (unless Overlap is "all").    *)
Calling   == {"update", "restart", "fetch", "check", "read"}
Saving    == {"saveVendor", "saveExit", "down", "downStr"}
Reporting == {"fetch", "locate", "path", "append", "up", "upStr", "redirect"}
Selecting == {"update", "restart"} \cup Saving \cup Reporting
Showing   == {"check", "noteStr", "read", "show"}

OneSwitch == \A g, h \in Handlers : g # h /\ arg[g] # NoArg => arg[h] = NoArg

CallOf(h) ==
  /\ pc[h] = "idle" => vpc[h] = "idle"
  /\ vpc[h] = "idle" => arg[h] = NoArg
  /\ pc[h] \notin Calling => vpc[h] \in {"idle", "done"}
  /\ pc[h] \in Selecting => arg[h].vendor \in Vendors /\ arg[h].exit \in Exits
  /\ pc[h] \in Showing => arg[h] = NoArg
  /\ pc[h] \in {"update"} \cup Saving => op[h] = "UpdateConfig"
  /\ pc[h] \in Saving => vpc[h] = "done" /\ ret[h] # "panic"
  /\ pc[h] = "restart" => op[h] = "Restart"
  /\ pc[h] \in {"read"} \cup Reporting => op[h] = "Status"
  /\ pc[h] \in {"check", "noteStr"} => op[h] = "IsUp"
  /\ pc[h] = "noteStr" => vpc[h] = "done"

ResultOf(h) ==
  vpc[h] = "done" =>
    ret[h] \in IF op[h] = "IsUp" THEN Tribool \cup {"panic"} ELSE {"ok", "error", "panic"}

SwitchProgress(h) ==
  LET v == arg[h].vendor  e == arg[h].exit IN
  /\ pc[h] \in {"saveExit", "down", "downStr", "restart"} \cup Reporting => gs.Vendor = v
  /\ pc[h] \in {"down", "downStr", "restart"} \cup Reporting => gs.Exit = e
  /\ pc[h] \in {"restart"} \cup Reporting => vs = [Vendor |-> v, Exit |-> e]
  /\ pc[h] = "restart" => FileFor(v, e)
  /\ pc[h] \in Reporting => file = CfgFor(v, e) /\ loaded = file
  /\ pc[h] = "append" => gs.ExitPath = <<v>>
  /\ pc[h] \in {"up", "upStr", "redirect"} => gs.ExitPath = <<v, e>>

SwitchInv ==
  /\ OneSwitch
  /\ \A h \in Handlers : CallOf(h) /\ ResultOf(h) /\ SwitchProgress(h)

(* ... and, when requests take turns, what the service reports: in which   *)
(* mode it can report up at all, that what is up runs the vendor shown     *)
(* except while a switch stores its vendor, and how the vendors of GS and  *)
(* of the VpnServer agree.                                                 *)
TakeTurns == \A g, h \in Handlers : g # h /\ pc[g] # "idle" => pc[h] = "idle"

Supported == Ssh \/ Local
Panicked(h) == vpc[h] = "done" /\ ret[h] = "panic"

ModeInv ==
  ~Supported =>
    /\ gs.Connected # "True"
    /\ \A h \in Handlers :
         /\ vpc[h] \in {"idle", "nil"} \/ Panicked(h)
         /\ pc[h] \notin {"restart"} \cup Saving \cup Reporting

UpIsTrue ==
  gs.Connected = "True" => loaded \in Config /\ gs.Vendor \in {"Unknown", loaded.vendor}

VendorsAgree ==
  gs.Vendor = IF vs.Vendor = NewVpn.Vendor THEN NewGlobalState.Vendor ELSE vs.Vendor

VendorStored(h) ==
  \/ pc[h] = "saveVendor"
  \/ pc[h] = "update" /\ vpc[h] \in {"setExit", "done"} \cup Reading /\ ~Panicked(h)

ReportOf(h) ==
  /\ VendorStored(h) => vs.Vendor = arg[h].vendor
  /\ pc[h] = "update" /\ (vpc[h] = "nil" \/ Panicked(h)) => ~Supported
  /\ pc[h] \in {"downStr", "restart", "fetch", "locate", "path", "append", "up"} =>
       gs.Connected = "False"
  /\ pc[h] \in {"upStr", "redirect"} => gs.Connected = "True"
  /\ pc[h] = "redirect" => gs.ConnectedStr = "Up"
  /\ pc[h] = "fetch" /\ Finished(h, "Status", "ok") => out[h] = loaded
  /\ pc[h] \in Reporting \ {"fetch"} => gs.StatusOutput = loaded
  /\ pc[h] \in {"failed", "panicked"} /\ arg[h] # NoArg => gs.Connected # "True"

ReportInv ==
  /\ TakeTurns
  /\ ModeInv
  /\ UpIsTrue \/ \E h \in Handlers : pc[h] \in {"saveExit", "down"}
  /\ VendorsAgree \/ \E h \in Handlers : VendorStored(h)
  /\ \A h \in Handlers : ReportOf(h)

(* Once vendors are loaded, a switch that restarted the VPN finds its      *)
(* vendor in GS.Vendors, when only listed vendors have templates: the      *)
(* unguarded map access of main.go:144 cannot panic, even while            *)
(* loadVendors replaces the map.                                           *)
LocateFindsVendor ==
  \A h \in Handlers :
    pc[h] = "locate" /\ vendors # NoVendors /\ konf.templates \subseteq konf.listed =>
      arg[h].vendor \in DOMAIN vendors

(* Every request is answered or aborted: the polling of Restart is         *)
(* bounded, also when the tunnel never comes up, and no handler waits for  *)
(* ever on a VpnServer call or on another request.                         *)
EveryRequestEnds == \A h \in Handlers : pc[h] # "idle" ~> pc[h] = "idle"

(* The status page, "Status: ... Vendor: ... Exit Node: ..."               *)
(* (templates/status.html:9), says Up only of the exit the daemon runs.    *)
PageNamesRunningExit ==
  \A h \in Handlers :
    pc[h] = "show" /\ gs.Connected = "True" /\ gs.Vendor # "Unknown" =>
      loaded = CfgFor(gs.Vendor, gs.Exit)

(* To its users the service is a Switcher, whatever fails, crashes or is   *)
(* served at the same time (unless Overlap is "all").                      *)
Promise == INSTANCE Switcher WITH
  ServedBy <- [c \in [vendor : Vendors, exit : Exits] |-> CfgFor(c.vendor, c.exit)],
  Broken   <- Partial,
  NoDaemon <- NoConfig,
  Nowhere  <- [vendor |-> NewGlobalState.Vendor, exit |-> NewGlobalState.Exit],
  asked    <- {arg[h] : h \in Handlers} \ {NoArg},
  answered <- {arg[h] : h \in {g \in Handlers : pc[g] = "redirect"}},
  running  <- loaded,
  shown    <- [vendor |-> gs.Vendor, exit |-> gs.Exit]

SwitcherSpec == Promise!SwitcherSpec
=============================================================================

----------------------------- MODULE VpnServer -----------------------------
(***************************************************************************)
(* The vpn package: one VpnServer value shared by every request goroutine, *)
(* the router it controls, and the calls UpdateConfig, Restart, IsUp and   *)
(* Status in both of its modes (vpn.go, ssh.go, local.go).                 *)
(*                                                                         *)
(* A call by goroutine h is a small program: vpc[h] is the statement it is *)
(* about to execute, and every access to the shared VpnServer, and every   *)
(* command run on the router, is a step of its own.  Nothing in the code   *)
(* serialises calls; Overlap says how far their callers do: "none" (they   *)
(* take turns), "readers" (IsUp and Status run at any time, UpdateConfig   *)
(* and Restart only next to those) or "all".                               *)
(***************************************************************************)
EXTENDS Naturals

CONSTANTS
  Handlers,     \* the goroutines that call the server
  Vendors,      \* vendor names a caller may pass
  Exits,        \* exit names a caller may pass
  Konfs,        \* configurations (Konf) the program may have been started with
  WaitSeconds,  \* VpnServer.WaitSeconds: how often Restart polls
  Overlap,      \* which calls may be in progress at once
  Faults,       \* kinds of failure the environment may produce
  Partial,      \* a configuration file cut short, perhaps to nothing
  NoConfig      \* no configuration (no file, or no daemon running one)

(* A string is torn when two goroutines race on it: Go stores its pointer  *)
(* and its length in two words.                                            *)
VendorName == Vendors \cup {"", "torn"}
ExitName   == Exits \cup {"", "torn"}

(* A rendered configuration file: the template it came from and the two    *)
(* fields of ConfigTemplate it was filled with.                            *)
Config     == [tmpl : VendorName, server : ExitName, vendor : VendorName]
ConfigFile == Config \cup {Partial, NoConfig}
CfgFor(v, e) == [tmpl |-> v, server |-> e, vendor |-> v]

ASSUME WaitAssumption == WaitSeconds \in Nat \ {0}
ASSUME SentinelAssumption ==
  Partial \notin Config /\ NoConfig \notin Config /\ Partial # NoConfig
ASSUME OverlapAssumption == Overlap \in {"none", "readers", "all"}

VARIABLES
  konf,    \* the configuration, read once at start-up
  vs,      \* VpnServer: the two fields modified at runtime
  file,    \* router.config_file
  loaded,  \* the configuration the VPN daemon was started with
  up,      \* is the tunnel of that daemon established?
  vpc,     \* vpc[h]: next statement of h's call ("idle": in no call)
  ret,     \* ret[h]: result of h's call
  op,      \* op[h]: the method called
  arg,     \* arg[h]: the vendor and exit of h's last UpdateConfig
  draft,   \* draft[h]: the ConfigTemplate being filled by createConfig
  cmd,     \* cmd[h]: the vendor a rendered command names
  tries,   \* tries[h]: polls made by Restart
  out,     \* out[h]: what the status command printed about
  temps    \* goroutines whose last temporary file still exists

router  == <<file, loaded, up>>
params  == <<op, arg>>
work    == <<draft, cmd, tries, out>>
vpnVars == <<konf, vs, file, loaded, up, vpc, ret, op, arg, draft, cmd,
             tries, out, temps>>

Ssh   == konf.mode = "ssh"
Local == konf.mode = "local"
Fault(f) == f \in Faults

Methods == {"UpdateConfig", "Restart", "IsUp", "Status"}
Readers == {"IsUp", "Status"}
Results == {"none", "ok", "error", "panic", "True", "False", "Maybe"}
VpnPc   == {"idle", "done", "nil", "setVendor", "setExit", "readTemplate",
            "readServer", "readVendor", "render", "connect", "copying",
            "rename", "dial", "stop", "start", "renderCheck", "execCheck",
            "localCheck", "renderStatus", "execStatus"}

VpnTypeOK ==
  /\ konf \in Konfs
  /\ vs \in [Vendor : VendorName, Exit : ExitName]
  /\ file \in ConfigFile
  /\ loaded \in ConfigFile
  /\ up \in BOOLEAN
  /\ vpc \in [Handlers -> VpnPc]
  /\ ret \in [Handlers -> Results]
  /\ op \in [Handlers -> Methods \cup {"none"}]
  /\ arg \in [Handlers -> [vendor : VendorName, exit : ExitName]]
  /\ draft \in [Handlers -> Config]
  /\ cmd \in [Handlers -> VendorName]
  /\ tries \in [Handlers -> 0 .. WaitSeconds]
  /\ out \in [Handlers -> ConfigFile]
  /\ temps \subseteq Handlers

NoArg == [vendor |-> "", exit |-> ""]
Blank == CfgFor("", "")

(* No goroutine is in a call.                                              *)
All(x) == [h \in Handlers |-> x]

NoCalls ==
  /\ vpc = All("idle") /\ ret = All("none") /\ op = All("none")
  /\ arg = All(NoArg) /\ draft = All(Blank) /\ cmd = All("")
  /\ tries = All(0) /\ out = All(NoConfig) /\ temps = {}

(* NewVpn leaves Vendor and Exit empty.                                    *)
NewVpn == [Vendor |-> "", Exit |-> ""]

(* The router may hold, and run, a file that an earlier life of the        *)
(* program installed.                                                      *)
VpnInit ==
  /\ konf \in Konfs
  /\ vs = NewVpn
  /\ \/ file = NoConfig
     \/ \E v \in Vendors, e \in Exits : file = CfgFor(v, e)
  /\ loaded \in {NoConfig, file}
  /\ up = FALSE
  /\ NoCalls

-----------------------------------------------------------------------------
(* Control flow of a call.                                                 *)

Goto(h, next) == vpc' = [vpc EXCEPT ![h] = next] /\ UNCHANGED ret
Finish(h, r)  == vpc' = [vpc EXCEPT ![h] = "done"] /\ ret' = [ret EXCEPT ![h] = r]

MayCall(h, o) ==
  \A g \in Handlers \ {h} :
    \/ vpc[g] = "idle"
    \/ Overlap = "readers" /\ (o \in Readers \/ op[g] \in Readers)
    \/ Overlap = "all"

FirstStep(o) == CASE o = "Restart" -> "stop"
                  [] o = "IsUp"    -> "renderCheck"
                  [] OTHER         -> "renderStatus"

(* Where method o goes in each mode.  NewVpn returns nil for a mode it     *)
(* does not know, so the first access to vs.Type panics.                   *)
Entry(o) == IF ~Ssh /\ ~Local THEN "nil"
            ELSE IF o = "UpdateConfig" THEN "setVendor"
            ELSE IF Ssh THEN "dial"
            ELSE FirstStep(o)

(* The locals of a new call.                                               *)
FreshLocals(h) ==
  /\ draft' = [draft EXCEPT ![h] = Blank]
  /\ cmd'   = [cmd EXCEPT ![h] = ""]
  /\ tries' = [tries EXCEPT ![h] = 0]
  /\ out'   = [out EXCEPT ![h] = NoConfig]

Call(h, o, a) ==
  /\ vpc[h] \in {"idle", "done"}
  /\ MayCall(h, o)
  /\ Goto(h, Entry(o))
  /\ op'  = [op EXCEPT ![h] = o]
  /\ arg' = [arg EXCEPT ![h] = a]
  /\ FreshLocals(h)
  /\ UNCHANGED <<vs, router, temps>>

UpdateConfig(h, v, e) == Call(h, "UpdateConfig", [vendor |-> v, exit |-> e])
Restart(h) == Call(h, "Restart", arg[h])
IsUp(h)    == Call(h, "IsUp", arg[h])
Status(h)  == Call(h, "Status", arg[h])

(* The caller has taken the result and is done with the server.            *)
Return(h) ==
  /\ vpc[h] = "done"
  /\ vpc'   = [vpc EXCEPT ![h] = "idle"]
  /\ ret'   = [ret EXCEPT ![h] = "none"]
  /\ op'    = [op EXCEPT ![h] = "none"]
  /\ arg'   = [arg EXCEPT ![h] = NoArg]
  /\ FreshLocals(h)
  /\ temps' = temps \ {h}
  /\ UNCHANGED <<vs, router>>

NilServer(h) ==
  /\ vpc[h] = "nil"
  /\ Finish(h, "panic")
  /\ UNCHANGED <<vs, router, params, work, temps>>

-----------------------------------------------------------------------------
(* UpdateConfig: two stores, then createConfig, which reads them back.     *)

(* What an access to a variable of several words leaves or sees while      *)
(* other goroutines are about to store the values in racing there.         *)
RacyWith(x, racing, torn) == {x} \cup (IF racing \subseteq {x} THEN {} ELSE {torn})
Racy(x, racing) == RacyWith(x, racing, "torn")

StoringVendor(h) == {arg[g].vendor : g \in {i \in Handlers \ {h} : vpc[i] = "setVendor"}}
StoringExit(h)   == {arg[g].exit   : g \in {i \in Handlers \ {h} : vpc[i] = "setExit"}}

(* Mutant: the vendor is stored and the exit is not.                       *)
SetVendorOnly(h) ==
  /\ vpc[h] = "setVendor"
  /\ vs' = [vs EXCEPT !.Vendor = arg[h].vendor]
  /\ Goto(h, "readTemplate")
  /\ UNCHANGED <<router, params, work, temps>>

SetVendor(h) ==
  /\ vpc[h] = "setVendor"
  /\ \E v \in Racy(arg[h].vendor, StoringVendor(h)) : vs' = [vs EXCEPT !.Vendor = v]
  /\ Goto(h, "setExit")
  /\ UNCHANGED <<router, params, work, temps>>

SetExit(h) ==
  /\ vpc[h] = "setExit"
  /\ \E e \in Racy(arg[h].exit, StoringExit(h)) : vs' = [vs EXCEPT !.Exit = e]
  /\ Goto(h, "readTemplate")
  /\ UNCHANGED <<router, params, work, temps>>

ReadTemplate(h) ==
  /\ vpc[h] = "readTemplate"
  /\ \E v \in Racy(vs.Vendor, StoringVendor(h)) :
       draft' = [draft EXCEPT ![h].tmpl = v]
  /\ Goto(h, "readServer")
  /\ UNCHANGED <<vs, router, params, cmd, tries, out, temps>>

ReadServer(h) ==
  /\ vpc[h] = "readServer"
  /\ \E e \in Racy(vs.Exit, StoringExit(h)) :
       draft' = [draft EXCEPT ![h].server = e]
  /\ Goto(h, "readVendor")
  /\ UNCHANGED <<vs, router, params, cmd, tries, out, temps>>

(* Mutant: the ConfigTemplate is made without its Vendor.                  *)
ReadVendorForgotten(h) ==
  /\ vpc[h] = "readVendor"
  /\ Goto(h, "render")
  /\ UNCHANGED <<vs, router, params, work, temps>>

ReadVendor(h) ==
  /\ vpc[h] = "readVendor"
  /\ \E v \in Racy(vs.Vendor, StoringVendor(h)) :
       draft' = [draft EXCEPT ![h].vendor = v]
  /\ Goto(h, "render")
  /\ UNCHANGED <<vs, router, params, cmd, tries, out, temps>>

RenderConfig(h) ==
  /\ vpc[h] = "render"
  /\ draft[h].tmpl \in konf.templates
  /\ temps' = temps \cup {h}
  /\ Goto(h, IF Ssh THEN "connect" ELSE "rename")
  /\ UNCHANGED <<vs, router, params, work>>

(* ParseFiles or TempFile fails; or Execute does, and then the temporary   *)
(* file is left behind.                                                    *)
RenderFails(h) ==
  /\ vpc[h] = "render"
  /\ \/ draft[h].tmpl \notin konf.templates /\ UNCHANGED temps
     \/ Fault("tempfile") /\ UNCHANGED temps
     \/ draft[h].tmpl \in konf.templates /\ Fault("execute") /\ temps' = temps \cup {h}
  /\ Finish(h, "error")
  /\ UNCHANGED <<vs, router, params, work>>

(* updateConfigSsh: scp truncates the remote file, then fills it.  Its     *)
(* deferred os.Remove runs on every return below createConfig.             *)
ConnectFails(h) ==
  /\ vpc[h] = "connect" /\ Fault("connect")
  /\ Finish(h, "error")
  /\ temps' = temps \ {h}
  /\ UNCHANGED <<vs, router, params, work>>

BeginCopy(h) ==
  /\ vpc[h] = "connect"
  /\ file' = Partial
  /\ Goto(h, "copying")
  /\ UNCHANGED <<vs, loaded, up, params, work, temps>>

(* Two copies of the same remote file at once may leave a mixture.         *)
CopiedAlone(h) == file = Partial /\ \A g \in Handlers \ {h} : vpc[g] # "copying"

EndCopy(h) ==
  /\ vpc[h] = "copying"
  /\ file' \in {draft[h]} \cup (IF CopiedAlone(h) THEN {} ELSE {Partial})
  /\ Finish(h, "ok")
  /\ temps' = temps \ {h}
  /\ UNCHANGED <<vs, loaded, up, params, work>>

(* The error of os.Open is dropped, and CopyFile sends what it can read    *)
(* of the temporary file: of one that does not open, nothing.  That is a   *)
(* copy without an error.                                                  *)
CopyNothing(h) ==
  /\ vpc[h] = "copying" /\ Fault("open")
  /\ file' \in {file, Partial}
  /\ Finish(h, "ok")
  /\ temps' = temps \ {h}
  /\ UNCHANGED <<vs, loaded, up, params, work>>

CopyFails(h) ==
  /\ vpc[h] = "copying" /\ Fault("copy")
  /\ file' \in {file, draft[h]}
  /\ Finish(h, "error")
  /\ temps' = temps \ {h}
  /\ UNCHANGED <<vs, loaded, up, params, work>>

(* updateConfigLocal: os.Rename replaces the file in one step.             *)
Rename(h) ==
  /\ vpc[h] = "rename"
  /\ file' = draft[h]
  /\ Finish(h, "ok")
  /\ temps' = temps \ {h}
  /\ UNCHANGED <<vs, loaded, up, params, work>>

(* Mutant: the error of os.Rename is dropped, like that of os.Open.        *)
RenameFailsUnnoticed(h) ==
  /\ vpc[h] = "rename" /\ Fault("rename")
  /\ Finish(h, "ok")
  /\ UNCHANGED <<vs, router, params, work, temps>>

RenameFails(h) ==
  /\ vpc[h] = "rename" /\ Fault("rename")
  /\ Finish(h, "error")
  /\ UNCHANGED <<vs, router, params, work, temps>>

-----------------------------------------------------------------------------
(* Connections and sessions.  The error of ssh.Dial, and of NewSession, is *)
(* dropped, and the nil it comes with is dereferenced: the goroutine       *)
(* panics (net/http recovers, the request is aborted).                     *)

Dial(h) ==
  /\ vpc[h] = "dial"
  /\ Goto(h, FirstStep(op[h]))
  /\ UNCHANGED <<vs, router, params, work, temps>>

DialFails(h) ==
  /\ vpc[h] = "dial" /\ Fault("dial")
  /\ Finish(h, "panic")
  /\ UNCHANGED <<vs, router, params, work, temps>>

LoseSession(h) ==
  /\ Ssh /\ Fault("session")
  /\ vpc[h] \in {"stop", "start", "execCheck", "execStatus"}
  /\ Finish(h, "panic")
  /\ UNCHANGED <<vs, router, params, work, temps>>

(* Restart: stop, start, then poll.  A command that reports failure may    *)
(* have taken effect all the same.                                         *)
StopDaemon(h) ==
  /\ vpc[h] = "stop"
  /\ loaded' = NoConfig /\ up' = FALSE
  /\ Goto(h, "start")
  /\ UNCHANGED <<vs, file, params, work, temps>>

(* Mutant: Restart goes on to start when the stop command fails.           *)
StopFailsIgnored(h) ==
  /\ vpc[h] = "stop" /\ Fault("command")
  /\ UNCHANGED <<loaded, up>>
  /\ Goto(h, "start")
  /\ UNCHANGED <<vs, file, params, work, temps>>

StopFails(h) ==
  /\ vpc[h] = "stop" /\ Fault("command")
  /\ \/ UNCHANGED <<loaded, up>>
     \/ loaded' = NoConfig /\ up' = FALSE
  /\ Finish(h, "error")
  /\ UNCHANGED <<vs, file, params, work, temps>>

(* The start command leaves a daemon that is already running alone.        *)
DaemonStarts == loaded' = IF loaded = NoConfig THEN file ELSE loaded

StartDaemon(h) ==
  /\ vpc[h] = "start"
  /\ DaemonStarts
  /\ Goto(h, IF Ssh THEN "renderCheck" ELSE "localCheck")
  /\ UNCHANGED <<vs, file, up, params, work, temps>>

StartFails(h) ==
  /\ vpc[h] = "start" /\ Fault("command")
  /\ UNCHANGED loaded \/ DaemonStarts
  /\ Finish(h, "error")
  /\ UNCHANGED <<vs, file, up, params, work, temps>>

(* What a check that found r means to the call: the answer of IsUp, or one *)
(* of at most limit polls of Restart, of which each counts for one.        *)
PollOf(h, r, limit, one) ==
  IF op[h] = "IsUp" THEN Finish(h, r) /\ UNCHANGED tries
  ELSE IF r = "True" THEN Finish(h, "ok") /\ UNCHANGED tries
  ELSE /\ tries' = [tries EXCEPT ![h] = @ + one]
       /\ IF tries[h] + one < limit
          THEN Goto(h, IF Ssh THEN "renderCheck" ELSE "localCheck")
          ELSE Finish(h, "error")

(* Mutants: the loop runs once too often; it does not count.               *)
CheckedOnceMore(h, r) == PollOf(h, r, WaitSeconds + 1, 1)
CheckedForEver(h, r)  == PollOf(h, r, WaitSeconds, 0)

Checked(h, r) == PollOf(h, r, WaitSeconds, 1)

(* The check command, as the example configuration has it, asks for the    *)
(* connection of one vendor; with no vendor it lists them all.             *)
Established(v) == up /\ (v = "" \/ loaded.vendor = v)

(* renderGsTemplate copies the VpnServer; the command runs later.          *)
(* Mutant: the check command is rendered with an empty VpnServer.          *)
RenderCheckBlank(h) ==
  /\ vpc[h] = "renderCheck"
  /\ "check" \in konf.renders
  /\ cmd' = [cmd EXCEPT ![h] = ""]
  /\ Goto(h, "execCheck")
  /\ UNCHANGED <<vs, router, params, draft, tries, out, temps>>

RenderCheck(h) ==
  /\ vpc[h] = "renderCheck"
  /\ "check" \in konf.renders
  /\ \E v \in Racy(vs.Vendor, StoringVendor(h)) : cmd' = [cmd EXCEPT ![h] = v]
  /\ Goto(h, "execCheck")
  /\ UNCHANGED <<vs, router, params, draft, tries, out, temps>>

RenderCheckFails(h) ==
  /\ vpc[h] = "renderCheck"
  /\ "check" \notin konf.renders
  /\ Checked(h, "Maybe")
  /\ UNCHANGED <<vs, router, params, draft, cmd, out, temps>>

ExecCheck(h) ==
  /\ vpc[h] = "execCheck"
  /\ Checked(h, IF Established(cmd[h]) THEN "True" ELSE "False")
  /\ UNCHANGED <<vs, router, params, draft, cmd, out, temps>>

ExecCheckFails(h) ==
  /\ vpc[h] = "execCheck" /\ Fault("command")
  /\ Checked(h, "False")
  /\ UNCHANGED <<vs, router, params, draft, cmd, out, temps>>

(* restartVpnLocal polls router.check_command, unrendered, by its exit     *)
(* status alone; a key that is not set is the empty command, which fails.  *)
LocalCheck(h) ==
  /\ vpc[h] = "localCheck"
  /\ \E r \in IF konf.checkCommand THEN {"True", "False"} ELSE {"False"} :
       Checked(h, r)
  /\ UNCHANGED <<vs, router, params, draft, cmd, out, temps>>

RenderStatus(h) ==
  /\ vpc[h] = "renderStatus"
  /\ "status" \in konf.renders
  /\ \E v \in Racy(vs.Vendor, StoringVendor(h)) : cmd' = [cmd EXCEPT ![h] = v]
  /\ Goto(h, "execStatus")
  /\ UNCHANGED <<vs, router, params, draft, tries, out, temps>>

ExecStatus(h) ==
  /\ vpc[h] = "execStatus"
  /\ out' = [out EXCEPT ![h] = loaded]
  /\ Finish(h, "ok")
  /\ UNCHANGED <<vs, router, params, draft, cmd, tries, temps>>

StatusFails(h) ==
  /\ \/ vpc[h] = "renderStatus" /\ "status" \notin konf.renders
     \/ vpc[h] = "execStatus" /\ Fault("command")
  /\ Finish(h, "error")
  /\ UNCHANGED <<vs, router, params, work, temps>>

-----------------------------------------------------------------------------
(* The environment.                                                        *)

Establish ==
  /\ loaded \in Config /\ ~up
  /\ up' = TRUE
  /\ UNCHANGED <<vs, file, loaded, vpc, ret, params, work, temps>>

Drop ==
  /\ Fault("drop") /\ up
  /\ up' = FALSE
  /\ UNCHANGED <<vs, file, loaded, vpc, ret, params, work, temps>>

(* The program dies and is started again: its memory is gone, the router   *)
(* goes on.                                                                *)
VpnCrash ==
  /\ Fault("crash")
  /\ vs' = NewVpn
  /\ vpc' = All("idle") /\ ret' = All("none") /\ op' = All("none")
  /\ arg' = All(NoArg) /\ draft' = All(Blank) /\ cmd' = All("")
  /\ tries' = All(0) /\ out' = All(NoConfig) /\ temps' = {}
  /\ UNCHANGED router

-----------------------------------------------------------------------------
UpdateStep(h) ==
  \/ SetVendor(h) \/ SetExit(h)
  \/ ReadTemplate(h) \/ ReadServer(h) \/ ReadVendor(h)
  \/ RenderConfig(h) \/ RenderFails(h)
  \/ ConnectFails(h) \/ BeginCopy(h) \/ EndCopy(h)
  \/ CopyNothing(h) \/ CopyFails(h) \/ Rename(h) \/ RenameFails(h)

RestartStep(h) ==
  \/ StopDaemon(h) \/ StopFails(h) \/ StartDaemon(h) \/ StartFails(h)

CheckStep(h) ==
  \/ RenderCheck(h) \/ RenderCheckFails(h)
  \/ ExecCheck(h) \/ ExecCheckFails(h) \/ LocalCheck(h)
  \/ RenderStatus(h) \/ ExecStatus(h) \/ StatusFails(h)

SessionStep(h) == NilServer(h) \/ Dial(h) \/ DialFails(h) \/ LoseSession(h)

VpnStep(h) ==
  /\ UpdateStep(h) \/ RestartStep(h) \/ CheckStep(h) \/ SessionStep(h)
  /\ UNCHANGED konf

Tunnel == (Establish \/ Drop) /\ UNCHANGED konf

VpnCalls(h) ==
  /\ \/ \E v \in Vendors, e \in Exits : UpdateConfig(h, v, e)
     \/ Restart(h) \/ IsUp(h) \/ Status(h)
     \/ Return(h)
  /\ UNCHANGED konf

VpnNext ==
  \/ \E h \in Handlers : VpnCalls(h) \/ VpnStep(h)
  \/ Tunnel
  \/ VpnCrash /\ UNCHANGED konf

VpnSpec == VpnInit /\ [][VpnNext]_vpnVars

-----------------------------------------------------------------------------
(* Properties.                                                             *)

Finished(h, o, r) == vpc[h] = "done" /\ op[h] = o /\ ret[h] = r

(* The file is the one for an exit, or was cut short by a copy of a        *)
(* temporary file that did not open.                                       *)
FileFor(v, e) == file = CfgFor(v, e) \/ (file = Partial /\ Fault("open"))

(* Only a remote copy can cut the file short: os.Rename replaces it whole. *)
CutMeansSsh == file = Partial => Ssh

Installed(h) ==
  /\ FileFor(arg[h].vendor, arg[h].exit)
  /\ vs = [Vendor |-> arg[h].vendor, Exit |-> arg[h].exit]
  /\ h \notin temps

(* The daemon runs a whole configuration of the vendor in the VpnServer.   *)
RunsVendor == loaded \in Config /\ vs.Vendor \in {"", loaded.vendor}

(* An UpdateConfig that reports success has installed the file it was      *)
(* asked for, has removed its temporary file, and the server remembers     *)
(* that vendor and exit, whatever readers do meanwhile.  The file may be   *)
(* cut short in one case only: over ssh, when the temporary file did not   *)
(* open.  It is never an older file, nor one for another exit (vpn.go      *)
(* UpdateConfig, createConfig, ssh.go updateConfigSsh, local.go            *)
(* updateConfigLocal; unless Overlap is "all").                            *)
InstalledAsAsked ==
  \A h \in Handlers :
    Finished(h, "UpdateConfig", "ok") => Installed(h) /\ CutMeansSsh

(* The file on the router never mixes two requests: the template it was    *)
(* made from and the fields it was filled with belong to one vendor        *)
(* (createConfig; unless Overlap is "all").                                *)
OneVendorPerConfig ==
  file \in Config =>
    \E v \in Vendors, e \in Exits : file = CfgFor(v, e)

(* A Restart that reports success has made the daemon load the file that   *)
(* is installed, and never mistakes a daemon that survived the stop for    *)
(* the new one; over ssh that file is also a whole configuration of the    *)
(* vendor the server remembers (restartVpnSsh, restartVpnLocal; unless     *)
(* Overlap is "all").                                                      *)
RestartRunsFile ==
  \A h \in Handlers : Finished(h, "Restart", "ok") =>
    loaded = file /\ (Ssh => RunsVendor)

(* An IsUp that answers True speaks of the vendor the server remembers,    *)
(* whatever failed or crashed before: its check was rendered and run on    *)
(* one state of the server and the daemon (getUpSsh, getUpLocal; callers   *)
(* that take turns).                                                       *)
PositiveAnswer ==
  \A h \in Handlers : Finished(h, "IsUp", "True") => RunsVendor

(* Why these hold: at most one call that writes is in progress, and where  *)
(* it stands says what it has made of the server, its draft and the        *)
(* router.  This is the inductive invariant of the proofs.                 *)
Writer(h) == op[h] \in {"UpdateConfig", "Restart"}

OneWriter ==
  \A g, h \in Handlers : g # h /\ Writer(g) =>
    ~Writer(h) /\ (Overlap = "none" => op[h] = "none")

Installing == {"render", "connect", "copying", "rename"}
Reading    == {"readTemplate", "readServer", "readVendor"} \cup Installing
Updating   == {"setVendor", "setExit"} \cup Reading

MethodOf(h) ==
  /\ vpc[h] = "idle" <=> op[h] = "none"
  /\ vpc[h] \in Updating => op[h] = "UpdateConfig"
  /\ vpc[h] \in {"stop", "start", "localCheck"} => op[h] = "Restart"
  /\ vpc[h] \in {"renderCheck", "execCheck"} => op[h] \in {"Restart", "IsUp"}
  /\ vpc[h] \in {"renderStatus", "execStatus"} => op[h] = "Status"
  /\ vpc[h] = "dial" => op[h] # "UpdateConfig"

UpdateProgress(h) ==
  /\ op[h] = "UpdateConfig" => arg[h].vendor \in Vendors /\ arg[h].exit \in Exits
  /\ vpc[h] \in {"setExit"} \cup Reading => vs.Vendor = arg[h].vendor
  /\ vpc[h] \in Reading => vs.Exit = arg[h].exit
  /\ vpc[h] \in {"readServer", "readVendor"} => draft[h].tmpl = arg[h].vendor
  /\ vpc[h] = "readVendor" => draft[h].server = arg[h].exit
  /\ vpc[h] \in Installing => draft[h] = CfgFor(arg[h].vendor, arg[h].exit)
  /\ vpc[h] = "copying" => file = Partial
  /\ vpc[h] \in {"connect", "copying"} => Ssh

RestartProgress(h) ==
  /\ vpc[h] = "start" => loaded = NoConfig
  /\ vpc[h] \in {"renderCheck", "execCheck", "localCheck"} /\ op[h] = "Restart" =>
       loaded = file
  /\ vpc[h] = "execCheck" /\ (op[h] = "Restart" \/ Overlap = "none") =>
       cmd[h] = vs.Vendor
  /\ vpc[h] = "localCheck" => ~Ssh

UpMeansLoaded == up => loaded \in Config

(* A call's progress and the state of the server and the router agree      *)
(* (unless Overlap is "all").                                              *)
WriterInv ==
  /\ OneWriter
  /\ UpMeansLoaded
  /\ CutMeansSsh
  /\ \A h \in Handlers : MethodOf(h) /\ UpdateProgress(h) /\ RestartProgress(h)

(* createConfig makes "the IPSec config for a given vendor" (vpn.go:101):  *)
(* in a configuration that an UpdateConfig has installed, and that no data *)
(* race has torn, the template and the vendor filled in are one vendor's   *)
(* (for calls that overlap).                                               *)
ConfigForAGivenVendor ==
  \A h \in Handlers :
    Finished(h, "UpdateConfig", "ok") /\ draft[h].vendor # "torn" =>
      draft[h].vendor = draft[h].tmpl

(* updateConfigSsh "Updates the config on a remote system via SSH"         *)
(* (ssh.go:18) and logs "Success copying" (ssh.go:53) when it returns no   *)
(* error: the file there is then the whole configuration asked for.        *)
RemoteConfigUpdated ==
  \A h \in Handlers : Ssh /\ Finished(h, "UpdateConfig", "ok") =>
    file = CfgFor(arg[h].vendor, arg[h].exit)

(* A poll of Restart made while the tunnel to the server's vendor is up    *)
(* ends the wait: the check command "can be used to determine if the VPN   *)
(* is up" (README.md:64).                                                  *)
PollSeesTunnel ==
  [][\A h \in Handlers :
       vpc[h] = "localCheck" /\ Established(vs.Vendor) /\ vpc'[h] = "done" =>
         ret'[h] = "ok"]_vpnVars
=============================================================================

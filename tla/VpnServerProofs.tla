-------------------------- MODULE VpnServerProofs --------------------------
(* Theorems about VpnServer, for every value of its constants.             *)
EXTENDS VpnServer, TLAPS

-----------------------------------------------------------------------------
(* Type correctness.                                                       *)

(* A call that has not ended has polls left: what bounds tries.            *)
PollsLeft == \A h \in Handlers : vpc[h] # "done" => tries[h] < WaitSeconds

TypeInv == VpnTypeOK /\ PollsLeft

(* What a racing access leaves or sees is one of the values, or torn.      *)
LEMMA RacyType ==
  ASSUME NEW h \in Handlers, VpnTypeOK
  PROVE  /\ \A x \in VendorName : Racy(x, StoringVendor(h)) \subseteq VendorName
         /\ \A x \in ExitName : Racy(x, StoringExit(h)) \subseteq ExitName
  BY DEF Racy, RacyWith, VendorName, ExitName

(* WaitSeconds allows at least one poll.                                   *)
LEMMA WaitRange == 0 \in 0 .. WaitSeconds /\ 0 < WaitSeconds
  BY WaitAssumption

(* The configuration of any vendor and exit is a whole one.                *)
LEMMA ConfigOfOneVendor == \A v \in Vendors, e \in Exits : CfgFor(v, e) \in Config
  BY DEF Config, VendorName, ExitName, CfgFor

(* Program start leaves every call at rest.                                *)
LEMMA InitTypeInv == VpnInit => TypeInv
  <1> SUFFICES ASSUME VpnInit PROVE TypeInv
    OBVIOUS
  <1> USE DEF VpnInit
  <1>1. konf \in Konfs
    BY Zenon
  <1>a. up \in BOOLEAN
    BY Zenon
  <1>2. file \in ConfigFile /\ loaded \in ConfigFile
    BY ConfigOfOneVendor DEF ConfigFile
  <1>3. vs \in [Vendor : VendorName, Exit : ExitName]
    BY DEF NewVpn, VendorName, ExitName
  <1>4. /\ vpc \in [Handlers -> VpnPc] /\ ret \in [Handlers -> Results]
        /\ op \in [Handlers -> Methods \cup {"none"}]
    BY DEF NoCalls, All, VpnPc, Results
  <1>5. /\ arg \in [Handlers -> [vendor : VendorName, exit : ExitName]]
        /\ draft \in [Handlers -> Config]
        /\ cmd \in [Handlers -> VendorName]
    BY DEF NoCalls, All, NoArg, Blank, Config, VendorName, ExitName, CfgFor
  <1>6. out \in [Handlers -> ConfigFile] /\ temps \subseteq Handlers
    BY DEF NoCalls, All, ConfigFile
  <1>7. tries \in [Handlers -> 0 .. WaitSeconds] 
    BY WaitRange DEF NoCalls, All
  <1>8. PollsLeft
    BY WaitRange DEF NoCalls, All, PollsLeft
  <1> QED
    BY <1>1, <1>a, <1>2, <1>3, <1>4, <1>5, <1>6, <1>7, <1>8 DEF TypeInv, VpnTypeOK

(* The statements of UpdateConfig.                                         *)
LEMMA UpdateTypeInv ==
  ASSUME NEW h \in Handlers, TypeInv, UpdateStep(h), UNCHANGED konf
  PROVE  TypeInv'
  <1> USE WaitAssumption DEF TypeInv, VpnTypeOK, PollsLeft, VpnPc, Results, Methods,
        router, params, work, Goto, Finish
  <1>1. CASE SetVendor(h)
    BY <1>1, RacyType DEF SetVendor
  <1>2. CASE SetExit(h)
    BY <1>2, RacyType DEF SetExit
  <1>3. CASE ReadTemplate(h)
    <2>1. PICK x \in Racy(vs.Vendor, StoringVendor(h)) : draft' = [draft EXCEPT ![h].tmpl = x]
      BY <1>3 DEF ReadTemplate
    <2>2. x \in VendorName
      BY <2>1, RacyType
    <2>3. draft' \in [Handlers -> Config]
      BY <2>1, <2>2 DEF Config
    <2> QED
      BY <1>3, <2>3 DEF ReadTemplate
  <1>4. CASE ReadServer(h)
    <2>1. PICK x \in Racy(vs.Exit, StoringExit(h)) : draft' = [draft EXCEPT ![h].server = x]
      BY <1>4 DEF ReadServer
    <2>2. x \in ExitName
      BY <2>1, RacyType
    <2>3. draft' \in [Handlers -> Config]
      BY <2>1, <2>2 DEF Config
    <2> QED
      BY <1>4, <2>3 DEF ReadServer
  <1>5. CASE ReadVendor(h)
    <2>1. PICK x \in Racy(vs.Vendor, StoringVendor(h)) : draft' = [draft EXCEPT ![h].vendor = x]
      BY <1>5 DEF ReadVendor
    <2>2. x \in VendorName
      BY <2>1, RacyType
    <2>3. draft' \in [Handlers -> Config]
      BY <2>1, <2>2 DEF Config
    <2> QED
      BY <1>5, <2>3 DEF ReadVendor
  <1>6. CASE RenderConfig(h)
    BY <1>6 DEF RenderConfig
  <1>7. CASE RenderFails(h)
    BY <1>7 DEF RenderFails
  <1>8. CASE ConnectFails(h)
    BY <1>8 DEF ConnectFails
  <1>9. CASE BeginCopy(h)
    BY <1>9 DEF BeginCopy, ConfigFile
  <1>10. CASE EndCopy(h)
    BY <1>10 DEF EndCopy, ConfigFile
  <1>11. CASE CopyFails(h)
    BY <1>11 DEF CopyFails, ConfigFile
  <1>12. CASE Rename(h)
    BY <1>12 DEF Rename, ConfigFile
  <1>13. CASE RenameFails(h)
    BY <1>13 DEF RenameFails
  <1>14. CASE CopyNothing(h)
    BY <1>14 DEF CopyNothing, ConfigFile
  <1> QED
    BY <1>1, <1>2, <1>3, <1>4, <1>5, <1>6, <1>7, <1>8, <1>9, <1>10, <1>11, <1>12, <1>13,
       <1>14 DEF UpdateStep

(* A check leaves the call polling with polls left, or ended.              *)
LEMMA CheckedType ==
  ASSUME NEW h \in Handlers, TypeInv, vpc[h] # "done",
         NEW r \in {"True", "False", "Maybe"}, Checked(h, r)
  PROVE  /\ vpc' \in [Handlers -> VpnPc]
         /\ ret' \in [Handlers -> Results]
         /\ tries' \in [Handlers -> 0 .. WaitSeconds]
         /\ PollsLeft'
  <1> USE DEF TypeInv, VpnTypeOK, PollsLeft, Goto, Finish
  <1>1. tries[h] \in Nat /\ tries[h] < WaitSeconds /\ WaitSeconds \in Nat
    BY WaitAssumption
  <1>2. CASE Finish(h, r) /\ UNCHANGED tries
    BY <1>2 DEF VpnPc, Results
  <1>3. CASE Finish(h, "ok") /\ UNCHANGED tries
    BY <1>3 DEF VpnPc, Results
  <1>4. ASSUME tries' = [tries EXCEPT ![h] = @ + 1]
        PROVE  tries' \in [Handlers -> 0 .. WaitSeconds]
    BY <1>1, <1>4
  <1>5. CASE /\ tries' = [tries EXCEPT ![h] = @ + 1]
             /\ tries[h] + 1 < WaitSeconds
             /\ Goto(h, IF Ssh THEN "renderCheck" ELSE "localCheck")
    BY <1>1, <1>4, <1>5 DEF VpnPc, Results
  <1>6. CASE /\ tries' = [tries EXCEPT ![h] = @ + 1]
             /\ Finish(h, "error")
    BY <1>1, <1>4, <1>6 DEF VpnPc, Results
  <1> QED
    BY <1>2, <1>3, <1>5, <1>6 DEF Checked, PollOf

(* The statements of Restart, IsUp and Status.                             *)
LEMMA CommandTypeInv ==
  ASSUME NEW h \in Handlers, TypeInv, UNCHANGED konf,
         RestartStep(h) \/ CheckStep(h) \/ SessionStep(h)
  PROVE  TypeInv'
  <1> USE WaitAssumption DEF TypeInv, VpnTypeOK, router, params, work
  <1>1. CASE RestartStep(h)
    BY <1>1 DEF RestartStep, StopDaemon, StopFails, StartDaemon, StartFails, DaemonStarts,
       ConfigFile, PollsLeft, Goto, Finish, VpnPc, Results
  <1>2. CASE CheckStep(h)
    <2>1. CASE RenderCheck(h) \/ RenderStatus(h)
      <3>1. PICK v \in Racy(vs.Vendor, StoringVendor(h)) : cmd' = [cmd EXCEPT ![h] = v]
        BY <2>1 DEF RenderCheck, RenderStatus
      <3>2. cmd' \in [Handlers -> VendorName]
        BY <3>1, RacyType
      <3>3. CASE RenderCheck(h)
        BY <3>2, <3>3 DEF RenderCheck, PollsLeft, Goto, VpnPc
      <3>4. CASE RenderStatus(h)
        BY <3>2, <3>4 DEF RenderStatus, PollsLeft, Goto, VpnPc
      <3> QED
        BY <2>1, <3>3, <3>4
    <2>2. CASE ExecStatus(h) \/ StatusFails(h)
      <3>1. vpc' \in [Handlers -> VpnPc] /\ ret' \in [Handlers -> Results] /\ PollsLeft'
        BY <2>2 DEF ExecStatus, StatusFails, PollsLeft, Finish, VpnPc, Results
      <3>2. CASE ExecStatus(h)
        BY <3>1, <3>2 DEF ExecStatus
      <3>3. CASE StatusFails(h)
        BY <3>1, <3>3 DEF StatusFails
      <3> QED
        BY <2>2, <3>2, <3>3
    <2>3. CASE RenderCheckFails(h)
      BY <2>3, CheckedType DEF RenderCheckFails
    <2>4. CASE ExecCheck(h)
      BY <2>4, CheckedType DEF ExecCheck
    <2>5. CASE ExecCheckFails(h)
      BY <2>5, CheckedType DEF ExecCheckFails
    <2>6. CASE LocalCheck(h)
      BY <2>6, CheckedType DEF LocalCheck
    <2> QED
      BY <1>2, <2>1, <2>2, <2>3, <2>4, <2>5, <2>6 DEF CheckStep
  <1>3. CASE SessionStep(h)
    BY <1>3 DEF SessionStep, NilServer, Dial, DialFails, LoseSession, FirstStep,
       PollsLeft, Goto, Finish, VpnPc, Results
  <1> QED
    BY <1>1, <1>2, <1>3

(* The locals of a new call are well typed, and leave all its polls.       *)
LEMMA FreshLocalsType ==
  ASSUME NEW h \in Handlers, TypeInv, FreshLocals(h)
  PROVE  /\ draft' \in [Handlers -> Config]
         /\ cmd' \in [Handlers -> VendorName]
         /\ tries' \in [Handlers -> 0 .. WaitSeconds]
         /\ out' \in [Handlers -> ConfigFile]
         /\ vpc' = [vpc EXCEPT ![h] = vpc'[h]] => PollsLeft'
  <1> USE DEF TypeInv, VpnTypeOK, FreshLocals
  <1>1. Blank \in Config
    BY DEF Blank, Config, CfgFor, VendorName, ExitName
  <1>2. draft' \in [Handlers -> Config]
    BY <1>1
  <1>3. cmd' \in [Handlers -> VendorName]
    BY DEF VendorName
  <1>4. tries' \in [Handlers -> 0 .. WaitSeconds]
    BY WaitRange
  <1>5. out' \in [Handlers -> ConfigFile]
    BY DEF ConfigFile
  <1>6. ASSUME vpc' = [vpc EXCEPT ![h] = vpc'[h]] PROVE PollsLeft'
    BY <1>6, WaitRange DEF PollsLeft
  <1> QED
    BY <1>2, <1>3, <1>4, <1>5, <1>6

(* A new call starts at a statement of its method.                         *)
LEMMA CallTypeInv ==
  ASSUME NEW h \in Handlers, NEW o \in Methods,
         NEW a \in [vendor : VendorName, exit : ExitName],
         TypeInv, UNCHANGED konf, Call(h, o, a)
  PROVE  TypeInv'
  <1> USE DEF TypeInv, VpnTypeOK, Call, Goto
  <1>1. Entry(o) \in VpnPc
    BY DEF Entry, FirstStep, VpnPc
  <1>2. vpc' \in [Handlers -> VpnPc] /\ op' \in [Handlers -> Methods \cup {"none"}]
    BY <1>1
  <1>3. vpc' = [vpc EXCEPT ![h] = vpc'[h]] /\ FreshLocals(h)
    OBVIOUS
  <1>4. PollsLeft'
    BY <1>3, FreshLocalsType
  <1> QED
    BY <1>2, <1>3, <1>4, FreshLocalsType DEF router

(* The caller leaves: the call is at rest.                                 *)
LEMMA ReturnTypeInv ==
  ASSUME NEW h \in Handlers, TypeInv, UNCHANGED konf, Return(h)
  PROVE  TypeInv'
  <1> USE DEF TypeInv, VpnTypeOK, Return
  <1>1. vpc' \in [Handlers -> VpnPc] /\ ret' \in [Handlers -> Results]
    BY DEF VpnPc, Results
  <1>2. op' \in [Handlers -> Methods \cup {"none"}]
    OBVIOUS
  <1>3. arg' \in [Handlers -> [vendor : VendorName, exit : ExitName]]
    BY DEF NoArg, VendorName, ExitName
  <1>4. vpc' = [vpc EXCEPT ![h] = vpc'[h]] /\ FreshLocals(h)
    OBVIOUS
  <1>5. PollsLeft'
    BY <1>4, FreshLocalsType
  <1> QED
    BY <1>1, <1>2, <1>3, <1>4, <1>5, FreshLocalsType DEF router

(* A crash ends every call.                                                *)
LEMMA CrashTypeInv ==
  ASSUME TypeInv, UNCHANGED konf, VpnCrash
  PROVE  TypeInv'
  <1> USE DEF TypeInv, VpnTypeOK, VpnCrash, All
  <1>1. vs' \in [Vendor : VendorName, Exit : ExitName]
    BY DEF NewVpn, VendorName, ExitName
  <1>2. vpc' \in [Handlers -> VpnPc] /\ ret' \in [Handlers -> Results]
    BY DEF VpnPc, Results
  <1>3. op' \in [Handlers -> Methods \cup {"none"}]
    OBVIOUS
  <1>4. arg' \in [Handlers -> [vendor : VendorName, exit : ExitName]]
    BY DEF NoArg, VendorName, ExitName
  <1>5. Blank \in Config
    BY DEF Blank, Config, CfgFor, VendorName, ExitName
  <1>6. draft' \in [Handlers -> Config]
    BY <1>5
  <1>7. cmd' \in [Handlers -> VendorName]
    BY DEF VendorName
  <1>8. tries' \in [Handlers -> 0 .. WaitSeconds]
    BY WaitRange
  <1>9. out' \in [Handlers -> ConfigFile]
    BY DEF ConfigFile
  <1>10. PollsLeft'
    BY WaitRange DEF PollsLeft
  <1> QED
    BY <1>1, <1>2, <1>3, <1>4, <1>6, <1>7, <1>8, <1>9, <1>10 DEF router

(* Calls, returns, the tunnel and a crash.                                 *)
LEMMA OutsideTypeInv ==
  ASSUME TypeInv, UNCHANGED konf,
         (\E h \in Handlers : VpnCalls(h)) \/ Tunnel \/ VpnCrash
  PROVE  TypeInv'
  <1>1. ASSUME NEW h \in Handlers, VpnCalls(h)
        PROVE  TypeInv'
    <2>1. ASSUME NEW v \in Vendors, NEW e \in Exits, UpdateConfig(h, v, e)
          PROVE  TypeInv'
      <3>1. [vendor |-> v, exit |-> e] \in [vendor : VendorName, exit : ExitName]
        BY DEF VendorName, ExitName
      <3> QED
        BY <2>1, <3>1, CallTypeInv DEF UpdateConfig, Methods
    <2>2. CASE Restart(h) \/ IsUp(h) \/ Status(h)
      <3>1. arg[h] \in [vendor : VendorName, exit : ExitName]
        BY DEF TypeInv, VpnTypeOK
      <3> QED
        BY <2>2, <3>1, CallTypeInv DEF Restart, IsUp, Status, Methods
    <2>3. CASE Return(h)
      BY <2>3, ReturnTypeInv
    <2> QED
      BY <1>1, <2>1, <2>2, <2>3 DEF VpnCalls
  <1>2. CASE Tunnel
    BY <1>2 DEF Tunnel, Establish, Drop, TypeInv, VpnTypeOK, PollsLeft, params, work
  <1>3. CASE VpnCrash
    BY <1>3, CrashTypeInv
  <1> QED
    BY <1>1, <1>2, <1>3

(* A step that changes nothing keeps the types.                            *)
LEMMA StutterTypeInv == ASSUME TypeInv, UNCHANGED vpnVars PROVE TypeInv'
  BY DEF TypeInv, VpnTypeOK, PollsLeft, vpnVars

(* Every step keeps the types.                                             *)
LEMMA NextTypeInv == TypeInv /\ [VpnNext]_vpnVars => TypeInv'
  <1> SUFFICES ASSUME TypeInv, [VpnNext]_vpnVars PROVE TypeInv'
    OBVIOUS
  <1>1. CASE \E h \in Handlers : VpnStep(h)
    BY <1>1, UpdateTypeInv, CommandTypeInv DEF VpnStep
  <1>2. CASE (\E h \in Handlers : VpnCalls(h)) \/ Tunnel \/ (VpnCrash /\ UNCHANGED konf)
    BY <1>2, OutsideTypeInv DEF VpnCalls, Tunnel
  <1>3. CASE UNCHANGED vpnVars
    BY <1>3, StutterTypeInv
  <1> QED
    BY <1>1, <1>2, <1>3 DEF VpnNext

(* The types hold, and a call in progress has polls left.                  *)
THEOREM AlwaysTypeInv == VpnSpec => []TypeInv
  BY InitTypeInv, NextTypeInv, PTL DEF VpnSpec

(* Every variable keeps its type, however calls overlap, race, fail and    *)
(* crash; in particular Restart never polls more than WaitSeconds times.   *)
THEOREM VpnTypeCorrect == VpnSpec => []VpnTypeOK
  BY AlwaysTypeInv, PTL DEF TypeInv

-----------------------------------------------------------------------------
(* Safety, unless calls overlap without limit.                             *)

Answers(k) ==
  /\ Finished(k, "UpdateConfig", "ok") => Installed(k)
  /\ Finished(k, "Restart", "ok") => loaded = file /\ (Ssh => RunsVendor)
  /\ Overlap = "none" /\ Finished(k, "IsUp", "True") => RunsVendor

HandlerInv(k) == MethodOf(k) /\ UpdateProgress(k) /\ RestartProgress(k) /\ Answers(k)

(* The file on the router: of one vendor, and cut short only over ssh.     *)
FileOk == OneVendorPerConfig /\ CutMeansSsh

SafeInv ==
  /\ TypeInv
  /\ OneWriter
  /\ UpMeansLoaded
  /\ FileOk
  /\ \A k \in Handlers : HandlerInv(k)

(* h's step leaves the locals of k alone.                                  *)
Apart(k) ==
  /\ vpc'[k] = vpc[k] /\ ret'[k] = ret[k] /\ op'[k] = op[k] /\ arg'[k] = arg[k]
  /\ draft'[k] = draft[k] /\ cmd'[k] = cmd[k]
  /\ k \in temps' => k \in temps

(* What one call does cannot disturb another: it is a writer, and then the *)
(* other is not, or it leaves the server, the file and the daemon alone.   *)
LEMMA OthersKeep ==
  ASSUME NEW h \in Handlers, NEW k \in Handlers, k # h, SafeInv,
         UNCHANGED konf, Apart(k),
         Writer(h) \/ UNCHANGED <<vs, file, loaded>>
  PROVE  HandlerInv(k)'
  <1> USE DEF SafeInv, HandlerInv, Apart
  <1>1. MethodOf(k)'
    BY DEF MethodOf
  <1>2. CASE UNCHANGED <<vs, file, loaded>>
    <2>1. UpdateProgress(k)'
      BY <1>2 DEF UpdateProgress, Ssh
    <2>2. RestartProgress(k)'
      BY <1>2 DEF RestartProgress, Ssh
    <2>3. Answers(k)'
      BY <1>2 DEF Answers, Finished, Installed, FileFor, RunsVendor, Ssh
    <2> QED
      BY <1>1, <2>1, <2>2, <2>3
  <1>3. CASE Writer(h)
    <2>1. ~Writer(k) /\ (Overlap = "none" => op[k] = "none")
      BY <1>3 DEF OneWriter
    <2>2. vpc[k] \notin Updating \cup {"stop", "start", "localCheck"}
      BY <2>1 DEF MethodOf, Writer
    <2>3. UpdateProgress(k)'
      BY <2>1, <2>2 DEF UpdateProgress, Updating, Reading, Installing, Writer
    <2>4. RestartProgress(k)'
      BY <2>1, <2>2 DEF RestartProgress, Writer, MethodOf
    <2>5. Answers(k)'
      BY <2>1 DEF Answers, Finished, Writer
    <2> QED
      BY <1>1, <2>3, <2>4, <2>5
  <1> QED
    BY <1>2, <1>3

(* A writer, or any call when callers take turns, races with nobody.       *)
LEMMA NoRace ==
  ASSUME NEW h \in Handlers, SafeInv,
         Writer(h) \/ (Overlap = "none" /\ op[h] # "none")
  PROVE  \A x : /\ Racy(x, StoringVendor(h)) = {x}
                /\ Racy(x, StoringExit(h)) = {x}
  <1>1. ASSUME NEW g \in Handlers \ {h}
        PROVE  vpc[g] \notin {"setVendor", "setExit"}
    <2>1. ~Writer(g)
      BY DEF SafeInv, OneWriter
    <2> QED
      BY <2>1 DEF SafeInv, HandlerInv, MethodOf, Writer, Updating
  <1>2. StoringVendor(h) = {} /\ StoringExit(h) = {}
    BY <1>1 DEF StoringVendor, StoringExit
  <1> QED
    BY <1>2 DEF Racy, RacyWith

(* A step of a call keeps the invariant when it does so for its own part.  *)
LEMMA StepKeeps ==
  ASSUME NEW h \in Handlers, SafeInv, TypeInv', UNCHANGED <<konf, op>>,
         \A k \in Handlers \ {h} : Apart(k),
         Writer(h) \/ UNCHANGED <<vs, file, loaded>>,
         UpMeansLoaded', FileOk', HandlerInv(h)'
  PROVE  SafeInv'
  <1>1. \A k \in Handlers : HandlerInv(k)'
    BY OthersKeep
  <1>2. OneWriter'
    BY DEF SafeInv, OneWriter, Writer
  <1> QED
    BY <1>1, <1>2 DEF SafeInv

(* The statements of UpdateConfig keep the invariant.                      *)
LEMMA UpdateSafe ==
  ASSUME NEW h \in Handlers, SafeInv, TypeInv', UpdateStep(h), UNCHANGED konf
  PROVE  SafeInv'
  <1> USE DEF SafeInv, TypeInv, VpnTypeOK, Goto, Finish, router, params, work
  <1>w. Writer(h)
    BY DEF UpdateStep, SetVendor, SetExit, ReadTemplate, ReadServer, ReadVendor, RenderConfig,
       RenderFails, ConnectFails, BeginCopy, EndCopy, CopyNothing, CopyFails, Rename, RenameFails,
       HandlerInv, MethodOf, Writer, Updating, Reading, Installing
  <1>m. op[h] = "UpdateConfig"
    BY DEF UpdateStep, SetVendor, SetExit, ReadTemplate, ReadServer, ReadVendor, RenderConfig,
       RenderFails, ConnectFails, BeginCopy, EndCopy, CopyNothing, CopyFails, Rename, RenameFails,
       HandlerInv, MethodOf, Updating, Reading, Installing
  <1>s. ASSUME \A k \in Handlers \ {h} : Apart(k), UNCHANGED <<op, loaded, up>>,
               FileOk', MethodOf(h)', UpdateProgress(h)', Answers(h)'
        PROVE  SafeInv'
    <2>1. UpMeansLoaded'
      BY <1>s DEF UpMeansLoaded
    <2>2. RestartProgress(h)'
      BY <1>s, <1>m DEF RestartProgress, MethodOf
    <2> QED
      BY <1>s, <1>w, <2>1, <2>2, StepKeeps DEF HandlerInv
  <1>r. \A x : Racy(x, StoringVendor(h)) = {x} /\ Racy(x, StoringExit(h)) = {x}
    BY <1>w, NoRace
  <1>d. ASSUME vpc[h] \in Installing
        PROVE  /\ draft[h] = CfgFor(arg[h].vendor, arg[h].exit)
               /\ arg[h].vendor \in Vendors /\ arg[h].exit \in Exits
    BY <1>d, <1>m DEF HandlerInv, UpdateProgress
  <1>f. ASSUME vpc[h] \in Installing, file' \in {file, draft[h], Partial},
               file' = Partial => file = Partial \/ draft[h] = Partial \/ Ssh
        PROVE  FileOk'
    BY <1>d, <1>f, SentinelAssumption DEF FileOk, OneVendorPerConfig, CutMeansSsh, Ssh
  <1>1. CASE SetVendor(h)
    <2>1. (\A k \in Handlers \ {h} : Apart(k)) /\ UNCHANGED <<op, loaded, up>>
      BY <1>1 DEF SetVendor, Apart
    <2>2. FileOk'
      BY <1>1 DEF SetVendor, FileOk, OneVendorPerConfig, CutMeansSsh, Ssh, HandlerInv,
         UpdateProgress, Installing
    <2>3. MethodOf(h)'
      BY <1>1, <1>m DEF SetVendor, MethodOf, Updating, Reading, Installing, Ssh
    <2>4. UpdateProgress(h)'
      <3>1. vs' = [vs EXCEPT !.Vendor = arg[h].vendor] /\ UNCHANGED <<op, arg>>
        BY <1>1, <1>w, NoRace DEF SetVendor
      <3>2. vpc'[h] = "setExit"
        BY <1>1 DEF SetVendor
      <3> QED
        BY <3>1, <3>2 DEF HandlerInv, UpdateProgress, Reading, Installing
    <2>5. Answers(h)'
      BY <1>1, <1>m DEF SetVendor, Answers, Finished
    <2> QED
      BY <1>s, <2>1, <2>2, <2>3, <2>4, <2>5
  <1>2. CASE SetExit(h)
    <2>1. (\A k \in Handlers \ {h} : Apart(k)) /\ UNCHANGED <<op, loaded, up>>
      BY <1>2 DEF SetExit, Apart
    <2>2. FileOk'
      BY <1>2 DEF SetExit, FileOk, OneVendorPerConfig, CutMeansSsh, Ssh, HandlerInv,
         UpdateProgress, Installing
    <2>3. MethodOf(h)'
      BY <1>2, <1>m DEF SetExit, MethodOf, Updating, Reading, Installing, Ssh
    <2>4. UpdateProgress(h)'
      BY <1>2, <1>m, <1>w, NoRace DEF SetExit, HandlerInv, UpdateProgress, Reading, Installing, Ssh
    <2>5. Answers(h)'
      BY <1>2, <1>m DEF SetExit, Answers, Finished
    <2> QED
      BY <1>s, <2>1, <2>2, <2>3, <2>4, <2>5
  <1>3. CASE ReadTemplate(h)
    <2>1. (\A k \in Handlers \ {h} : Apart(k)) /\ UNCHANGED <<op, loaded, up>>
      BY <1>3 DEF ReadTemplate, Apart
    <2>2. FileOk'
      BY <1>3 DEF ReadTemplate, FileOk, OneVendorPerConfig, CutMeansSsh, Ssh, HandlerInv,
         UpdateProgress, Installing
    <2>3. MethodOf(h)'
      BY <1>3, <1>m DEF ReadTemplate, MethodOf, Updating, Reading, Installing, Ssh
    <2>4. UpdateProgress(h)'
      <3>1. draft' = [draft EXCEPT ![h].tmpl = vs.Vendor] /\ UNCHANGED <<op, arg, vs>>
        <4>1. PICK v \in Racy(vs.Vendor, StoringVendor(h)) :
                draft' = [draft EXCEPT ![h].tmpl = v]
          BY <1>3 DEF ReadTemplate
        <4>2. v = vs.Vendor
          BY <4>1, <1>r
        <4> QED
          BY <1>3, <4>1, <4>2 DEF ReadTemplate
      <3>2. vpc[h] = "readTemplate" /\ vpc'[h] = "readServer"
        BY <1>3 DEF ReadTemplate
      <3>3. draft'[h].tmpl = vs.Vendor
        BY <3>1 DEF Config
      <3> QED
        BY <3>1, <3>2, <3>3 DEF HandlerInv, UpdateProgress, Reading, Installing
    <2>5. Answers(h)'
      BY <1>3, <1>m DEF ReadTemplate, Answers, Finished
    <2> QED
      BY <1>s, <2>1, <2>2, <2>3, <2>4, <2>5
  <1>4. CASE ReadServer(h)
    <2>1. (\A k \in Handlers \ {h} : Apart(k)) /\ UNCHANGED <<op, loaded, up>>
      BY <1>4 DEF ReadServer, Apart
    <2>2. FileOk'
      BY <1>4 DEF ReadServer, FileOk, OneVendorPerConfig, CutMeansSsh, Ssh, HandlerInv,
         UpdateProgress, Installing
    <2>3. MethodOf(h)'
      BY <1>4, <1>m DEF ReadServer, MethodOf, Updating, Reading, Installing, Ssh
    <2>4. UpdateProgress(h)'
      <3>1. draft' = [draft EXCEPT ![h].server = vs.Exit] /\ UNCHANGED <<op, arg, vs>>
        <4>1. PICK e \in Racy(vs.Exit, StoringExit(h)) :
                draft' = [draft EXCEPT ![h].server = e]
          BY <1>4 DEF ReadServer
        <4>2. e = vs.Exit
          BY <4>1, <1>r
        <4> QED
          BY <1>4, <4>1, <4>2 DEF ReadServer
      <3>2. vpc[h] = "readServer" /\ vpc'[h] = "readVendor"
        BY <1>4 DEF ReadServer
      <3>3. draft'[h].server = vs.Exit /\ draft'[h].tmpl = draft[h].tmpl
        BY <3>1 DEF Config
      <3> QED
        BY <3>1, <3>2, <3>3 DEF HandlerInv, UpdateProgress, Reading, Installing
    <2>5. Answers(h)'
      BY <1>4, <1>m DEF ReadServer, Answers, Finished
    <2> QED
      BY <1>s, <2>1, <2>2, <2>3, <2>4, <2>5
  <1>5. CASE ReadVendor(h)
    <2>1. (\A k \in Handlers \ {h} : Apart(k)) /\ UNCHANGED <<op, loaded, up>>
      BY <1>5 DEF ReadVendor, Apart
    <2>2. FileOk'
      BY <1>5 DEF ReadVendor, FileOk, OneVendorPerConfig, CutMeansSsh, Ssh, HandlerInv,
         UpdateProgress, Installing
    <2>3. MethodOf(h)'
      BY <1>5, <1>m DEF ReadVendor, MethodOf, Updating, Reading, Installing, Ssh
    <2>4. UpdateProgress(h)'
      <3>1. draft' = [draft EXCEPT ![h].vendor = vs.Vendor] /\ UNCHANGED <<op, arg, vs>>
        <4>1. PICK v \in Racy(vs.Vendor, StoringVendor(h)) :
                draft' = [draft EXCEPT ![h].vendor = v]
          BY <1>5 DEF ReadVendor
        <4>2. v = vs.Vendor
          BY <4>1, <1>r
        <4> QED
          BY <1>5, <4>1, <4>2 DEF ReadVendor
      <3>2. vpc[h] = "readVendor" /\ vpc'[h] = "render"
        BY <1>5 DEF ReadVendor
      <3>3. /\ vs.Vendor = arg[h].vendor /\ vs.Exit = arg[h].exit
            /\ draft[h].server = arg[h].exit /\ draft[h].tmpl = arg[h].vendor
            /\ arg[h].vendor \in Vendors /\ arg[h].exit \in Exits
        BY <3>2, <1>m DEF HandlerInv, UpdateProgress, Reading
      <3>4. draft'[h] = CfgFor(arg[h].vendor, arg[h].exit)
        BY <3>1, <3>3 DEF CfgFor, Config
      <3> QED
        BY <3>1, <3>2, <3>3, <3>4 DEF UpdateProgress, Reading, Installing
    <2>5. Answers(h)'
      BY <1>5, <1>m DEF ReadVendor, Answers, Finished
    <2> QED
      BY <1>s, <2>1, <2>2, <2>3, <2>4, <2>5
  <1>6. CASE RenderConfig(h)
    <2>1. (\A k \in Handlers \ {h} : Apart(k)) /\ UNCHANGED <<op, loaded, up>>
      BY <1>6 DEF RenderConfig, Apart
    <2>2. FileOk'
      BY <1>6 DEF RenderConfig, FileOk, OneVendorPerConfig, CutMeansSsh, Ssh, HandlerInv,
         UpdateProgress, Installing
    <2>3. MethodOf(h)'
      BY <1>6, <1>m DEF RenderConfig, MethodOf, Updating, Reading, Installing, Ssh
    <2>4. UpdateProgress(h)'
      BY <1>6, <1>m DEF RenderConfig, HandlerInv, UpdateProgress, Reading, Installing, Ssh
    <2>5. Answers(h)'
      BY <1>6, <1>m DEF RenderConfig, Answers, Finished
    <2> QED
      BY <1>s, <2>1, <2>2, <2>3, <2>4, <2>5
  <1>7. CASE RenderFails(h)
    <2>1. (\A k \in Handlers \ {h} : Apart(k)) /\ UNCHANGED <<op, loaded, up>>
      BY <1>7 DEF RenderFails, Apart
    <2>2. FileOk'
      BY <1>7 DEF RenderFails, FileOk, OneVendorPerConfig, CutMeansSsh, Ssh, HandlerInv,
         UpdateProgress, Installing
    <2>3. MethodOf(h)'
      BY <1>7, <1>m DEF RenderFails, MethodOf, Updating, Reading, Installing, Ssh
    <2>4. UpdateProgress(h)'
      BY <1>7, <1>m DEF RenderFails, HandlerInv, UpdateProgress, Reading, Installing, Ssh
    <2>5. Answers(h)'
      BY <1>7, <1>m DEF RenderFails, Answers, Finished
    <2> QED
      BY <1>s, <2>1, <2>2, <2>3, <2>4, <2>5
  <1>8. CASE ConnectFails(h)
    <2>1. (\A k \in Handlers \ {h} : Apart(k)) /\ UNCHANGED <<op, loaded, up>>
      BY <1>8 DEF ConnectFails, Apart
    <2>2. FileOk'
      BY <1>8 DEF ConnectFails, FileOk, OneVendorPerConfig, CutMeansSsh, Ssh, HandlerInv,
         UpdateProgress, Installing
    <2>3. MethodOf(h)'
      BY <1>8, <1>m DEF ConnectFails, MethodOf, Updating, Reading, Installing, Ssh
    <2>4. UpdateProgress(h)'
      BY <1>8, <1>m DEF ConnectFails, HandlerInv, UpdateProgress, Reading, Installing, Ssh
    <2>5. Answers(h)'
      BY <1>8, <1>m DEF ConnectFails, Answers, Finished
    <2> QED
      BY <1>s, <2>1, <2>2, <2>3, <2>4, <2>5
  <1>9. CASE BeginCopy(h)
    <2>1. (\A k \in Handlers \ {h} : Apart(k)) /\ UNCHANGED <<op, loaded, up>>
      BY <1>9 DEF BeginCopy, Apart
    <2>2. FileOk'
      BY <1>9, <1>f DEF BeginCopy, Installing, HandlerInv, UpdateProgress
    <2>3. MethodOf(h)'
      BY <1>9, <1>m DEF BeginCopy, MethodOf, Updating, Reading, Installing, Ssh
    <2>4. UpdateProgress(h)'
      BY <1>9, <1>m DEF BeginCopy, HandlerInv, UpdateProgress, Reading, Installing, Ssh
    <2>5. Answers(h)'
      BY <1>9, <1>m DEF BeginCopy, Answers, Finished
    <2> QED
      BY <1>s, <2>1, <2>2, <2>3, <2>4, <2>5
  <1>10. CASE EndCopy(h)
    <2>1. (\A k \in Handlers \ {h} : Apart(k)) /\ UNCHANGED <<op, loaded, up>>
      BY <1>10 DEF EndCopy, Apart
    <2>2. FileOk'
      BY <1>10, <1>f DEF EndCopy, Installing, HandlerInv, UpdateProgress
    <2>3. MethodOf(h)'
      BY <1>10, <1>m DEF EndCopy, MethodOf, Updating, Reading, Installing, Ssh
    <2>4. UpdateProgress(h)'
      BY <1>10, <1>m DEF EndCopy, HandlerInv, UpdateProgress, Reading, Installing, Ssh
    <2>5. Answers(h)'
      <3>1. CopiedAlone(h)
        <4>1. file = Partial
          BY <1>10 DEF EndCopy, HandlerInv, UpdateProgress
        <4>2. \A g \in Handlers \ {h} : ~Writer(g)
          BY <1>w DEF OneWriter
        <4> QED
          BY <4>1, <4>2 DEF CopiedAlone, HandlerInv, MethodOf, Writer, Updating, Reading, Installing
      <3>2. file' = CfgFor(arg[h].vendor, arg[h].exit) /\ h \notin temps'
        BY <1>10, <1>d, <3>1 DEF EndCopy, Installing
      <3>3. vs'.Vendor = arg'[h].vendor /\ vs'.Exit = arg'[h].exit
        BY <1>10 DEF EndCopy, HandlerInv, UpdateProgress, Reading, Installing
      <3> QED
        BY <1>10, <1>m, <3>2, <3>3 DEF EndCopy, Answers, Finished, Installed, FileFor
    <2> QED
      BY <1>s, <2>1, <2>2, <2>3, <2>4, <2>5
  <1>14. CASE CopyNothing(h)
    <2>1. (\A k \in Handlers \ {h} : Apart(k)) /\ UNCHANGED <<op, loaded, up>>
      BY <1>14 DEF CopyNothing, Apart
    <2>2. FileOk'
      BY <1>14, <1>f DEF CopyNothing, Installing, HandlerInv, UpdateProgress
    <2>3. MethodOf(h)'
      BY <1>14, <1>m DEF CopyNothing, MethodOf, Updating, Reading, Installing, Ssh
    <2>4. UpdateProgress(h)'
      BY <1>14, <1>m DEF CopyNothing, HandlerInv, UpdateProgress, Reading, Installing, Ssh
    <2>5. Answers(h)'
      <3>1. file' = Partial /\ Fault("open") /\ h \notin temps'
        BY <1>14 DEF CopyNothing, HandlerInv, UpdateProgress
      <3>2. vs'.Vendor = arg'[h].vendor /\ vs'.Exit = arg'[h].exit
        BY <1>14 DEF CopyNothing, HandlerInv, UpdateProgress, Reading, Installing
      <3> QED
        BY <1>14, <1>m, <3>1, <3>2 DEF CopyNothing, Answers, Finished, Installed, FileFor, Fault
    <2> QED
      BY <1>s, <2>1, <2>2, <2>3, <2>4, <2>5
  <1>11. CASE CopyFails(h)
    <2>1. (\A k \in Handlers \ {h} : Apart(k)) /\ UNCHANGED <<op, loaded, up>>
      BY <1>11 DEF CopyFails, Apart
    <2>2. FileOk'
      BY <1>11, <1>f DEF CopyFails, Installing
    <2>3. MethodOf(h)'
      BY <1>11, <1>m DEF CopyFails, MethodOf, Updating, Reading, Installing, Ssh
    <2>4. UpdateProgress(h)'
      BY <1>11, <1>m DEF CopyFails, HandlerInv, UpdateProgress, Reading, Installing, Ssh
    <2>5. Answers(h)'
      BY <1>11, <1>m DEF CopyFails, Answers, Finished
    <2> QED
      BY <1>s, <2>1, <2>2, <2>3, <2>4, <2>5
  <1>12. CASE Rename(h)
    <2>1. (\A k \in Handlers \ {h} : Apart(k)) /\ UNCHANGED <<op, loaded, up>>
      BY <1>12 DEF Rename, Apart
    <2>2. FileOk'
      BY <1>12, <1>f DEF Rename, Installing
    <2>3. MethodOf(h)'
      BY <1>12, <1>m DEF Rename, MethodOf, Updating, Reading, Installing, Ssh
    <2>4. UpdateProgress(h)'
      BY <1>12, <1>m DEF Rename, HandlerInv, UpdateProgress, Reading, Installing, Ssh
    <2>5. Answers(h)'
      BY <1>12, <1>m DEF Rename, Answers, Finished, Installed, FileFor, HandlerInv,
         UpdateProgress, Reading, Installing
    <2> QED
      BY <1>s, <2>1, <2>2, <2>3, <2>4, <2>5
  <1>13. CASE RenameFails(h)
    <2>1. (\A k \in Handlers \ {h} : Apart(k)) /\ UNCHANGED <<op, loaded, up>>
      BY <1>13 DEF RenameFails, Apart
    <2>2. FileOk'
      BY <1>13 DEF RenameFails, FileOk, OneVendorPerConfig, CutMeansSsh, Ssh, HandlerInv,
         UpdateProgress, Installing
    <2>3. MethodOf(h)'
      BY <1>13, <1>m DEF RenameFails, MethodOf, Updating, Reading, Installing, Ssh
    <2>4. UpdateProgress(h)'
      BY <1>13, <1>m DEF RenameFails, HandlerInv, UpdateProgress, Reading, Installing, Ssh
    <2>5. Answers(h)'
      BY <1>13, <1>m DEF RenameFails, Answers, Finished
    <2> QED
      BY <1>s, <2>1, <2>2, <2>3, <2>4, <2>5
  <1> QED
    BY <1>1, <1>2, <1>3, <1>4, <1>5, <1>6, <1>7, <1>8, <1>9, <1>10, <1>11, <1>12, <1>13,
       <1>14 DEF UpdateStep

(* The commands of Restart change the daemon, and only a writer runs them. *)
LEMMA RestartSafe ==
  ASSUME NEW h \in Handlers, SafeInv, TypeInv', RestartStep(h), UNCHANGED konf
  PROVE  SafeInv'
  <1> USE DEF SafeInv, TypeInv, VpnTypeOK, Goto, Finish, router, params, work, RestartStep,
        StopDaemon, StopFails, StartDaemon, StartFails
  <1>m. op[h] = "Restart" /\ vpc[h] \in {"stop", "start"}
    BY DEF HandlerInv, MethodOf
  <1>w. Writer(h)
    BY <1>m DEF Writer
  <1>1. (\A k \in Handlers \ {h} : Apart(k)) /\ UNCHANGED <<op, vs, file>>
    BY DEF Apart
  <1>2. FileOk'
    BY <1>1 DEF FileOk, OneVendorPerConfig, CutMeansSsh, Ssh
  <1>3. UpMeansLoaded'
    BY SentinelAssumption DEF DaemonStarts, UpMeansLoaded
  <1>4. MethodOf(h)'
    BY <1>m DEF MethodOf, Updating, Reading, Installing
  <1>5. UpdateProgress(h)'
    BY <1>m DEF UpdateProgress, Reading, Installing
  <1>6. RestartProgress(h)'
    BY <1>m DEF RestartProgress, HandlerInv, DaemonStarts, Ssh
  <1>7. Answers(h)'
    BY <1>m DEF Answers, Finished
  <1> QED
    BY <1>w, <1>1, <1>2, <1>3, <1>4, <1>5, <1>6, <1>7, StepKeeps DEF HandlerInv

(* A step that leaves the server, the file, the daemon and the tunnel      *)
(* alone has only the part of its own call to answer for.                  *)
LEMMA ReadOnlyKeeps ==
  ASSUME NEW h \in Handlers, SafeInv, TypeInv',
         UNCHANGED <<konf, op, vs, file, loaded, up>>,
         \A k \in Handlers \ {h} : Apart(k),
         MethodOf(h)', UpdateProgress(h)', RestartProgress(h)', Answers(h)'
  PROVE  SafeInv'
  <1>1. FileOk' /\ UpMeansLoaded'
    BY DEF SafeInv, FileOk, OneVendorPerConfig, CutMeansSsh, Ssh, UpMeansLoaded
  <1> QED
    BY <1>1, StepKeeps DEF HandlerInv

(* A check that found r, with a poll or an answer to follow.               *)
LEMMA CheckedSafe ==
  ASSUME NEW h \in Handlers, SafeInv, TypeInv', NEW r \in {"True", "False", "Maybe"},
         vpc[h] \in {"renderCheck", "execCheck", "localCheck"},
         Checked(h, r), UNCHANGED <<konf, vs, router, params, draft, cmd, temps>>,
         r = "True" => (vpc[h] = "localCheck" \/ (vpc[h] = "execCheck" /\ Established(cmd[h])))
  PROVE  SafeInv'
  <1> USE DEF SafeInv, TypeInv, VpnTypeOK, Goto, Finish, router, params
  <1>m. op[h] \in {"Restart", "IsUp"} /\ (vpc[h] = "localCheck" => op[h] = "Restart")
    BY DEF HandlerInv, MethodOf
  <1>1. CASE vpc' = [vpc EXCEPT ![h] = "done"] /\ ret' = [ret EXCEPT ![h] = r] /\ op[h] = "IsUp"
    <2>1. \A k \in Handlers \ {h} : Apart(k)
      BY <1>1 DEF Apart
    <2>2. MethodOf(h)' /\ UpdateProgress(h)' /\ RestartProgress(h)'
      BY <1>1, <1>m DEF MethodOf, UpdateProgress, RestartProgress, Updating, Reading, Installing
    <2>3. Answers(h)'
      BY <1>1, <1>m DEF Answers, Finished, RunsVendor, Established, HandlerInv, RestartProgress,
         UpMeansLoaded
    <2> QED
      BY <2>1, <2>2, <2>3, ReadOnlyKeeps
  <1>2. CASE /\ vpc' = [vpc EXCEPT ![h] = "done"] /\ ret' = [ret EXCEPT ![h] = "ok"]
             /\ op[h] = "Restart" /\ r = "True"
    <2>1. \A k \in Handlers \ {h} : Apart(k)
      BY <1>2 DEF Apart
    <2>2. MethodOf(h)' /\ UpdateProgress(h)' /\ RestartProgress(h)'
      BY <1>2, <1>m DEF MethodOf, UpdateProgress, RestartProgress, Updating, Reading, Installing
    <2>3. Answers(h)'
      BY <1>2, <1>m DEF Answers, Finished, RunsVendor, Established, HandlerInv, RestartProgress,
         UpMeansLoaded, Ssh
    <2> QED
      BY <2>1, <2>2, <2>3, ReadOnlyKeeps
  <1>3. CASE /\ vpc' = [vpc EXCEPT ![h] = "done"] /\ ret' = [ret EXCEPT ![h] = "error"]
             /\ op[h] = "Restart"
    <2>1. \A k \in Handlers \ {h} : Apart(k)
      BY <1>3 DEF Apart
    <2>2. MethodOf(h)' /\ UpdateProgress(h)' /\ RestartProgress(h)'
      BY <1>3, <1>m DEF MethodOf, UpdateProgress, RestartProgress, Updating, Reading, Installing
    <2>3. Answers(h)'
      BY <1>3, <1>m DEF Answers, Finished
    <2> QED
      BY <2>1, <2>2, <2>3, ReadOnlyKeeps
  <1>4. CASE /\ vpc' = [vpc EXCEPT ![h] = IF Ssh THEN "renderCheck" ELSE "localCheck"]
             /\ UNCHANGED ret /\ op[h] = "Restart"
    <2>1. \A k \in Handlers \ {h} : Apart(k)
      BY <1>4 DEF Apart
    <2>2. MethodOf(h)' /\ UpdateProgress(h)'
      BY <1>4, <1>m DEF MethodOf, UpdateProgress, Updating, Reading, Installing
    <2>3. RestartProgress(h)'
      BY <1>4, <1>m DEF RestartProgress, HandlerInv, Ssh
    <2>4. Answers(h)'
      BY <1>4, <1>m DEF Answers, Finished
    <2> QED
      BY <2>1, <2>2, <2>3, <2>4, ReadOnlyKeeps
  <1> QED
    BY <1>m, <1>1, <1>2, <1>3, <1>4 DEF Checked, PollOf

(* The checks, and Status, only read.                                      *)
LEMMA CheckSafe ==
  ASSUME NEW h \in Handlers, SafeInv, TypeInv', CheckStep(h), UNCHANGED konf
  PROVE  SafeInv'
  <1> USE DEF SafeInv, TypeInv, VpnTypeOK, Goto, Finish, router, params, work
  <1>1. CASE RenderCheck(h)
    <2>m. op[h] \in {"Restart", "IsUp"}
      BY <1>1 DEF RenderCheck, HandlerInv, MethodOf
    <2>1. (\A k \in Handlers \ {h} : Apart(k)) /\ UNCHANGED <<op, vs, file, loaded, up>>
      BY <1>1 DEF RenderCheck, Apart
    <2>2. MethodOf(h)' /\ UpdateProgress(h)' /\ Answers(h)'
      BY <1>1, <2>m DEF RenderCheck, MethodOf, UpdateProgress, Answers, Finished, Updating,
         Reading, Installing
    <2>3. ASSUME op[h] = "Restart" \/ Overlap = "none" PROVE cmd'[h] = vs.Vendor
      <3>1. PICK v \in Racy(vs.Vendor, StoringVendor(h)) : cmd' = [cmd EXCEPT ![h] = v]
        BY <1>1 DEF RenderCheck
      <3>a. Writer(h) \/ (Overlap = "none" /\ op[h] # "none")
        BY <2>3, <2>m DEF Writer
      <3>b. \A x : Racy(x, StoringVendor(h)) = {x}
        BY <3>a, NoRace
      <3>2. v = vs.Vendor
        BY <3>1, <3>b
      <3> QED
        BY <3>1, <3>2
    <2>4. RestartProgress(h)'
      BY <1>1, <2>3 DEF RenderCheck, RestartProgress, HandlerInv
    <2> QED
      BY <2>1, <2>2, <2>4, ReadOnlyKeeps
  <1>2. CASE RenderCheckFails(h)
    BY <1>2, CheckedSafe DEF RenderCheckFails
  <1>3. CASE ExecCheck(h)
    BY <1>3, CheckedSafe DEF ExecCheck
  <1>4. CASE ExecCheckFails(h)
    BY <1>4, CheckedSafe DEF ExecCheckFails
  <1>5. CASE LocalCheck(h)
    BY <1>5, CheckedSafe DEF LocalCheck
  <1>6. CASE RenderStatus(h) \/ ExecStatus(h) \/ StatusFails(h)
    <2>m. op[h] = "Status"
      BY <1>6 DEF RenderStatus, ExecStatus, StatusFails, HandlerInv, MethodOf
    <2>1. (\A k \in Handlers \ {h} : Apart(k)) /\ UNCHANGED <<op, vs, file, loaded, up>>
      BY <1>6 DEF RenderStatus, ExecStatus, StatusFails, Apart
    <2>2. MethodOf(h)' /\ UpdateProgress(h)'
      BY <1>6, <2>m DEF RenderStatus, ExecStatus, StatusFails, MethodOf, UpdateProgress,
         Updating, Reading, Installing
    <2>3. RestartProgress(h)' /\ Answers(h)'
      BY <1>6, <2>m DEF RenderStatus, ExecStatus, StatusFails, RestartProgress, Answers, Finished
    <2> QED
      BY <2>1, <2>2, <2>3, ReadOnlyKeeps
  <1> QED
    BY <1>1, <1>2, <1>3, <1>4, <1>5, <1>6 DEF CheckStep

(* Connecting, and the panics, only move the call on.                      *)
LEMMA SessionSafe ==
  ASSUME NEW h \in Handlers, SafeInv, TypeInv', SessionStep(h), UNCHANGED konf
  PROVE  SafeInv'
  <1> USE DEF SafeInv, TypeInv, VpnTypeOK, Goto, Finish, router, params, work, SessionStep,
        NilServer, Dial, DialFails, LoseSession
  <1>1. (\A k \in Handlers \ {h} : Apart(k)) /\ UNCHANGED <<op, vs, file, loaded, up>>
    BY DEF Apart
  <1>2. CASE Dial(h)
    <2>1. MethodOf(h)'
      BY <1>2 DEF HandlerInv, MethodOf, FirstStep, Updating, Reading, Installing, Methods
    <2>2. vpc'[h] \in {"stop", "renderCheck", "renderStatus"} /\ op[h] # "UpdateConfig"
          /\ (vpc'[h] = "renderCheck" => op[h] # "Restart")
      BY <1>2 DEF FirstStep, HandlerInv, MethodOf
    <2>3. UpdateProgress(h)' /\ RestartProgress(h)' /\ Answers(h)'
      BY <1>1, <2>2 DEF UpdateProgress, RestartProgress, Answers, Finished, Reading, Installing
    <2> QED
      BY <1>1, <2>1, <2>3, ReadOnlyKeeps
  <1>3. CASE NilServer(h) \/ DialFails(h) \/ LoseSession(h)
    <2>1. vpc'[h] = "done" /\ ret'[h] = "panic" /\ UNCHANGED arg /\ op[h] # "none"
      BY <1>3 DEF HandlerInv, MethodOf
    <2>2. MethodOf(h)' /\ RestartProgress(h)' /\ Answers(h)'
      BY <1>1, <2>1 DEF MethodOf, RestartProgress, Answers, Finished, Updating, Reading,
         Installing
    <2>3. UpdateProgress(h)'
      BY <1>1, <2>1 DEF UpdateProgress, HandlerInv, Reading, Installing
    <2> QED
      BY <1>1, <2>2, <2>3, ReadOnlyKeeps
  <1> QED
    BY <1>2, <1>3

(* A call starts only where MayCall lets it: the writer stays alone.       *)
LEMMA CallSafe ==
  ASSUME NEW h \in Handlers, NEW o \in Methods,
         NEW a \in [vendor : VendorName, exit : ExitName],
         o = "UpdateConfig" => a.vendor \in Vendors /\ a.exit \in Exits,
         Overlap # "all", SafeInv, TypeInv', Call(h, o, a), UNCHANGED konf
  PROVE  SafeInv'
  <1> USE DEF SafeInv, TypeInv, VpnTypeOK, Goto, router, Call
  <1>1. \A k \in Handlers \ {h} : Apart(k)
    BY DEF Apart, FreshLocals
  <1>2. UNCHANGED <<vs, file, loaded, up>>
    OBVIOUS
  <1>3. \A k \in Handlers \ {h} : HandlerInv(k)'
    BY <1>1, <1>2, OthersKeep
  <1>4. vpc'[h] = Entry(o) /\ op'[h] = o /\ arg'[h] = a
    OBVIOUS
  <1>5. \/ o = "UpdateConfig" /\ Entry(o) \in {"nil", "setVendor"}
        \/ o = "Restart" /\ Entry(o) \in {"nil", "dial", "stop"}
        \/ o = "IsUp" /\ Entry(o) \in {"nil", "dial", "renderCheck"}
        \/ o = "Status" /\ Entry(o) \in {"nil", "dial", "renderStatus"}
    <2>1. CASE o = "UpdateConfig"
      BY <2>1 DEF Entry
    <2>2. CASE o # "UpdateConfig"
      BY <2>2 DEF Entry, FirstStep, Methods
    <2> QED
      BY <2>1, <2>2
  <1>6. HandlerInv(h)'
    BY <1>4, <1>5 DEF HandlerInv, MethodOf, UpdateProgress, RestartProgress, Answers, Finished,
       Updating, Reading, Installing
  <1>7. ASSUME NEW g \in Handlers, NEW k \in Handlers, g # k, Writer(g)'
        PROVE  ~Writer(k)' /\ (Overlap' = "none" => op'[k] = "none")
    <2>1. CASE g # h /\ k # h
      BY <1>7, <2>1 DEF OneWriter, Writer
    <2>2. CASE g = h
      <3>1. o \notin Readers
        BY <1>4, <1>7, <2>2 DEF Writer, Readers
      <3>2. vpc[k] = "idle" \/ (Overlap = "readers" /\ op[k] \in Readers)
        BY <1>7, <2>2, <3>1, OverlapAssumption DEF MayCall
      <3>3. op'[k] = op[k] /\ (vpc[k] = "idle" => op[k] = "none")
        BY <1>7, <2>2 DEF HandlerInv, MethodOf
      <3> QED
        BY <3>2, <3>3 DEF Writer, Readers
    <2>3. CASE k = h
      <3>1. op'[g] = op[g] /\ Writer(g) /\ vpc[g] # "idle"
        BY <1>7, <2>3 DEF HandlerInv, MethodOf, Writer
      <3>2. Overlap = "readers" /\ o \in Readers
        BY <1>7, <2>3, <3>1 DEF MayCall, Readers, Writer
      <3> QED
        BY <1>4, <2>3, <3>2 DEF Writer, Readers
    <2> QED
      BY <2>1, <2>2, <2>3
  <1>8. OneWriter'
    BY <1>7 DEF OneWriter
  <1>9. FileOk' /\ UpMeansLoaded'
    BY <1>2 DEF FileOk, OneVendorPerConfig, CutMeansSsh, Ssh, UpMeansLoaded
  <1> QED
    BY <1>3, <1>6, <1>8, <1>9

(* A call that is over leaves the others as they were.                     *)
LEMMA ReturnSafe ==
  ASSUME NEW h \in Handlers, SafeInv, TypeInv', Return(h), UNCHANGED konf
  PROVE  SafeInv'
  <1> USE DEF SafeInv, TypeInv, VpnTypeOK, router, Return
  <1>1. \A k \in Handlers \ {h} : Apart(k)
    BY DEF Apart, FreshLocals
  <1>2. UNCHANGED <<vs, file, loaded, up>>
    OBVIOUS
  <1>3. \A k \in Handlers \ {h} : HandlerInv(k)'
    BY <1>1, <1>2, OthersKeep
  <1>4. vpc'[h] = "idle" /\ op'[h] = "none"
    OBVIOUS
  <1>5. HandlerInv(h)'
    BY <1>4 DEF HandlerInv, MethodOf, UpdateProgress, RestartProgress, Answers, Finished,
       Updating, Reading, Installing
  <1>6. OneWriter'
    BY <1>1, <1>4 DEF OneWriter, Writer, Apart
  <1>7. FileOk' /\ UpMeansLoaded'
    BY <1>2 DEF FileOk, OneVendorPerConfig, CutMeansSsh, Ssh, UpMeansLoaded
  <1> QED
    BY <1>3, <1>5, <1>6, <1>7

(* What the invariant says of calls and files does not depend on the rest. *)
LEMMA UnchangedKeeps ==
  ASSUME SafeInv, UNCHANGED <<konf, vs, file, loaded, vpc, ret, op, arg, draft, cmd, temps>>
  PROVE  /\ \A k \in Handlers : HandlerInv(k)'
         /\ OneWriter' /\ FileOk'
  <1>1. ASSUME NEW k \in Handlers PROVE HandlerInv(k)'
    <2> USE DEF SafeInv, HandlerInv
    <2>1. MethodOf(k)'
      BY DEF MethodOf
    <2>2. UpdateProgress(k)'
      BY DEF UpdateProgress, Ssh
    <2>3. RestartProgress(k)'
      BY DEF RestartProgress, Ssh
    <2>4. Answers(k)'
      BY DEF Answers, Finished, Installed, FileFor, RunsVendor, Ssh
    <2> QED
      BY <2>1, <2>2, <2>3, <2>4
  <1>2. OneWriter' /\ FileOk'
    BY DEF SafeInv, OneWriter, Writer, FileOk, OneVendorPerConfig, CutMeansSsh, Ssh
  <1> QED
    BY <1>1, <1>2

(* The tunnel comes and goes without touching the files.                   *)
LEMMA TunnelSafe ==
  ASSUME SafeInv, TypeInv', Tunnel
  PROVE  SafeInv'
  <1> USE DEF Tunnel, Establish, Drop, params, work
  <1>1. UNCHANGED <<konf, vs, file, loaded, vpc, ret, op, arg, draft, cmd, temps>>
    OBVIOUS
  <1>2. UpMeansLoaded'
    BY DEF SafeInv, UpMeansLoaded
  <1> QED
    BY <1>1, <1>2, UnchangedKeeps DEF SafeInv

(* With no call in progress only the router has something to keep.         *)
LEMMA QuietSafe ==
  ASSUME TypeInv, UpMeansLoaded, FileOk,
         \A h \in Handlers : vpc[h] = "idle" /\ op[h] = "none"
  PROVE  SafeInv
  <1>1. OneWriter
    BY DEF OneWriter, Writer
  <1>2. \A k \in Handlers : HandlerInv(k)
    BY DEF HandlerInv, MethodOf, UpdateProgress, RestartProgress, Answers, Finished,
       Updating, Reading, Installing
  <1> QED
    BY <1>1, <1>2 DEF SafeInv

(* At program start, whatever an earlier life left on the router.          *)
LEMMA InitSafe == VpnInit => SafeInv
  <1> SUFFICES ASSUME VpnInit PROVE SafeInv
    OBVIOUS
  <1>1. TypeInv
    BY InitTypeInv
  <1>2. UpMeansLoaded
    BY Zenon DEF VpnInit, UpMeansLoaded
  <1>3. FileOk
    <2>1. \A v \in Vendors, e \in Exits : CfgFor(v, e) # Partial
      BY SentinelAssumption, ConfigOfOneVendor
    <2>2. OneVendorPerConfig
      BY SentinelAssumption DEF VpnInit, OneVendorPerConfig
    <2>3. CutMeansSsh
      BY <2>1, SentinelAssumption DEF VpnInit, CutMeansSsh
    <2> QED
      BY <2>2, <2>3 DEF FileOk
  <1>4. \A h \in Handlers : vpc[h] = "idle" /\ op[h] = "none"
    BY DEF VpnInit, NoCalls, All
  <1> QED
    BY <1>1, <1>2, <1>3, <1>4, QuietSafe

(* After a crash, the same.                                                *)
LEMMA CrashSafe ==
  ASSUME SafeInv, TypeInv', VpnCrash, UNCHANGED konf
  PROVE  SafeInv'
  <1>1. UNCHANGED <<file, loaded, up>>
    BY DEF VpnCrash, router
  <1>2. UpMeansLoaded' /\ FileOk'
    BY <1>1 DEF SafeInv, UpMeansLoaded, FileOk, OneVendorPerConfig, CutMeansSsh, Ssh
  <1>3. OneWriter'
    BY DEF VpnCrash, All, OneWriter, Writer
  <1>4. \A k \in Handlers : HandlerInv(k)'
    BY DEF VpnCrash, All, HandlerInv, MethodOf, UpdateProgress, RestartProgress, Answers,
       Finished, Updating, Reading, Installing
  <1> QED
    BY <1>2, <1>3, <1>4 DEF SafeInv

(* Every step keeps the invariant.                                         *)
LEMMA NextSafe ==
  ASSUME Overlap # "all", SafeInv, [VpnNext]_vpnVars
  PROVE  SafeInv'
  <1>1. TypeInv'
    BY NextTypeInv DEF SafeInv
  <1>2. ASSUME NEW h \in Handlers, VpnStep(h) PROVE SafeInv'
    BY <1>1, <1>2, UpdateSafe, RestartSafe, CheckSafe, SessionSafe DEF VpnStep
  <1>3. ASSUME NEW h \in Handlers, VpnCalls(h) PROVE SafeInv'
    <2>1. ASSUME NEW v \in Vendors, NEW e \in Exits, UpdateConfig(h, v, e) PROVE SafeInv'
      <3>1. [vendor |-> v, exit |-> e] \in [vendor : VendorName, exit : ExitName]
        BY DEF VendorName, ExitName
      <3>2. UNCHANGED konf
        BY <1>3 DEF VpnCalls
      <3> QED
        BY <1>1, <2>1, <3>1, <3>2, CallSafe DEF UpdateConfig, Methods
    <2>2. ASSUME Restart(h) \/ IsUp(h) \/ Status(h) PROVE SafeInv'
      <3>1. arg[h] \in [vendor : VendorName, exit : ExitName]
        BY DEF SafeInv, TypeInv, VpnTypeOK
      <3>2. UNCHANGED konf
        BY <1>3 DEF VpnCalls
      <3> QED
        BY <1>1, <2>2, <3>1, <3>2, CallSafe DEF Restart, IsUp, Status, Methods
    <2> QED
      BY <1>1, <1>3, <2>1, <2>2, ReturnSafe DEF VpnCalls
  <1>4. CASE Tunnel
    BY <1>1, <1>4, TunnelSafe
  <1>5. CASE VpnCrash /\ UNCHANGED konf
    BY <1>1, <1>5, CrashSafe
  <1>6. CASE UNCHANGED vpnVars
    BY <1>1, <1>6, UnchangedKeeps DEF vpnVars, SafeInv, UpMeansLoaded
  <1> QED
    BY <1>2, <1>3, <1>4, <1>5, <1>6 DEF VpnNext

(* The invariant always holds, unless calls overlap without limit.         *)
THEOREM AlwaysSafe ==
  ASSUME Overlap # "all"
  PROVE  VpnSpec => []SafeInv
  <1>1. SafeInv /\ [VpnNext]_vpnVars => SafeInv'
    BY NextSafe
  <1> QED
    BY <1>1, InitSafe, PTL DEF VpnSpec

(* At most one call writes, and what it has done so far is what it says.   *)
THEOREM WriterInvariant ==
  ASSUME Overlap # "all"
  PROVE  VpnSpec => []WriterInv
  <1>1. SafeInv => WriterInv
    BY DEF SafeInv, FileOk, WriterInv, HandlerInv
  <1> QED
    BY <1>1, AlwaysSafe, PTL

(* A successful UpdateConfig has installed exactly what it was asked for,  *)
(* for any number of goroutines, vendors, exits and failures, with readers *)
(* running at any time.                                                    *)
THEOREM UpdateInstalls ==
  ASSUME Overlap # "all"
  PROVE  VpnSpec => []InstalledAsAsked
  <1>1. SafeInv => InstalledAsAsked
    BY DEF SafeInv, FileOk, InstalledAsAsked, HandlerInv, Answers
  <1> QED
    BY <1>1, AlwaysSafe, PTL

(* The configuration file never mixes two vendors.                         *)
THEOREM FileOfOneVendor ==
  ASSUME Overlap # "all"
  PROVE  VpnSpec => []OneVendorPerConfig
  <1>1. SafeInv => OneVendorPerConfig
    BY DEF SafeInv, FileOk
  <1> QED
    BY <1>1, AlwaysSafe, PTL

(* A successful Restart runs the installed file: no old daemon passes for  *)
(* the new one, whichever command failed before.                           *)
THEOREM RestartLoadsFile ==
  ASSUME Overlap # "all"
  PROVE  VpnSpec => []RestartRunsFile
  <1>1. SafeInv => RestartRunsFile
    BY DEF SafeInv, RestartRunsFile, HandlerInv, Answers
  <1> QED
    BY <1>1, AlwaysSafe, PTL

(* When callers take turns, a positive IsUp is about the server's vendor.  *)
THEOREM IsUpSpeaksOfVendor ==
  ASSUME Overlap = "none"
  PROVE  VpnSpec => []PositiveAnswer
  <1>1. SafeInv => PositiveAnswer
    BY DEF SafeInv, PositiveAnswer, HandlerInv, Answers
  <1>2. Overlap # "all"
    OBVIOUS
  <1> QED
    BY <1>1, <1>2, AlwaysSafe, PTL
=============================================================================

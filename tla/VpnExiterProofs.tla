-------------------------- MODULE VpnExiterProofs --------------------------
(* Theorems about VpnExiter: the web service uses the VpnServer only as    *)
(* module VpnServer says callers do, so what is proved there holds here.   *)
EXTENDS VpnExiter, VpnServerProofs, SequenceTheorems

(* A step of a handler is a call, the end of a call, or no step at all, of *)
(* the VpnServer.                                                          *)
LEMMA HandlerStepIsCall ==
  ASSUME NEW h \in Handlers, HandlerStep(h)
  PROVE  VpnCalls(h) \/ UNCHANGED vpnVars
  <1> USE DEF vpnState, vpnVars, router, params, work
  <1>1. CASE Updated(h) \/ SaveVendor(h) \/ SaveExit(h) \/ MarkDown(h)
    BY <1>1 DEF HandlerStep, Updated, SaveVendor, SaveExit, MarkDown, SetConnected
  <1>2. CASE RestartOrFail(h)
    BY <1>2 DEF HandlerStep, RestartOrFail, VpnCalls
  <1>3. CASE Restarted(h)
    BY <1>3 DEF HandlerStep, Restarted, VpnCalls
  <1>4. CASE Fetched(h, "fetch", "locate") \/ Fetched(h, "read", "show")
    BY <1>4 DEF HandlerStep, Fetched
  <1>5. CASE Locate(h) \/ SetPath(h, "path", "append") \/ SetPath(h, "append", "up")
    BY <1>5 DEF HandlerStep, Locate, SetPath
  <1>6. CASE MarkUp(h) \/ Redirect(h) \/ CheckPanics(h) \/ NoteState(h)
    BY <1>6 DEF HandlerStep, MarkUp, Redirect, CheckPanics, NoteState, SetConnected
  <1>7. CASE NoteWord(h)
    BY <1>7 DEF HandlerStep, NoteWord, VpnCalls
  <1>8. CASE Respond(h)
    BY <1>8 DEF HandlerStep, Respond, VpnCalls
  <1> QED
    BY <1>1, <1>2, <1>3, <1>4, <1>5, <1>6, <1>7, <1>8 DEF HandlerStep

(* A request begins with a call, or with none.                             *)
LEMMA RequestIsCall ==
  ASSUME NEW h \in Handlers, Request(h)
  PROVE  VpnCalls(h) \/ UNCHANGED vpnVars
  <1>1. CASE \E v \in Vendors, e \in Exits : SelectExit(h, v, e)
    BY <1>1 DEF Request, SelectExit, VpnCalls
  <1>2. CASE \E forced \in BOOLEAN : StatusPage(h, forced)
    BY <1>2 DEF Request, StatusPage, VpnCalls, vpnState, vpnVars, router, params, work
  <1> QED
    BY <1>1, <1>2 DEF Request

(* Every step of the service is a step of the vpn package, or leaves it    *)
(* alone.                                                                  *)
LEMMA NextIsVpnNext == [Next]_vars => [VpnNext]_vpnVars
  <1> SUFFICES ASSUME [Next]_vars PROVE [VpnNext]_vpnVars
    OBVIOUS
  <1>1. CASE \E h \in Handlers : Request(h) \/ HandlerStep(h)
    BY <1>1, RequestIsCall, HandlerStepIsCall DEF VpnNext
  <1>2. CASE (\E h \in Handlers : VpnStep(h)) \/ Tunnel
    BY <1>2 DEF VpnNext
  <1>3. CASE LoadVendors /\ UNCHANGED konf
    BY <1>3 DEF LoadVendors, vpnState, vpnVars, router, params, work
  <1>4. CASE Crash /\ UNCHANGED konf
    BY <1>4 DEF Crash, VpnNext
  <1>5. CASE UNCHANGED vars
    BY <1>5 DEF vars
  <1> QED
    BY <1>1, <1>2, <1>3, <1>4, <1>5 DEF Next

(* The web service implements the specification of VpnServer: whatever     *)
(* requests overlap, its handlers call the server as callers may.          *)
THEOREM ServiceImplementsVpnServer == Spec => VpnSpec
  <1>1. Init => VpnInit
    BY DEF Init
  <1> QED
    BY <1>1, NextIsVpnNext, PTL DEF Spec, VpnSpec

(* In the service, unless SelectExit requests overlap, the configuration   *)
(* file never mixes two vendors; a successful UpdateConfig has installed   *)
(* what it was asked for, or over ssh and only when the temporary file did *)
(* not open a file cut short; and a successful Restart runs the file, over *)
(* ssh a whole one, however many status pages are served meanwhile.        *)
THEOREM ServiceSwitchesSafely ==
  ASSUME Overlap # "all"
  PROVE  Spec => [](OneVendorPerConfig /\ InstalledAsAsked /\ RestartRunsFile)
  BY ServiceImplementsVpnServer, FileOfOneVendor, UpdateInstalls, RestartLoadsFile, PTL

-----------------------------------------------------------------------------
(* Safety of a switch, unless SelectExit requests overlap.                 *)

ServiceInv == SafeInv /\ TypeOK /\ SwitchInv

(* What a statement of a call by h does, as far as the handlers care.      *)
StepEffect(h) ==
  /\ UNCHANGED <<op, arg>>
  /\ vpc[h] \notin {"idle", "done"} /\ vpc'[h] # "idle"
  /\ \A k \in Handlers \ {h} : vpc'[k] = vpc[k] /\ ret'[k] = ret[k]
  /\ ResultOf(h)'
  /\ Writer(h) \/ UNCHANGED <<vs, file, loaded>>
  /\ op[h] = "Restart" => UNCHANGED <<vs, file>>
  /\ \/ loaded' = loaded
     \/ op[h] = "Restart" /\ (loaded' = NoConfig \/ (loaded = NoConfig /\ loaded' = file))

(* A check ends a poll of Restart or answers IsUp.                         *)
LEMMA CheckedEffect ==
  ASSUME NEW h \in Handlers, VpnTypeOK, MethodOf(h), NEW r \in Tribool,
         vpc[h] \in {"renderCheck", "execCheck", "localCheck"},
         Checked(h, r), UNCHANGED <<vs, file, loaded, op, arg>>
  PROVE  StepEffect(h)
  <1>1. op[h] \in {"Restart", "IsUp"}
    BY DEF MethodOf
  <1> QED
    BY <1>1 DEF VpnTypeOK, StepEffect, ResultOf, Checked, PollOf,
       Goto, Finish, Tribool

(* Every statement of a call has only the effects listed.                  *)
LEMMA VpnStepEffect ==
  ASSUME NEW h \in Handlers, VpnTypeOK, MethodOf(h), VpnStep(h)
  PROVE  StepEffect(h)
  <1> USE DEF StepEffect, ResultOf, Goto, Finish, router, params, work
  <1>t. VpnTypeOK /\ MethodOf(h)
    OBVIOUS
  <1>1. CASE SetVendor(h) \/ SetExit(h)
    BY <1>t, <1>1 DEF SetVendor, SetExit, VpnTypeOK, MethodOf, Updating, Writer
  <1>2. CASE ReadTemplate(h) \/ ReadServer(h) \/ ReadVendor(h)
    BY <1>t, <1>2 DEF ReadTemplate, ReadServer, ReadVendor, VpnTypeOK
  <1>3. CASE RenderConfig(h) \/ RenderFails(h)
    BY <1>t, <1>3 DEF RenderConfig, RenderFails, VpnTypeOK, MethodOf, Updating,
       Reading, Installing
  <1>4. CASE ConnectFails(h) \/ BeginCopy(h) \/ EndCopy(h) \/ CopyNothing(h) \/ CopyFails(h)
    BY <1>t, <1>4 DEF ConnectFails, BeginCopy, EndCopy, CopyNothing, CopyFails, VpnTypeOK,
       MethodOf, Updating, Reading, Installing, Writer
  <1>5. CASE Rename(h) \/ RenameFails(h)
    BY <1>t, <1>5 DEF Rename, RenameFails, VpnTypeOK, MethodOf,
       Updating, Reading, Installing, Writer
  <1>6. CASE StopDaemon(h) \/ StopFails(h)
    BY <1>t, <1>6 DEF StopDaemon, StopFails, VpnTypeOK, MethodOf, Writer
  <1>7. CASE StartDaemon(h) \/ StartFails(h)
    BY <1>t, <1>7 DEF StartDaemon, StartFails, DaemonStarts, VpnTypeOK, MethodOf, Writer
  <1>8. CASE RenderCheck(h) \/ RenderStatus(h)
    BY <1>t, <1>8 DEF RenderCheck, RenderStatus, VpnTypeOK
  <1>9. CASE RenderCheckFails(h) \/ ExecCheck(h) \/ ExecCheckFails(h) \/ LocalCheck(h)
    <2>1. \E r \in Tribool : Checked(h, r)
      BY <1>9 DEF RenderCheckFails, ExecCheck, ExecCheckFails, LocalCheck, Tribool
    <2>2. vpc[h] \in {"renderCheck", "execCheck", "localCheck"}
      BY <1>9 DEF RenderCheckFails, ExecCheck, ExecCheckFails, LocalCheck
    <2>3. UNCHANGED <<vs, file, loaded, op, arg>>
      BY <1>9 DEF RenderCheckFails, ExecCheck, ExecCheckFails, LocalCheck
    <2> QED
      BY <2>1, <2>2, <2>3, CheckedEffect
  <1>10. CASE ExecStatus(h) \/ StatusFails(h)
    BY <1>t, <1>10 DEF ExecStatus, StatusFails, VpnTypeOK, MethodOf
  <1>11. CASE SessionStep(h)
    BY <1>t, <1>11 DEF SessionStep, NilServer, Dial, DialFails, LoseSession, FirstStep,
       VpnTypeOK, MethodOf
  <1> QED
    BY <1>1, <1>2, <1>3, <1>4, <1>5, <1>6, <1>7, <1>8, <1>9, <1>10, <1>11
       DEF VpnStep, UpdateStep, RestartStep, CheckStep

LEMMA SafeStepEffect ==
  ASSUME NEW h \in Handlers, SafeInv, VpnStep(h)
  PROVE  StepEffect(h)
  BY VpnStepEffect DEF SafeInv, TypeInv, HandlerInv

(* NoArg asks for no exit.                                                 *)
LEMMA NoExit == NoArg.exit \notin Exits
  <1>1. NoArg.exit = ""
    BY DEF NoArg
  <1> QED
    BY <1>1, ExitAssumption, Zenon

(* A handler that has asked for no exit is in no SelectExit.               *)
LEMMA NotSelecting ==
  ASSUME NEW k \in Handlers, CallOf(k), arg[k] = NoArg
  PROVE  pc[k] \notin Selecting
  BY NoExit DEF CallOf

(* A SelectExit races with no other on the fields of GS it alone writes.   *)
LEMMA SwitchAlone ==
  ASSUME NEW h \in Handlers, SwitchInv, pc[h] \in Selecting,
         NEW places \in SUBSET Selecting
  PROVE  At(h, places) = {}
  <1>1. arg[h] # NoArg
    BY NotSelecting DEF SwitchInv
  <1>2. \A g \in Handlers \ {h} : pc[g] \notin Selecting
    <2>1. \A g \in Handlers \ {h} : CallOf(g) /\ arg[g] = NoArg
      BY <1>1 DEF SwitchInv, OneSwitch
    <2> QED
      BY <2>1, NotSelecting
  <1> QED
    BY <1>2 DEF At

(* The handlers other than h stand where they stood.                       *)
Aside(h) ==
  \A k \in Handlers \ {h} :
    /\ vpc'[k] = vpc[k] /\ ret'[k] = ret[k] /\ op'[k] = op[k]
    /\ arg'[k] = arg[k] /\ pc'[k] = pc[k]

SameSwitch ==
  /\ UNCHANGED <<vs, file, loaded>>
  /\ gs'.Vendor = gs.Vendor /\ gs'.Exit = gs.Exit /\ gs'.ExitPath = gs.ExitPath

(* What a switch relies on.                                                *)
LEMMA ProgressKept ==
  ASSUME NEW k \in Handlers, SwitchProgress(k), SameSwitch,
         arg'[k] = arg[k], pc'[k] = pc[k]
  PROVE  SwitchProgress(k)'
  BY DEF SwitchProgress, FileFor, SameSwitch

(* A step of one handler disturbs no switch of another: it belongs to a    *)
(* switch itself, and then the others do not, or it touches nothing that   *)
(* they rely on.                                                           *)
LEMMA SwitchKeeps ==
  ASSUME NEW h \in Handlers, SwitchInv, Aside(h),
         arg'[h] \in {arg[h], NoArg},
         arg[h] # NoArg \/ SameSwitch,
         CallOf(h)', ResultOf(h)', SwitchProgress(h)'
  PROVE  SwitchInv'
  <1>1. OneSwitch'
    BY DEF SwitchInv, OneSwitch, Aside
  <1>2. ASSUME NEW k \in Handlers \ {h}
        PROVE  CallOf(k)' /\ ResultOf(k)' /\ SwitchProgress(k)'
    <2>1. CallOf(k)'
      BY DEF SwitchInv, CallOf, Aside
    <2>2. ResultOf(k)'
      BY DEF SwitchInv, ResultOf, Aside
    <2>3. CASE SameSwitch
      <3>1. SwitchProgress(k)
        BY DEF SwitchInv
      <3>2. arg'[k] = arg[k] /\ pc'[k] = pc[k]
        BY DEF Aside
      <3> QED
        BY <2>1, <2>2, <2>3, <3>1, <3>2, ProgressKept
    <2>4. CASE arg[h] # NoArg
      <3>1. arg[k] = NoArg
        BY <2>4 DEF SwitchInv, OneSwitch
      <3>2. pc[k] \notin Selecting
        BY <3>1, NotSelecting DEF SwitchInv
      <3> QED
        BY <2>1, <2>2, <3>2 DEF SwitchProgress, Aside, Selecting, Saving, Reporting
    <2> QED
      BY <2>1, <2>2, <2>3, <2>4
  <1> QED
    BY <1>1, <1>2 DEF SwitchInv

(* The statements of the calls keep the invariant.                         *)
LEMMA CallStepSwitch ==
  ASSUME NEW h \in Handlers, ServiceInv, VpnStep(h), UNCHANGED exiterVars
  PROVE  SwitchInv'
  <1>e. StepEffect(h)
    BY SafeStepEffect DEF ServiceInv
  <1>i. SwitchInv /\ CallOf(h) /\ SwitchProgress(h)
    BY DEF ServiceInv, SwitchInv
  <1>1. pc[h] \in Calling /\ pc'[h] = pc[h] /\ gs' = gs
    BY <1>e, <1>i DEF StepEffect, CallOf, exiterVars
  <1>2. Aside(h)
    BY <1>e DEF Aside, StepEffect, exiterVars
  <1>3. arg[h] # NoArg \/ SameSwitch
    <2>1. CASE Writer(h)
      BY <2>1, <1>1, <1>i, NotSelecting
         DEF Writer, CallOf, Calling, Selecting, Saving, Reporting
    <2>2. CASE ~Writer(h)
      BY <2>2, <1>e, <1>1 DEF StepEffect, SameSwitch
    <2> QED
      BY <2>1, <2>2
  <1>4. CallOf(h)'
    BY <1>e, <1>i, <1>1 DEF CallOf, StepEffect, Calling, Saving
  <1>5. SwitchProgress(h)'
    <2>1. CASE pc[h] \in {"update", "check"}
      BY <2>1, <1>1 DEF SwitchProgress, Reporting
    <2>2. CASE pc[h] = "restart"
      BY <2>2, <1>1, <1>e, <1>i DEF SwitchProgress, FileFor, Reporting, StepEffect, CallOf
    <2>3. CASE pc[h] \in {"fetch", "read"}
      <3>1. UNCHANGED <<vs, file, loaded>>
        BY <2>3, <1>e, <1>i DEF StepEffect, CallOf, Writer, Reporting
      <3> QED
        BY <2>3, <3>1, <1>1, <1>e, <1>i DEF SwitchProgress, Reporting, StepEffect
    <2> QED
      BY <2>1, <2>2, <2>3, <1>1 DEF Calling
  <1>6. arg'[h] = arg[h] /\ ResultOf(h)'
    BY <1>e DEF StepEffect
  <1> QED
    BY <1>i, <1>2, <1>3, <1>4, <1>5, <1>6, SwitchKeeps

(* Storing the state, its word or the status output leaves the rest of GS  *)
(* alone.                                                                  *)
NotesState ==
  \E x : gs' \in {[gs EXCEPT !.Connected = x], [gs EXCEPT !.ConnectedStr = x],
                   [gs EXCEPT !.StatusOutput = x], gs}

LEMMA GsKept ==
  ASSUME TypeOK, NotesState
  PROVE  gs'.Vendor = gs.Vendor /\ gs'.Exit = gs.Exit /\ gs'.ExitPath = gs.ExitPath
  BY DEF TypeOK, NotesState

(* A statement of a handler that makes no call moves the handler only.     *)
LEMMA LocalStepSwitch ==
  ASSUME NEW h \in Handlers, ServiceInv, NEW from, NEW to,
         Move(h, from, to), UNCHANGED vpnState,
         arg[h] # NoArg \/ SameSwitch,
         CallOf(h)', SwitchProgress(h)'
  PROVE  SwitchInv'
  <1> USE DEF vpnState, router, params, work
  <1>1. Aside(h)
    BY DEF Aside, Move, ServiceInv, TypeOK
  <1>2. ResultOf(h)'
    BY DEF ResultOf, ServiceInv, SwitchInv
  <1>3. arg'[h] = arg[h] /\ SwitchInv
    BY DEF ServiceInv
  <1> QED
    BY <1>1, <1>2, <1>3, SwitchKeeps

(* Making a call: it has begun, and nothing else has happened.             *)
LEMMA CallEffect ==
  ASSUME NEW h \in Handlers, VpnTypeOK, NEW o \in Methods, NEW a, Call(h, o, a)
  PROVE  /\ UNCHANGED <<vs, file, loaded>>
         /\ vpc'[h] \notin {"idle", "done"} /\ op'[h] = o /\ arg'[h] = a
         /\ \A k \in Handlers \ {h} : vpc'[k] = vpc[k] /\ ret'[k] = ret[k]
                                     /\ op'[k] = op[k] /\ arg'[k] = arg[k]
  BY DEF VpnTypeOK, Call, Goto, Entry, FirstStep, router

(* A handler that goes on with a call for the same exit.                   *)
LEMMA CallingSwitch ==
  ASSUME NEW h \in Handlers, ServiceInv, NEW from, NEW to \in Calling, NEW o \in Methods,
         Move(h, from, to), Call(h, o, arg[h]),
         arg[h] # NoArg \/ SameSwitch,
         CallOf(h)', SwitchProgress(h)'
  PROVE  SwitchInv'
  <1>1. VpnTypeOK /\ SwitchInv
    BY DEF ServiceInv, TypeOK
  <1>2. Aside(h)
    BY <1>1, CallEffect DEF Aside, Move, ServiceInv, TypeOK
  <1>3. ResultOf(h)' /\ arg'[h] = arg[h]
    BY <1>1, CallEffect DEF ResultOf
  <1> QED
    BY <1>1, <1>2, <1>3, SwitchKeeps

(* The statements of SelectExit between UpdateConfig and Restart.           *)
LEMMA SavingSwitch ==
  ASSUME NEW h \in Handlers, ServiceInv,
         Updated(h) \/ SaveVendor(h) \/ SaveExit(h) \/ MarkDown(h)
  PROVE  SwitchInv'
  <1> USE DEF Calling, Saving, Reporting, Selecting, Showing
  <1>i. TypeOK /\ SwitchInv /\ CallOf(h) /\ SwitchProgress(h)
    BY DEF ServiceInv, SwitchInv
  <1>1. CASE Updated(h)
    <2>1. arg[h] # NoArg
      BY <1>1, <1>i, NotSelecting DEF Updated, Returned
    <2>2. CallOf(h)'
      BY <1>1, <1>i DEF Updated, Returned, Move, CallOf, TypeOK, vpnState, params
    <2>3. SwitchProgress(h)'
      BY <1>1, <1>i DEF Updated, Returned, Move, TypeOK, SwitchProgress
    <2> QED
      BY <1>1, <2>1, <2>2, <2>3, LocalStepSwitch DEF Updated
  <1>2. CASE SaveVendor(h)
    <2>1. arg[h] # NoArg
      BY <1>2, <1>i, NotSelecting DEF SaveVendor, Move
    <2>2. CallOf(h)'
      BY <1>2, <1>i DEF SaveVendor, Move, CallOf, TypeOK, vpnState, params
    <2>3. At(h, {"saveVendor"}) = {}
      BY <1>2, <1>i, SwitchAlone DEF SaveVendor, Move
    <2>4. gs' = [gs EXCEPT !.Vendor = arg[h].vendor]
      BY <1>2, <2>3 DEF SaveVendor, Racy, RacyWith
    <2>5. SwitchProgress(h)'
      BY <1>2, <2>4, <1>i DEF SaveVendor, Move, TypeOK, SwitchProgress, vpnState, params
    <2> QED
      BY <1>2, <2>1, <2>2, <2>5, LocalStepSwitch DEF SaveVendor
  <1>3. CASE SaveExit(h)
    <2>1. arg[h] # NoArg
      BY <1>3, <1>i, NotSelecting DEF SaveExit, Move
    <2>2. CallOf(h)'
      BY <1>3, <1>i DEF SaveExit, Move, CallOf, TypeOK, vpnState, params
    <2>3. At(h, {"saveExit"}) = {}
      BY <1>3, <1>i, SwitchAlone DEF SaveExit, Move
    <2>4. gs' = [gs EXCEPT !.Exit = arg[h].exit]
      BY <1>3, <2>3 DEF SaveExit, Racy, RacyWith
    <2>5. SwitchProgress(h)'
      BY <1>3, <2>4, <1>i DEF SaveExit, Move, TypeOK, SwitchProgress, vpnState, params
    <2> QED
      BY <1>3, <2>1, <2>2, <2>5, LocalStepSwitch DEF SaveExit
  <1>4. CASE MarkDown(h)
    <2>1. arg[h] # NoArg
      BY <1>4, <1>i, NotSelecting DEF MarkDown, SetConnected, Move
    <2>2. CallOf(h)'
      BY <1>4, <1>i DEF MarkDown, SetConnected, Move, CallOf, TypeOK, vpnState, params
    <2>3. SwitchProgress(h)'
      BY <1>4, <1>i DEF MarkDown, SetConnected, Move, TypeOK, SwitchProgress, vpnState, params
    <2> QED
      BY <1>4, <2>1, <2>2, <2>3, LocalStepSwitch DEF MarkDown, SetConnected
  <1> QED
    BY <1>1, <1>2, <1>3, <1>4

(* An UpdateConfig that did not fail has installed the exit asked for, so  *)
(* Restart runs its file.                                                  *)
LEMMA RestartingSwitch ==
  ASSUME NEW h \in Handlers, ServiceInv, RestartOrFail(h)
  PROVE  SwitchInv'
  <1> USE DEF Calling, Saving, Reporting, Selecting, Showing
  <1>i. TypeOK /\ SwitchInv /\ CallOf(h) /\ ResultOf(h) /\ SwitchProgress(h)
    BY DEF ServiceInv, SwitchInv
  <1>p. pc[h] = "downStr"
    BY DEF RestartOrFail
  <1>n. arg[h] # NoArg
    BY <1>p, <1>i, NotSelecting
  <1>g. gs'.Vendor = gs.Vendor /\ gs'.Exit = gs.Exit
    BY <1>i, GsKept DEF RestartOrFail, SetConnectedStr, NotesState
  <1>1. CASE ret[h] = "error"
    <2>1. Move(h, "downStr", "failed") /\ UNCHANGED vpnState
      BY <1>1 DEF RestartOrFail
    <2>2. CallOf(h)'
      BY <2>1, <1>i, <1>p DEF Move, CallOf, TypeOK, vpnState, params
    <2>3. SwitchProgress(h)'
      BY <2>1, <1>i DEF Move, TypeOK, SwitchProgress
    <2> QED
      BY <2>1, <2>2, <2>3, <1>n, LocalStepSwitch
  <1>2. CASE ret[h] # "error"
    <2>1. Move(h, "downStr", "restart") /\ Call(h, "Restart", arg[h])
      BY <1>2 DEF RestartOrFail, Restart
    <2>2. Finished(h, "UpdateConfig", "ok")
      BY <1>2, <1>i, <1>p DEF Finished, CallOf, ResultOf
    <2>3. Installed(h)
      BY <2>2 DEF ServiceInv, SafeInv, HandlerInv, Answers
    <2>4. /\ UNCHANGED <<vs, file, loaded>>
          /\ vpc'[h] \notin {"idle", "done"} /\ op'[h] = "Restart" /\ arg'[h] = arg[h]
      BY <2>1, <1>i, CallEffect DEF Methods, TypeOK
    <2>5. CallOf(h)'
      BY <2>1, <2>4, <1>i, <1>p DEF Move, CallOf, TypeOK
    <2>6. SwitchProgress(h)'
      BY <2>1, <2>3, <2>4, <1>i, <1>p, <1>g
         DEF Move, SwitchProgress, TypeOK, Installed, FileFor
    <2> QED
      BY <2>1, <2>5, <2>6, <1>n, CallingSwitch DEF Methods
  <1> QED
    BY <1>1, <1>2

(* A Restart that succeeded has made the daemon load the file, and over    *)
(* ssh only a whole one brings the tunnel up that it waits for: were it    *)
(* cut short, the Restart had failed.                                      *)
LEMMA RestartedSwitch ==
  ASSUME NEW h \in Handlers, ServiceInv, Restarted(h)
  PROVE  SwitchInv'
  <1> USE DEF Calling, Saving, Reporting, Selecting, Showing
  <1>i. TypeOK /\ SwitchInv /\ CallOf(h) /\ SwitchProgress(h)
    BY DEF ServiceInv, SwitchInv
  <1>p. pc[h] = "restart" /\ vpc[h] = "done" /\ gs' = gs
    BY DEF Restarted, Returned
  <1>n. arg[h] # NoArg
    BY <1>p, <1>i, NotSelecting
  <1>1. ASSUME NEW to \in {"failed", "panicked"}, Move(h, "restart", to), UNCHANGED vpnState
        PROVE  SwitchInv'
    <2>1. CallOf(h)'
      BY <1>1, <1>i, <1>p DEF Move, CallOf, TypeOK, vpnState, params
    <2>2. SwitchProgress(h)'
      BY <1>1, <1>i DEF Move, TypeOK, SwitchProgress
    <2> QED
      BY <1>1, <2>1, <2>2, <1>n, LocalStepSwitch
  <1>2. CASE ret[h] = "ok" /\ Move(h, "restart", "fetch") /\ Status(h)
    <2>1. Finished(h, "Restart", "ok")
      BY <1>2, <1>i, <1>p DEF Finished, CallOf
    <2>2. loaded = file /\ file = CfgFor(arg[h].vendor, arg[h].exit)
      <3>1. loaded = file /\ (Ssh => loaded \in Config)
        BY <2>1 DEF ServiceInv, SafeInv, HandlerInv, Answers, RunsVendor
      <3>2. file # Partial
        BY <3>1, SentinelAssumption DEF ServiceInv, SafeInv, FileOk, CutMeansSsh
      <3> QED
        BY <3>1, <3>2, <1>i, <1>p DEF SwitchProgress, FileFor
    <2>3. Call(h, "Status", arg[h])
      BY <1>2 DEF Status
    <2>4. /\ UNCHANGED <<vs, file, loaded>>
          /\ vpc'[h] \notin {"idle", "done"} /\ op'[h] = "Status" /\ arg'[h] = arg[h]
      BY <2>3, <1>i, CallEffect DEF Methods, TypeOK
    <2>5. CallOf(h)'
      BY <1>2, <2>4, <1>i, <1>p DEF Move, CallOf, TypeOK
    <2>6. SwitchProgress(h)'
      BY <1>2, <2>2, <2>4, <1>i, <1>p DEF Move, SwitchProgress, TypeOK
    <2> QED
      BY <1>2, <2>3, <2>5, <2>6, <1>n, CallingSwitch DEF Methods
  <1> QED
    BY <1>1, <1>2 DEF Restarted

(* A path of two.                                                          *)
LEMMA PairByAppend ==
  ASSUME NEW x, NEW y
  PROVE  Append(<<x>>, y) = <<x, y>>
  <1> DEFINE S == {x, y}
  <1>1. <<x>> \in Seq(S) /\ x \in S /\ y \in S
    OBVIOUS
  <1> HIDE DEF S
  <1>2. Append(<<x>>, y) \in Seq(S) /\ Len(Append(<<x>>, y)) = 2
    BY <1>1
  <1>3. Append(<<x>>, y)[1] = x /\ Append(<<x>>, y)[2] = y
    BY <1>1
  <1>4. <<x, y>> \in Seq(S) /\ Len(<<x, y>>) = 2 /\ <<x, y>>[1] = x /\ <<x, y>>[2] = y
    BY <1>1
  <1>5. \A i \in 1 .. 2 : i = 1 \/ i = 2
    OBVIOUS
  <1> QED
    BY <1>2, <1>3, <1>4, <1>5, SeqEqual

(* What follows a Restart reports on the exit that was installed.          *)
LEMMA ReportingSwitch ==
  ASSUME NEW h \in Handlers, ServiceInv,
         \/ Fetched(h, "fetch", "locate") \/ Locate(h)
         \/ SetPath(h, "path", "append") \/ SetPath(h, "append", "up")
         \/ MarkUp(h) \/ Redirect(h)
  PROVE  SwitchInv'
  <1> USE DEF Calling, Saving, Reporting, Selecting, Showing
  <1>i. TypeOK /\ SwitchInv /\ CallOf(h) /\ SwitchProgress(h)
    BY DEF ServiceInv, SwitchInv
  <1>p. pc[h] \in Reporting /\ UNCHANGED vpnState
    BY DEF Fetched, Returned, Locate, SetPath, MarkUp, SetConnected, Redirect, Move
  <1>n. arg[h] # NoArg
    BY <1>p, <1>i, NotSelecting
  <1>a. UNCHANGED <<vs, file, loaded, vpc, ret, op, arg>>
    BY <1>p DEF vpnState, router, params
  <1>1. CASE Fetched(h, "fetch", "locate")
    <2>1. PICK to \in {"locate", "failed", "panicked"} : Move(h, "fetch", to)
      BY <1>1 DEF Fetched
    <2>2. gs'.Vendor = gs.Vendor /\ gs'.Exit = gs.Exit /\ gs'.ExitPath = gs.ExitPath
      <3>1. NotesState
        BY <1>1 DEF Fetched, SetStatusOutput, NotesState
      <3> QED
        BY <3>1, <1>i, GsKept
    <2>3. vpc[h] = "done"
      BY <1>1 DEF Fetched, Returned
    <2>4. CallOf(h)'
      BY <2>1, <2>3, <1>i, <1>a DEF Move, CallOf, TypeOK
    <2>5. SwitchProgress(h)'
      BY <2>1, <2>2, <1>i, <1>a DEF Move, TypeOK, SwitchProgress
    <2> QED
      BY <2>1, <2>4, <2>5, <1>p, <1>n, LocalStepSwitch
  <1>2. CASE Locate(h)
    <2>1. PICK to \in {"path", "failed", "panicked"} : Move(h, "locate", to)
      BY <1>2 DEF Locate
    <2>2. CallOf(h)'
      BY <2>1, <1>i, <1>a DEF Move, CallOf, TypeOK
    <2>3. SwitchProgress(h)'
      BY <1>2, <2>1, <1>i, <1>a DEF Locate, Move, TypeOK, SwitchProgress
    <2> QED
      BY <2>1, <2>2, <2>3, <1>p, <1>n, LocalStepSwitch
  <1>3. CASE SetPath(h, "path", "append") \/ SetPath(h, "append", "up")
    <2>1. PICK to \in {"append", "up"} :
            Move(h, pc[h], to) /\ (to = "append" <=> pc[h] = "path")
      BY <1>3 DEF SetPath, Move
    <2>2. pc[h] \in {"path", "append"}
      BY <1>3 DEF SetPath, Move
    <2>3. At(h, {"path", "append"}) = {}
      BY <1>i, <1>p, SwitchAlone
    <2>4. gs' = [gs EXCEPT !.ExitPath = NewPath(h)]
      BY <1>3, <2>3 DEF SetPath, RacyWith
    <2>5. CallOf(h)'
      BY <2>1, <2>2, <1>i, <1>a DEF Move, CallOf, TypeOK
    <2>6. SwitchProgress(h)'
      <3>1. /\ gs'.Vendor = gs.Vendor /\ gs'.Exit = gs.Exit
            /\ gs'.ExitPath = NewPath(h)
        BY <2>4, <1>i DEF TypeOK
      <3>2. CASE pc[h] = "path"
        BY <2>1, <3>1, <3>2, <1>i, <1>a DEF Move, TypeOK, SwitchProgress, NewPath
      <3>3. CASE pc[h] = "append"
        <4>1. pc'[h] = "up"
          BY <2>1, <3>3, <1>i DEF Move, TypeOK
        <4>2. gs'.ExitPath = Append(<<arg[h].vendor>>, arg[h].exit)
          BY <3>1, <3>3, <1>i DEF SwitchProgress, NewPath
        <4>3. gs'.ExitPath = <<arg[h].vendor, arg[h].exit>>
          BY <4>2, PairByAppend
        <4> QED
          BY <4>1, <4>3, <3>1, <3>3, <1>i, <1>a DEF SwitchProgress
      <3> QED
        BY <2>2, <3>2, <3>3
    <2> QED
      BY <2>1, <2>5, <2>6, <1>p, <1>n, LocalStepSwitch
  <1>4. CASE MarkUp(h) \/ Redirect(h)
    <2>1. PICK to \in {"upStr", "redirect"} : Move(h, pc[h], to)
      BY <1>4 DEF MarkUp, SetConnected, Redirect, Move
    <2>2. pc[h] \in {"up", "upStr"}
      BY <1>4 DEF MarkUp, SetConnected, Redirect, Move
    <2>3. gs'.Vendor = gs.Vendor /\ gs'.Exit = gs.Exit /\ gs'.ExitPath = gs.ExitPath
      <3>1. CASE MarkUp(h)
        BY <3>1, <1>i DEF MarkUp, SetConnected, TypeOK
      <3>2. CASE Redirect(h)
        <4>1. NotesState
          BY <3>2 DEF Redirect, SetConnectedStr, NotesState
        <4> QED
          BY <4>1, <1>i, GsKept
      <3> QED
        BY <1>4, <3>1, <3>2
    <2>4. CallOf(h)'
      BY <2>1, <2>2, <1>i, <1>a DEF Move, CallOf, TypeOK
    <2>5. SwitchProgress(h)'
      BY <2>1, <2>2, <2>3, <1>i, <1>a DEF Move, TypeOK, SwitchProgress
    <2> QED
      BY <2>1, <2>4, <2>5, <1>p, <1>n, LocalStepSwitch
  <1> QED
    BY <1>1, <1>2, <1>3, <1>4

(* The statements of Status only note and read: no switch relies on what   *)
(* they change.                                                            *)
LEMMA StatusSwitch ==
  ASSUME NEW h \in Handlers, ServiceInv,
         CheckPanics(h) \/ NoteState(h) \/ NoteWord(h) \/ Fetched(h, "read", "show")
  PROVE  SwitchInv'
  <1> USE DEF Calling, Saving, Reporting, Selecting, Showing
  <1>i. TypeOK /\ SwitchInv /\ CallOf(h) /\ SwitchProgress(h)
    BY DEF ServiceInv, SwitchInv
  <1>1. CASE CheckPanics(h)
    <2>1. Move(h, "check", "panicked") /\ UNCHANGED vpnState /\ SameSwitch /\ vpc[h] = "done"
      BY <1>1 DEF CheckPanics, Returned, SameSwitch, vpnState, router
    <2>2. CallOf(h)'
      BY <2>1, <1>i DEF Move, CallOf, TypeOK, vpnState, params
    <2>3. SwitchProgress(h)'
      BY <2>1, <1>i DEF Move, TypeOK, SwitchProgress
    <2> QED
      BY <2>1, <2>2, <2>3, LocalStepSwitch
  <1>2. CASE NoteState(h)
    <2>1. Move(h, "check", "noteStr") /\ UNCHANGED vpnState /\ vpc[h] = "done"
      BY <1>2 DEF NoteState, SetConnected, Returned
    <2>2. SameSwitch
      BY <1>2, <1>i DEF NoteState, SetConnected, SameSwitch, TypeOK, vpnState, router
    <2>3. CallOf(h)'
      BY <2>1, <1>i DEF Move, CallOf, TypeOK, vpnState, params
    <2>4. SwitchProgress(h)'
      BY <2>1, <1>i DEF Move, TypeOK, SwitchProgress
    <2> QED
      BY <2>1, <2>2, <2>3, <2>4, LocalStepSwitch
  <1>3. CASE NoteWord(h)
    <2>1. Move(h, "noteStr", "read") /\ Call(h, "Status", arg[h])
      BY <1>3 DEF NoteWord, Status
    <2>2. /\ UNCHANGED <<vs, file, loaded>>
          /\ vpc'[h] \notin {"idle", "done"} /\ op'[h] = "Status" /\ arg'[h] = arg[h]
      BY <2>1, <1>i, CallEffect DEF Methods, TypeOK
    <2>3. SameSwitch
      BY <1>3, <2>2, <1>i, GsKept DEF NoteWord, SetConnectedStr, NotesState, SameSwitch
    <2>4. CallOf(h)'
      BY <2>1, <2>2, <1>i DEF Move, CallOf, TypeOK
    <2>5. SwitchProgress(h)'
      BY <2>1, <1>i DEF Move, TypeOK, SwitchProgress
    <2> QED
      BY <2>1, <2>3, <2>4, <2>5, CallingSwitch DEF Methods
  <1>4. CASE Fetched(h, "read", "show")
    <2>1. PICK to \in {"show", "failed", "panicked"} : Move(h, "read", to)
      BY <1>4 DEF Fetched
    <2>2. UNCHANGED vpnState /\ vpc[h] = "done"
      BY <1>4 DEF Fetched, Returned
    <2>3. SameSwitch
      <3>1. NotesState
        BY <1>4 DEF Fetched, SetStatusOutput, NotesState
      <3> QED
        BY <3>1, <2>2, <1>i, GsKept DEF SameSwitch, vpnState, router
    <2>4. CallOf(h)'
      BY <2>1, <2>2, <1>i DEF Move, CallOf, TypeOK, vpnState, params
    <2>5. SwitchProgress(h)'
      BY <2>1, <1>i DEF Move, TypeOK, SwitchProgress
    <2> QED
      BY <2>1, <2>2, <2>3, <2>4, <2>5, LocalStepSwitch
  <1> QED
    BY <1>1, <1>2, <1>3, <1>4

(* A handler that answers leaves the server to the others.                 *)
LEMMA RespondSwitch ==
  ASSUME NEW h \in Handlers, ServiceInv, Respond(h)
  PROVE  SwitchInv'
  <1> USE DEF vpnState, router, params, work
  <1>i. TypeOK /\ VpnTypeOK /\ SwitchInv /\ CallOf(h)
    BY DEF ServiceInv, SwitchInv, TypeOK
  <1>1. vpc[h] \in {"idle", "done"}
    BY <1>i DEF CallOf, Calling, Respond
  <1>2. pc'[h] = "idle" /\ SameSwitch
    BY <1>i DEF Respond, Return, SameSwitch, TypeOK
  <1>3. Aside(h)
    BY <1>i DEF Respond, Return, Aside, TypeOK, VpnTypeOK
  <1>4. vpc'[h] = "idle" /\ arg'[h] = NoArg
    <2>1. CASE vpc[h] = "done"
      BY <2>1, <1>i DEF Respond, Return, VpnTypeOK
    <2>2. CASE vpc[h] = "idle"
      BY <2>2, <1>i DEF Respond, CallOf
    <2> QED
      BY <1>1, <2>1, <2>2
  <1>5. CallOf(h)' /\ ResultOf(h)' /\ SwitchProgress(h)'
    BY <1>2, <1>4 DEF CallOf, ResultOf, SwitchProgress, Calling, Saving, Reporting,
       Selecting, Showing
  <1> QED
    BY <1>2, <1>3, <1>4, <1>5, <1>i, SwitchKeeps

(* A SelectExit begins when no other is in progress, with its two fields.  *)
LEMMA SelectSwitch ==
  ASSUME NEW h \in Handlers, NEW v \in Vendors, NEW e \in Exits,
         Overlap # "all", ServiceInv, SelectExit(h, v, e)
  PROVE  SwitchInv'
  <1> DEFINE a == [vendor |-> v, exit |-> e]
  <1>i. TypeOK /\ VpnTypeOK /\ SwitchInv /\ \A k \in Handlers : CallOf(k)
    BY DEF ServiceInv, SwitchInv, TypeOK
  <1>1. Call(h, "UpdateConfig", a) /\ Move(h, "idle", "update") /\ gs' = gs
    BY DEF SelectExit, UpdateConfig
  <1> HIDE DEF a
  <1>2. /\ UNCHANGED <<vs, file, loaded>>
        /\ vpc'[h] \notin {"idle", "done"} /\ op'[h] = "UpdateConfig" /\ arg'[h] = a
        /\ \A k \in Handlers \ {h} : vpc'[k] = vpc[k] /\ ret'[k] = ret[k]
                                    /\ op'[k] = op[k] /\ arg'[k] = arg[k]
    BY <1>1, <1>i, CallEffect DEF Methods
  <1>3. \A k \in Handlers \ {h} : arg[k] = NoArg
    BY <1>i DEF SelectExit, MayServe, CallOf
  <1>4. SameSwitch /\ Aside(h)
    BY <1>1, <1>2, <1>i DEF SameSwitch, Aside, Move, TypeOK
  <1>5. OneSwitch'
    BY <1>2, <1>3 DEF OneSwitch
  <1>6. CallOf(h)' /\ ResultOf(h)' /\ SwitchProgress(h)'
    <2>1. a.vendor \in Vendors /\ a.exit \in Exits
      BY DEF a
    <2>2. pc'[h] = "update"
      BY <1>1, <1>i DEF Move, TypeOK
    <2> QED
      BY <1>2, <2>1, <2>2 DEF CallOf, ResultOf, SwitchProgress, Calling, Saving,
         Reporting, Showing
  <1>7. ASSUME NEW k \in Handlers \ {h}
        PROVE  CallOf(k)' /\ ResultOf(k)' /\ SwitchProgress(k)'
    <2>1. SwitchProgress(k)'
      <3>1. arg'[k] = arg[k] /\ pc'[k] = pc[k] /\ SwitchProgress(k)
        BY <1>4, <1>i DEF Aside, SwitchInv
      <3> QED
        BY <3>1, <1>4, ProgressKept
    <2>2. CallOf(k)'
      BY <1>4, <1>i DEF Aside, CallOf
    <2>3. ResultOf(k)'
      BY <1>4, <1>i DEF Aside, ResultOf, SwitchInv
    <2> QED
      BY <2>1, <2>2, <2>3
  <1> QED
    BY <1>5, <1>6, <1>7 DEF SwitchInv

(* A status page begins without an exit.                                   *)
LEMMA PageSwitch ==
  ASSUME NEW h \in Handlers, NEW forced \in BOOLEAN, ServiceInv, StatusPage(h, forced)
  PROVE  SwitchInv'
  <1>i. TypeOK /\ VpnTypeOK /\ SwitchInv /\ CallOf(h)
    BY DEF ServiceInv, SwitchInv, TypeOK
  <1>p. pc[h] = "idle" /\ gs' = gs
    BY DEF StatusPage, Move
  <1>n. arg[h] = NoArg /\ vpc[h] = "idle"
    BY <1>i, <1>p DEF CallOf
  <1>1. CASE Move(h, "idle", "check") /\ IsUp(h)
    <2>1. Call(h, "IsUp", arg[h]) /\ Move(h, "idle", "check")
      BY <1>1 DEF IsUp
    <2>2. /\ UNCHANGED <<vs, file, loaded>>
          /\ vpc'[h] \notin {"idle", "done"} /\ op'[h] = "IsUp" /\ arg'[h] = arg[h]
      BY <2>1, <1>i, CallEffect DEF Methods
    <2>3. SameSwitch
      BY <2>2, <1>p DEF SameSwitch
    <2>4. CallOf(h)'
      BY <2>1, <2>2, <1>i, <1>n DEF Move, CallOf, TypeOK, Calling, Saving, Reporting,
         Selecting, Showing
    <2>5. SwitchProgress(h)'
      BY <2>1, <1>i DEF Move, TypeOK, SwitchProgress, Reporting
    <2> QED
      BY <2>1, <2>3, <2>4, <2>5, CallingSwitch DEF Methods, Calling
  <1>2. CASE Move(h, "idle", "show") /\ UNCHANGED vpnState
    <2>1. SameSwitch
      BY <1>2, <1>p DEF SameSwitch, vpnState, router
    <2>2. CallOf(h)'
      BY <1>2, <1>i, <1>n DEF Move, CallOf, TypeOK, Calling, Saving, Reporting,
         Selecting, Showing, vpnState, params
    <2>3. SwitchProgress(h)'
      BY <1>2, <1>i DEF Move, TypeOK, SwitchProgress, Reporting
    <2> QED
      BY <1>2, <2>1, <2>2, <2>3, LocalStepSwitch
  <1> QED
    BY <1>1, <1>2 DEF StatusPage

(* Every step of the service keeps the invariant of its switches.          *)
LEMMA NextSwitch ==
  ASSUME Overlap # "all", ServiceInv, [Next]_vars
  PROVE  SwitchInv'
  <1>i. TypeOK /\ SwitchInv /\ \A k \in Handlers : SwitchProgress(k)
    BY DEF ServiceInv, SwitchInv
  <1>1. CASE \E h \in Handlers : Request(h)
    BY <1>1, SelectSwitch, PageSwitch DEF Request
  <1>2. CASE \E h \in Handlers : HandlerStep(h)
    BY <1>2, SavingSwitch, RestartingSwitch, RestartedSwitch, ReportingSwitch, StatusSwitch,
       RespondSwitch DEF HandlerStep
  <1>3. CASE \E h \in Handlers : VpnStep(h) /\ UNCHANGED exiterVars
    BY <1>3, CallStepSwitch
  <1>4. ASSUME UNCHANGED <<vs, file, loaded, vpc, ret, op, arg, gs, pc>>
        PROVE  SwitchInv'
    <2>1. OneSwitch'
      BY <1>4, <1>i DEF OneSwitch, SwitchInv
    <2>2. ASSUME NEW k \in Handlers
          PROVE  CallOf(k)' /\ ResultOf(k)' /\ SwitchProgress(k)'
      <3>1. SwitchProgress(k)'
        BY <1>4, <1>i, ProgressKept DEF SameSwitch
      <3>2. CallOf(k)'
        BY <1>4, <1>i DEF CallOf, SwitchInv
      <3>3. ResultOf(k)'
        BY <1>4, <1>i DEF ResultOf, SwitchInv
      <3> QED
        BY <3>1, <3>2, <3>3
    <2> QED
      BY <2>1, <2>2 DEF SwitchInv
  <1>5. CASE Tunnel /\ UNCHANGED exiterVars
    BY <1>5, <1>4 DEF Tunnel, Establish, Drop, exiterVars, params
  <1>6. CASE LoadVendors
    BY <1>6, <1>4 DEF LoadVendors, vpnState, router, params
  <1>7. CASE Crash
    <2>1. \A k \in Handlers : pc'[k] = "idle" /\ vpc'[k] = "idle" /\ arg'[k] = NoArg
      BY <1>7 DEF Crash, VpnCrash, All
    <2>2. \A k \in Handlers : CallOf(k)' /\ ResultOf(k)' /\ SwitchProgress(k)'
      BY <2>1 DEF CallOf, ResultOf, SwitchProgress, Calling, Saving, Reporting, Selecting,
         Showing
    <2> QED
      BY <2>1, <2>2 DEF SwitchInv, OneSwitch
  <1>8. CASE UNCHANGED vars
    BY <1>8, <1>4 DEF vars, vpnVars, exiterVars
  <1> QED
    BY <1>1, <1>2, <1>3, <1>5, <1>6, <1>7, <1>8 DEF Next

-----------------------------------------------------------------------------
(* Type correctness of the service, and the theorems.                      *)

GsType == [Vendor : GsVendor, Exit : GsExit, Connected : Tribool, ConnectedStr : Words,
           ExitPath : Seq(VendorName \cup ExitName), StatusOutput : ConfigFile]

(* Whatever requests overlap: each handler is in the call that its         *)
(* statement makes, which stands at a statement of its own method, and     *)
(* what it returns is a result of that method.                             *)
CallsInv == TypeOK /\ \A h \in Handlers : MethodOf(h) /\ CallOf(h) /\ ResultOf(h)

(* What a race leaves keeps the type of what raced.                        *)
LEMMA RacyIn ==
  ASSUME NEW S, NEW x \in S, NEW racing, NEW torn \in S
  PROVE  RacyWith(x, racing, torn) \subseteq S
  BY DEF RacyWith

(* A torn string is a string.                                              *)
LEMMA TornNames == "torn" \in VendorName /\ "torn" \in ExitName
  BY Zenon DEF VendorName, ExitName

(* The stores into GS keep its types.                                      *)
LEMMA GsStores ==
  ASSUME NEW h \in Handlers, TypeOK,
         \/ \E t \in Tribool : gs' = [gs EXCEPT !.Connected = t]
         \/ SetConnectedStr(h) \/ SetStatusOutput(h)
  PROVE  gs' \in GsType
  <1>g. gs \in GsType
    BY DEF TypeOK, GsType
  <1>1. CASE \E t \in Tribool : gs' = [gs EXCEPT !.Connected = t]
    BY <1>1, <1>g DEF GsType
  <1>2. CASE SetConnectedStr(h)
    <2>1. WordOf(h) \in Words
      BY DEF WordOf, Word, Words
    <2>2. "torn" \in Words
      BY DEF Words
    <2>3. PICK w \in Words : gs' = [gs EXCEPT !.ConnectedStr = w]
      BY <1>2, <2>1, <2>2, RacyIn DEF SetConnectedStr, Racy
    <2> QED
      BY <1>g, <2>3 DEF GsType
  <1>3. CASE SetStatusOutput(h)
    <2>1. out[h] \in ConfigFile /\ Partial \in ConfigFile
      BY DEF TypeOK, VpnTypeOK, ConfigFile
    <2>2. PICK o \in ConfigFile : gs' = [gs EXCEPT !.StatusOutput = o]
      BY <1>3, <2>1, RacyIn DEF SetStatusOutput
    <2> QED
      BY <1>g, <2>2 DEF GsType
  <1> QED
    BY <1>1, <1>2, <1>3

(* A handler's statements keep the types of GS.                            *)
LEMMA HandlerGsType ==
  ASSUME NEW h \in Handlers, TypeOK, CallOf(h), ResultOf(h), HandlerStep(h)
  PROVE  gs' \in GsType
  <1>g. TypeOK /\ gs \in GsType
    BY DEF TypeOK, GsType
  <1>a. arg[h].vendor \in VendorName /\ arg[h].exit \in ExitName
    BY <1>g DEF TypeOK, VpnTypeOK
  <1>1. CASE gs' = gs
    BY <1>1, <1>g
  <1>2. CASE SaveVendor(h)
    <2>1. PICK v \in VendorName : gs' = [gs EXCEPT !.Vendor = v]
      BY <1>2, <1>a, TornNames, RacyIn DEF SaveVendor, Racy
    <2> QED
      BY <1>g, <2>1 DEF GsType, GsVendor
  <1>3. CASE SaveExit(h)
    <2>1. PICK e \in ExitName : gs' = [gs EXCEPT !.Exit = e]
      BY <1>3, <1>a, TornNames, RacyIn DEF SaveExit, Racy
    <2> QED
      BY <1>g, <2>1 DEF GsType, GsExit
  <1>4. CASE MarkDown(h) \/ MarkUp(h) \/ NoteState(h)
    <2>1. NoteState(h) => ret[h] \in Tribool
      BY DEF NoteState, Returned, ResultOf, CallOf
    <2>2. \E t \in Tribool : gs' = [gs EXCEPT !.Connected = t]
      BY <1>4, <2>1 DEF MarkDown, MarkUp, NoteState, SetConnected, Tribool
    <2> QED
      BY <1>g, <2>2, GsStores
  <1>5. CASE SetConnectedStr(h) \/ SetStatusOutput(h)
    BY <1>g, <1>5, GsStores
  <1>6. CASE SetPath(h, "path", "append") \/ SetPath(h, "append", "up")
    <2> DEFINE Path == Seq(VendorName \cup ExitName)
    <2>1. gs.ExitPath \in Path
      BY <1>g DEF GsType
    <2>2. NewPath(h) \in Path
      <3>1. <<arg[h].vendor>> \in Path
        BY <1>a
      <3>2. Append(gs.ExitPath, arg[h].exit) \in Path
        BY <1>a, <2>1, AppendProperties
      <3> QED
        BY <3>1, <3>2 DEF NewPath
    <2>3. <<"torn">> \in Path
      BY TornNames
    <2>4. PICK p \in Path : gs' = [gs EXCEPT !.ExitPath = p]
      BY <1>6, <2>2, <2>3, RacyIn DEF SetPath
    <2> QED
      BY <1>g, <2>4 DEF GsType
  <1>7. \/ gs' = gs \/ SaveVendor(h) \/ SaveExit(h)
        \/ MarkDown(h) \/ MarkUp(h) \/ NoteState(h)
        \/ SetConnectedStr(h) \/ SetStatusOutput(h)
        \/ SetPath(h, "path", "append") \/ SetPath(h, "append", "up")
    BY DEF HandlerStep, Updated, RestartOrFail, Restarted, Fetched, Locate, Redirect,
       CheckPanics, NoteWord, Respond
  <1> QED
    BY <1>1, <1>2, <1>3, <1>4, <1>5, <1>6, <1>7

(* Every step of the service keeps the types.                              *)
LEMMA NextType ==
  ASSUME CallsInv, VpnTypeOK', [Next]_vars
  PROVE  TypeOK'
  <1>i. TypeOK /\ gs \in GsType
    BY DEF CallsInv, TypeOK, GsType
  <1>s. UNCHANGED konf => Snapshots' = Snapshots
    BY DEF Snapshots
  <1> DEFINE Done == gs' \in GsType /\ pc' \in [Handlers -> ExiterPc]
                      /\ vendors' \in {NoVendors} \cup Snapshots'
  <1>d. SUFFICES Done
    BY DEF TypeOK, GsType
  <1>1. ASSUME NEW h \in Handlers, Request(h)
        PROVE  Done
    <2>1. \E to \in ExiterPc : Move(h, "idle", to)
      BY <1>1 DEF Request, SelectExit, StatusPage, ExiterPc
    <2>2. UNCHANGED <<gs, vendors, konf>>
      BY <1>1 DEF Request, SelectExit, StatusPage
    <2> QED
      BY <2>1, <2>2, <1>i, <1>s DEF TypeOK, Move
  <1>2. ASSUME NEW h \in Handlers, HandlerStep(h)
        PROVE  Done
    <2>1. \E to \in ExiterPc : pc' = [pc EXCEPT ![h] = to]
      BY <1>2 DEF HandlerStep, Updated, SaveVendor, SaveExit, MarkDown, RestartOrFail,
         Restarted, Fetched, Locate, SetPath, MarkUp, Redirect, CheckPanics, NoteState,
         NoteWord, Respond, SetConnected, Move, ExiterPc
    <2>2. UNCHANGED <<vendors, konf>>
      BY <1>2 DEF HandlerStep, Updated, SaveVendor, SaveExit, MarkDown, RestartOrFail,
         Restarted, Fetched, Locate, SetPath, MarkUp, Redirect, CheckPanics, NoteState,
         NoteWord, Respond, SetConnected
    <2> QED
      BY <1>2, <2>1, <2>2, <1>i, <1>s, HandlerGsType DEF TypeOK, CallsInv
  <1>3. CASE UNCHANGED exiterVars /\ UNCHANGED konf
    BY <1>3, <1>i, <1>s DEF exiterVars, TypeOK, GsType
  <1>4. CASE LoadVendors /\ UNCHANGED konf
    BY <1>4, <1>i, <1>s DEF LoadVendors, TypeOK
  <1>5. CASE Crash
    <2>1. gs' = NewGlobalState /\ vendors' = NoVendors /\ pc' = All("idle")
      BY <1>5 DEF Crash
    <2>2. NewGlobalState \in GsType
      BY DEF NewGlobalState, GsType, GsVendor, GsExit, Tribool, Words, ConfigFile
    <2>3. All("idle") \in [Handlers -> ExiterPc]
      BY DEF All, ExiterPc
    <2> QED
      BY <2>1, <2>2, <2>3
  <1> QED
    BY <1>1, <1>2, <1>3, <1>4, <1>5 DEF Next, vars, vpnVars, Tunnel, VpnStep

(* The service starts with no request in progress.                         *)
LEMMA InitService == Init => TypeOK /\ SwitchInv
  <1> SUFFICES ASSUME Init PROVE TypeOK /\ SwitchInv
    OBVIOUS
  <1>1. VpnTypeOK
    BY InitTypeInv DEF Init, TypeInv
  <1>2. gs \in GsType
    BY DEF Init, NewGlobalState, GsType, GsVendor, GsExit, Tribool, Words, ConfigFile
  <1>3. pc = All("idle") /\ vpc = All("idle") /\ arg = All(NoArg) /\ vendors = NoVendors
    BY DEF Init, VpnInit, NoCalls
  <1>4. TypeOK
    BY <1>1, <1>2, <1>3 DEF TypeOK, GsType, All, ExiterPc
  <1>5. \A k \in Handlers : pc[k] = "idle" /\ vpc[k] = "idle" /\ arg[k] = NoArg
    BY <1>3 DEF All
  <1>6. \A k \in Handlers : CallOf(k) /\ ResultOf(k) /\ SwitchProgress(k)
    BY <1>5 DEF CallOf, ResultOf, SwitchProgress, Calling, Saving, Reporting, Selecting,
       Showing
  <1> QED
    BY <1>4, <1>5, <1>6 DEF SwitchInv, OneSwitch

(* The statements of a call are those of one method.                       *)
LEMMA MethodKept ==
  ASSUME NEW h \in Handlers, VpnTypeOK, MethodOf(h), VpnStep(h)
  PROVE  MethodOf(h)'
  <1> USE DEF MethodOf, Updating, Reading, Installing, Goto, Finish
  <1>1. CASE UpdateStep(h)
    BY <1>1 DEF UpdateStep, SetVendor, SetExit, ReadTemplate, ReadServer, ReadVendor,
       RenderConfig, RenderFails, ConnectFails, BeginCopy, EndCopy, CopyNothing, CopyFails,
       Rename, RenameFails, VpnTypeOK, params, work
  <1>2. CASE RestartStep(h)
    BY <1>2 DEF RestartStep, StopDaemon, StopFails, StartDaemon, StartFails, VpnTypeOK,
       params, work
  <1>3. CASE CheckStep(h)
    <2>1. UNCHANGED op
      BY <1>3 DEF CheckStep, RenderCheck, RenderCheckFails, ExecCheck, ExecCheckFails,
         LocalCheck, RenderStatus, ExecStatus, StatusFails, params, work
    <2>2. CASE RenderCheck(h) \/ RenderStatus(h) \/ ExecStatus(h) \/ StatusFails(h)
      BY <2>1, <2>2 DEF RenderCheck, RenderStatus, ExecStatus, StatusFails, VpnTypeOK
    <2>3. CASE RenderCheckFails(h) \/ ExecCheck(h) \/ ExecCheckFails(h) \/ LocalCheck(h)
      <3>1. \E t \in Tribool : Checked(h, t)
        BY <2>3 DEF RenderCheckFails, ExecCheck, ExecCheckFails, LocalCheck, Tribool
      <3>2. op[h] \in {"Restart", "IsUp"}
        BY <2>3 DEF RenderCheckFails, ExecCheck, ExecCheckFails, LocalCheck
      <3> QED
        BY <2>1, <3>1, <3>2 DEF Checked, PollOf, VpnTypeOK
    <2> QED
      BY <1>3, <2>2, <2>3 DEF CheckStep
  <1>4. CASE SessionStep(h)
    BY <1>4 DEF SessionStep, NilServer, Dial, DialFails, LoseSession, FirstStep, VpnTypeOK,
       Methods, params, work
  <1> QED
    BY <1>1, <1>2, <1>3, <1>4 DEF VpnStep

(* A new call stands at a statement of its method.                         *)
LEMMA CallMethod ==
  ASSUME NEW h \in Handlers, VpnTypeOK, NEW o \in Methods, NEW a, Call(h, o, a)
  PROVE  MethodOf(h)' /\ ResultOf(h)'
  <1>1. vpc'[h] = Entry(o) /\ op'[h] = o
    BY DEF Call, Goto, VpnTypeOK
  <1> QED
    BY <1>1 DEF Entry, FirstStep, MethodOf, ResultOf, Methods, Updating, Reading, Installing

(* A step that touches neither call nor place of a handler k.              *)
LEMMA CallsApart ==
  ASSUME NEW k \in Handlers, MethodOf(k), CallOf(k), ResultOf(k),
         vpc'[k] = vpc[k], ret'[k] = ret[k], op'[k] = op[k], arg'[k] = arg[k], pc'[k] = pc[k]
  PROVE  MethodOf(k)' /\ CallOf(k)' /\ ResultOf(k)'
  BY DEF MethodOf, CallOf, ResultOf

(* The statements of a call.                                               *)
LEMMA VpnStepCalls ==
  ASSUME NEW h \in Handlers, CallsInv, VpnStep(h), UNCHANGED exiterVars
  PROVE  \A k \in Handlers : MethodOf(k)' /\ CallOf(k)' /\ ResultOf(k)'
  <1>1. VpnTypeOK /\ MethodOf(h) /\ CallOf(h)
    BY DEF CallsInv, TypeOK
  <1>2. StepEffect(h) /\ MethodOf(h)'
    BY <1>1, VpnStepEffect, MethodKept
  <1>3. pc[h] \in Calling /\ pc' = pc
    BY <1>1, <1>2 DEF StepEffect, CallOf, exiterVars
  <1>4. CallOf(h)'
    BY <1>1, <1>2, <1>3 DEF CallOf, StepEffect, Calling, Saving
  <1>5. \A k \in Handlers \ {h} : MethodOf(k)' /\ CallOf(k)' /\ ResultOf(k)'
    BY <1>2, <1>3, CallsApart DEF CallsInv, StepEffect
  <1> QED
    BY <1>2, <1>4, <1>5 DEF StepEffect

(* A handler moves: without the vpn package, by calling it for the same    *)
(* exit, or by leaving it.                                                 *)
LEMMA MoveCalls ==
  ASSUME NEW h \in Handlers, CallsInv, NEW to, pc' = [pc EXCEPT ![h] = to], CallOf(h)',
         \/ UNCHANGED vpnState
         \/ \E o \in Methods : \E a : Call(h, o, a)
         \/ Return(h)
  PROVE  \A k \in Handlers : MethodOf(k)' /\ CallOf(k)' /\ ResultOf(k)'
  <1>1. TypeOK /\ VpnTypeOK /\ MethodOf(h) /\ ResultOf(h)
    BY DEF CallsInv, TypeOK
  <1>2. CASE UNCHANGED vpnState
    <2>1. MethodOf(h)' /\ ResultOf(h)'
      BY <1>1, <1>2 DEF MethodOf, ResultOf, vpnState, params, work
    <2>2. \A k \in Handlers \ {h} : MethodOf(k)' /\ CallOf(k)' /\ ResultOf(k)'
      BY <1>1, <1>2, CallsApart DEF CallsInv, TypeOK, vpnState, params, work
    <2> QED
      BY <2>1, <2>2
  <1>3. CASE \E o \in Methods : \E a : Call(h, o, a)
    <2>1. MethodOf(h)' /\ ResultOf(h)'
      BY <1>1, <1>3, CallMethod
    <2>2. \A k \in Handlers \ {h} : MethodOf(k)' /\ CallOf(k)' /\ ResultOf(k)'
      BY <1>1, <1>3, CallEffect, CallsApart DEF CallsInv, TypeOK
    <2> QED
      BY <2>1, <2>2
  <1>4. CASE Return(h)
    <2>1. MethodOf(h)' /\ ResultOf(h)'
      BY <1>1, <1>4 DEF Return, MethodOf, ResultOf, VpnTypeOK, Updating, Reading, Installing
    <2>2. \A k \in Handlers \ {h} : MethodOf(k)' /\ CallOf(k)' /\ ResultOf(k)'
      BY <1>1, <1>4, CallsApart DEF CallsInv, TypeOK, VpnTypeOK, Return
    <2> QED
      BY <2>1, <2>2
  <1> QED
    BY <1>2, <1>3, <1>4

(* The statements of the handlers.                                         *)
LEMMA HandlerCalls ==
  ASSUME NEW h \in Handlers, CallsInv, HandlerStep(h)
  PROVE  \A k \in Handlers : MethodOf(k)' /\ CallOf(k)' /\ ResultOf(k)'
  <1> USE DEF CallOf, Calling, Selecting, Saving, Reporting, Showing
  <1>t. VpnTypeOK /\ CallOf(h) /\ ResultOf(h) /\ pc \in [Handlers -> ExiterPc]
    BY DEF CallsInv, TypeOK
  <1>1. ASSUME NEW to, pc' = [pc EXCEPT ![h] = to], UNCHANGED vpnState,
               /\ to \notin {"idle"} \cup Calling \cup Saving
               /\ vpc[h] \in {"idle", "done"}
               /\ to \in Reporting => pc[h] \in Reporting
               /\ to \in Showing => pc[h] \in Showing
               /\ to = "noteStr" => pc[h] = "check" /\ vpc[h] = "done"
        PROVE  \A k \in Handlers : MethodOf(k)' /\ CallOf(k)' /\ ResultOf(k)'
    <2>1. CallOf(h)'
      BY <1>1, <1>t DEF vpnState, params, work
    <2> QED
      BY <1>1, <2>1, MoveCalls
  <1>2. ASSUME NEW to \in Saving, pc' = [pc EXCEPT ![h] = to], UNCHANGED vpnState,
               pc[h] \in {"update"} \cup Saving, vpc[h] = "done", ret[h] # "panic"
        PROVE  \A k \in Handlers : MethodOf(k)' /\ CallOf(k)' /\ ResultOf(k)'
    <2>1. CallOf(h)'
      BY <1>2, <1>t DEF vpnState, params, work
    <2> QED
      BY <1>2, <2>1, MoveCalls
  <1>3. ASSUME NEW o \in Methods, Call(h, o, arg[h]),
               \/ o = "Restart" /\ Move(h, "downStr", "restart")
               \/ o = "Status" /\ (Move(h, "restart", "fetch") \/ Move(h, "noteStr", "read"))
        PROVE  \A k \in Handlers : MethodOf(k)' /\ CallOf(k)' /\ ResultOf(k)'
    <2>1. CallOf(h)'
      BY <1>3, <1>t, CallEffect DEF Move
    <2>2. \E to : pc' = [pc EXCEPT ![h] = to]
      BY <1>3 DEF Move
    <2> QED
      BY <1>3, <2>1, <2>2, MoveCalls
  <1>4. CASE Updated(h) \/ SaveVendor(h) \/ SaveExit(h) \/ MarkDown(h)
    BY <1>4, <1>t, <1>1, <1>2
       DEF Updated, SaveVendor, SaveExit, MarkDown, SetConnected, Move, Returned
  <1>5. CASE RestartOrFail(h)
    BY <1>5, <1>t, <1>1, <1>3 DEF RestartOrFail, Restart, Move, Methods
  <1>6. CASE Restarted(h)
    BY <1>6, <1>t, <1>1, <1>3 DEF Restarted, Status, Move, Returned, Methods
  <1>7. CASE Fetched(h, "fetch", "locate") \/ Fetched(h, "read", "show")
    BY <1>7, <1>t, <1>1 DEF Fetched, Move, Returned
  <1>8. CASE Locate(h) \/ SetPath(h, "path", "append") \/ SetPath(h, "append", "up")
    BY <1>8, <1>t, <1>1 DEF Locate, SetPath, Move
  <1>9. CASE MarkUp(h) \/ Redirect(h)
    BY <1>9, <1>t, <1>1 DEF MarkUp, Redirect, SetConnected, Move
  <1>10. CASE CheckPanics(h) \/ NoteState(h)
    BY <1>10, <1>t, <1>1 DEF CheckPanics, NoteState, SetConnected, Move, Returned
  <1>11. CASE NoteWord(h)
    BY <1>11, <1>t, <1>3 DEF NoteWord, Status, Move, Methods
  <1>12. CASE Respond(h)
    <2>1. pc' = [pc EXCEPT ![h] = "idle"] /\ (Return(h) \/ UNCHANGED vpnState)
      BY <1>12 DEF Respond
    <2>2. vpc'[h] = "idle" /\ arg'[h] = NoArg
      BY <1>12, <1>t DEF Respond, Return, VpnTypeOK, vpnState, params, work
    <2>3. CallOf(h)'
      BY <1>t, <2>1, <2>2
    <2> QED
      BY <2>1, <2>3, MoveCalls
  <1> QED
    BY <1>4, <1>5, <1>6, <1>7, <1>8, <1>9, <1>10, <1>11, <1>12 DEF HandlerStep

(* The beginning of a request.                                             *)
LEMMA RequestCalls ==
  ASSUME NEW h \in Handlers, CallsInv, Request(h)
  PROVE  \A k \in Handlers : MethodOf(k)' /\ CallOf(k)' /\ ResultOf(k)'
  <1> USE DEF CallOf, Calling, Selecting, Saving, Reporting, Showing
  <1>t. VpnTypeOK /\ CallOf(h) /\ pc \in [Handlers -> ExiterPc]
    BY DEF CallsInv, TypeOK
  <1>1. ASSUME NEW v \in Vendors, NEW e \in Exits, SelectExit(h, v, e)
        PROVE  \A k \in Handlers : MethodOf(k)' /\ CallOf(k)' /\ ResultOf(k)'
    <2>1. Move(h, "idle", "update") /\ Call(h, "UpdateConfig", [vendor |-> v, exit |-> e])
      BY <1>1 DEF SelectExit, UpdateConfig
    <2>2. "UpdateConfig" \in Methods
      BY DEF Methods
    <2>3. CallOf(h)'
      BY <1>t, <2>1, <2>2, CallEffect DEF Move
    <2> QED
      BY <2>1, <2>2, <2>3, MoveCalls DEF Move
  <1>2. ASSUME NEW forced \in BOOLEAN, StatusPage(h, forced)
        PROVE  \A k \in Handlers : MethodOf(k)' /\ CallOf(k)' /\ ResultOf(k)'
    <2>1. CASE Move(h, "idle", "check") /\ IsUp(h)
      <3>1. Call(h, "IsUp", arg[h]) /\ "IsUp" \in Methods
        BY <2>1 DEF IsUp, Methods
      <3>2. CallOf(h)'
        BY <1>t, <2>1, <3>1, CallEffect DEF Move
      <3> QED
        BY <2>1, <3>1, <3>2, MoveCalls DEF Move
    <2>2. CASE Move(h, "idle", "show") /\ UNCHANGED vpnState
      <3>1. CallOf(h)'
        BY <1>t, <2>2 DEF Move, vpnState, params, work
      <3> QED
        BY <2>2, <3>1, MoveCalls DEF Move
    <2> QED
      BY <1>2, <2>1, <2>2 DEF StatusPage
  <1> QED
    BY <1>1, <1>2 DEF Request

(* Every step keeps the calls and the types, whatever requests overlap.    *)
LEMMA NextCalls ==
  ASSUME CallsInv, VpnTypeOK', [Next]_vars
  PROVE  CallsInv'
  <1>1. TypeOK'
    BY NextType
  <1>2. ASSUME UNCHANGED <<vpc, ret, op, arg, pc>>
        PROVE  \A k \in Handlers : MethodOf(k)' /\ CallOf(k)' /\ ResultOf(k)'
    BY <1>2, CallsApart DEF CallsInv
  <1>3. CASE Tunnel /\ UNCHANGED exiterVars
    BY <1>1, <1>2, <1>3 DEF CallsInv, Tunnel, Establish, Drop, exiterVars, params
  <1>4. CASE LoadVendors
    BY <1>1, <1>2, <1>4 DEF CallsInv, LoadVendors, vpnState, params
  <1>5. CASE UNCHANGED vars
    BY <1>1, <1>2, <1>5 DEF CallsInv, vars, vpnVars, exiterVars
  <1>6. CASE Crash
    <2>1. \A k \in Handlers : /\ pc'[k] = "idle" /\ vpc'[k] = "idle"
                              /\ op'[k] = "none" /\ arg'[k] = NoArg
      BY <1>6 DEF Crash, VpnCrash, All
    <2> QED
      BY <1>1, <2>1 DEF CallsInv, CallOf, ResultOf, MethodOf, Calling, Saving, Reporting,
         Selecting, Showing, Updating, Reading, Installing
  <1> QED
    BY <1>1, <1>3, <1>4, <1>5, <1>6, VpnStepCalls, HandlerCalls, RequestCalls
       DEF CallsInv, Next

(* Whatever requests overlap, each handler is in the call its statement    *)
(* makes.                                                                  *)
THEOREM AlwaysCalls == Spec => []CallsInv
  <1>1. Init => CallsInv
    <2> SUFFICES ASSUME Init PROVE CallsInv
      OBVIOUS
    <2>1. TypeOK /\ \A k \in Handlers : CallOf(k) /\ ResultOf(k)
      BY InitService DEF SwitchInv
    <2>2. \A k \in Handlers : vpc[k] = "idle" /\ op[k] = "none"
      BY DEF Init, VpnInit, NoCalls, All
    <2> QED
      BY <2>1, <2>2 DEF CallsInv, MethodOf, Updating, Reading, Installing
  <1>2. Spec => []VpnTypeOK
    BY ServiceImplementsVpnServer, VpnTypeCorrect, PTL
  <1>3. CallsInv /\ VpnTypeOK' /\ [Next]_vars => CallsInv'
    BY NextCalls
  <1> QED
    BY <1>1, <1>2, <1>3, PTL DEF Spec

(* Every variable of the service keeps its type, whatever requests         *)
(* overlap, race, fail and crash: in particular the state shown is one of  *)
(* the three of a Tribool, and never the panic or the error of a call.     *)
THEOREM ServiceTypeCorrect == Spec => []TypeOK
  <1>1. CallsInv => TypeOK
    BY DEF CallsInv
  <1> QED
    BY <1>1, AlwaysCalls, PTL

(* The types hold, and every switch has done what its place says.          *)
THEOREM AlwaysService ==
  ASSUME Overlap # "all"
  PROVE  Spec => []ServiceInv
  <1>1. Spec => []SafeInv
    BY ServiceImplementsVpnServer, AlwaysSafe, PTL
  <1>2. SafeInv /\ TypeOK /\ SwitchInv /\ [Next]_vars => SwitchInv'
    BY NextSwitch DEF ServiceInv
  <1>3. Spec => []SwitchInv
    BY <1>1, <1>2, InitService, ServiceTypeCorrect, PTL DEF Spec
  <1> QED
    BY <1>1, <1>3, ServiceTypeCorrect, PTL DEF ServiceInv

(* At most one switch is in progress, and what GS, the server, the file    *)
(* and the daemon are follows from where it stands: before the Restart the *)
(* file may still have been cut short, after it the daemon runs the whole  *)
(* configuration of the exit asked for.                                    *)
THEOREM SwitchInvariant ==
  ASSUME Overlap # "all"
  PROVE  Spec => []SwitchInv
  <1>1. ServiceInv => SwitchInv
    BY DEF ServiceInv
  <1> QED
    BY <1>1, AlwaysService, PTL

(* A SelectExit that answers with its redirect has switched everything to  *)
(* the exit asked for, for any number of goroutines, vendors and exits,    *)
(* with status pages served at any time, and after any failures and        *)
(* crashes.                                                                *)
THEOREM RedirectMeansSwitched ==
  ASSUME Overlap # "all"
  PROVE  Spec => []SwitchInstalls
  <1>1. SwitchInv => SwitchInstalls
    BY DEF SwitchInv, SwitchProgress, SwitchInstalls, Reporting
  <1> QED
    BY <1>1, SwitchInvariant, PTL
=============================================================================

-------------------------- MODULE VpnReportProofs --------------------------
(* Theorems about what VpnExiter reports when its requests take turns: the *)
(* state, the vendor and the output shown are those of the daemon.         *)
EXTENDS VpnExiterProofs

(* A status check speaks of the vendor the server remembers, which is none *)
(* before the first switch.                                                *)
LEMMA CheckedVendor ==
  ASSUME Overlap = "none", ServiceInv, NEW h \in Handlers, Finished(h, "IsUp", "True")
  PROVE  loaded \in Config /\ vs.Vendor \in {NewVpn.Vendor, loaded.vendor}
  <1>1. RunsVendor
    BY DEF ServiceInv, SafeInv, HandlerInv, Answers
  <1>2. NewVpn.Vendor = ""
    BY Zenon DEF NewVpn
  <1> QED
    BY <1>1, <1>2, Zenon DEF RunsVendor

(* What holds at a handler while all others are idle.                      *)
LEMMA ReportFacts ==
  ASSUME NEW h \in Handlers, ServiceInv, ReportInv, pc[h] # "idle"
  PROVE  /\ TypeOK /\ CallOf(h) /\ ResultOf(h) /\ SwitchProgress(h) /\ ReportOf(h)
         /\ \A k \in Handlers \ {h} : pc[k] = "idle"
         /\ UpIsTrue \/ pc[h] \in {"saveExit", "down"}
         /\ VendorsAgree \/ VendorStored(h)
  <1>1. \A k \in Handlers \ {h} : pc[k] = "idle"
    BY DEF ReportInv, TakeTurns
  <1> QED
    BY <1>1 DEF ReportInv, ServiceInv, SwitchInv, VendorStored

(* When the other handlers are idle, the step of one keeps the invariant   *)
(* when it does so for its own part.                                       *)
LEMMA ReportKeeps ==
  ASSUME NEW h \in Handlers, ModeInv',
         \A k \in Handlers \ {h} : pc'[k] = "idle",
         UpIsTrue' \/ pc'[h] \in {"saveExit", "down"},
         VendorsAgree' \/ VendorStored(h)',
         ReportOf(h)'
  PROVE  ReportInv'
  <1>1. TakeTurns'
    BY DEF TakeTurns
  <1>2. \A k \in Handlers \ {h} : ReportOf(k)'
    BY DEF ReportOf, VendorStored, Reporting
  <1> QED
    BY <1>1, <1>2 DEF ReportInv

(* In a mode that is not supported a call can only panic.                  *)
LEMMA NilStep ==
  ASSUME NEW h \in Handlers, VpnTypeOK, vpc[h] = "nil", VpnStep(h)
  PROVE  UNCHANGED <<vs, router>> /\ Panicked(h)' /\ UNCHANGED <<op, arg, work>>
         /\ \A k \in Handlers \ {h} : vpc'[k] = vpc[k] /\ ret'[k] = ret[k]
  <1>1. NilServer(h)
    BY DEF VpnStep, UpdateStep, RestartStep, CheckStep, SessionStep, SetVendor, SetExit,
       ReadTemplate, ReadServer, ReadVendor, RenderConfig, RenderFails, ConnectFails,
       BeginCopy, EndCopy, CopyNothing, CopyFails, Rename, RenameFails, StopDaemon, StopFails,
       StartDaemon, StartFails, RenderCheck, RenderCheckFails, ExecCheck, ExecCheckFails,
       LocalCheck, RenderStatus, ExecStatus, StatusFails, Dial, DialFails, LoseSession
  <1> QED
    BY <1>1 DEF NilServer, Finish, VpnTypeOK, Panicked, params

(* A call begins at nil exactly when the mode is not supported.            *)
LEMMA CallMode ==
  ASSUME NEW h \in Handlers, VpnTypeOK, NEW o \in Methods, NEW a, Call(h, o, a)
  PROVE  /\ UNCHANGED ret
         /\ \A k \in Handlers \ {h} : vpc'[k] = vpc[k]
         /\ vpc'[h] = "nil" <=> ~Supported
         /\ vpc'[h] \notin {"idle", "done", "setExit"} \cup Reading
         /\ UNCHANGED <<vs, loaded>> /\ op'[h] = o /\ arg'[h] = a
  BY DEF Call, Goto, Entry, FirstStep, VpnTypeOK, Supported, Reading, Installing, router,
     Methods

(* In such a mode the service never reports up.                            *)
LEMMA ModeKept ==
  ASSUME ServiceInv, ModeInv, [Next]_vars
  PROVE  ModeInv'
  <1> USE DEF Saving, Reporting
  <1>i. TypeOK /\ VpnTypeOK /\ \A k \in Handlers : CallOf(k)
    BY DEF ServiceInv, SwitchInv, TypeOK
  <1>k. CASE UNCHANGED konf /\ Supported
    BY <1>k DEF ModeInv, Supported, Ssh, Local
  <1> SUFFICES ASSUME ~Supported, ~Supported' PROVE ModeInv'
    <2>1. UNCHANGED konf
      BY DEF Next, Request, HandlerStep, VpnStep, Tunnel, vars, vpnVars
    <2>2. Supported' <=> Supported
      BY <2>1 DEF Supported, Ssh, Local
    <2> QED
      BY <2>2 DEF ModeInv
  <1>m. /\ gs.Connected # "True"
        /\ \A h \in Handlers :
             /\ vpc[h] \in {"idle", "nil"} \/ Panicked(h)
             /\ pc[h] \notin {"restart"} \cup Saving \cup Reporting
    BY DEF ModeInv
  <1> DEFINE Fine(h) == /\ vpc'[h] \in {"idle", "nil"} \/ Panicked(h)'
                        /\ pc'[h] \notin {"restart"} \cup Saving \cup Reporting
  <1>1. ASSUME NEW h \in Handlers, Request(h)
        PROVE  ModeInv'
    <2>1. gs' = gs
      BY <1>1 DEF Request, SelectExit, StatusPage
    <2>2. \/ /\ \E o \in Methods : \E a : Call(h, o, a)
             /\ Move(h, "idle", "update") \/ Move(h, "idle", "check")
          \/ UNCHANGED vpnState /\ Move(h, "idle", "show")
      BY <1>1 DEF Request, SelectExit, StatusPage, UpdateConfig, IsUp, Methods
    <2>3. \A k \in Handlers : Fine(k)
      <3>1. CASE UNCHANGED vpnState /\ Move(h, "idle", "show")
        BY <3>1, <1>m, <1>i DEF Move, vpnState, TypeOK, Panicked
      <3>2. CASE /\ \E o \in Methods : \E a : Call(h, o, a)
                 /\ Move(h, "idle", "update") \/ Move(h, "idle", "check")
        <4>1. /\ UNCHANGED ret /\ vpc'[h] = "nil"
              /\ \A k \in Handlers \ {h} : vpc'[k] = vpc[k]
          BY <3>2, <1>i, CallMode
        <4>2. pc'[h] \in {"update", "check"} /\ \A k \in Handlers \ {h} : pc'[k] = pc[k]
          BY <3>2, <1>i DEF Move, TypeOK
        <4> QED
          BY <4>1, <4>2, <1>m DEF Panicked
      <3> QED
        BY <2>2, <3>1, <3>2
    <2> QED
      BY <2>1, <2>3, <1>m DEF ModeInv
  <1>2. ASSUME NEW h \in Handlers, HandlerStep(h)
        PROVE  ModeInv'
    <2>1. \/ Updated(h) \/ CheckPanics(h) \/ NoteWord(h) \/ Fetched(h, "read", "show")
          \/ Respond(h)
      BY <1>2, <1>m DEF HandlerStep, SaveVendor, SaveExit, MarkDown, RestartOrFail,
         Restarted, Fetched, Locate, SetPath, MarkUp, Redirect, SetConnected, NoteState,
         Returned, Move, Panicked
    <2>2. gs'.Connected = gs.Connected
      <3>1. Fetched(h, "read", "show") => gs' = gs
        BY <1>m DEF Fetched, Returned, Panicked
      <3>2. NoteWord(h) => \E w : gs' = [gs EXCEPT !.ConnectedStr = w]
        BY DEF NoteWord, SetConnectedStr
      <3> QED
        BY <2>1, <3>1, <3>2, <1>i DEF Updated, CheckPanics, Respond, TypeOK
    <2>3. CASE Updated(h) \/ CheckPanics(h) \/ Fetched(h, "read", "show")
      <3>1. Panicked(h) /\ UNCHANGED <<vpc, ret>>
        BY <2>3, <1>m DEF Updated, CheckPanics, Fetched, Returned, Panicked, vpnState
      <3>2. pc'[h] = "panicked" /\ \A k \in Handlers \ {h} : pc'[k] = pc[k]
        BY <2>3, <3>1, <1>i DEF Updated, CheckPanics, Fetched, Panicked, Move, TypeOK
      <3>3. \A k \in Handlers : Fine(k)
        BY <3>1, <3>2, <1>m DEF Panicked
      <3> QED
        BY <3>3, <2>2, <1>m DEF ModeInv
    <2>4. CASE NoteWord(h)
      <3>1. Call(h, "Status", arg[h]) /\ Move(h, "noteStr", "read")
        BY <2>4 DEF NoteWord, Status
      <3>2. /\ UNCHANGED ret /\ vpc'[h] = "nil"
            /\ \A k \in Handlers \ {h} : vpc'[k] = vpc[k]
        BY <3>1, <1>i, CallMode DEF Methods
      <3>3. \A k \in Handlers : Fine(k)
        BY <3>1, <3>2, <1>m, <1>i DEF Move, TypeOK, Panicked
      <3> QED
        BY <3>3, <2>2, <1>m DEF ModeInv
    <2>5. CASE Respond(h)
      <3>1. /\ \A k \in Handlers \ {h} : vpc'[k] = vpc[k] /\ ret'[k] = ret[k] /\ pc'[k] = pc[k]
            /\ pc'[h] = "idle" /\ vpc'[h] \in {vpc[h], "idle"}
            /\ vpc[h] = "done" => vpc'[h] = "idle"
        BY <2>5, <1>i DEF Respond, Return, TypeOK, VpnTypeOK, vpnState
      <3>2. \A k \in Handlers : Fine(k)
        BY <3>1, <1>m DEF Panicked
      <3> QED
        BY <3>2, <2>2, <1>m DEF ModeInv
    <2> QED
      BY <2>1, <2>3, <2>4, <2>5
  <1>3. ASSUME NEW h \in Handlers, VpnStep(h), UNCHANGED exiterVars
        PROVE  ModeInv'
    <2>1. vpc[h] = "nil"
      <3>1. StepEffect(h)
        BY <1>3, SafeStepEffect DEF ServiceInv
      <3> QED
        BY <3>1, <1>m DEF StepEffect, Panicked
    <2>2. /\ Panicked(h)'
          /\ \A k \in Handlers \ {h} : vpc'[k] = vpc[k] /\ ret'[k] = ret[k]
      BY <2>1, <1>3, <1>i, NilStep
    <2>3. \A k \in Handlers : Fine(k)
      BY <2>2, <1>3, <1>m DEF Panicked, exiterVars
    <2> QED
      BY <2>3, <1>3, <1>m DEF ModeInv, exiterVars
  <1>4. CASE UNCHANGED <<vpc, ret, gs, pc>>
    BY <1>4, <1>m DEF ModeInv, Panicked
  <1>5. CASE Crash
    BY <1>5, <1>m DEF ModeInv, Crash, VpnCrash, All, NewGlobalState
  <1>6. Tunnel /\ UNCHANGED exiterVars => UNCHANGED <<vpc, ret, gs, pc>>
    BY DEF Tunnel, Establish, Drop, exiterVars
  <1>7. LoadVendors \/ UNCHANGED vars => UNCHANGED <<vpc, ret, gs, pc>>
    BY DEF LoadVendors, vpnState, vars, vpnVars, exiterVars
  <1> QED
    BY <1>1, <1>2, <1>3, <1>4, <1>5, <1>6, <1>7 DEF Next

(* UpdateConfig stores the vendor it was called with, and panics only in a *)
(* mode that is not supported.                                             *)
LEMMA StoresVendor ==
  ASSUME NEW h \in Handlers, SafeInv, SafeInv', VpnStep(h), op[h] = "UpdateConfig"
  PROVE  \/ vpc[h] = "nil" /\ UNCHANGED vs /\ Panicked(h)'
         \/ vpc[h] = "setVendor" /\ vpc'[h] = "setExit" /\ vs'.Vendor = arg'[h].vendor
         \/ /\ vpc[h] \in {"setExit"} \cup Reading
            /\ vpc'[h] \in {"done"} \cup Reading /\ ~Panicked(h)'
            /\ vs'.Vendor = arg'[h].vendor
  <1> USE DEF Goto, Finish, router, params, work, Panicked, Installing, Reading
  <1>t. VpnTypeOK /\ MethodOf(h) /\ UpdateProgress(h) /\ UpdateProgress(h)'
    BY DEF SafeInv, TypeInv, HandlerInv
  <1>m. vpc[h] \in {"nil"} \cup Updating
    <2>1. StepEffect(h)
      BY SafeStepEffect
    <2> QED
      BY <2>1, <1>t DEF StepEffect, MethodOf, VpnTypeOK, VpnPc, Updating
  <1>1. CASE vpc[h] = "nil"
    <2>1. UNCHANGED vs /\ Panicked(h)'
      BY <1>1, <1>t, NilStep
    <2> QED
      BY <2>1, <1>1
  <1>2. CASE vpc[h] \in Updating
    <2>1. UpdateStep(h)
      BY <1>2 DEF VpnStep, RestartStep, CheckStep, SessionStep, StopDaemon, StopFails,
         StartDaemon, StartFails, RenderCheck, RenderCheckFails, ExecCheck, ExecCheckFails,
         LocalCheck, RenderStatus, ExecStatus, StatusFails, NilServer, Dial, DialFails,
         LoseSession, Updating
    <2>2. CASE SetVendor(h)
      <3>1. vpc[h] = "setVendor" /\ vpc'[h] = "setExit"
        BY <2>2, <1>t DEF SetVendor, VpnTypeOK
      <3> QED
        BY <3>1, <1>t DEF UpdateProgress
    <2>3. CASE SetExit(h) \/ ReadTemplate(h) \/ ReadServer(h) \/ ReadVendor(h)
      <3>1. vpc[h] \in {"setExit"} \cup Reading /\ vpc'[h] \in Reading
        BY <2>3, <1>t DEF SetExit, ReadTemplate, ReadServer, ReadVendor, VpnTypeOK
      <3> QED
        BY <3>1, <1>t DEF UpdateProgress
    <2>4. CASE RenderConfig(h) \/ BeginCopy(h)
      <3>1. vpc[h] \in Reading /\ vpc'[h] \in Reading
        BY <2>4, <1>t DEF RenderConfig, BeginCopy, VpnTypeOK
      <3> QED
        BY <3>1, <1>t DEF UpdateProgress
    <2>5. CASE \/ RenderFails(h) \/ ConnectFails(h) \/ EndCopy(h) \/ CopyNothing(h)
              \/ CopyFails(h) \/ Rename(h) \/ RenameFails(h)
      <3>1. /\ vpc[h] \in Reading /\ vpc'[h] = "done" /\ ret'[h] \in {"ok", "error"}
            /\ UNCHANGED <<vs, arg>>
        BY <2>5, <1>t DEF RenderFails, ConnectFails, EndCopy, CopyNothing, CopyFails, Rename,
           RenameFails, VpnTypeOK
      <3> QED
        BY <3>1, <1>t DEF UpdateProgress
    <2> QED
      BY <2>1, <2>2, <2>3, <2>4, <2>5 DEF UpdateStep
  <1> QED
    BY <1>m, <1>1, <1>2

(* ... and leaves the daemon alone.                                        *)
LEMMA UpdateKeepsDaemon ==
  ASSUME NEW h \in Handlers, SafeInv, VpnStep(h), op[h] = "UpdateConfig"
  PROVE  loaded' = loaded
  <1>1. MethodOf(h)
    BY DEF SafeInv, HandlerInv
  <1>2. ~RestartStep(h)
    BY <1>1 DEF MethodOf, RestartStep, StopDaemon, StopFails, StartDaemon, StartFails
  <1>3. CASE UpdateStep(h)
    BY <1>3 DEF UpdateStep, SetVendor, SetExit, ReadTemplate, ReadServer, ReadVendor,
       RenderConfig, RenderFails, ConnectFails, BeginCopy, EndCopy, CopyNothing, CopyFails,
       Rename, RenameFails, router
  <1>4. CASE CheckStep(h) \/ SessionStep(h)
    BY <1>4 DEF CheckStep, SessionStep, RenderCheck, RenderCheckFails, ExecCheck,
       ExecCheckFails, LocalCheck, RenderStatus, ExecStatus, StatusFails, NilServer, Dial,
       DialFails, LoseSession, router
  <1> QED
    BY <1>2, <1>3, <1>4 DEF VpnStep

(* A Status that succeeds has read what the daemon runs.                   *)
LEMMA StatusReads ==
  ASSUME NEW h \in Handlers, SafeInv, VpnStep(h), op[h] = "Status", Finished(h, "Status", "ok")'
  PROVE  out'[h] = loaded'
  <1> USE DEF Goto, Finish, router, params, work, Finished
  <1>t. VpnTypeOK /\ MethodOf(h)
    BY DEF SafeInv, TypeInv, HandlerInv
  <1>1. ExecStatus(h)
    <2>1. ~UpdateStep(h)
      BY <1>t DEF MethodOf, UpdateStep, Updating, Reading, Installing, SetVendor, SetExit,
         ReadTemplate, ReadServer, ReadVendor, RenderConfig, RenderFails, ConnectFails,
         BeginCopy, EndCopy, CopyNothing, CopyFails, Rename, RenameFails
    <2>2. ~RestartStep(h)
      BY <1>t DEF MethodOf, RestartStep, StopDaemon, StopFails, StartDaemon, StartFails
    <2>3. ~SessionStep(h)
      BY <1>t DEF VpnTypeOK, SessionStep, NilServer, Dial, DialFails, LoseSession, FirstStep
    <2>4. CheckStep(h)
      BY <2>1, <2>2, <2>3 DEF VpnStep
    <2> QED
      BY <2>4, <1>t DEF CheckStep, MethodOf, VpnTypeOK, RenderCheck, RenderCheckFails,
         ExecCheck, ExecCheckFails, LocalCheck, RenderStatus, StatusFails
  <1> QED
    BY <1>1, <1>t DEF ExecStatus, VpnTypeOK

-----------------------------------------------------------------------------
(* Each step keeps the invariant.                                          *)

(* The statements of a call.  The daemon changes only while a switch       *)
(* reports down.                                                           *)
LEMMA CallStepReport ==
  ASSUME NEW h \in Handlers, ServiceInv, SafeInv', ReportInv, ModeInv',
         VpnStep(h), UNCHANGED exiterVars
  PROVE  ReportInv'
  <1>e. StepEffect(h)
    BY SafeStepEffect DEF ServiceInv
  <1>p. pc'[h] = pc[h] /\ pc[h] # "idle" /\ gs' = gs /\ pc' = pc
    BY <1>e DEF StepEffect, exiterVars, ServiceInv, SwitchInv, CallOf
  <1>f. /\ CallOf(h) /\ ReportOf(h)
        /\ \A k \in Handlers \ {h} : pc[k] = "idle"
        /\ UpIsTrue \/ pc[h] \in {"saveExit", "down"}
        /\ VendorsAgree \/ VendorStored(h)
    BY <1>p, ReportFacts
  <1>c. pc[h] \in Calling
    BY <1>e, <1>f DEF StepEffect, CallOf
  <1>1. \A k \in Handlers \ {h} : pc'[k] = "idle"
    BY <1>f, <1>p
  <1>2. UpIsTrue' \/ pc'[h] \in {"saveExit", "down"}
    <2>1. CASE loaded' = loaded
      BY <2>1, <1>f, <1>p DEF UpIsTrue
    <2>2. CASE loaded' # loaded
      <3>1. Writer(h)
        BY <2>2, <1>e DEF StepEffect
      <3>2. gs.Connected # "True" \/ op[h] = "UpdateConfig"
        BY <3>1, <1>c, <1>f DEF Writer, CallOf, Calling, Saving, Reporting, ReportOf
      <3>3. CASE op[h] = "UpdateConfig"
        <4>1. loaded' = NoConfig
          BY <2>2, <3>3, <1>e DEF StepEffect
        <4>2. loaded' = loaded
          BY <3>3, UpdateKeepsDaemon DEF ServiceInv
        <4> QED
          BY <2>2, <4>2
      <3> QED
        BY <3>2, <3>3, <1>p DEF UpIsTrue
    <2> QED
      BY <2>1, <2>2
  <1>3. (VendorsAgree' \/ VendorStored(h)') /\ (VendorStored(h)' => vs'.Vendor = arg'[h].vendor)
        /\ (pc[h] = "update" /\ (vpc'[h] = "nil" \/ Panicked(h)') => ~Supported)
    <2>1. CASE pc[h] = "update"
      <3>1. op[h] = "UpdateConfig"
        BY <2>1, <1>f DEF CallOf
      <3>2. \/ vpc[h] = "nil" /\ UNCHANGED vs /\ Panicked(h)'
            \/ vpc[h] = "setVendor" /\ vpc'[h] = "setExit" /\ vs'.Vendor = arg'[h].vendor
            \/ /\ vpc[h] \in {"setExit"} \cup Reading
               /\ vpc'[h] \in {"done"} \cup Reading /\ ~Panicked(h)'
               /\ vs'.Vendor = arg'[h].vendor
        BY <3>1, StoresVendor DEF ServiceInv
      <3>3. CASE vpc[h] = "nil" /\ UNCHANGED vs /\ Panicked(h)'
        BY <3>3, <2>1, <1>f, <1>p DEF VendorStored, VendorsAgree, ReportOf, Reading, Installing
      <3>4. CASE vpc[h] = "setVendor" /\ vpc'[h] = "setExit" /\ vs'.Vendor = arg'[h].vendor
        BY <3>4, <2>1, <1>p DEF VendorStored, Panicked
      <3>5. CASE /\ vpc'[h] \in {"done"} \cup Reading /\ ~Panicked(h)'
                 /\ vs'.Vendor = arg'[h].vendor
        BY <3>5, <2>1, <1>p DEF VendorStored, Panicked, Reading, Installing
      <3> QED
        BY <3>2, <3>3, <3>4, <3>5
    <2>2. CASE pc[h] # "update"
      <3>1. UNCHANGED vs
        BY <2>2, <1>c, <1>f, <1>e DEF StepEffect, CallOf, Calling, Saving, Reporting, Writer
      <3> QED
        BY <3>1, <2>2, <1>c, <1>f, <1>p DEF VendorStored, VendorsAgree, Calling
    <2> QED
      BY <2>1, <2>2
  <1>4. pc[h] = "fetch" /\ Finished(h, "Status", "ok")' => out'[h] = loaded'
    <2>1. pc[h] = "fetch" => op[h] = "Status"
      BY <1>f DEF CallOf, Reporting
    <2> QED
      BY <2>1, StatusReads DEF ServiceInv
  <1>5. arg'[h] = arg[h] /\ UNCHANGED konf
    BY <1>e DEF StepEffect, VpnStep
  <1>6. ReportOf(h)'
    BY <1>3, <1>4, <1>5, <1>f, <1>p, <1>c DEF ReportOf, Calling, Reporting, Supported, Ssh, Local
  <1> QED
    BY <1>1, <1>2, <1>3, <1>6, ReportKeeps

(* A handler moves, and the others stay idle.                              *)
LEMMA MoveAlone ==
  ASSUME NEW h \in Handlers, TypeOK, NEW from, NEW to, Move(h, from, to),
         \A k \in Handlers \ {h} : pc[k] = "idle"
  PROVE  pc[h] = from /\ pc'[h] = to /\ \A k \in Handlers \ {h} : pc'[k] = "idle"
  BY DEF Move, TypeOK

(* A switch begins: nothing is stored yet.                                 *)
LEMMA SelectReport ==
  ASSUME Overlap = "none", NEW h \in Handlers, NEW v \in Vendors, NEW e \in Exits,
         ServiceInv, ReportInv, ModeInv', SelectExit(h, v, e), UNCHANGED konf
  PROVE  ReportInv'
  <1>i. TypeOK /\ VpnTypeOK
    BY DEF ServiceInv, TypeOK
  <1>a. pc[h] = "idle" /\ \A k \in Handlers \ {h} : pc[k] = "idle"
    BY DEF SelectExit, Move, MayServe
  <1>1. Move(h, "idle", "update") /\ gs' = gs /\ \E a : Call(h, "UpdateConfig", a)
    BY DEF SelectExit, UpdateConfig
  <1>2. /\ vpc'[h] = "nil" <=> ~Supported
        /\ vpc'[h] \notin {"idle", "done", "setExit"} \cup Reading
        /\ UNCHANGED <<vs, loaded>>
    BY <1>1, <1>i, CallMode DEF Methods
  <1>3. pc'[h] = "update" /\ \A k \in Handlers \ {h} : pc'[k] = "idle"
    BY <1>1, <1>i, <1>a, MoveAlone
  <1>4. UpIsTrue /\ VendorsAgree
    BY <1>a DEF ReportInv, VendorStored
  <1>5. UpIsTrue' /\ VendorsAgree'
    BY <1>1, <1>2, <1>4 DEF UpIsTrue, VendorsAgree
  <1>6. ReportOf(h)'
    BY <1>2, <1>3 DEF ReportOf, VendorStored, Panicked, Reporting, Supported, Ssh, Local
  <1> QED
    BY <1>3, <1>5, <1>6, ReportKeeps

(* So does a status page.                                                  *)
LEMMA PageReport ==
  ASSUME Overlap = "none", NEW h \in Handlers, NEW forced \in BOOLEAN,
         ServiceInv, ReportInv, ModeInv', StatusPage(h, forced)
  PROVE  ReportInv'
  <1>i. TypeOK /\ VpnTypeOK
    BY DEF ServiceInv, TypeOK
  <1>a. pc[h] = "idle" /\ \A k \in Handlers \ {h} : pc[k] = "idle"
    BY DEF StatusPage, Move, MayServe
  <1>1. gs' = gs /\ (Move(h, "idle", "check") \/ Move(h, "idle", "show"))
    BY DEF StatusPage
  <1>2. UNCHANGED <<vs, loaded>>
    <2>1. (\E a : Call(h, "IsUp", a)) \/ UNCHANGED vpnState
      BY DEF StatusPage, IsUp
    <2> QED
      BY <2>1, <1>i, CallMode DEF Methods, vpnState, router
  <1>3. pc'[h] \in {"check", "show"} /\ \A k \in Handlers \ {h} : pc'[k] = "idle"
    BY <1>1, <1>i, <1>a, MoveAlone
  <1>4. UpIsTrue /\ VendorsAgree
    BY <1>a DEF ReportInv, VendorStored
  <1>5. UpIsTrue' /\ VendorsAgree'
    BY <1>1, <1>2, <1>4 DEF UpIsTrue, VendorsAgree
  <1>6. ReportOf(h)'
    BY <1>3 DEF ReportOf, VendorStored, Reporting
  <1> QED
    BY <1>3, <1>5, <1>6, ReportKeeps

(* A switch stores its vendor while the state shown is still the old one,  *)
(* and then reports down.                                                  *)
LEMMA SavingReport ==
  ASSUME NEW h \in Handlers, NewVpn.Vendor \notin Vendors,
         ServiceInv, ReportInv, ModeInv', UNCHANGED konf,
         Updated(h) \/ SaveVendor(h) \/ SaveExit(h) \/ MarkDown(h)
  PROVE  ReportInv'
  <1> USE DEF Reporting
  <1>u. UNCHANGED <<vs, loaded, vpc, ret, op, arg, out>>
    BY DEF Updated, SaveVendor, SaveExit, MarkDown, SetConnected, vpnState, router, params, work
  <1>p. pc[h] \in {"update", "saveVendor", "saveExit", "down"}
    BY DEF Updated, SaveVendor, SaveExit, MarkDown, SetConnected, Move
  <1>f. /\ TypeOK /\ CallOf(h) /\ ReportOf(h) /\ SwitchProgress(h)
        /\ \A k \in Handlers \ {h} : pc[k] = "idle"
        /\ UpIsTrue \/ pc[h] \in {"saveExit", "down"}
        /\ VendorsAgree \/ VendorStored(h)
    BY <1>p, ReportFacts
  <1>1. CASE Updated(h)
    <2>1. Move(h, "update", IF ret[h] = "panic" THEN "panicked" ELSE "saveVendor")
          /\ gs' = gs /\ vpc[h] = "done"
      BY <1>1 DEF Updated, Returned
    <2>2. /\ pc'[h] = IF ret[h] = "panic" THEN "panicked" ELSE "saveVendor"
          /\ pc[h] = "update" /\ \A k \in Handlers \ {h} : pc'[k] = "idle"
      BY <2>1, <1>f, MoveAlone
    <2>3. UpIsTrue' /\ (VendorsAgree' \/ VendorStored(h)')
      BY <2>1, <2>2, <1>f, <1>u DEF UpIsTrue, VendorsAgree, VendorStored, Panicked
    <2>4. ret[h] = "panic" => gs.Connected # "True"
      BY <2>1, <2>2, <1>f DEF ReportOf, Panicked, ReportInv, ModeInv
    <2>5. ReportOf(h)'
      BY <2>1, <2>2, <2>4, <1>f, <1>u DEF ReportOf, VendorStored, Panicked
    <2> QED
      BY <2>2, <2>3, <2>5, ReportKeeps
  <1>2. CASE SaveVendor(h)
    <2>1. pc[h] = "saveVendor" /\ pc'[h] = "saveExit" /\ \A k \in Handlers \ {h} : pc'[k] = "idle"
      BY <1>2, <1>f, MoveAlone DEF SaveVendor
    <2>2. At(h, {"saveVendor"}) = {}
      BY <1>f DEF At
    <2>3. gs' = [gs EXCEPT !.Vendor = arg[h].vendor]
      BY <1>2, <2>2 DEF SaveVendor, Racy, RacyWith
    <2>4. arg[h].vendor \in Vendors /\ vs.Vendor = arg[h].vendor
      BY <2>1, <1>f DEF CallOf, Selecting, Saving, ReportOf, VendorStored
    <2>5. VendorsAgree'
      BY <2>3, <2>4, <1>f, <1>u DEF VendorsAgree, TypeOK
    <2>6. ReportOf(h)'
      BY <2>1 DEF ReportOf, VendorStored
    <2> QED
      BY <2>1, <2>5, <2>6, ReportKeeps
  <1>3. CASE SaveExit(h)
    <2>1. pc[h] = "saveExit" /\ pc'[h] = "down" /\ \A k \in Handlers \ {h} : pc'[k] = "idle"
      BY <1>3, <1>f, MoveAlone DEF SaveExit
    <2>2. gs'.Vendor = gs.Vendor
      BY <1>3, <1>f DEF SaveExit, TypeOK
    <2>3. VendorsAgree'
      BY <2>1, <2>2, <1>f, <1>u DEF VendorsAgree, VendorStored
    <2>4. ReportOf(h)'
      BY <2>1 DEF ReportOf, VendorStored
    <2> QED
      BY <2>1, <2>3, <2>4, ReportKeeps
  <1>4. CASE MarkDown(h)
    <2>1. pc[h] = "down" /\ pc'[h] = "downStr" /\ \A k \in Handlers \ {h} : pc'[k] = "idle"
      BY <1>4, <1>f, MoveAlone DEF MarkDown, SetConnected
    <2>2. gs'.Vendor = gs.Vendor /\ gs'.Connected = "False"
      BY <1>4, <1>f DEF MarkDown, SetConnected, TypeOK
    <2>3. VendorsAgree' /\ UpIsTrue'
      BY <2>1, <2>2, <1>f, <1>u DEF VendorsAgree, VendorStored, UpIsTrue
    <2>4. ReportOf(h)'
      BY <2>1, <2>2 DEF ReportOf, VendorStored
    <2> QED
      BY <2>1, <2>3, <2>4, ReportKeeps
  <1> QED
    BY <1>1, <1>2, <1>3, <1>4

(* The word for the state and the status output leave the rest of GS.      *)
LEMMA GsReport ==
  ASSUME TypeOK, NEW x,
         gs' \in {[gs EXCEPT !.ConnectedStr = x], [gs EXCEPT !.StatusOutput = x],
                  [gs EXCEPT !.ExitPath = x], gs}
  PROVE  gs'.Connected = gs.Connected /\ gs'.Vendor = gs.Vendor
  BY DEF TypeOK

(* Restart is called, and answers, while the state shown is down.          *)
LEMMA RestartReport ==
  ASSUME NEW h \in Handlers, ServiceInv, ReportInv, ModeInv', UNCHANGED konf,
         RestartOrFail(h) \/ Restarted(h)
  PROVE  ReportInv'
  <1> USE DEF Reporting
  <1>p. pc[h] \in {"downStr", "restart"}
    BY DEF RestartOrFail, Restarted, Returned
  <1>f. /\ TypeOK /\ VpnTypeOK /\ ReportOf(h)
        /\ \A k \in Handlers \ {h} : pc[k] = "idle"
        /\ UpIsTrue /\ VendorsAgree
    BY <1>p, ReportFacts DEF VendorStored, TypeOK
  <1>1. \E to \in {"failed", "restart", "fetch", "panicked"} :
          /\ Move(h, pc[h], to)
          /\ to = "fetch" => Status(h)
    BY DEF RestartOrFail, Restarted, Move, Returned
  <1>2. /\ pc'[h] \in {"failed", "restart", "fetch", "panicked"}
        /\ pc'[h] = "fetch" => Status(h)
        /\ \A k \in Handlers \ {h} : pc'[k] = "idle"
    BY <1>1, <1>f, MoveAlone
  <1>3. gs'.Connected = gs.Connected /\ gs'.Vendor = gs.Vendor
    <2>1. CASE RestartOrFail(h)
      <3>1. PICK w : gs' = [gs EXCEPT !.ConnectedStr = w]
        BY <2>1 DEF RestartOrFail, SetConnectedStr
      <3> QED
        BY <3>1, <1>f, GsReport
    <2>2. CASE Restarted(h)
      BY <2>2 DEF Restarted
    <2> QED
      BY <2>1, <2>2
  <1>4. UNCHANGED <<vs, loaded>>
    <2>1. UNCHANGED vpnState \/ (\E o \in Methods : \E a : Call(h, o, a))
      BY DEF RestartOrFail, Restarted, Restart, Status, Methods
    <2> QED
      BY <2>1, <1>f, CallMode DEF vpnState, router
  <1>5. Status(h) => vpc'[h] # "done"
    <2>1. Status(h) => Call(h, "Status", arg[h])
      BY DEF Status
    <2> QED
      BY <2>1, <1>f, CallMode DEF Methods
  <1>6. UpIsTrue' /\ VendorsAgree'
    BY <1>3, <1>4, <1>f DEF UpIsTrue, VendorsAgree
  <1>7. gs.Connected = "False"
    BY <1>p, <1>f DEF ReportOf
  <1>8. ReportOf(h)'
    BY <1>2, <1>3, <1>5, <1>7 DEF ReportOf, VendorStored, Finished
  <1> QED
    BY <1>2, <1>6, <1>8, ReportKeeps

(* After the restart: the output is fetched, the exit located, and the     *)
(* path noted, still reported down; then up.                               *)
LEMMA ReportingReport ==
  ASSUME NEW h \in Handlers, ServiceInv, ReportInv, ModeInv', UNCHANGED konf,
         \/ Fetched(h, "fetch", "locate") \/ Locate(h)
         \/ SetPath(h, "path", "append") \/ SetPath(h, "append", "up")
         \/ MarkUp(h) \/ Redirect(h)
  PROVE  ReportInv'
  <1> USE DEF Reporting
  <1>u. UNCHANGED <<vs, loaded, file, vpc, ret, op, arg, out>>
    BY DEF Fetched, Locate, SetPath, MarkUp, Redirect, SetConnected, vpnState, router, params,
       work
  <1>p. pc[h] \in Reporting
    BY DEF Fetched, Returned, Locate, SetPath, MarkUp, Redirect, SetConnected, Move
  <1>f. /\ TypeOK /\ CallOf(h) /\ ReportOf(h) /\ SwitchProgress(h)
        /\ \A k \in Handlers \ {h} : pc[k] = "idle"
        /\ UpIsTrue /\ VendorsAgree
    BY <1>p, ReportFacts DEF VendorStored
  <1>a. \A places \in SUBSET Reporting : At(h, places) = {}
    BY <1>f DEF At
  <1>k. ASSUME gs'.Connected = gs.Connected, gs'.Vendor = gs.Vendor
        PROVE  UpIsTrue' /\ VendorsAgree'
    BY <1>k, <1>u, <1>f DEF UpIsTrue, VendorsAgree
  <1>1. CASE Fetched(h, "fetch", "locate")
    <2>1. \E to \in {"locate", "failed", "panicked"} :
            Move(h, "fetch", to) /\ (to = "locate" => ret[h] = "ok" /\ SetStatusOutput(h))
      BY <1>1 DEF Fetched
    <2>2. /\ pc[h] = "fetch" /\ pc'[h] \in {"locate", "failed", "panicked"}
          /\ pc'[h] = "locate" => ret[h] = "ok" /\ SetStatusOutput(h)
          /\ \A k \in Handlers \ {h} : pc'[k] = "idle"
      BY <2>1, <1>f, MoveAlone
    <2>3. gs'.Connected = gs.Connected /\ gs'.Vendor = gs.Vendor
      <3>1. \E o : gs' \in {[gs EXCEPT !.StatusOutput = o], gs}
        BY <1>1 DEF Fetched, SetStatusOutput
      <3> QED
        BY <3>1, <1>f, GsReport
    <2>4. pc'[h] = "locate" => gs'.StatusOutput = loaded
      <3>1. SUFFICES ASSUME pc'[h] = "locate" PROVE gs'.StatusOutput = loaded
        OBVIOUS
      <3>2. Finished(h, "Status", "ok")
        BY <3>1, <2>2, <1>1, <1>f DEF Fetched, Returned, Finished, CallOf
      <3>3. out[h] = loaded
        BY <3>2, <2>2, <1>f DEF ReportOf
      <3>4. At(h, {"fetch", "read"}) = {}
        BY <1>f DEF At
      <3>5. gs' = [gs EXCEPT !.StatusOutput = out[h]]
        BY <3>1, <3>4, <2>2 DEF SetStatusOutput, RacyWith
      <3> QED
        BY <3>3, <3>5, <1>f DEF TypeOK
    <2>5. gs.Connected = "False"
      BY <2>2, <1>f DEF ReportOf
    <2>6. ReportOf(h)'
      BY <2>2, <2>3, <2>4, <2>5, <1>u DEF ReportOf, VendorStored
    <2> QED
      BY <1>k, <2>2, <2>3, <2>6, ReportKeeps
  <1>2. CASE Locate(h) \/ SetPath(h, "path", "append") \/ SetPath(h, "append", "up")
    <2>1. \E to \in {"path", "failed", "panicked", "append", "up"} : Move(h, pc[h], to)
      BY <1>2 DEF Locate, SetPath, Move
    <2>2. /\ pc'[h] \in {"path", "failed", "panicked", "append", "up"}
          /\ \A k \in Handlers \ {h} : pc'[k] = "idle"
      BY <2>1, <1>f, MoveAlone
    <2>3. pc[h] \in {"locate", "path", "append"}
      BY <1>2 DEF Locate, SetPath, Move
    <2>4. /\ gs'.Connected = gs.Connected /\ gs'.Vendor = gs.Vendor
          /\ gs'.StatusOutput = gs.StatusOutput
      BY <1>2, <1>f DEF Locate, SetPath, TypeOK
    <2>5. ReportOf(h)'
      BY <2>2, <2>3, <2>4, <1>u, <1>f DEF ReportOf, VendorStored
    <2> QED
      BY <1>k, <2>2, <2>4, <2>5, ReportKeeps
  <1>3. CASE MarkUp(h)
    <2>1. pc[h] = "up" /\ pc'[h] = "upStr" /\ \A k \in Handlers \ {h} : pc'[k] = "idle"
      BY <1>3, <1>f, MoveAlone DEF MarkUp, SetConnected
    <2>2. /\ gs'.Connected = "True" /\ gs'.Vendor = gs.Vendor
          /\ gs'.StatusOutput = gs.StatusOutput
      BY <1>3, <1>f DEF MarkUp, SetConnected, TypeOK
    <2>3. loaded = CfgFor(arg[h].vendor, arg[h].exit) /\ gs.Vendor = arg[h].vendor
      BY <2>1, <1>f DEF SwitchProgress
    <2>4. loaded \in Config /\ loaded.vendor = arg[h].vendor
      <3>1. arg[h].vendor \in Vendors /\ arg[h].exit \in Exits
        BY <2>1, <1>f DEF CallOf, Selecting
      <3> QED
        BY <2>3, <3>1 DEF CfgFor, Config, VendorName, ExitName
    <2>5. UpIsTrue' /\ VendorsAgree'
      BY <2>2, <2>3, <2>4, <1>f, <1>u DEF UpIsTrue, VendorsAgree
    <2>6. ReportOf(h)'
      BY <2>1, <2>2, <1>u, <1>f DEF ReportOf, VendorStored
    <2> QED
      BY <2>1, <2>5, <2>6, ReportKeeps
  <1>4. CASE Redirect(h)
    <2>1. pc[h] = "upStr" /\ pc'[h] = "redirect" /\ \A k \in Handlers \ {h} : pc'[k] = "idle"
      BY <1>4, <1>f, MoveAlone DEF Redirect
    <2>2. At(h, {"downStr", "upStr", "noteStr"}) = {}
      BY <1>f DEF At
    <2>3. WordOf(h) = "Up"
      BY <2>1 DEF WordOf, Word
    <2>4. gs' = [gs EXCEPT !.ConnectedStr = "Up"]
      BY <1>4, <2>2, <2>3 DEF Redirect, SetConnectedStr, Racy, RacyWith
    <2>5. /\ gs'.Connected = gs.Connected /\ gs'.Vendor = gs.Vendor
          /\ gs'.StatusOutput = gs.StatusOutput /\ gs'.ConnectedStr = "Up"
      BY <2>4, <1>f DEF TypeOK
    <2>6. ReportOf(h)'
      BY <2>1, <2>5, <1>u, <1>f DEF ReportOf, VendorStored
    <2> QED
      BY <1>k, <2>1, <2>5, <2>6, ReportKeeps
  <1> QED
    BY <1>1, <1>2, <1>3, <1>4

(* A status page notes what the check found.                               *)
LEMMA StatusReport ==
  ASSUME Overlap = "none", NEW h \in Handlers,
         ServiceInv, ReportInv, ModeInv', UNCHANGED konf,
         CheckPanics(h) \/ NoteState(h) \/ NoteWord(h) \/ Fetched(h, "read", "show")
  PROVE  ReportInv'
  <1> USE DEF Reporting
  <1>p. pc[h] \in {"check", "noteStr", "read"}
    BY DEF CheckPanics, NoteState, NoteWord, SetConnected, Fetched, Returned, Move
  <1>f. /\ TypeOK /\ VpnTypeOK /\ CallOf(h) /\ ReportOf(h)
        /\ \A k \in Handlers \ {h} : pc[k] = "idle"
        /\ UpIsTrue /\ VendorsAgree
    BY <1>p, ReportFacts DEF VendorStored, TypeOK
  <1>n. arg[h] = NoArg
    BY <1>p, <1>f DEF CallOf, Showing
  <1>1. \E to \in {"panicked", "noteStr", "read", "show", "failed"} : Move(h, pc[h], to)
    BY DEF CheckPanics, NoteState, NoteWord, SetConnected, Fetched, Returned, Move
  <1>2. /\ pc'[h] \in {"panicked", "noteStr", "read", "show", "failed"}
        /\ \A k \in Handlers \ {h} : pc'[k] = "idle"
    BY <1>1, <1>f, MoveAlone
  <1>3. UNCHANGED <<vs, loaded>> /\ arg'[h] = NoArg
    <2>1. UNCHANGED vpnState \/ Call(h, "Status", arg[h])
      BY DEF CheckPanics, NoteState, NoteWord, SetConnected, Fetched, Status
    <2> QED
      BY <2>1, <1>f, <1>n, CallMode DEF Methods, vpnState, router, params
  <1>4. ReportOf(h)'
    BY <1>2, <1>3 DEF ReportOf, VendorStored
  <1>5. CASE NoteState(h)
    <2>1. gs'.Connected = ret[h] /\ gs'.Vendor = gs.Vendor /\ vpc[h] = "done"
      BY <1>5, <1>f DEF NoteState, SetConnected, Returned, TypeOK
    <2>2. op[h] = "IsUp"
      BY <1>5, <1>f DEF NoteState, Returned, CallOf
    <2>3. ret[h] = "True" => loaded \in Config /\ vs.Vendor \in {NewVpn.Vendor, loaded.vendor}
      BY <2>1, <2>2, CheckedVendor DEF Finished
    <2>4. NewGlobalState.Vendor = "Unknown"
      BY DEF NewGlobalState
    <2>5. UpIsTrue' /\ VendorsAgree'
      BY <2>1, <2>3, <2>4, <1>3, <1>f DEF UpIsTrue, VendorsAgree
    <2> QED
      BY <1>2, <1>4, <2>5, ReportKeeps
  <1>6. CASE CheckPanics(h) \/ NoteWord(h) \/ Fetched(h, "read", "show")
    <2>1. \E x : gs' \in {[gs EXCEPT !.ConnectedStr = x], [gs EXCEPT !.StatusOutput = x], gs}
      BY <1>6 DEF CheckPanics, NoteWord, SetConnectedStr, Fetched, SetStatusOutput
    <2>2. gs'.Connected = gs.Connected /\ gs'.Vendor = gs.Vendor
      BY <2>1, <1>f, GsReport
    <2>3. UpIsTrue' /\ VendorsAgree'
      BY <2>2, <1>3, <1>f DEF UpIsTrue, VendorsAgree
    <2> QED
      BY <1>2, <1>4, <2>3, ReportKeeps
  <1> QED
    BY <1>5, <1>6

(* A handler that answers changes nothing that is reported.                *)
LEMMA RespondReport ==
  ASSUME NEW h \in Handlers, ServiceInv, ReportInv, ModeInv', Respond(h)
  PROVE  ReportInv'
  <1>p. pc[h] \in {"redirect", "failed", "panicked", "show"}
    BY DEF Respond
  <1>f. /\ TypeOK /\ \A k \in Handlers \ {h} : pc[k] = "idle"
        /\ UpIsTrue /\ VendorsAgree
    BY <1>p, ReportFacts DEF VendorStored
  <1>1. pc'[h] = "idle" /\ \A k \in Handlers \ {h} : pc'[k] = "idle"
    BY <1>f DEF Respond, TypeOK
  <1>2. gs' = gs /\ UNCHANGED <<vs, loaded>>
    BY DEF Respond, Return, vpnState, router
  <1>3. UpIsTrue' /\ VendorsAgree'
    BY <1>2, <1>f DEF UpIsTrue, VendorsAgree
  <1>4. ReportOf(h)'
    BY <1>1 DEF ReportOf, VendorStored, Reporting
  <1> QED
    BY <1>1, <1>3, <1>4, ReportKeeps

(* Every step of the service keeps what it reports.                        *)
LEMMA NextReport ==
  ASSUME Overlap = "none", NewVpn.Vendor \notin Vendors,
         ServiceInv, SafeInv', ReportInv, [Next]_vars
  PROVE  ReportInv'
  <1>m. ModeInv'
    BY ModeKept DEF ReportInv
  <1>1. ASSUME NEW h \in Handlers, Request(h) PROVE ReportInv'
    BY <1>m, <1>1, SelectReport, PageReport DEF Request
  <1>2. ASSUME NEW h \in Handlers, HandlerStep(h) PROVE ReportInv'
    BY <1>m, <1>2, SavingReport, RestartReport, ReportingReport, StatusReport, RespondReport
       DEF HandlerStep
  <1>3. ASSUME NEW h \in Handlers, VpnStep(h), UNCHANGED exiterVars PROVE ReportInv'
    BY <1>m, <1>3, CallStepReport
  <1>4. CASE UNCHANGED <<vs, loaded, vpc, ret, op, arg, out, gs, pc, konf>>
    BY <1>4 DEF ReportInv, TakeTurns, ModeInv, UpIsTrue, VendorsAgree, VendorStored, ReportOf,
       Supported, Ssh, Local, Panicked, Finished
  <1>5. CASE Crash
    <2>1. /\ pc' = All("idle") /\ gs' = NewGlobalState /\ vs' = NewVpn
      BY <1>5 DEF Crash, VpnCrash
    <2>2. \A h \in Handlers : pc'[h] = "idle"
      BY <2>1 DEF All
    <2>3. gs'.Connected = "Maybe" /\ gs'.Vendor = NewGlobalState.Vendor
      BY <2>1 DEF NewGlobalState
    <2>4. UpIsTrue' /\ VendorsAgree'
      BY <2>1, <2>3 DEF UpIsTrue, VendorsAgree
    <2>5. \A h \in Handlers : ReportOf(h)'
      BY <2>2 DEF ReportOf, VendorStored, Reporting
    <2> QED
      BY <1>m, <2>2, <2>4, <2>5 DEF ReportInv, TakeTurns
  <1>6. \/ Tunnel /\ UNCHANGED exiterVars
        \/ LoadVendors /\ UNCHANGED konf
        \/ UNCHANGED vars
        => UNCHANGED <<vs, loaded, vpc, ret, op, arg, out, gs, pc, konf>>
    BY DEF Tunnel, Establish, Drop, LoadVendors, vpnState, router, params, work, vars, vpnVars,
       exiterVars
  <1> QED
    BY <1>1, <1>2, <1>3, <1>4, <1>5, <1>6 DEF Next

(* At first nothing is known.                                              *)
LEMMA InitReport == Init => ReportInv
  <1> SUFFICES ASSUME Init PROVE ReportInv
    OBVIOUS
  <1>1. pc = All("idle") /\ vpc = All("idle") /\ gs = NewGlobalState /\ vs = NewVpn
    BY DEF Init, VpnInit, NoCalls
  <1>2. \A h \in Handlers : pc[h] = "idle" /\ vpc[h] = "idle"
    BY <1>1 DEF All
  <1>3. gs.Connected = "Maybe"
    BY <1>1 DEF NewGlobalState
  <1>4. UpIsTrue /\ VendorsAgree
    BY <1>1, <1>3 DEF UpIsTrue, VendorsAgree
  <1>5. ModeInv /\ TakeTurns
    BY <1>2, <1>3 DEF ModeInv, TakeTurns, Saving, Reporting
  <1>6. \A h \in Handlers : ReportOf(h)
    BY <1>2 DEF ReportOf, VendorStored, Reporting
  <1> QED
    BY <1>4, <1>5, <1>6 DEF ReportInv

(* What the service reports follows from where its one request stands.     *)
THEOREM ReportInvariant ==
  ASSUME Overlap = "none", NewVpn.Vendor \notin Vendors
  PROVE  Spec => []ReportInv
  <1>1. Spec => []ServiceInv
    BY AlwaysService
  <1>2. ServiceInv => SafeInv
    BY DEF ServiceInv
  <1>3. ServiceInv /\ SafeInv' /\ ReportInv /\ [Next]_vars => ReportInv'
    BY NextReport
  <1> QED
    BY <1>1, <1>2, <1>3, InitReport, PTL DEF Spec

(* A SelectExit that answers with its redirect has reported the connection *)
(* up, with the output of the daemon that runs then, for any number of     *)
(* goroutines that take turns, and any vendors and exits, none with the    *)
(* name of the vendor that a new VpnServer has.                            *)
THEOREM SwitchIsReported ==
  ASSUME Overlap = "none", NewVpn.Vendor \notin Vendors
  PROVE  Spec => []SwitchReported
  <1>1. ReportInv => SwitchReported
    BY DEF ReportInv, ReportOf, SwitchReported, Reporting
  <1> QED
    BY <1>1, ReportInvariant, PTL

(* Between requests, "Up" next to a vendor is true of the daemon, however  *)
(* the requests before it ended, through crashes and dropped tunnels.      *)
THEOREM UpIsOfRunningVendor ==
  ASSUME Overlap = "none", NewVpn.Vendor \notin Vendors
  PROVE  Spec => []UpNamesRunningVendor
  <1>1. ReportInv => UpNamesRunningVendor
    BY DEF ReportInv, UpIsTrue, UpNamesRunningVendor, Quiet
  <1> QED
    BY <1>1, ReportInvariant, PTL

(* A SelectExit that fails, at whatever step, leaves the connection        *)
(* reported as not up.                                                     *)
THEOREM FailureIsNotUp ==
  ASSUME Overlap = "none", NewVpn.Vendor \notin Vendors
  PROVE  Spec => []FailureNotShownUp
  <1>1. ReportInv => FailureNotShownUp
    BY DEF ReportInv, ReportOf, FailureNotShownUp
  <1> QED
    BY <1>1, ReportInvariant, PTL

-----------------------------------------------------------------------------
(* The vendor of a switch is one that is loaded.                           *)

(* Past the rendering of its configuration a switch is for a vendor with a *)
(* template.                                                               *)
TemplateFound(h) ==
  \/ vpc[h] \in {"connect", "copying", "rename"}
  \/ Finished(h, "UpdateConfig", "ok")
  \/ pc[h] \in {"restart"} \cup Reporting
  => arg[h].vendor \in konf.templates

TemplateInv == \A h \in Handlers : TemplateFound(h)

(* What a call by h does to the others: nothing.                           *)
LEMMA CallsAside ==
  ASSUME NEW h \in Handlers, TypeOK, VpnCalls(h) \/ UNCHANGED vpnState,
         NEW to, pc' = [pc EXCEPT ![h] = to]
  PROVE  Aside(h)
  <1>1. CASE UNCHANGED vpnState
    BY <1>1 DEF Aside, TypeOK, vpnState, params
  <1>2. CASE VpnCalls(h)
    <2>1. (\E o \in Methods : \E a : Call(h, o, a)) \/ Return(h)
      BY <1>2 DEF VpnCalls, UpdateConfig, Restart, IsUp, Status, Methods
    <2> QED
      BY <2>1 DEF Call, Goto, Return, Aside, TypeOK, VpnTypeOK
  <1> QED
    BY <1>1, <1>2

(* A statement of UpdateConfig that goes on to install has found the       *)
(* template.                                                               *)
LEMMA UpdateTemplate ==
  ASSUME NEW h \in Handlers, SafeInv, TemplateFound(h), VpnStep(h),
         \/ vpc'[h] \in {"connect", "copying", "rename"}
         \/ Finished(h, "UpdateConfig", "ok")'
  PROVE  arg'[h].vendor \in konf'.templates
  <1> USE DEF Goto, Finish, params, work, router
  <1>t. VpnTypeOK /\ MethodOf(h) /\ UpdateProgress(h)
    BY DEF SafeInv, TypeInv, HandlerInv
  <1>e. UNCHANGED <<op, arg, konf>> /\ vpc[h] \notin {"idle", "done"}
    <2>1. StepEffect(h)
      BY SafeStepEffect
    <2> QED
      BY <2>1 DEF StepEffect, VpnStep
  <1>1. CASE vpc[h] \in {"connect", "copying", "rename"}
    BY <1>1, <1>e DEF TemplateFound
  <1>2. CASE vpc[h] \notin {"connect", "copying", "rename"}
    <2>1. CASE UpdateStep(h)
      <3>1. RenderConfig(h)
        BY <2>1, <1>2, <1>t DEF UpdateStep, SetVendor, SetExit, ReadTemplate, ReadServer,
           ReadVendor, RenderFails, ConnectFails, BeginCopy, EndCopy, CopyNothing,
           CopyFails, Rename, RenameFails, VpnTypeOK, Finished
      <3>2. draft[h].tmpl \in konf.templates /\ draft[h] = CfgFor(arg[h].vendor, arg[h].exit)
        BY <3>1, <1>t DEF RenderConfig, UpdateProgress, Installing
      <3> QED
        BY <3>2, <1>e DEF CfgFor
    <2>2. CASE RestartStep(h) \/ CheckStep(h)
      <3>1. op[h] # "UpdateConfig"
        BY <2>2, <1>t DEF MethodOf, RestartStep, CheckStep, StopDaemon, StopFails, StartDaemon,
           StartFails, RenderCheck, RenderCheckFails, ExecCheck, ExecCheckFails, LocalCheck,
           RenderStatus, ExecStatus, StatusFails
      <3>2. vpc'[h] \in {"connect", "copying", "rename"} => op'[h] = "UpdateConfig"
        BY <2>2, <1>t DEF VpnTypeOK, RestartStep, CheckStep, StopDaemon, StopFails, StartDaemon,
           StartFails, RenderCheck, RenderCheckFails, ExecCheck, ExecCheckFails, LocalCheck,
           RenderStatus, ExecStatus, StatusFails, Checked, PollOf
      <3> QED
        BY <3>1, <3>2, <1>e DEF Finished
    <2>3. CASE SessionStep(h)
      BY <2>3, <1>t DEF VpnTypeOK, SessionStep, NilServer, Dial, DialFails, LoseSession,
         FirstStep, Finished
    <2> QED
      BY <2>1, <2>2, <2>3 DEF VpnStep
  <1> QED
    BY <1>1, <1>2

(* Every step keeps to vendors with a template.                            *)
LEMMA NextTemplate ==
  ASSUME ServiceInv, TemplateInv, [Next]_vars
  PROVE  TemplateInv'
  <1> USE DEF Reporting
  <1>i. TypeOK /\ VpnTypeOK /\ \A k \in Handlers : CallOf(k) /\ ResultOf(k)
    BY DEF ServiceInv, SwitchInv, TypeOK
  <1>a. ASSUME NEW h \in Handlers, Aside(h), UNCHANGED konf, TemplateFound(h)'
        PROVE  TemplateInv'
    BY <1>a DEF TemplateInv, TemplateFound, Finished, Aside
  <1>1. ASSUME NEW h \in Handlers, Request(h)
        PROVE  TemplateInv'
    <2>1. /\ (\E o \in Methods : \E a : Call(h, o, a)) \/ UNCHANGED vpnState
          /\ VpnCalls(h) \/ UNCHANGED vpnState
          /\ UNCHANGED konf /\ pc[h] = "idle"
      BY <1>1 DEF Request, SelectExit, StatusPage, UpdateConfig, IsUp, Methods, VpnCalls, Move
    <2>2. PICK to \in {"update", "check", "show"} : pc' = [pc EXCEPT ![h] = to]
      BY <1>1 DEF Request, SelectExit, StatusPage, Move
    <2>3. Aside(h)
      BY <2>1, <2>2, <1>i, CallsAside
    <2>4. TemplateFound(h)'
      <3>1. vpc[h] = "idle"
        BY <2>1, <1>i DEF CallOf
      <3>2. vpc'[h] \notin {"connect", "copying", "rename", "done"}
        BY <2>1, <3>1, <1>i, CallMode DEF Reading, Installing, vpnState
      <3>3. pc'[h] \notin {"restart"} \cup Reporting
        BY <2>2, <1>i DEF TypeOK
      <3> QED
        BY <3>2, <3>3 DEF TemplateFound, Finished
    <2> QED
      BY <1>a, <2>1, <2>3, <2>4
  <1>2. ASSUME NEW h \in Handlers, HandlerStep(h)
        PROVE  TemplateInv'
    <2>1. PICK to \in ExiterPc : pc' = [pc EXCEPT ![h] = to]
      BY <1>2 DEF HandlerStep, Updated, SaveVendor, SaveExit, MarkDown, RestartOrFail,
         Restarted, Fetched, Locate, SetPath, MarkUp, Redirect, CheckPanics, NoteState,
         NoteWord, Respond, SetConnected, Move, ExiterPc
    <2>2. VpnCalls(h) \/ UNCHANGED vpnState
      BY <1>2 DEF HandlerStep, Updated, SaveVendor, SaveExit, MarkDown, RestartOrFail,
         Restarted, Fetched, Locate, SetPath, MarkUp, Redirect, CheckPanics, NoteState,
         NoteWord, Respond, SetConnected, VpnCalls
    <2>3. Aside(h) /\ UNCHANGED konf
      BY <1>2, <2>1, <2>2, <1>i, CallsAside DEF HandlerStep
    <2>4. ASSUME pc'[h] \in {"restart"} \cup Reporting
          PROVE  arg'[h].vendor \in konf.templates
      <3>1. CASE RestartOrFail(h)
        <4>1. pc'[h] \in {"failed", "restart"} /\ pc[h] = "downStr"
          BY <3>1, <1>i DEF RestartOrFail, Move, TypeOK
        <4>2. ret[h] # "error" /\ Restart(h)
          BY <3>1, <2>4, <4>1, <1>i DEF RestartOrFail, Move, TypeOK
        <4>3. Finished(h, "UpdateConfig", "ok")
          BY <4>1, <4>2, <1>i DEF Finished, CallOf, ResultOf, Saving
        <4>4. arg'[h] = arg[h]
          BY <4>2, <1>i, CallMode DEF Restart, Methods
        <4> QED
          BY <4>3, <4>4 DEF TemplateInv, TemplateFound
      <3>2. CASE Restarted(h)
        <4>1. pc'[h] \in {"fetch", "failed", "panicked"} /\ pc[h] = "restart"
          BY <3>2, <1>i DEF Restarted, Returned, Move, TypeOK
        <4>2. Status(h)
          BY <3>2, <2>4, <4>1, <1>i DEF Restarted, Move, TypeOK
        <4>3. arg'[h] = arg[h]
          BY <4>2, <1>i, CallMode DEF Status, Methods
        <4> QED
          BY <4>1, <4>3 DEF TemplateInv, TemplateFound
      <3>3. CASE \/ Fetched(h, "fetch", "locate") \/ Locate(h)
                \/ SetPath(h, "path", "append") \/ SetPath(h, "append", "up")
                \/ MarkUp(h) \/ Redirect(h)
        <4>1. pc[h] \in Reporting /\ UNCHANGED vpnState
          BY <3>3 DEF Fetched, Returned, Locate, SetPath, MarkUp, Redirect, SetConnected, Move
        <4> QED
          BY <4>1 DEF TemplateInv, TemplateFound, vpnState, params
      <3>4. CASE \/ Updated(h) \/ SaveVendor(h) \/ SaveExit(h) \/ MarkDown(h)
                \/ CheckPanics(h) \/ NoteState(h) \/ NoteWord(h) \/ Fetched(h, "read", "show")
                \/ Respond(h)
        BY <3>4, <2>4, <1>i DEF Updated, SaveVendor, SaveExit, MarkDown, CheckPanics, NoteState,
           NoteWord, Fetched, Respond, SetConnected, Returned, Move, TypeOK
      <3> QED
        BY <1>2, <3>1, <3>2, <3>3, <3>4 DEF HandlerStep
    <2>5. ASSUME \/ vpc'[h] \in {"connect", "copying", "rename"}
                 \/ Finished(h, "UpdateConfig", "ok")'
          PROVE  arg'[h].vendor \in konf.templates
      <3>1. CASE UNCHANGED vpnState
        BY <3>1, <2>5 DEF TemplateInv, TemplateFound, Finished, vpnState, params
      <3>2. CASE VpnCalls(h)
        <4>1. (\E o \in Methods : \E a : Call(h, o, a)) \/ Return(h)
          BY <3>2 DEF VpnCalls, UpdateConfig, Restart, IsUp, Status, Methods
        <4>2. vpc'[h] \notin {"connect", "copying", "rename", "done"}
          BY <4>1, <1>i, CallMode DEF Return, VpnTypeOK, Reading, Installing
        <4> QED
          BY <4>2, <2>5 DEF Finished
      <3> QED
        BY <2>2, <3>1, <3>2
    <2>6. TemplateFound(h)'
      BY <2>3, <2>4, <2>5 DEF TemplateFound
    <2> QED
      BY <1>a, <2>3, <2>6
  <1>3. ASSUME NEW h \in Handlers, VpnStep(h), UNCHANGED exiterVars
        PROVE  TemplateInv'
    <2>1. StepEffect(h) /\ SafeInv /\ UNCHANGED konf
      BY <1>3, SafeStepEffect DEF ServiceInv, VpnStep
    <2>2. Aside(h)
      BY <2>1, <1>3 DEF StepEffect, Aside, exiterVars
    <2>3. \/ vpc'[h] \in {"connect", "copying", "rename"}
          \/ Finished(h, "UpdateConfig", "ok")'
          => arg'[h].vendor \in konf'.templates
      BY <2>1, <1>3, UpdateTemplate DEF TemplateInv
    <2>4. pc'[h] \in {"restart"} \cup Reporting => arg'[h].vendor \in konf'.templates
      BY <2>1, <1>3 DEF TemplateInv, TemplateFound, StepEffect, exiterVars
    <2>5. TemplateFound(h)'
      BY <2>3, <2>4 DEF TemplateFound
    <2> QED
      BY <1>a, <2>1, <2>2, <2>5
  <1>4. CASE UNCHANGED <<vpc, ret, op, arg, pc, konf>>
    BY <1>4 DEF TemplateInv, TemplateFound, Finished
  <1>5. CASE Crash
    BY <1>5 DEF Crash, VpnCrash, All, TemplateInv, TemplateFound, Finished
  <1>6. \/ Tunnel /\ UNCHANGED exiterVars
        \/ LoadVendors /\ UNCHANGED konf
        \/ UNCHANGED vars
        => UNCHANGED <<vpc, ret, op, arg, pc, konf>>
    BY DEF Tunnel, Establish, Drop, LoadVendors, vpnState, params, vars, vpnVars, exiterVars
  <1> QED
    BY <1>1, <1>2, <1>3, <1>4, <1>5, <1>6 DEF Next

(* A SelectExit that restarted the VPN finds its vendor in GS.Vendors once *)
(* the vendors are loaded, when only listed vendors have templates, while  *)
(* status pages are served and loadVendors replaces the map.               *)
THEOREM LocatedVendorIsLoaded ==
  ASSUME Overlap # "all"
  PROVE  Spec => []LocateFindsVendor
  <1>1. Spec => []ServiceInv
    BY AlwaysService
  <1>2. Init => TemplateInv
    <2>1. Init => \A h \in Handlers : vpc[h] = "idle" /\ pc[h] = "idle"
      BY DEF Init, VpnInit, NoCalls, All
    <2> QED
      BY <2>1 DEF TemplateInv, TemplateFound, Finished, Reporting
  <1>3. ServiceInv /\ TemplateInv /\ [Next]_vars => TemplateInv'
    BY NextTemplate
  <1>4. ServiceInv /\ TemplateInv => LocateFindsVendor
    <2> SUFFICES ASSUME ServiceInv, TemplateInv, NEW h \in Handlers, pc[h] = "locate",
                        vendors # NoVendors, konf.templates \subseteq konf.listed
                 PROVE  arg[h].vendor \in DOMAIN vendors
      BY DEF LocateFindsVendor
    <2>1. arg[h].vendor \in konf.templates
      BY DEF TemplateInv, TemplateFound, Reporting
    <2>2. DOMAIN vendors = konf.listed
      BY DEF ServiceInv, TypeOK, Snapshots
    <2> QED
      BY <2>1, <2>2
  <1> QED
    BY <1>1, <1>2, <1>3, <1>4, PTL DEF Spec
=============================================================================

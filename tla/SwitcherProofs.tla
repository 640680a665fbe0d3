--------------------------- MODULE SwitcherProofs ---------------------------
(***************************************************************************)
(* The web service of VpnExiter implements Switcher, unless SelectExit     *)
(* requests overlap.                                                       *)
(***************************************************************************)
EXTENDS VpnExiterProofs

-----------------------------------------------------------------------------
(* The state of Switcher in that of the service.                           *)
Choices  == [vendor : Vendors, exit : Exits]
Asked    == {arg[h] : h \in Handlers} \ {NoArg}
Answered == {arg[h] : h \in {g \in Handlers : pc[g] = "redirect"}}
Shown    == [vendor |-> gs.Vendor, exit |-> gs.Exit]

ConfigOf == [c \in Choices |-> CfgFor(c.vendor, c.exit)]

(* What is asked for is the exit of the one SelectExit in progress, and it *)
(* is answered when that one is about to redirect.                         *)
LEMMA OneAsked ==
  ASSUME SwitchInv, NEW h \in Handlers, arg[h] # NoArg
  PROVE  Asked = {arg[h]} /\ Answered = IF pc[h] = "redirect" THEN {arg[h]} ELSE {}
<1>1. \A g \in Handlers \ {h} : arg[g] = NoArg /\ pc[g] # "redirect"
  <2>1. \A g \in Handlers \ {h} : arg[g] = NoArg /\ CallOf(g)
    BY DEF SwitchInv, OneSwitch
  <2> QED BY <2>1, NotSelecting DEF Selecting, Reporting
<1>2. Asked = {arg[h]}
  BY <1>1 DEF Asked
<1>3. CASE pc[h] = "redirect"
  <2>1. {g \in Handlers : pc[g] = "redirect"} = {h}
    BY <1>1, <1>3
  <2> QED BY <1>2, <1>3, <2>1 DEF Answered
<1>4. CASE pc[h] # "redirect"
  <2>1. {g \in Handlers : pc[g] = "redirect"} = {}
    BY <1>1, <1>4
  <2> QED BY <1>2, <1>4, <2>1 DEF Answered
<1> QED BY <1>3, <1>4

LEMMA NoneAsked ==
  ASSUME SwitchInv, \A h \in Handlers : arg[h] = NoArg
  PROVE  Asked = {} /\ Answered = {}
<1>1. Asked = {}
  BY DEF Asked
<1>2. \A h \in Handlers : pc[h] # "redirect"
  BY NotSelecting DEF SwitchInv, Selecting, Reporting
<1> QED BY <1>1, <1>2 DEF Answered

(* The exit of a SelectExit is one that may be chosen.                     *)
LEMMA Choice ==
  ASSUME TypeOK, SwitchInv, NEW h \in Handlers, pc[h] \in Selecting
  PROVE  /\ arg[h] # NoArg /\ arg[h] \in Choices
         /\ ConfigOf[arg[h]] = CfgFor(arg[h].vendor, arg[h].exit)
<1>1. CallOf(h) /\ arg[h] \in [vendor : VendorName, exit : ExitName]
  BY DEF SwitchInv, TypeOK, VpnTypeOK
<1>2. arg[h].vendor \in Vendors /\ arg[h].exit \in Exits
  BY <1>1 DEF CallOf
<1>3. arg[h] \in Choices
  BY <1>1, <1>2 DEF Choices
<1> QED BY <1>1, <1>3, NotSelecting DEF ConfigOf

-----------------------------------------------------------------------------
(* Steps nobody notices.                                                   *)
LEMMA Unnoticed ==
  ASSUME arg' = arg, loaded' = loaded,
         \A g \in Handlers : pc'[g] = "redirect" <=> pc[g] = "redirect",
         gs'.Vendor = gs.Vendor, gs'.Exit = gs.Exit
  PROVE  UNCHANGED Promise!switcherVars
<1>1. {g \in Handlers : pc'[g] = "redirect"} = {g \in Handlers : pc[g] = "redirect"}
  OBVIOUS
<1>2. Asked' = Asked /\ Shown' = Shown
  BY DEF Asked, Shown
<1>3. Answered' = Answered
  BY <1>1 DEF Answered
<1> QED BY <1>2, <1>3 DEF Promise!switcherVars, Asked, Answered, Shown

(* A handler that moves on, but not to or from its answer.                 *)
LEMMA MoveUnnoticed ==
  ASSUME TypeOK, NEW h \in Handlers, NEW from, NEW to, Move(h, from, to),
         from # "redirect", to # "redirect", arg' = arg, loaded' = loaded,
         gs'.Vendor = gs.Vendor, gs'.Exit = gs.Exit
  PROVE  UNCHANGED Promise!switcherVars
<1>1. \A g \in Handlers : pc'[g] = "redirect" <=> pc[g] = "redirect"
  BY DEF TypeOK, Move
<1> QED BY <1>1, Unnoticed

(* A handler that goes on with a call for the same exit.                   *)
LEMMA CallUnnoticed ==
  ASSUME TypeOK, NEW h \in Handlers, NEW o \in Methods, Call(h, o, arg[h])
  PROVE  arg' = arg /\ loaded' = loaded
BY DEF Call, router, TypeOK, VpnTypeOK

-----------------------------------------------------------------------------
(* The statements of the calls: only Restart touches the daemon.           *)
LEMMA CallStepPromise ==
  ASSUME NEW h \in Handlers, ServiceInv, VpnStep(h), UNCHANGED exiterVars
  PROVE  Promise!SwitcherNext \/ UNCHANGED Promise!switcherVars
<1>1. StepEffect(h) /\ UNCHANGED <<gs, pc>>
  BY SafeStepEffect DEF ServiceInv, exiterVars
<1>2. TypeOK /\ SwitchInv /\ CallOf(h) /\ SwitchProgress(h)
  BY DEF ServiceInv, SwitchInv
<1>3. CASE loaded' = loaded
  BY <1>1, <1>3, Unnoticed DEF StepEffect
<1>4. CASE loaded' # loaded
  <2>1. op[h] = "Restart" /\ vpc[h] \notin {"idle", "done"}
    BY <1>1, <1>4 DEF StepEffect
  <2>2. pc[h] = "restart"
    BY <1>2, <2>1 DEF CallOf, Calling, Saving, Reporting
  <2>3. /\ arg[h] # NoArg /\ arg[h] \in Choices
        /\ ConfigOf[arg[h]] = CfgFor(arg[h].vendor, arg[h].exit)
    BY <1>2, <2>2, Choice DEF Selecting
  <2>4. Asked = {arg[h]} /\ Answered = {}
    BY <1>2, <2>2, <2>3, OneAsked
  <2>5. Asked' = Asked /\ Answered' = Answered /\ Shown' = Shown
    BY <1>1 DEF StepEffect, Asked, Answered, Shown
  <2>6. Shown = arg[h] /\ file \in {ConfigOf[arg[h]], Partial}
    BY <1>2, <2>2, <2>3 DEF SwitchProgress, FileFor, Shown, Choices
  <2>7. CASE loaded' = NoConfig
    BY <2>4, <2>5, <2>6, <2>7 DEF Promise!SwitcherNext, Promise!Stop, Asked, Answered, Shown
  <2>8. CASE loaded = NoConfig /\ loaded' = file
    BY <2>3, <2>4, <2>5, <2>6, <2>8
       DEF Promise!SwitcherNext, Promise!Start, Asked, Answered, Shown, ConfigOf, Choices
  <2> QED BY <1>1, <1>4, <2>7, <2>8 DEF StepEffect
<1> QED BY <1>3, <1>4

-----------------------------------------------------------------------------
(* The statements of SelectExit.                                           *)
LEMMA SelectPromise ==
  ASSUME NEW h \in Handlers, NEW v \in Vendors, NEW e \in Exits,
         Overlap # "all", ServiceInv, SelectExit(h, v, e)
  PROVE  Promise!SwitcherNext
<1> DEFINE a == [vendor |-> v, exit |-> e]
<1>1. TypeOK /\ VpnTypeOK /\ SwitchInv /\ \A k \in Handlers : CallOf(k)
  BY DEF ServiceInv, SwitchInv, TypeOK
<1>2. Call(h, "UpdateConfig", a) /\ Move(h, "idle", "update") /\ gs' = gs
  BY DEF SelectExit, UpdateConfig
<1>3. \A k \in Handlers : arg[k] = NoArg
  BY <1>1, <1>2 DEF SelectExit, MayServe, CallOf, Move
<1>4. Asked = {} /\ Answered = {}
  BY <1>1, <1>3, NoneAsked
<1>5. a \in Choices /\ a # NoArg
  <2>1. a \in Choices /\ a.exit \in Exits
    BY DEF Choices
  <2> QED BY <2>1, NoExit
<1> HIDE DEF a
<1>6. loaded' = loaded /\ arg' = [arg EXCEPT ![h] = a]
  BY <1>2 DEF Call, router
<1>7. Asked' = {a}
  BY <1>1, <1>3, <1>5, <1>6 DEF Asked, VpnTypeOK
<1>8. Answered' = {}
  <2>1. \A k \in Handlers : pc[k] # "redirect"
    BY <1>1, <1>3, NotSelecting DEF Selecting, Reporting
  <2>2. \A k \in Handlers : pc'[k] # "redirect"
    BY <1>1, <1>2, <2>1 DEF Move, TypeOK
  <2> QED BY <2>2 DEF Answered
<1>9. Shown' = Shown
  BY <1>2 DEF Shown
<1> QED
  BY <1>4, <1>5, <1>6, <1>7, <1>8, <1>9
     DEF Promise!SwitcherNext, Promise!Ask, Asked, Answered, Shown, Choices

LEMMA SavingPromise ==
  ASSUME NEW h \in Handlers, ServiceInv,
         Updated(h) \/ SaveVendor(h) \/ SaveExit(h) \/ MarkDown(h)
  PROVE  Promise!SwitcherNext \/ UNCHANGED Promise!switcherVars
<1>1. TypeOK /\ SwitchInv
  BY DEF ServiceInv
<1>2. UNCHANGED vpnState /\ arg' = arg /\ loaded' = loaded
  BY DEF Updated, SaveVendor, SaveExit, MarkDown, SetConnected, vpnState, router, params
<1>3. CASE Updated(h)
  <2>1. PICK to \in {"panicked", "saveVendor"} : Move(h, "update", to)
    BY <1>3 DEF Updated
  <2>2. gs' = gs
    BY <1>3 DEF Updated
  <2> QED BY <1>1, <1>2, <2>1, <2>2, MoveUnnoticed
<1>4. CASE MarkDown(h)
  <2>1. Move(h, "down", "downStr") /\ gs'.Vendor = gs.Vendor /\ gs'.Exit = gs.Exit
    BY <1>1, <1>4 DEF MarkDown, SetConnected, TypeOK
  <2> QED BY <1>1, <1>2, <2>1, MoveUnnoticed
<1>5. CASE SaveVendor(h) \/ SaveExit(h)
  <2>1. /\ pc[h] \in {"saveVendor", "saveExit"}
        /\ \A g \in Handlers : pc'[g] = "redirect" <=> pc[g] = "redirect"
    BY <1>1, <1>5 DEF SaveVendor, SaveExit, Move, TypeOK
  <2>2. arg[h] # NoArg /\ arg[h] \in Choices
    BY <1>1, <2>1, Choice DEF Selecting, Saving
  <2>3. Asked = {arg[h]} /\ Answered = {}
    BY <1>1, <2>1, <2>2, OneAsked
  <2>4. {g \in Handlers : pc'[g] = "redirect"} = {g \in Handlers : pc[g] = "redirect"}
    BY <2>1
  <2>5. Asked' = Asked /\ Answered' = Answered
    BY <1>2, <2>4 DEF Asked, Answered
  <2>6. At(h, {"saveVendor"}) = {} /\ At(h, {"saveExit"}) = {}
    BY <1>1, <2>1, SwitchAlone DEF Selecting, Saving
  <2>7. \E part \in {"vendor", "exit"} : Shown' = [Shown EXCEPT ![part] = arg[h][part]]
    <3>1. CASE SaveVendor(h)
      <4>1. gs' = [gs EXCEPT !.Vendor = arg[h].vendor]
        BY <2>6, <3>1 DEF SaveVendor, Racy, RacyWith
      <4>2. Shown' = [Shown EXCEPT !["vendor"] = arg[h].vendor]
        BY <1>1, <4>1 DEF Shown, TypeOK
      <4> QED BY <4>2
    <3>2. CASE SaveExit(h)
      <4>1. gs' = [gs EXCEPT !.Exit = arg[h].exit]
        BY <2>6, <3>2 DEF SaveExit, Racy, RacyWith
      <4>2. Shown' = [Shown EXCEPT !["exit"] = arg[h].exit]
        BY <1>1, <4>1 DEF Shown, TypeOK
      <4> QED BY <4>2
    <3> QED BY <1>5, <3>1, <3>2
  <2>8. DOMAIN Shown = {"vendor", "exit"}
    BY DEF Shown
  <2>9. Promise!Show
    BY <1>2, <2>3, <2>5, <2>7, <2>8 DEF Promise!Show, Asked, Answered, Shown
  <2> QED BY <2>9 DEF Promise!SwitcherNext
<1> QED BY <1>3, <1>4, <1>5

LEMMA RestartPromise ==
  ASSUME NEW h \in Handlers, ServiceInv, RestartOrFail(h) \/ Restarted(h)
  PROVE  UNCHANGED Promise!switcherVars
<1>1. TypeOK /\ "Restart" \in Methods /\ "Status" \in Methods
  BY DEF ServiceInv, Methods
<1>2. CASE RestartOrFail(h)
  <2>1. gs'.Vendor = gs.Vendor /\ gs'.Exit = gs.Exit
    BY <1>1, <1>2, GsKept DEF RestartOrFail, SetConnectedStr, NotesState
  <2>2. CASE Move(h, "downStr", "failed") /\ UNCHANGED vpnState
    <3>1. arg' = arg /\ loaded' = loaded
      BY <2>2 DEF vpnState, router, params
    <3> QED BY <1>1, <2>1, <2>2, <3>1, MoveUnnoticed
  <2>3. CASE Move(h, "downStr", "restart") /\ Restart(h)
    <3>1. arg' = arg /\ loaded' = loaded
      BY <1>1, <2>3, CallUnnoticed DEF Restart
    <3> QED BY <1>1, <2>1, <2>3, <3>1, MoveUnnoticed
  <2> QED BY <1>2, <2>2, <2>3 DEF RestartOrFail
<1>3. CASE Restarted(h)
  <2>1. gs' = gs
    BY <1>3 DEF Restarted
  <2>2. ASSUME NEW to \in {"failed", "panicked"}, Move(h, "restart", to), UNCHANGED vpnState
        PROVE  UNCHANGED Promise!switcherVars
    <3>1. arg' = arg /\ loaded' = loaded
      BY <2>2 DEF vpnState, router, params
    <3> QED BY <1>1, <2>1, <2>2, <3>1, MoveUnnoticed
  <2>3. CASE Move(h, "restart", "fetch") /\ Status(h)
    <3>1. arg' = arg /\ loaded' = loaded
      BY <1>1, <2>3, CallUnnoticed DEF Status
    <3> QED BY <1>1, <2>1, <2>3, <3>1, MoveUnnoticed
  <2> QED BY <1>3, <2>2, <2>3 DEF Restarted
<1> QED BY <1>2, <1>3

LEMMA ReportingPromise ==
  ASSUME NEW h \in Handlers, ServiceInv,
         \/ Fetched(h, "fetch", "locate") \/ Locate(h)
         \/ SetPath(h, "path", "append") \/ SetPath(h, "append", "up")
         \/ MarkUp(h)
  PROVE  UNCHANGED Promise!switcherVars
<1>1. TypeOK
  BY DEF ServiceInv
<1>2. arg' = arg /\ loaded' = loaded
  BY DEF Fetched, Locate, SetPath, MarkUp, SetConnected, vpnState, router, params
<1>3. \E from, to : Move(h, from, to) /\ from # "redirect" /\ to # "redirect"
  BY DEF Fetched, Locate, SetPath, MarkUp, SetConnected
<1>4. gs'.Vendor = gs.Vendor /\ gs'.Exit = gs.Exit
  <2>1. CASE Fetched(h, "fetch", "locate")
    <3>1. NotesState
      BY <2>1 DEF Fetched, SetStatusOutput, NotesState
    <3> QED BY <1>1, <3>1, GsKept
  <2>2. CASE ~Fetched(h, "fetch", "locate")
    BY <1>1, <2>2 DEF Locate, SetPath, MarkUp, SetConnected, TypeOK
  <2> QED BY <2>1, <2>2
<1> QED BY <1>1, <1>2, <1>3, <1>4, MoveUnnoticed

(* The answer: everything is as it was asked for.                          *)
LEMMA RedirectPromise ==
  ASSUME NEW h \in Handlers, ServiceInv, Redirect(h)
  PROVE  Promise!SwitcherNext
<1>1. TypeOK /\ SwitchInv /\ SwitchProgress(h)
  BY DEF ServiceInv, SwitchInv
<1>2. Move(h, "upStr", "redirect") /\ UNCHANGED vpnState /\ arg' = arg /\ loaded' = loaded
  BY DEF Redirect, vpnState, router, params
<1>3. pc[h] = "upStr" /\ gs'.Vendor = gs.Vendor /\ gs'.Exit = gs.Exit
  BY <1>1, <1>2, GsKept DEF Redirect, SetConnectedStr, NotesState, Move
<1>4. /\ arg[h] # NoArg /\ arg[h] \in Choices
      /\ ConfigOf[arg[h]] = CfgFor(arg[h].vendor, arg[h].exit)
  BY <1>1, <1>3, Choice DEF Selecting, Reporting
<1>5. Asked = {arg[h]} /\ Asked' = Asked /\ Shown' = Shown
  BY <1>1, <1>2, <1>3, <1>4, OneAsked DEF Asked, Shown
<1>6. Answered' = {arg[h]}
  <2>1. \A g \in Handlers \ {h} : pc[g] # "redirect"
    <3>1. \A g \in Handlers \ {h} : arg[g] = NoArg /\ CallOf(g)
      BY <1>1, <1>4 DEF SwitchInv, OneSwitch
    <3> QED BY <3>1, NotSelecting DEF Selecting, Reporting
  <2>2. {g \in Handlers : pc'[g] = "redirect"} = {h}
    BY <1>1, <1>2, <2>1 DEF Move, TypeOK
  <2> QED BY <1>2, <2>2 DEF Answered
<1>7. loaded = ConfigOf[arg[h]] /\ Shown = arg[h]
  BY <1>1, <1>3, <1>4 DEF SwitchProgress, Reporting, Shown, Choices
<1> QED
  BY <1>2, <1>4, <1>5, <1>6, <1>7
     DEF Promise!SwitcherNext, Promise!Succeed, Asked, Answered, Shown, ConfigOf, Choices

-----------------------------------------------------------------------------
(* Status pages.                                                           *)
LEMMA PagePromise ==
  ASSUME NEW h \in Handlers, NEW forced \in BOOLEAN, ServiceInv, StatusPage(h, forced)
  PROVE  UNCHANGED Promise!switcherVars
<1>1. TypeOK /\ gs' = gs /\ "IsUp" \in Methods
  BY DEF ServiceInv, StatusPage, Methods
<1>2. CASE Move(h, "idle", "check") /\ IsUp(h)
  <2>1. arg' = arg /\ loaded' = loaded
    BY <1>1, <1>2, CallUnnoticed DEF IsUp
  <2> QED BY <1>1, <1>2, <2>1, MoveUnnoticed
<1>3. CASE Move(h, "idle", "show") /\ UNCHANGED vpnState
  <2>1. arg' = arg /\ loaded' = loaded
    BY <1>3 DEF vpnState, router, params
  <2> QED BY <1>1, <1>3, <2>1, MoveUnnoticed
<1> QED BY <1>2, <1>3 DEF StatusPage

LEMMA StatusPromise ==
  ASSUME NEW h \in Handlers, ServiceInv,
         CheckPanics(h) \/ NoteState(h) \/ NoteWord(h) \/ Fetched(h, "read", "show")
  PROVE  UNCHANGED Promise!switcherVars
<1>1. TypeOK /\ "Status" \in Methods
  BY DEF ServiceInv, Methods
<1>2. \E from, to : Move(h, from, to) /\ from # "redirect" /\ to # "redirect"
  BY DEF CheckPanics, NoteState, NoteWord, Fetched, SetConnected
<1>3. arg' = arg /\ loaded' = loaded
  <2>1. CASE NoteWord(h)
    BY <1>1, <2>1, CallUnnoticed DEF NoteWord, Status
  <2>2. CASE ~NoteWord(h)
    BY <2>2 DEF CheckPanics, NoteState, Fetched, SetConnected, vpnState, router, params
  <2> QED BY <2>1, <2>2
<1>4. gs'.Vendor = gs.Vendor /\ gs'.Exit = gs.Exit
  <2>1. NotesState
    BY DEF CheckPanics, NoteState, NoteWord, Fetched, SetConnected, SetConnectedStr,
       SetStatusOutput, NotesState
  <2> QED BY <1>1, <2>1, GsKept
<1> QED BY <1>1, <1>2, <1>3, <1>4, MoveUnnoticed

-----------------------------------------------------------------------------
(* The end of a request, and of the program.                               *)
LEMMA RespondPromise ==
  ASSUME NEW h \in Handlers, ServiceInv, Respond(h)
  PROVE  Promise!SwitcherNext \/ UNCHANGED Promise!switcherVars
<1>1. TypeOK /\ VpnTypeOK /\ SwitchInv /\ CallOf(h)
  BY DEF ServiceInv, SwitchInv, TypeOK
<1>2. pc' = [pc EXCEPT ![h] = "idle"] /\ gs' = gs /\ loaded' = loaded
  BY DEF Respond, Return, vpnState, router
<1>3. Shown' = Shown
  BY <1>2 DEF Shown
<1>4. arg' = [arg EXCEPT ![h] = NoArg]
  <2>1. CASE vpc[h] = "done"
    BY <2>1 DEF Respond, Return
  <2>2. CASE vpc[h] # "done"
    <3>1. arg' = arg /\ vpc[h] \in {"idle", "done"}
      BY <1>1, <2>2 DEF Respond, vpnState, params, CallOf, Calling
    <3>2. arg[h] = NoArg
      BY <1>1, <2>2, <3>1 DEF CallOf
    <3> QED BY <1>1, <3>1, <3>2 DEF VpnTypeOK
  <2> QED BY <2>1, <2>2
<1>5. CASE arg[h] = NoArg
  <2>1. arg' = arg
    BY <1>1, <1>4, <1>5 DEF VpnTypeOK
  <2>2. pc[h] # "redirect"
    BY <1>1, <1>5, NotSelecting DEF Selecting, Reporting
  <2>3. \A g \in Handlers : pc'[g] = "redirect" <=> pc[g] = "redirect"
    BY <1>1, <1>2, <2>2 DEF TypeOK
  <2> QED BY <1>2, <2>1, <2>3, Unnoticed
<1>6. CASE arg[h] # NoArg
  <2>1. \A g \in Handlers \ {h} : arg[g] = NoArg /\ pc[g] # "redirect"
    <3>1. \A g \in Handlers \ {h} : arg[g] = NoArg /\ CallOf(g)
      BY <1>1, <1>6 DEF SwitchInv, OneSwitch
    <3> QED BY <3>1, NotSelecting DEF Selecting, Reporting
  <2>2. Asked = {arg[h]}
    BY <1>1, <1>6, OneAsked
  <2>3. Asked' = {}
    BY <1>1, <1>4, <2>1 DEF Asked, VpnTypeOK
  <2>4. Answered' = {}
    <3>1. {g \in Handlers : pc'[g] = "redirect"} = {}
      BY <1>1, <1>2, <2>1 DEF TypeOK
    <3> QED BY <3>1 DEF Answered
  <2> QED
    BY <1>2, <1>3, <2>2, <2>3, <2>4 DEF Promise!SwitcherNext, Promise!Finish, Asked, Answered, Shown
<1> QED BY <1>5, <1>6

LEMMA CrashPromise == Crash => Promise!SwitcherNext
<1> SUFFICES ASSUME Crash PROVE Promise!Crash
  BY DEF Promise!SwitcherNext
<1>1. arg' = All(NoArg) /\ pc' = All("idle") /\ gs' = NewGlobalState /\ loaded' = loaded
  BY DEF Crash, VpnCrash, router
<1>2. Asked' = {}
  BY <1>1 DEF Asked, All
<1>3. Answered' = {}
  <2>1. {g \in Handlers : pc'[g] = "redirect"} = {}
    BY <1>1 DEF All
  <2> QED BY <2>1 DEF Answered
<1>4. Shown' = [vendor |-> NewGlobalState.Vendor, exit |-> NewGlobalState.Exit]
  BY <1>1 DEF Shown
<1> QED BY <1>1, <1>2, <1>3, <1>4 DEF Promise!Crash, Asked, Answered, Shown

LEMMA InitPromise == Init => Promise!SwitcherInit
<1> SUFFICES ASSUME Init PROVE Promise!SwitcherInit
  OBVIOUS
<1>1. /\ \A h \in Handlers : arg[h] = NoArg /\ pc[h] = "idle"
      /\ gs = NewGlobalState
  BY DEF Init, VpnInit, NoCalls, All
<1>2. Asked = {} /\ Answered = {}
  BY <1>1 DEF Asked, Answered
<1>3. Shown = [vendor |-> NewGlobalState.Vendor, exit |-> NewGlobalState.Exit]
  BY <1>1 DEF Shown
<1>4. loaded \in {NoConfig} \cup {ConfigOf[c] : c \in DOMAIN ConfigOf}
  <2>1. CASE loaded = NoConfig
    BY <2>1
  <2>2. CASE loaded # NoConfig
    <3>1. PICK v \in Vendors, e \in Exits : loaded = CfgFor(v, e)
      BY <2>2 DEF Init, VpnInit
    <3> DEFINE c == [vendor |-> v, exit |-> e]
    <3>2. c \in Choices /\ c.vendor = v /\ c.exit = e
      BY DEF Choices
    <3> HIDE DEF c
    <3>3. c \in DOMAIN ConfigOf /\ ConfigOf[c] = CfgFor(v, e)
      BY <3>2 DEF ConfigOf
    <3> QED BY <3>1, <3>3
  <2> QED BY <2>1, <2>2
<1> QED
  BY <1>2, <1>3, <1>4 DEF Promise!SwitcherInit, Asked, Answered, Shown, ConfigOf, Choices

-----------------------------------------------------------------------------
(* For any number of goroutines, vendors and exits, whatever fails, and    *)
(* however many status pages are served meanwhile, the service is a        *)
(* Switcher: the daemon is stopped and started only for the exit that is   *)
(* being asked for, the answer comes when it serves it and the page names  *)
(* it, and both stay until an exit is asked for again or the program dies  *)
(* (main.go SelectExit, Status; vpn.go Restart).                           *)
THEOREM ServiceImplementsSwitcher ==
  ASSUME Overlap # "all"
  PROVE  Spec => SwitcherSpec
<1>1. ServiceInv /\ [Next]_vars => [Promise!SwitcherNext]_(Promise!switcherVars)
  <2> SUFFICES ASSUME ServiceInv, [Next]_vars
               PROVE  Promise!SwitcherNext \/ UNCHANGED Promise!switcherVars
    OBVIOUS
  <2>1. ASSUME NEW h \in Handlers, Request(h)
        PROVE  Promise!SwitcherNext \/ UNCHANGED Promise!switcherVars
    BY <2>1, SelectPromise, PagePromise DEF Request
  <2>2. ASSUME NEW h \in Handlers, HandlerStep(h)
        PROVE  Promise!SwitcherNext \/ UNCHANGED Promise!switcherVars
    BY <2>2, SavingPromise, RestartPromise, ReportingPromise, RedirectPromise, StatusPromise,
       RespondPromise DEF HandlerStep
  <2>3. ASSUME NEW h \in Handlers, VpnStep(h), UNCHANGED exiterVars
        PROVE  Promise!SwitcherNext \/ UNCHANGED Promise!switcherVars
    BY <2>3, CallStepPromise
  <2>4. CASE Tunnel /\ UNCHANGED exiterVars
    BY <2>4, Unnoticed DEF Tunnel, Establish, Drop, exiterVars, params
  <2>5. CASE LoadVendors
    BY <2>5, Unnoticed DEF LoadVendors, vpnState, router, params
  <2>6. CASE UNCHANGED vars
    BY <2>6, Unnoticed DEF vars, vpnVars, exiterVars
  <2> QED BY <2>1, <2>2, <2>3, <2>4, <2>5, <2>6, CrashPromise DEF Next
<1> QED BY <1>1, InitPromise, AlwaysService, PTL DEF Spec, SwitcherSpec, Promise!SwitcherSpec
=============================================================================

-------------------------------- MODULE Tabs --------------------------------
(***************************************************************************)
(* The page of templates/index.html in a browser: jQuery UI's tabs widget, *)
(* every tab of which is loaded with jQuery.ajax when it is opened, and    *)
(* the page's own beforeLoad and fail handlers.  A behaviour is the life   *)
(* of one page: a link leads to a new one.                                 *)
(*                                                                         *)
(* A browser runs one task at a time, an input event, a network event or a *)
(* timer, to its end; so every action is a whole task, with the callbacks  *)
(* it calls.  What interleaves are the tasks.                              *)
(***************************************************************************)
EXTENDS Integers, FiniteSets

CONSTANTS
  LastTab,    \* the tabs are numbered 1 .. LastTab
  MaxLoads    \* bound: requests made during the life of a page

ASSUME TabsAssumption == LastTab \in Nat \ {0} /\ MaxLoads \in Nat \ {0}

VARIABLES
  active,     \* options.active, and this.active: some tab, none being collapsible
  loading,    \* the tabs with the class ui-tabs-loading
  xhr,        \* that.xhr: the last request made, until it is complete
  activating, \* the activation by arrow key that waits for its delay
  made,       \* the number of requests made
  reqs,       \* the requests: the tab, the state of the jqXHR, and whether
              \* the timer that its callbacks set is due
  inFlight,   \* jQuery.active
  panel,      \* what the panel of each tab shows
  last        \* history: the last request made for each tab, none being 0

tabsVars == <<active, loading, xhr, activating, made, reqs, inFlight, panel, last>>

Tabs     == 1 .. LastTab
Requests == 1 .. MaxLoads
NoXhr    == 0
NoTab    == 0

Request(t, s, d) == [tab |-> t, state |-> s, due |-> d]

(* A panel shows nothing, a message, or the answer to a request.           *)
Blank     == [text |-> "blank", of |-> 0]
Wait      == [text |-> "Loading", of |-> 0]
Sorry     == [text |-> "Couldn't load", of |-> 0]
Answer(r) == [text |-> "answer", of |-> r]

Idle == [tab |-> NoTab, behind |-> {}]

TabsTypeOK ==
  /\ active \in Tabs
  /\ loading \subseteq Tabs
  /\ xhr \in Requests \cup {NoXhr}
  /\ activating \in [tab : Tabs \cup {NoTab}, behind : SUBSET Requests]
  /\ made \in Requests
  /\ reqs \in [Requests -> [tab : Tabs, due : BOOLEAN,
                 state : {"unsent", "sent", "resolved", "failed", "aborted"}]]
  /\ inFlight \in Nat
  /\ panel \in [Tabs -> {Blank, Wait, Sorry} \cup {Answer(r) : r \in Requests}]
  /\ last \in [Tabs -> Requests \cup {NoXhr}]

-----------------------------------------------------------------------------
(* index.html beforeLoad: the panels it knows by the ids that the widget   *)
(* gives them, ui-id-4 and ui-id-6, are those of the tabs 2 and 3.         *)
BeforeLoad(p, t) == IF t \in {2, 3} THEN [p EXCEPT ![t] = Wait] ELSE p

(* tabs.load: a request is made, and its tab marked until it is complete.  *)
(* The fail handler of the page comes before that of the widget.           *)
(* _create loads the tab that is active at first.                          *)
TabsInit ==
  /\ active \in Tabs
  /\ loading = {active}
  /\ xhr = 1
  /\ activating = Idle
  /\ made = 1
  /\ reqs = [r \in Requests |-> Request(active, IF r = 1 THEN "sent" ELSE "unsent", FALSE)]
  /\ inFlight = 1
  /\ panel = BeforeLoad([t \in Tabs |-> Blank], active)
  /\ last = [t \in Tabs |-> IF t = active THEN 1 ELSE NoXhr]

(* jqXHR.abort: done() ignores a request that is completed; one in flight  *)
(* is rejected there and then, so that the page's fail handler writes to   *)
(* the panel and the widget's sets a timer.                                *)
InFlight(r) == r # NoXhr /\ reqs[r].state = "sent"

(* Mutants: the handlers are not told; nothing is aborted.                 *)
AbortUntold(r) == IF InFlight(r) THEN [reqs EXCEPT ![r].state = "aborted"] ELSE reqs
AbortNothing(r) == reqs

Abort(r) ==
  IF InFlight(r) THEN [reqs EXCEPT ![r].state = "aborted", ![r].due = TRUE] ELSE reqs

AbortPanel(r) == IF InFlight(r) THEN [panel EXCEPT ![reqs[r].tab] = Sorry] ELSE panel

(* Mutant: done() counts a request that was completed before.              *)
CountAgain(r) == IF r # NoXhr THEN inFlight - 1 ELSE inFlight

AbortCount(r) == IF InFlight(r) THEN inFlight - 1 ELSE inFlight

(* _eventHandler takes no click on a tab that is active or being loaded.   *)
(* Mutant: it takes the click on a tab that is being loaded.               *)
AcceptsLoading(t) == t # active

Accepts(t) == t # active /\ t \notin loading

(* ... and otherwise makes it the active one, aborts the last request if   *)
(* it is not complete, and loads the tab.  _toggle, without animations,    *)
(* ends in the same task.                                                  *)
(* Mutant: the request is aborted after the tab is loaded.                 *)
LoadThenAbort(t) ==
  /\ made < MaxLoads
  /\ active' = t
  /\ made' = made + 1
  /\ reqs' = [reqs EXCEPT ![made + 1] = Request(t, "aborted", TRUE)]
  /\ inFlight' = inFlight
  /\ panel' = [panel EXCEPT ![t] = Sorry]
  /\ loading' = loading \cup {t}
  /\ xhr' = made + 1
  /\ last' = [last EXCEPT ![t] = made + 1]

Switch(t) ==
  /\ made < MaxLoads
  /\ active' = t
  /\ made' = made + 1
  /\ reqs' = [Abort(xhr) EXCEPT ![made + 1] = Request(t, "sent", FALSE)]
  /\ inFlight' = AbortCount(xhr) + 1
  /\ panel' = BeforeLoad(AbortPanel(xhr), t)
  /\ loading' = loading \cup {t}
  /\ xhr' = made + 1
  /\ last' = [last EXCEPT ![t] = made + 1]

Ignore == UNCHANGED <<active, loading, xhr, made, reqs, inFlight, panel, last>>

-----------------------------------------------------------------------------
(* Input.  Which tab has the keyboard focus is left open.                  *)

(* A click on a tab; alt and page up or down do the same to a neighbour of *)
(* the active tab.                                                         *)
Click(t) ==
  /\ Accepts(t)
  /\ Switch(t)
  /\ UNCHANGED activating

(* The timers of the requests that are due, set with a delay of 1 ms.      *)
Due == {r \in Requests : reqs[r].due}

(* An arrow key, home or end moves the focus to tab t, which will be       *)
(* activated after a delay of 300 ms.                                      *)
ArrowKey(t) ==
  /\ activating' = [tab |-> t, behind |-> Due]
  /\ Ignore

(* With ctrl held the focus moves and nothing else.                        *)
CtrlArrowKey ==
  /\ activating' = Idle
  /\ Ignore

(* Space or enter on tab t: the delayed activation is cancelled.           *)
ActivateKey(t) ==
  /\ activating' = Idle
  /\ IF Accepts(t) THEN Switch(t) ELSE Ignore

(* The delay is over: not before the timers that were already due by then. *)
Activate ==
  /\ activating.tab # NoTab
  /\ activating.behind \cap Due = {}
  /\ activating' = Idle
  /\ IF Accepts(activating.tab) THEN Switch(activating.tab) ELSE Ignore

Input ==
  \/ \E t \in Tabs : Click(t) \/ ActivateKey(t) \/ ArrowKey(t)
  \/ CtrlArrowKey

-----------------------------------------------------------------------------
(* The network.  The transport's callback is called once: it removes every *)
(* listener of the XMLHttpRequest before it calls done().                  *)

Respond(r) ==
  /\ reqs[r].state = "sent"
  /\ reqs' = [reqs EXCEPT ![r].state = "resolved", ![r].due = TRUE]
  /\ inFlight' = inFlight - 1
  /\ UNCHANGED <<active, loading, xhr, activating, made, panel, last>>

(* A status other than 2xx and 304, or no answer at all.                   *)
Fail(r) ==
  /\ reqs[r].state = "sent"
  /\ reqs' = [reqs EXCEPT ![r].state = "failed", ![r].due = TRUE]
  /\ inFlight' = inFlight - 1
  /\ panel' = [panel EXCEPT ![reqs[r].tab] = Sorry]
  /\ UNCHANGED <<active, loading, xhr, activating, made, last>>

(* The timer set by the callbacks of load, and its complete().  Timers     *)
(* with the same delay run in the order in which they were set, which is   *)
(* that of the requests.                                                   *)
Complete(r) ==
  /\ r \in Due
  /\ \A s \in Due : r <= s
  /\ reqs' = [reqs EXCEPT ![r].due = FALSE]
  /\ panel' = IF reqs[r].state = "resolved" THEN [panel EXCEPT ![reqs[r].tab] = Answer(r)]
                                            ELSE panel
  /\ loading' = loading \ {reqs[r].tab}
  /\ xhr' = IF xhr = r THEN NoXhr ELSE xhr
  /\ UNCHANGED <<active, activating, made, inFlight, last>>

Network == \E r \in Requests : Respond(r) \/ Fail(r)
Timer   == \E r \in Requests : Complete(r)

TabsNext == Input \/ Activate \/ Network \/ Timer

(* A request is answered or fails, and timers run.  Nothing is asked of    *)
(* the user.                                                               *)
TabsSpec ==
  /\ TabsInit /\ [][TabsNext]_tabsVars
  /\ WF_tabsVars(Network) /\ WF_tabsVars(Timer)

-----------------------------------------------------------------------------
(* Properties.                                                             *)

(* At most one request is in flight: the last one made, for the active     *)
(* tab, and the one that the widget would abort; jQuery.active counts it,  *)
(* so that ajaxStart and ajaxStop alternate (jquery-ui.js _eventHandler,   *)
(* load; jquery.js ajax).                                                  *)
OneRequest ==
  /\ \A r \in Requests : reqs[r].state = "sent" => r = made /\ xhr = r /\ reqs[r].tab = active
  /\ inFlight = Cardinality({r \in Requests : reqs[r].state = "sent"})

(* A tab is marked as being loaded as long as a request for it is in       *)
(* flight or a timer for it is due, and there is never more than one of    *)
(* these: no tab is locked for ever, and none is unlocked by the timer of  *)
(* an earlier request (jquery-ui.js load, its complete()).                 *)
LoadingSettles ==
  \A t \in Tabs :
    Cardinality({r \in Requests : reqs[r].tab = t /\ (reqs[r].state = "sent" \/ reqs[r].due)})
      = IF t \in loading THEN 1 ELSE 0

(* When the active tab is no longer being loaded, its panel shows the      *)
(* answer to the request made when it was opened, or says that it could    *)
(* not be loaded, after that very request failed: not after one the user   *)
(* dropped (index.html beforeLoad; jquery-ui.js load).                     *)
ActivePanelHonest ==
  active \notin loading =>
    LET r == last[active] IN
    \/ reqs[r].state = "resolved" /\ panel[active] = Answer(r)
    \/ reqs[r].state = "failed" /\ panel[active] = Sorry

(* Why these hold: a request is pending until its timer has run, and what  *)
(* is pending for a tab is the last request made for it.  This is the      *)
(* inductive invariant of the proofs.                                      *)
Pending(r) == reqs[r].state = "sent" \/ reqs[r].due

RequestInv ==
  \A r \in Requests :
    /\ r > made => ~Pending(r)
    /\ reqs[r].state = "sent" => r = made /\ ~reqs[r].due
    /\ Pending(r) => last[reqs[r].tab] = r

LastInv ==
  /\ last[active] = made
  /\ \A t \in Tabs :
       /\ last[t] # NoXhr => last[t] <= made /\ reqs[last[t]].tab = t
       /\ t \in loading <=> last[t] # NoXhr /\ Pending(last[t])

XhrInv == xhr = IF Pending(made) THEN made ELSE NoXhr

CountInv == inFlight = IF reqs[made].state = "sent" THEN 1 ELSE 0

ShownInv ==
  \/ reqs[made].state = "sent"
  \/ reqs[made].state = "resolved" /\ (reqs[made].due \/ panel[active] = Answer(made))
  \/ reqs[made].state = "failed" /\ panel[active] = Sorry

LoadInv == RequestInv /\ LastInv /\ XhrInv /\ CountInv /\ ShownInv

(* Every tab that is being loaded is released again.                       *)
LoadsEnd == \A t \in Tabs : t \in loading ~> t \notin loading

(* The page keeps the promise of Panels.                                   *)
Waiting(t) ==
  LET r == last[t] IN
  r # NoXhr /\ (reqs[r].state = "sent" \/ (reqs[r].due /\ reqs[r].state = "resolved"))

Promise == INSTANCE Panels WITH
  PanelTabs <- Tabs,
  Messages  <- {0},
  current   <- active,
  questions <- made,
  asked     <- last,
  open      <- [t \in Tabs |-> Waiting(t)],
  shown     <- [t \in Tabs |-> panel[t].of]

PanelsSpec == Promise!PanelsSpec
=============================================================================

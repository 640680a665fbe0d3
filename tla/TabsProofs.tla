----------------------------- MODULE TabsProofs -----------------------------
(* Theorems about Tabs, for any number of tabs and of requests.            *)
EXTENDS Tabs, FiniteSetTheorems, TLAPS

States == {"unsent", "sent", "resolved", "failed", "aborted"}
Req    == [tab : Tabs, state : States, due : BOOLEAN]

(* The part of the type invariant about what is loaded.                    *)
LoadTypeOK ==
  /\ active \in Tabs
  /\ loading \subseteq Tabs
  /\ xhr \in Requests \cup {NoXhr}
  /\ made \in Requests
  /\ reqs \in [Requests -> Req]
  /\ inFlight \in Nat
  /\ panel \in [Tabs -> {Blank, Wait, Sorry} \cup {Answer(r) : r \in Requests}]
  /\ last \in [Tabs -> Requests \cup {NoXhr}]

ActivatingOK == activating \in [tab : Tabs \cup {NoTab}, behind : SUBSET Requests]

TabsInv == LoadTypeOK /\ LoadInv

LEMMA TypeParts == TabsTypeOK <=> LoadTypeOK /\ ActivatingOK
  BY DEF TabsTypeOK, LoadTypeOK, ActivatingOK, Req, States

(* Requests are numbered from 1, so none of them is NoXhr.                 *)
LEMMA RequestNumbers ==
  /\ Requests \subseteq Nat
  /\ NoXhr \notin Requests
  /\ 1 \in Requests
  /\ \A m \in Requests : m < MaxLoads => m + 1 \in Requests
  BY TabsAssumption DEF Requests, NoXhr

(* beforeLoad writes to one panel at most.                                 *)
LEMMA BeforeLoadOther ==
  ASSUME NEW Texts, NEW p \in [Tabs -> Texts], NEW t \in Tabs, Wait \in Texts
  PROVE  /\ BeforeLoad(p, t) \in [Tabs -> Texts]
         /\ \A s \in Tabs \ {t} : BeforeLoad(p, t)[s] = p[s]
  BY DEF BeforeLoad

LEMMA InitInv == TabsInit => TabsTypeOK /\ LoadInv
  <1> SUFFICES ASSUME TabsInit PROVE TabsTypeOK /\ LoadInv
    OBVIOUS
  <1> DEFINE Texts == {Blank, Wait, Sorry} \cup {Answer(r) : r \in Requests}
  <1>1. active \in Tabs /\ made = 1 /\ xhr = 1 /\ inFlight = 1 /\ loading = {active}
    BY DEF TabsInit
  <1>2. reqs = [r \in Requests |-> Request(active, IF r = 1 THEN "sent" ELSE "unsent", FALSE)]
    BY DEF TabsInit
  <1>3. last = [t \in Tabs |-> IF t = active THEN 1 ELSE NoXhr]
    BY DEF TabsInit
  <1>4. panel \in [Tabs -> Texts]
    <2>1. [t \in Tabs |-> Blank] \in [Tabs -> Texts] /\ Wait \in Texts
      OBVIOUS
    <2> HIDE DEF Texts
    <2> QED
      BY <2>1, <1>1, BeforeLoadOther DEF TabsInit
  <1>5. reqs \in [Requests -> Req]
    BY <1>1, <1>2 DEF Request, Req, States
  <1>6. last \in [Tabs -> Requests \cup {NoXhr}]
    BY <1>3, RequestNumbers
  <1>7. LoadTypeOK
    BY <1>1, <1>4, <1>5, <1>6, RequestNumbers DEF LoadTypeOK
  <1>8. ActivatingOK
    BY DEF TabsInit, Idle, ActivatingOK
  <1>9. LoadInv
    BY <1>1, <1>2, <1>3, RequestNumbers
    DEF LoadInv, RequestInv, LastInv, XhrInv, CountInv, ShownInv, Pending, Request, NoXhr
  <1> QED
    BY <1>7, <1>8, <1>9, TypeParts

(* What the widget makes of the requests when it opens another tab: the    *)
(* last request, when it is in flight, is aborted and its timer set; a new *)
(* one is sent.                                                            *)
LEMMA SwitchRequests ==
  ASSUME TabsInv, NEW t \in Tabs, Accepts(t), Switch(t)
  PROVE  /\ made' = made + 1 /\ made' \in Requests
         /\ reqs' \in [Requests -> Req]
         /\ reqs'[made'] = Request(t, "sent", FALSE)
         /\ \A r \in Requests \ {made, made'} : reqs'[r] = reqs[r]
         /\ reqs'[made] = IF reqs[made].state = "sent"
                            THEN Request(active, "aborted", TRUE) ELSE reqs[made]
  <1>1. made \in Requests /\ made + 1 \in Requests /\ made # made + 1 /\ made' = made + 1
    BY RequestNumbers DEF Switch, TabsInv, LoadTypeOK
  <1>2. reqs \in [Requests -> Req] /\ active \in Tabs
    BY DEF TabsInv, LoadTypeOK
  <1>3. Abort(xhr) = IF reqs[made].state = "sent"
                       THEN [reqs EXCEPT ![made].state = "aborted", ![made].due = TRUE]
                       ELSE reqs
    <2>1. reqs[made].state = "sent" => xhr = made /\ xhr # NoXhr
      BY <1>1, RequestNumbers DEF TabsInv, LoadInv, XhrInv, Pending
    <2>2. xhr # NoXhr => xhr = made
      BY DEF TabsInv, LoadInv, XhrInv
    <2> QED
      BY <2>1, <2>2 DEF Abort, InFlight
  <1>4. reqs[made].tab = active
    BY <1>1, RequestNumbers DEF TabsInv, LoadInv, LastInv, LoadTypeOK
  <1>5. Request(t, "sent", FALSE) \in Req /\ Request(active, "aborted", TRUE) \in Req
    BY <1>2 DEF Request, Req, States
  <1>6. Abort(xhr) \in [Requests -> Req] /\ \A r \in Requests \ {made} : Abort(xhr)[r] = reqs[r]
    <2>1. [reqs[made] EXCEPT !.state = "aborted", !.due = TRUE] \in Req
      BY <1>1, <1>2 DEF Req, States
    <2>2. CASE reqs[made].state = "sent"
      <3>1. Abort(xhr) = [reqs EXCEPT ![made] = [reqs[made] EXCEPT !.state = "aborted", !.due = TRUE]]
        BY <1>1, <1>2, <1>3, <2>2
      <3> QED
        BY <1>1, <1>2, <2>1, <3>1
    <2>3. CASE reqs[made].state # "sent"
      BY <1>2, <1>3, <2>3
    <2> QED
      BY <2>2, <2>3
  <1>7. Abort(xhr)[made] = IF reqs[made].state = "sent"
                             THEN Request(active, "aborted", TRUE) ELSE reqs[made]
    BY <1>1, <1>2, <1>3, <1>4 DEF Req, Request
  <1>8. reqs' = [Abort(xhr) EXCEPT ![made + 1] = Request(t, "sent", FALSE)]
    BY DEF Switch
  <1> HIDE DEF Abort
  <1> QED
    BY <1>1, <1>5, <1>6, <1>7, <1>8

LEMMA SwitchInv ==
  ASSUME TabsInv, NEW t \in Tabs, Accepts(t), Switch(t)
  PROVE  TabsInv'
  <1> DEFINE Texts == {Blank, Wait, Sorry} \cup {Answer(r) : r \in Requests}
  <1>0. /\ made' = made + 1 /\ made' \in Requests
        /\ reqs' \in [Requests -> Req]
        /\ reqs'[made'] = Request(t, "sent", FALSE)
        /\ \A r \in Requests \ {made, made'} : reqs'[r] = reqs[r]
        /\ reqs'[made] = IF reqs[made].state = "sent"
                           THEN Request(active, "aborted", TRUE) ELSE reqs[made]
    BY SwitchRequests
  <1>1. /\ made \in Requests /\ made' = made + 1 /\ made' \in Requests
        /\ active' = t /\ loading' = loading \cup {t} /\ xhr' = made'
        /\ last' = [last EXCEPT ![t] = made']
    BY <1>0 DEF Switch, TabsInv, LoadTypeOK
  <1>2. /\ active \in Tabs /\ loading \subseteq Tabs /\ reqs \in [Requests -> Req]
        /\ inFlight \in Nat /\ panel \in [Tabs -> Texts]
        /\ last \in [Tabs -> Requests \cup {NoXhr}]
    BY DEF TabsInv, LoadTypeOK
  <1>a. ASSUME NEW r \in Requests, r # made'
        PROVE  /\ reqs'[r].tab = reqs[r].tab
               /\ Pending(r)' <=> Pending(r)
               /\ reqs'[r].state # "sent"
    <2>1. CASE r = made
      <3>1. reqs[made].tab = active
        BY <1>1, <1>2, RequestNumbers DEF TabsInv, LoadInv, LastInv
      <3> QED
        BY <2>1, <3>1, <1>0 DEF Pending, Request
    <2>2. CASE r # made
      <3>1. reqs'[r] = reqs[r]
        BY <2>2, <1>a, <1>0
      <3>2. reqs[r].state # "sent"
        BY <2>2 DEF TabsInv, LoadInv, RequestInv
      <3> QED
        BY <3>1, <3>2 DEF Pending
    <2> QED
      BY <2>1, <2>2
  <1>3. inFlight' = 1
    <2>1. InFlight(xhr) <=> reqs[made].state = "sent"
      BY <1>1, RequestNumbers DEF TabsInv, LoadInv, XhrInv, Pending, InFlight
    <2> QED
      BY <2>1, <1>2 DEF TabsInv, LoadInv, CountInv, AbortCount, Switch
  <1>4. panel' \in [Tabs -> Texts]
    <2>1. AbortPanel(xhr) \in [Tabs -> Texts] /\ Wait \in Texts
      BY <1>2 DEF AbortPanel
    <2> HIDE DEF Texts
    <2>2. BeforeLoad(AbortPanel(xhr), t) \in [Tabs -> Texts]
      BY <2>1, BeforeLoadOther
    <2> QED
      BY <2>2 DEF Switch
  <1>5. LoadTypeOK'
    BY <1>1, <1>2, <1>3, <1>4, <1>0 DEF LoadTypeOK
  <1>6. RequestInv'
    <2> SUFFICES ASSUME NEW r \in Requests
                 PROVE  /\ r > made' => ~Pending(r)'
                        /\ reqs'[r].state = "sent" => r = made' /\ ~reqs'[r].due
                        /\ Pending(r)' => last'[reqs'[r].tab] = r
      BY DEF RequestInv
    <2>1. CASE r = made'
      BY <2>1, <1>1, <1>2, <1>0 DEF Pending, Request
    <2>2. CASE r # made'
      <3>1. reqs'[r].tab = reqs[r].tab /\ (Pending(r)' <=> Pending(r)) /\ reqs'[r].state # "sent"
        BY <2>2, <1>a
      <3>3. Pending(r) => r <= made /\ reqs[r].tab # t
        <4>1. Pending(r) => last[reqs[r].tab] = r /\ r # NoXhr /\ reqs[r].tab \in Tabs
          BY <1>2, RequestNumbers DEF TabsInv, LoadInv, RequestInv, Req
        <4>2. Pending(r) => reqs[r].tab \in loading
          BY <4>1 DEF TabsInv, LoadInv, LastInv
        <4>3. Pending(r) => ~(r > made)
          BY DEF TabsInv, LoadInv, RequestInv
        <4> QED
          BY <4>2, <4>3, <1>1, RequestNumbers DEF Accepts
      <3>4. Pending(r) => last[reqs[r].tab] = r
        BY DEF TabsInv, LoadInv, RequestInv
      <3>5. Pending(r) => last'[reqs[r].tab] = r
        BY <3>3, <3>4, <1>1, <1>2 DEF Req
      <3> QED
        BY <3>1, <3>3, <3>5, <1>1, RequestNumbers
    <2> QED
      BY <2>1, <2>2
  <1>7. LastInv'
    <2>1. last'[active'] = made'
      BY <1>1, <1>2
    <2> SUFFICES ASSUME NEW s \in Tabs
                 PROVE  /\ last'[s] # NoXhr => last'[s] <= made' /\ reqs'[last'[s]].tab = s
                        /\ s \in loading' <=> last'[s] # NoXhr /\ Pending(last[s])'
      BY <2>1 DEF LastInv
    <2>2. CASE s = t
      BY <2>2, <1>1, <1>2, <1>0, RequestNumbers DEF Pending, Request
    <2>3. CASE s # t
      <3>1. last'[s] = last[s] /\ (s \in loading' <=> s \in loading)
        BY <2>3, <1>1, <1>2
      <3>2. last[s] # NoXhr => last[s] \in Requests /\ last[s] <= made /\ reqs[last[s]].tab = s
        BY <1>2 DEF TabsInv, LoadInv, LastInv
      <3>3. last[s] # NoXhr =>
              /\ last[s] # made' /\ last[s] <= made'
              /\ reqs'[last[s]].tab = s
              /\ (reqs'[last[s]].state = "sent" \/ reqs'[last[s]].due) <=> Pending(last[s])
        <4>1. last[s] # NoXhr => last[s] # made' /\ last[s] <= made'
          BY <3>2, <1>1, TabsAssumption DEF Requests
        <4>2. \A r \in Requests \ {made'} :
                 /\ reqs'[r].tab = reqs[r].tab
                 /\ (reqs'[r].state = "sent" \/ reqs'[r].due) <=> Pending(r)
          BY <1>a DEF Pending
        <4> QED
          BY <4>1, <4>2, <3>2
      <3>4. s \in loading <=> last[s] # NoXhr /\ Pending(last[s])
        BY DEF TabsInv, LoadInv, LastInv
      <3>5. Pending(last[s])' <=> reqs'[last'[s]].state = "sent" \/ reqs'[last'[s]].due
        BY DEF Pending
      <3> QED
        BY <3>1, <3>2, <3>3, <3>4, <3>5
    <2> QED
      BY <2>2, <2>3
  <1>8. XhrInv' /\ CountInv' /\ ShownInv'
    BY <1>1, <1>3, <1>0 DEF XhrInv, CountInv, ShownInv, Pending, Request
  <1> QED
    BY <1>5, <1>6, <1>7, <1>8 DEF TabsInv, LoadInv

(* An answer or a failure: the request in flight is the last one made.     *)
LEMMA NetworkInv ==
  ASSUME TabsInv, NEW r \in Requests, Respond(r) \/ Fail(r)
  PROVE  TabsInv'
  <1> DEFINE Texts == {Blank, Wait, Sorry} \cup {Answer(q) : q \in Requests}
  <1>1. /\ active \in Tabs /\ loading \subseteq Tabs /\ xhr \in Requests \cup {NoXhr}
        /\ made \in Requests /\ reqs \in [Requests -> Req] /\ inFlight \in Nat
        /\ panel \in [Tabs -> Texts] /\ last \in [Tabs -> Requests \cup {NoXhr}]
    BY DEF TabsInv, LoadTypeOK
  <1>2. reqs[r].state = "sent" /\ UNCHANGED <<active, loading, xhr, made, last>>
    BY DEF Respond, Fail
  <1>3. r = made /\ reqs[r].tab = active
    BY <1>1, <1>2, RequestNumbers DEF TabsInv, LoadInv, RequestInv, LastInv
  <1>4. PICK s \in {"resolved", "failed"} :
          /\ reqs' = [reqs EXCEPT ![r].state = s, ![r].due = TRUE]
          /\ panel' = IF s = "failed" THEN [panel EXCEPT ![reqs[r].tab] = Sorry] ELSE panel
    <2>1. CASE Respond(r)
      <3> WITNESS "resolved" \in {"resolved", "failed"}
      <3> QED
        BY <2>1 DEF Respond
    <2>2. CASE Fail(r)
      <3> WITNESS "failed" \in {"resolved", "failed"}
      <3> QED
        BY <2>2 DEF Fail
    <2> QED
      BY <2>1, <2>2
  <1>5. /\ reqs'[r].tab = active /\ reqs'[r].state = s /\ reqs'[r].due
        /\ reqs' \in [Requests -> Req]
    <2>1. s \in States /\ reqs[r] \in Req
      BY <1>1 DEF States
    <2>2. [reqs[r] EXCEPT !.state = s, !.due = TRUE] \in Req
      BY <2>1 DEF Req
    <2>3. reqs' = [reqs EXCEPT ![r] = [reqs[r] EXCEPT !.state = s, !.due = TRUE]]
      BY <1>1, <1>4
    <2>4. reqs' \in [Requests -> Req]
      BY <1>1, <2>2, <2>3
    <2> QED
      BY <1>1, <1>3, <1>4, <2>1, <2>4 DEF Req
  <1>6. \A q \in Requests \ {r} : reqs'[q] = reqs[q]
    BY <1>1, <1>4
  <1>7. inFlight' = 0 /\ panel' \in [Tabs -> Texts]
    <2>1. inFlight = 1 /\ inFlight' = inFlight - 1
      BY <1>2, <1>3 DEF TabsInv, LoadInv, CountInv, Respond, Fail
    <2>2. Sorry \in Texts
      OBVIOUS
    <2> HIDE DEF Texts
    <2> QED
      BY <1>1, <1>3, <1>4, <2>1, <2>2
  <1>8. LoadTypeOK'
    BY <1>1, <1>2, <1>5, <1>7 DEF LoadTypeOK
  <1>9. \A q \in Requests :
          reqs'[q].tab = reqs[q].tab /\ (Pending(q)' <=> Pending(q)) /\ reqs'[q].state # "sent"
    BY <1>2, <1>3, <1>5, <1>6 DEF Pending, Request, TabsInv, LoadInv, RequestInv
  <1>10. RequestInv'
    BY <1>2, <1>9 DEF RequestInv, TabsInv, LoadInv
  <1>11. LastInv'
    <2>1. \A q \in Requests :
            /\ reqs'[q].tab = reqs[q].tab
            /\ reqs'[q].state = "sent" \/ reqs'[q].due <=> reqs[q].state = "sent" \/ reqs[q].due
      BY <1>9 DEF Pending
    <2>2. \A t \in Tabs : last[t] # NoXhr => last[t] \in Requests
      BY <1>1
    <2> QED
      BY <1>2, <2>1, <2>2 DEF LastInv, Pending, TabsInv, LoadInv
  <1>12. XhrInv' /\ CountInv' /\ ShownInv'
    BY <1>1, <1>2, <1>3, <1>4, <1>5, <1>7
    DEF XhrInv, CountInv, ShownInv, Pending, Request, TabsInv, LoadInv
  <1> QED
    BY <1>8, <1>10, <1>11, <1>12 DEF TabsInv, LoadInv

(* A timer runs: what was pending for its tab is the request it belongs to. *)
LEMMA CompleteInv ==
  ASSUME TabsInv, NEW r \in Requests, Complete(r)
  PROVE  TabsInv'
  <1> DEFINE Texts == {Blank, Wait, Sorry} \cup {Answer(q) : q \in Requests}
  <1>1. /\ active \in Tabs /\ loading \subseteq Tabs /\ xhr \in Requests \cup {NoXhr}
        /\ made \in Requests /\ reqs \in [Requests -> Req] /\ inFlight \in Nat
        /\ panel \in [Tabs -> Texts] /\ last \in [Tabs -> Requests \cup {NoXhr}]
    BY DEF TabsInv, LoadTypeOK
  <1>2. /\ reqs[r].due /\ reqs' = [reqs EXCEPT ![r].due = FALSE]
        /\ panel' = IF reqs[r].state = "resolved" THEN [panel EXCEPT ![reqs[r].tab] = Answer(r)]
                                                  ELSE panel
        /\ loading' = loading \ {reqs[r].tab}
        /\ xhr' = IF xhr = r THEN NoXhr ELSE xhr
        /\ UNCHANGED <<active, made, inFlight, last>>
    BY DEF Complete, Due
  <1>3. /\ reqs[r].tab \in Tabs /\ last[reqs[r].tab] = r /\ r # NoXhr
        /\ reqs[r].state # "sent"
    BY <1>1, <1>2, RequestNumbers DEF TabsInv, LoadInv, RequestInv, Pending, Req
  <1>4. /\ reqs'[r] = Request(reqs[r].tab, reqs[r].state, FALSE)
        /\ reqs' \in [Requests -> Req]
        /\ \A q \in Requests \ {r} : reqs'[q] = reqs[q]
    BY <1>1, <1>2 DEF Request, Req
  <1>5. LoadTypeOK'
    <2>1. Answer(r) \in Texts
      OBVIOUS
    <2> HIDE DEF Texts
    <2>2. panel' \in [Tabs -> Texts]
      BY <1>1, <1>2, <2>1
    <2> USE DEF Texts
    <2> QED
      BY <1>1, <1>2, <1>4, <2>2 DEF LoadTypeOK
  <1>6. \A q \in Requests :
          /\ reqs'[q].tab = reqs[q].tab /\ reqs'[q].state = reqs[q].state
          /\ reqs'[q].due <=> reqs[q].due /\ q # r
          /\ reqs'[q].state = "sent" \/ reqs'[q].due
               <=> (reqs[q].state = "sent" \/ reqs[q].due) /\ q # r
    BY <1>3, <1>4 DEF Request
  <1>7. RequestInv'
    BY <1>2, <1>6 DEF RequestInv, Pending, TabsInv, LoadInv
  <1>8. LastInv'
    <2>1. \A t \in Tabs : last[t] # NoXhr => last[t] \in Requests
      BY <1>1
    <2>2. \A t \in Tabs : t = reqs[r].tab <=> last[t] = r
      BY <1>3 DEF TabsInv, LoadInv, LastInv
    <2> QED
      BY <1>1, <1>2, <1>6, <2>1, <2>2 DEF LastInv, Pending, TabsInv, LoadInv
  <1>9. XhrInv' /\ CountInv'
    BY <1>1, <1>2, <1>6, RequestNumbers DEF XhrInv, CountInv, Pending, TabsInv, LoadInv
  <1>10. ShownInv'
    <2>1. CASE r = made
      <3>1. reqs[r].tab = active
        BY <2>1, <1>1, RequestNumbers DEF TabsInv, LoadInv, LastInv
      <3> QED
        BY <2>1, <3>1, <1>1, <1>2, <1>3, <1>6 DEF ShownInv, TabsInv, LoadInv
    <2>2. CASE r # made
      <3>1. reqs[r].tab # active
        BY <2>2, <1>3 DEF TabsInv, LoadInv, LastInv
      <3> QED
        BY <2>2, <3>1, <1>1, <1>2, <1>6 DEF ShownInv, TabsInv, LoadInv
    <2> QED
      BY <2>1, <2>2
  <1> QED
    BY <1>5, <1>7, <1>8, <1>9, <1>10 DEF TabsInv, LoadInv

LEMMA IgnoreInv == TabsInv /\ Ignore => TabsInv'
  BY DEF TabsInv, LoadTypeOK, LoadInv, RequestInv, LastInv, XhrInv, CountInv, ShownInv,
         Pending, Ignore

(* What an action does to what is loaded: it opens a tab, or leaves it     *)
(* alone, or is one of the network's or a timer.                           *)
LEMMA LoadStep ==
  ASSUME [TabsNext]_tabsVars, ActivatingOK
  PROVE  /\ ActivatingOK'
         /\ \/ \E t \in Tabs : Accepts(t) /\ Switch(t)
            \/ \E r \in Requests : Respond(r) \/ Fail(r)
            \/ \E r \in Requests : Complete(r)
            \/ Ignore
  <1>1. CASE UNCHANGED tabsVars
    BY <1>1 DEF tabsVars, Ignore, ActivatingOK
  <1>2. ASSUME NEW t \in Tabs, Click(t) \/ ActivateKey(t) \/ ArrowKey(t)
        PROVE  ActivatingOK' /\ ((Accepts(t) /\ Switch(t)) \/ Ignore)
    BY <1>2 DEF ActivatingOK, Click, ActivateKey, ArrowKey, Idle, Due
  <1>3. CASE CtrlArrowKey
    BY <1>3 DEF ActivatingOK, CtrlArrowKey, Idle
  <1>4. CASE Activate
    BY <1>4 DEF ActivatingOK, Activate, Idle
  <1>5. CASE Network
    BY <1>5 DEF ActivatingOK, Network, Respond, Fail
  <1>6. CASE Timer
    BY <1>6 DEF ActivatingOK, Timer, Complete
  <1> QED
    BY <1>1, <1>2, <1>3, <1>4, <1>5, <1>6 DEF TabsNext, Input

LEMMA StepInv == TabsInv /\ ActivatingOK /\ [TabsNext]_tabsVars => TabsInv' /\ ActivatingOK'
  BY LoadStep, SwitchInv, NetworkInv, CompleteInv, IgnoreInv

LEMMA AlwaysTabsInv == TabsSpec => [](TabsInv /\ ActivatingOK)
  <1>1. TabsInit => TabsInv /\ ActivatingOK
    BY InitInv, TypeParts DEF TabsInv
  <1> QED
    BY <1>1, StepInv, PTL DEF TabsSpec

(* The page only ever holds the values it is declared to hold.             *)
THEOREM PageTypeCorrect == TabsSpec => []TabsTypeOK
  BY AlwaysTabsInv, TypeParts, PTL DEF TabsInv

(* At most one request is in flight, the last one made, for the active     *)
(* tab, and jQuery.active is 1 or 0 accordingly.                           *)
THEOREM PageOneRequest == TabsSpec => []OneRequest
  <1>1. TabsInv => OneRequest
    <2> SUFFICES ASSUME TabsInv PROVE OneRequest
      OBVIOUS
    <2>1. made \in Requests /\ active \in Tabs /\ last \in [Tabs -> Requests \cup {NoXhr}]
      BY DEF TabsInv, LoadTypeOK
    <2>2. \A r \in Requests : reqs[r].state = "sent" => r = made
      BY DEF TabsInv, LoadInv, RequestInv
    <2>3. reqs[made].tab = active
      BY <2>1, RequestNumbers DEF TabsInv, LoadInv, LastInv
    <2>4. reqs[made].state = "sent" => xhr = made
      BY DEF TabsInv, LoadInv, XhrInv, Pending
    <2>5. {r \in Requests : reqs[r].state = "sent"}
            = IF reqs[made].state = "sent" THEN {made} ELSE {}
      BY <2>1, <2>2
    <2>6. Cardinality({made}) = 1 /\ Cardinality({}) = 0
      BY FS_Singleton, FS_EmptySet
    <2>7. inFlight = Cardinality({r \in Requests : reqs[r].state = "sent"})
      BY <2>5, <2>6 DEF TabsInv, LoadInv, CountInv
    <2> QED
      BY <2>2, <2>3, <2>4, <2>7 DEF OneRequest
  <1> QED
    BY <1>1, AlwaysTabsInv, PTL

(* A tab is locked for exactly as long as one request for it is pending.   *)
THEOREM PageLoadingSettles == TabsSpec => []LoadingSettles
  <1>1. TabsInv => LoadingSettles
    <2> SUFFICES ASSUME TabsInv, NEW t \in Tabs
                 PROVE  Cardinality({r \in Requests : reqs[r].tab = t
                                        /\ (reqs[r].state = "sent" \/ reqs[r].due)})
                          = IF t \in loading THEN 1 ELSE 0
      BY DEF LoadingSettles
    <2> DEFINE Open == {r \in Requests : reqs[r].tab = t /\ (reqs[r].state = "sent" \/ reqs[r].due)}
    <2>1. last[t] \in Requests \cup {NoXhr}
      BY DEF TabsInv, LoadTypeOK
    <2>2. \A r \in Open : r = last[t]
      BY DEF TabsInv, LoadInv, RequestInv, Pending
    <2>3. last[t] \in Open <=> t \in loading
      BY <2>1, RequestNumbers DEF TabsInv, LoadInv, LastInv, Pending
    <2>4. Open = IF t \in loading THEN {last[t]} ELSE {}
      BY <2>2, <2>3
    <2>5. Cardinality({last[t]}) = 1 /\ Cardinality({}) = 0
      BY FS_Singleton, FS_EmptySet
    <2> QED
      BY <2>4, <2>5
  <1> QED
    BY <1>1, AlwaysTabsInv, PTL

(* A panel whose loading is over is about the request that its tab made    *)
(* when it was opened, and about its outcome.                              *)
THEOREM PageHonest == TabsSpec => []ActivePanelHonest
  <1>1. TabsInv => ActivePanelHonest
    BY DEF TabsInv, LoadInv, LastInv, ShownInv, Pending, ActivePanelHonest, LoadTypeOK, NoXhr, Requests
  <1> QED
    BY <1>1, AlwaysTabsInv, PTL

-----------------------------------------------------------------------------
(* The page implements Panels.                                             *)

LEMMA PanelsVars ==
  Promise!panelsVars = <<active, made, last, [t \in Tabs |-> Waiting(t)], [t \in Tabs |-> panel[t].of]>>
  BY DEF Promise!panelsVars

(* No message is the answer to a question.                                 *)
LEMMA MessagesOf == Blank.of = 0 /\ Wait.of = 0 /\ Sorry.of = 0 /\ \A r : Answer(r).of = r
  BY DEF Blank, Wait, Sorry, Answer

LEMMA BeforeLoadShown ==
  ASSUME NEW Texts, NEW p \in [Tabs -> Texts], NEW t \in Tabs
  PROVE  /\ BeforeLoad(p, t)[t].of \in {p[t].of, 0}
         /\ \A s \in Tabs \ {t} : BeforeLoad(p, t)[s] = p[s]
  BY DEF BeforeLoad, Wait

LEMMA InitPromise == TabsInit => Promise!PanelsInit
  <1> SUFFICES ASSUME TabsInit PROVE Promise!PanelsInit
    OBVIOUS
  <1>1. active \in Tabs /\ made = 1
    BY DEF TabsInit
  <1>2. last = [t \in Tabs |-> IF t = active THEN 1 ELSE 0]
    BY DEF TabsInit, NoXhr
  <1>3. \A t \in Tabs : Waiting(t) = (t = active)
    BY <1>2, RequestNumbers DEF TabsInit, Waiting, Request, NoXhr
  <1>4. [t \in Tabs |-> Waiting(t)] = [t \in Tabs |-> t = active]
    BY <1>3
  <1>5. \A t \in Tabs : panel[t].of = 0
    <2>1. panel = BeforeLoad([t \in Tabs |-> Blank], active)
      BY DEF TabsInit
    <2>2. CASE active \in {2, 3}
      <3>1. panel = [[t \in Tabs |-> Blank] EXCEPT ![active] = Wait]
        BY <2>1, <2>2 DEF BeforeLoad
      <3> QED
        BY <3>1, <1>1, MessagesOf
    <2>3. CASE active \notin {2, 3}
      <3>1. panel = [t \in Tabs |-> Blank]
        BY <2>1, <2>3 DEF BeforeLoad
      <3> QED
        BY <3>1, MessagesOf
    <2> QED
      BY <2>2, <2>3
  <1>6. [t \in Tabs |-> panel[t].of] \in [Tabs -> {0}]
    BY <1>5
  <1> QED
    BY <1>1, <1>2, <1>4, <1>6 DEF Promise!PanelsInit

(* Opening a tab asks anew, and may drop the question of the one left.     *)
LEMMA SwitchPromise ==
  ASSUME TabsInv, NEW t \in Tabs, Accepts(t), Switch(t)
  PROVE  Promise!Open(t)
  <1> DEFINE Texts == {Blank, Wait, Sorry} \cup {Answer(r) : r \in Requests}
             Open  == [s \in Tabs |-> Waiting(s)]
             Shown == [s \in Tabs |-> panel[s].of]
  <1>0. /\ made' = made + 1 /\ made' \in Requests
        /\ reqs' \in [Requests -> Req]
        /\ reqs'[made'] = Request(t, "sent", FALSE)
        /\ \A r \in Requests \ {made, made'} : reqs'[r] = reqs[r]
        /\ reqs'[made] = IF reqs[made].state = "sent"
                           THEN Request(active, "aborted", TRUE) ELSE reqs[made]
    BY SwitchRequests
  <1>1. /\ active \in Tabs /\ made \in Requests /\ reqs \in [Requests -> Req]
        /\ panel \in [Tabs -> Texts] /\ last \in [Tabs -> Requests \cup {NoXhr}]
    BY DEF TabsInv, LoadTypeOK
  <1>a. PICK a \in Tabs : a = active
    BY <1>1
  <1>2. /\ active' = t /\ t # active /\ t \notin loading
        /\ last' = [last EXCEPT ![t] = made + 1]
    BY DEF Switch, Accepts
  <1>3. /\ last[active] = made
        /\ \A s \in Tabs : last[s] # NoXhr =>
             last[s] \in Requests /\ last[s] <= made /\ reqs[last[s]].tab = s
    BY <1>1 DEF TabsInv, LoadInv, LastInv
  <1>4. InFlight(xhr) <=> reqs[made].state = "sent"
    BY <1>1, RequestNumbers DEF TabsInv, LoadInv, XhrInv, Pending, InFlight
  <1>5. reqs[made].state = "sent" => xhr = made /\ reqs[made].tab = active
    BY <1>1, <1>3, RequestNumbers DEF TabsInv, LoadInv, XhrInv, Pending
  <1>6. ~Waiting(t)
    <2>1. last[t] # NoXhr => ~Pending(last[t])
      BY <1>2 DEF TabsInv, LoadInv, LastInv
    <2> QED
      BY <2>1 DEF Waiting, Pending
  <1>7. Waiting(t)' = TRUE
    <2>1. last'[t] = made'
      BY <1>0, <1>1, <1>2
    <2> QED
      BY <2>1, <1>0, RequestNumbers DEF Waiting, Request
  <1>8. ASSUME NEW s \in Tabs \ {t, a}
        PROVE  Waiting(s)' = Waiting(s)
    <2>1. last'[s] = last[s]
      BY <1>1, <1>2
    <2>2. last[s] # NoXhr => reqs'[last[s]] = reqs[last[s]]
      <3>1. last[s] # NoXhr => last[s] # made'
        BY <1>3, <1>0, <1>1, TabsAssumption DEF Requests
      <3>2. last[s] # NoXhr => last[s] # made
        BY <1>1, <1>a, <1>3, RequestNumbers
      <3> QED
        BY <3>1, <3>2, <1>0, <1>3
    <2> QED
      BY <2>1, <2>2 DEF Waiting
  <1>9. /\ reqs[made].state = "sent" => Waiting(a) = TRUE /\ Waiting(a)' = FALSE
        /\ reqs[made].state # "sent" => Waiting(a)' = Waiting(a)
    <2>1. last'[a] = made /\ last[a] = made /\ made # NoXhr
      BY <1>1, <1>a, <1>2, <1>3, RequestNumbers
    <2>2. CASE reqs[made].state = "sent"
      <3>1. reqs'[made].state = "aborted"
        BY <2>2, <1>0 DEF Request
      <3> QED
        BY <2>1, <2>2, <3>1 DEF Waiting
    <2>3. CASE reqs[made].state # "sent"
      <3>1. reqs'[made] = reqs[made]
        BY <2>3, <1>0
      <3> QED
        BY <2>1, <2>3, <3>1 DEF Waiting
    <2> QED
      BY <2>2, <2>3
  <1>10. /\ panel'[t].of \in {panel[t].of, 0}
         /\ \A s \in Tabs \ {t} : panel'[s] = AbortPanel(xhr)[s]
         /\ panel' \in [Tabs -> Texts]
    <2>1. AbortPanel(xhr) \in [Tabs -> Texts] /\ AbortPanel(xhr)[t] = panel[t] /\ Wait \in Texts
      BY <1>1, <1>2, <1>4, <1>5 DEF AbortPanel
    <2>2. panel' = BeforeLoad(AbortPanel(xhr), t)
      BY DEF Switch
    <2> HIDE DEF Texts
    <2>3. /\ BeforeLoad(AbortPanel(xhr), t)[t].of \in {AbortPanel(xhr)[t].of, 0}
          /\ \A s \in Tabs \ {t} : BeforeLoad(AbortPanel(xhr), t)[s] = AbortPanel(xhr)[s]
      BY <2>1, BeforeLoadShown
    <2>4. BeforeLoad(AbortPanel(xhr), t) \in [Tabs -> Texts]
      BY <2>1, BeforeLoadOther
    <2> QED
      BY <2>1, <2>2, <2>3, <2>4
  <1>11. \E new \in {Shown[t]} \cup {0} :
           \/ /\ Open' = [Open EXCEPT ![t] = TRUE]
              /\ Shown' = [Shown EXCEPT ![t] = new]
           \/ /\ Open[active]
              /\ Open' = [Open EXCEPT ![t] = TRUE, ![active] = FALSE]
              /\ \E m \in {0} : Shown' = [Shown EXCEPT ![t] = new, ![active] = m]
    <2>1. panel'[t].of \in {Shown[t]} \cup {0}
      BY <1>10
    <2> WITNESS panel'[t].of \in {Shown[t]} \cup {0}
    <2>2. CASE reqs[made].state = "sent"
      <3>1. Open[active] /\ Open' = [Open EXCEPT ![t] = TRUE, ![active] = FALSE]
        BY <2>2, <1>1, <1>a, <1>2, <1>7, <1>8, <1>9
      <3>2. AbortPanel(xhr) = [panel EXCEPT ![active] = Sorry]
        BY <2>2, <1>4, <1>5 DEF AbortPanel
      <3>3. panel'[active].of = 0 /\ \A s \in Tabs \ {t, active} : panel'[s].of = panel[s].of
        BY <3>2, <1>1, <1>2, <1>10, MessagesOf
      <3>4. Shown' = [Shown EXCEPT ![t] = panel'[t].of, ![active] = 0]
        BY <3>3, <1>1, <1>2
      <3> QED
        BY <3>1, <3>4
    <2>3. CASE reqs[made].state # "sent"
      <3>1. Open' = [Open EXCEPT ![t] = TRUE]
        BY <2>3, <1>1, <1>a, <1>2, <1>7, <1>8, <1>9
      <3>2. AbortPanel(xhr) = panel
        BY <2>3, <1>4 DEF AbortPanel
      <3>3. Shown' = [Shown EXCEPT ![t] = panel'[t].of]
        BY <3>2, <1>10
      <3> QED
        BY <3>1, <3>3
    <2> QED
      BY <2>2, <2>3
  <1> QED
    BY <1>0, <1>2, <1>6, <1>11 DEF Promise!Open

(* An answer changes nothing yet: the timer is still to run.               *)
LEMMA RespondPromise ==
  ASSUME TabsInv, NEW r \in Requests, Respond(r)
  PROVE  UNCHANGED Promise!panelsVars
  <1>1. /\ reqs \in [Requests -> Req] /\ reqs[r].state = "sent"
        /\ reqs' = [reqs EXCEPT ![r].state = "resolved", ![r].due = TRUE]
        /\ UNCHANGED <<active, made, last, panel>>
    BY DEF TabsInv, LoadTypeOK, Respond
  <1>2. reqs'[r].state = "resolved" /\ reqs'[r].due
        /\ \A q \in Requests \ {r} : reqs'[q] = reqs[q]
    BY <1>1 DEF Req
  <1>3. \A t \in Tabs : last[t] = NoXhr \/ last[t] \in Requests
    BY DEF TabsInv, LoadTypeOK
  <1>4. \A t \in Tabs : Waiting(t)' = Waiting(t)
    BY <1>1, <1>2, <1>3 DEF Waiting
  <1> QED
    BY <1>1, <1>4, PanelsVars DEF Promise!panelsVars

(* A failure is of the request of the active tab.                          *)
LEMMA FailPromise ==
  ASSUME TabsInv, NEW r \in Requests, Fail(r)
  PROVE  Promise!GiveUp
  <1> DEFINE Open  == [s \in Tabs |-> Waiting(s)]
             Shown == [s \in Tabs |-> panel[s].of]
  <1>1. /\ reqs \in [Requests -> Req] /\ reqs[r].state = "sent"
        /\ reqs' = [reqs EXCEPT ![r].state = "failed", ![r].due = TRUE]
        /\ panel' = [panel EXCEPT ![reqs[r].tab] = Sorry]
        /\ UNCHANGED <<active, made, last>>
    BY DEF TabsInv, LoadTypeOK, Fail
  <1>2. /\ active \in Tabs /\ made \in Requests
        /\ panel \in [Tabs -> {Blank, Wait, Sorry} \cup {Answer(q) : q \in Requests}]
    BY DEF TabsInv, LoadTypeOK
  <1>3. reqs'[r].state = "failed" /\ \A q \in Requests \ {r} : reqs'[q] = reqs[q]
    BY <1>1 DEF Req
  <1>4. r = made /\ last[active] = r /\ reqs[r].tab = active /\ r # NoXhr
    BY <1>1, <1>2, RequestNumbers DEF TabsInv, LoadInv, RequestInv, LastInv
  <1>5. Waiting(active) = TRUE /\ (active \in Tabs => Waiting(active)' = FALSE)
    BY <1>1, <1>3, <1>4 DEF Waiting
  <1>6. \A s \in Tabs \ {active} : Waiting(s)' = Waiting(s)
    <2>1. \A s \in Tabs \ {active} : last[s] # NoXhr => last[s] \in Requests \ {r}
      BY <1>4 DEF TabsInv, LoadTypeOK, LoadInv, LastInv
    <2> QED
      BY <2>1, <1>1, <1>3 DEF Waiting
  <1>7. Open' = [Open EXCEPT ![active] = FALSE] /\ Open[active]
    BY <1>1, <1>2, <1>5, <1>6
  <1>8. Shown' = [Shown EXCEPT ![active] = 0]
    BY <1>1, <1>2, <1>4, MessagesOf
  <1> QED
    BY <1>1, <1>7, <1>8 DEF Promise!GiveUp, Promise!Close

(* A timer brings the answer to the last question for its tab; when the    *)
(* request was aborted or failed, there is nothing left to bring.          *)
LEMMA CompletePromise ==
  ASSUME TabsInv, NEW r \in Requests, Complete(r)
  PROVE  (\E t \in Tabs : Promise!Fill(t)) \/ UNCHANGED Promise!panelsVars
  <1> DEFINE Open  == [s \in Tabs |-> Waiting(s)]
             Shown == [s \in Tabs |-> panel[s].of]
  <1>1. /\ reqs \in [Requests -> Req] /\ reqs[r].due
        /\ reqs' = [reqs EXCEPT ![r].due = FALSE]
        /\ panel' = IF reqs[r].state = "resolved" THEN [panel EXCEPT ![reqs[r].tab] = Answer(r)]
                                                  ELSE panel
        /\ UNCHANGED <<active, made, last>>
    BY DEF TabsInv, LoadTypeOK, Complete, Due
  <1>2. panel \in [Tabs -> {Blank, Wait, Sorry} \cup {Answer(q) : q \in Requests}]
    BY DEF TabsInv, LoadTypeOK
  <1>3. /\ reqs'[r].state = reqs[r].state /\ ~reqs'[r].due
        /\ \A q \in Requests \ {r} : reqs'[q] = reqs[q]
    BY <1>1 DEF Req
  <1>4. PICK t \in Tabs : t = reqs[r].tab
    BY <1>1 DEF Req
  <1>5. last[t] = r /\ r # NoXhr /\ reqs[r].state # "sent"
    BY <1>1, <1>4, RequestNumbers DEF TabsInv, LoadInv, RequestInv, Pending
  <1>6. \A s \in Tabs \ {t} : Waiting(s)' = Waiting(s)
    <2>1. \A s \in Tabs \ {t} : last[s] # NoXhr => last[s] \in Requests \ {r}
      BY <1>4 DEF TabsInv, LoadTypeOK, LoadInv, LastInv
    <2> QED
      BY <2>1, <1>1, <1>3 DEF Waiting
  <1>7. CASE reqs[r].state = "resolved"
    <2>1. Waiting(t) = TRUE /\ Waiting(t)' = FALSE
      BY <1>1, <1>3, <1>5, <1>7 DEF Waiting
    <2>2. Open' = [Open EXCEPT ![t] = FALSE] /\ Open[t]
      BY <1>6, <2>1
    <2>3. Shown' = [Shown EXCEPT ![t] = last[t]]
      BY <1>1, <1>2, <1>4, <1>5, <1>7, MessagesOf
    <2>4. Promise!Fill(t)
      BY <1>1, <2>2, <2>3 DEF Promise!Fill, Promise!Close
    <2> QED
      BY <2>4
  <1>8. CASE reqs[r].state # "resolved"
    <2>1. Waiting(t)' = Waiting(t)
      BY <1>1, <1>3, <1>5, <1>8 DEF Waiting
    <2>2. \A s \in Tabs : Waiting(s)' = Waiting(s)
      BY <1>6, <2>1
    <2> QED
      BY <1>1, <1>8, <2>2 DEF Promise!panelsVars
  <1> QED
    BY <1>7, <1>8

LEMMA IgnorePromise == Ignore => UNCHANGED Promise!panelsVars
  BY DEF Ignore, Waiting, Promise!panelsVars

(* Every task of the page opens a tab, fills a panel, gives up, or changes *)
(* nothing that Panels speaks of: what a panel shows is the answer to the  *)
(* last question asked for its tab, or a message.                          *)
THEOREM PageImplementsPanels == TabsSpec => PanelsSpec
  <1>1. TabsInv /\ ActivatingOK /\ [TabsNext]_tabsVars => [Promise!PanelsNext]_(Promise!panelsVars)
    <2> SUFFICES ASSUME TabsInv, ActivatingOK, [TabsNext]_tabsVars
                 PROVE  Promise!PanelsNext \/ UNCHANGED Promise!panelsVars
      OBVIOUS
    <2>1. ASSUME NEW t \in Tabs, Accepts(t), Switch(t) PROVE Promise!PanelsNext
      BY <2>1, SwitchPromise DEF Promise!PanelsNext
    <2>2. ASSUME NEW r \in Requests, Respond(r) PROVE UNCHANGED Promise!panelsVars
      BY <2>2, RespondPromise
    <2>3. ASSUME NEW r \in Requests, Fail(r) PROVE Promise!PanelsNext
      BY <2>3, FailPromise DEF Promise!PanelsNext
    <2>4. ASSUME NEW r \in Requests, Complete(r)
          PROVE  Promise!PanelsNext \/ UNCHANGED Promise!panelsVars
      BY <2>4, CompletePromise DEF Promise!PanelsNext
    <2> QED
      BY <2>1, <2>2, <2>3, <2>4, LoadStep, IgnorePromise
  <1> QED
    BY <1>1, InitPromise, AlwaysTabsInv, PTL DEF TabsSpec, PanelsSpec, Promise!PanelsSpec
=============================================================================

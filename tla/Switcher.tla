------------------------------ MODULE Switcher ------------------------------
(***************************************************************************)
(* What SelectExit promises whoever uses the service (main.go, README.md): *)
(* one exit at a time is asked for; only then is the daemon stopped, and   *)
(* started for that exit and no other, or with a file that serves none;    *)
(* the answer comes only when the daemon serves the exit and the page      *)
(* names it; and until an exit is asked for again both stay, whatever else *)
(* is going on.                                                            *)
(***************************************************************************)
CONSTANTS
  ServedBy,  \* the daemon's configuration for each exit that may be chosen
  Broken,    \* a configuration that serves no exit
  NoDaemon,  \* no daemon is running
  Nowhere    \* what is shown before an exit is chosen

VARIABLES
  asked,     \* the exit being asked for: a set of at most one
  answered,  \* ... once the request has been answered
  running,   \* the configuration the daemon runs
  shown      \* the vendor and exit the page names

switcherVars == <<asked, answered, running, shown>>

(* The daemon may be left from before.                                     *)
SwitcherInit ==
  /\ asked = {} /\ answered = {}
  /\ running \in {NoDaemon} \cup {ServedBy[c] : c \in DOMAIN ServedBy}
  /\ shown = Nowhere

Ask ==
  /\ asked = {}
  /\ \E c \in DOMAIN ServedBy : asked' = {c}
  /\ UNCHANGED <<answered, running, shown>>

Show ==
  /\ answered = {}
  /\ \E c \in asked : \E part \in DOMAIN shown : shown' = [shown EXCEPT ![part] = c[part]]
  /\ UNCHANGED <<asked, answered, running>>

Stop ==
  /\ answered = {}
  /\ \E c \in asked : shown = c
  /\ running' = NoDaemon
  /\ UNCHANGED <<asked, answered, shown>>

(* What is started for the exit may have been damaged on its way.          *)
Start ==
  /\ running = NoDaemon /\ answered = {}
  /\ \E c \in asked : shown = c /\ running' \in {ServedBy[c], Broken}
  /\ UNCHANGED <<asked, answered, shown>>

Succeed ==
  /\ \E c \in asked : running = ServedBy[c] /\ shown = c
  /\ answered' = asked
  /\ UNCHANGED <<asked, running, shown>>

(* The request is over: answered, or given up at any point.                *)
Finish ==
  /\ asked # {}
  /\ asked' = {} /\ answered' = {}
  /\ UNCHANGED <<running, shown>>

(* The service dies and is started again; the daemon goes on.              *)
Crash ==
  /\ asked' = {} /\ answered' = {}
  /\ shown' = Nowhere
  /\ UNCHANGED running

SwitcherNext == Ask \/ Show \/ Stop \/ Start \/ Succeed \/ Finish \/ Crash

SwitcherSpec == SwitcherInit /\ [][SwitcherNext]_switcherVars
=============================================================================

------------------------------- MODULE Panels -------------------------------
(***************************************************************************)
(* What a page of tabs promises its user: opening a tab asks for its       *)
(* content anew; what is then shown is the answer to that question and     *)
(* never to an earlier one, or a message.                                  *)
(***************************************************************************)
EXTENDS Naturals

CONSTANTS PanelTabs, Messages

VARIABLES
  current,    \* the open tab
  questions,  \* the number of questions asked
  asked,      \* the number of the last question asked for each tab
  open,       \* whether the last question for a tab is open
  shown       \* for each tab, the number of the question answered, or a message

panelsVars == <<current, questions, asked, open, shown>>

PanelsInit ==
  /\ current \in PanelTabs
  /\ questions = 1
  /\ asked = [t \in PanelTabs |-> IF t = current THEN 1 ELSE 0]
  /\ open = [t \in PanelTabs |-> t = current]
  /\ shown \in [PanelTabs -> Messages]

(* Another tab is opened.  The question of the one left may be dropped,    *)
(* which leaves a message; so may asking.                                  *)
Open(t) ==
  /\ t # current
  /\ current' = t
  /\ ~open[t]
  /\ questions' = questions + 1
  /\ asked' = [asked EXCEPT ![t] = questions + 1]
  /\ \E new \in {shown[t]} \cup Messages :
       \/ /\ open' = [open EXCEPT ![t] = TRUE]
          /\ shown' = [shown EXCEPT ![t] = new]
       \/ /\ open[current]
          /\ open' = [open EXCEPT ![t] = TRUE, ![current] = FALSE]
          /\ \E m \in Messages : shown' = [shown EXCEPT ![t] = new, ![current] = m]

Close(t) ==
  /\ open[t]
  /\ open' = [open EXCEPT ![t] = FALSE]
  /\ UNCHANGED <<current, questions, asked>>

Fill(t) ==
  /\ Close(t)
  /\ shown' = [shown EXCEPT ![t] = asked[t]]

(* There is no answer: a message says so.  The user still looks at it.     *)
GiveUp ==
  /\ Close(current)
  /\ \E m \in Messages : shown' = [shown EXCEPT ![current] = m]

PanelsNext == GiveUp \/ \E t \in PanelTabs : Open(t) \/ Fill(t)

PanelsSpec == PanelsInit /\ [][PanelsNext]_panelsVars
=============================================================================

------------------------------ MODULE Consent ------------------------------
(***************************************************************************)
(* What asking before a transfer promises, without connections: the user   *)
(* is asked about one request at a time and answers each once, accepting   *)
(* ends the asking, and everybody comes to know the answer given to them   *)
(* and no other.                                                           *)
(***************************************************************************)
CONSTANTS Listener, NoOne

VARIABLES
  open,     \* whether requests are still taken
  asked,    \* the listener whose name the user is shown, NoOne between questions
  verdict,  \* what the user answered to each listener
  outcome   \* what each listener made of its request

consentVars == <<open, asked, verdict, outcome>>

Init ==
  /\ open = TRUE
  /\ asked = NoOne
  /\ verdict = [l \in Listener |-> "none"]
  /\ outcome = [l \in Listener |-> "none"]

Ask(l) ==
  /\ open /\ asked = NoOne
  /\ verdict[l] = "none" /\ outcome[l] = "none"
  /\ asked' = l
  /\ UNCHANGED <<open, verdict, outcome>>

Accept(l) ==
  /\ asked = l
  /\ verdict' = [verdict EXCEPT ![l] = "yes"]
  /\ asked' = NoOne
  /\ open' = FALSE
  /\ UNCHANGED outcome

Refuse(l) ==
  /\ asked = l
  /\ verdict' = [verdict EXCEPT ![l] = "no"]
  /\ asked' = NoOne
  /\ UNCHANGED <<open, outcome>>

\* The user gives up while no question is on the screen.
Cancel ==
  /\ open /\ asked = NoOne
  /\ open' = FALSE
  /\ UNCHANGED <<asked, verdict, outcome>>

\* Only who was not answered and is not being asked about may fail.
Conclude(l, o) ==
  /\ outcome[l] = "none"
  /\ \/ o = "receive" /\ verdict[l] = "yes"
     \/ o = "rejected" /\ verdict[l] = "no"
     \/ o = "failed" /\ verdict[l] = "none" /\ asked # l
  /\ outcome' = [outcome EXCEPT ![l] = o]
  /\ UNCHANGED <<open, asked, verdict>>

Next ==
  \/ \E l \in Listener : Ask(l) \/ Accept(l) \/ Refuse(l)
  \/ Cancel
  \/ \E l \in Listener, o \in {"receive", "rejected", "failed"} : Conclude(l, o)

Spec == Init /\ [][Next]_consentVars
=============================================================================

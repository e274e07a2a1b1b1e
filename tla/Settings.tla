------------------------------ MODULE Settings ------------------------------
\* What the register interface of the motion sensor promises its user
\* (src/examples/azure_project/main/bmi160.c): settings that are independent of
\* each other, although many of them share a register. The driver makes one
\* assignment after another; an assignment changes the settings it names and no
\* other. A failed transfer, which nobody is told of, either undoes the assignment or
\* makes it at the cost of the settings that share a register with those it names.
EXTENDS Naturals

CONSTANTS Setting,    \* the settings
          Neighbours  \* the sets of settings that share a register

VARIABLES settings,   \* what each setting holds
          pending,    \* the assignment under way, a function from some settings
          failures    \* the failed transfers

vars == <<settings, pending, failures>>

Init ==
  /\ settings = [s \in Setting |-> settings[s]]
  /\ failures = 0

\* The assignment is made, and any other taken up; when the driver is idle it is
\* the one that names no setting.
Assign ==
  /\ settings' = [s \in Setting |->
                    IF s \in DOMAIN pending THEN pending[s] ELSE settings[s]]
  /\ UNCHANGED failures

\* With a transfer that fails it is not made, or made with damage to its neighbours.
Forgo ==
  /\ failures' = failures + 1
  /\ UNCHANGED settings
Damage ==
  /\ \E lost \in Neighbours :
       /\ DOMAIN pending \subseteq lost
       /\ settings' = [s \in Setting |->
                         IF s \in DOMAIN pending THEN pending[s]
                         ELSE IF s \in lost THEN settings'[s] ELSE settings[s]]
  /\ failures' = failures + 1

Next == Assign \/ Forgo \/ Damage

Spec == Init /\ [][Next]_vars
=============================================================================

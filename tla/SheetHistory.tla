---------------------------- MODULE SheetHistory ----------------------------
(***************************************************************************)
(* What the school's evaluation sheet promises: a history of published     *)
(* versions that only grows, one version current, and evaluations that     *)
(* keep the version they were signed on for as long as they exist.         *)
(* (evaluation-template.service.ts, the two invariants of the class)       *)
(***************************************************************************)
EXTENDS Integers

CONSTANTS Items, Evaluations

VARIABLES
  sheets,    \* the published versions: item sets by version 1, 2, ...
  current,   \* the version that new evaluations are written on; 0 for none
  signed     \* the version of each evaluation; 0 where there is none

historyVars == <<sheets, current, signed>>

Init ==
  /\ \E first \in (SUBSET Items) \ {{}} : sheets = [v \in {1} |-> first]
  /\ current = 1
  /\ signed = [e \in Evaluations |-> 0]

\* A new version follows the current one, which stays in the history.
Publish ==
  /\ \E items \in (SUBSET Items) \ {{}} :
       sheets' = [v \in DOMAIN sheets \cup {current + 1} |->
                    IF v = current + 1 THEN items ELSE sheets[v]]
  /\ current' = current + 1
  /\ UNCHANGED signed

Sign(e) ==
  /\ signed[e] = 0
  /\ \E v \in DOMAIN sheets : signed' = [signed EXCEPT ![e] = v]
  /\ UNCHANGED <<sheets, current>>

Withdraw(e) ==
  /\ signed' = [signed EXCEPT ![e] = 0]
  /\ UNCHANGED <<sheets, current>>

Next ==
  \/ Publish
  \/ \E e \in Evaluations : Sign(e) \/ Withdraw(e)

Spec == Init /\ [][Next]_historyVars

=============================================================================

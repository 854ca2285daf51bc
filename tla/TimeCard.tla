------------------------------ MODULE TimeCard ------------------------------
(***************************************************************************)
(* What live attendance promises of one student's card: punches that are   *)
(* stamped as they happen, one after the other; one decision for each; and *)
(* hours that only an approval adds to, which completes the student when   *)
(* they reach the requirement.  What a punch is worth is left open.        *)
(* (student.service.ts, punch; supervisor.service.ts, decidePunch)         *)
(***************************************************************************)
EXTENDS Integers

CONSTANTS
  Days, Kinds, Times,
  StampDay,               \* the calendar day of each time
  Before,                 \* pairs of kinds: the first comes first in a day
  Establishments, NoOne   \* those whose supervisors decide; no decider

VARIABLES
  card,       \* status, time and decider by day and kind
  hours,      \* the approved hours
  status,     \* of the student
  required    \* hours of the student's course; 0 where none are set

cardVars == <<card, hours, status, required>>

Init ==
  /\ card = [d \in Days |-> [k \in Kinds |-> [status |-> "NONE", time |-> 0, by |-> NoOne]]]
  /\ hours = 0
  /\ status = "ACTIVE"
  /\ required \in Nat

\* A new stamp is the last on the whole card, not of a day to come, and no kind
\* that comes after it in its day has been punched.  A declined punch may be
\* made again, which clears its decision.
Punch(d, k) ==
  /\ card[d][k].status \in {"NONE", "DECLINED"}
  /\ \A j \in Kinds : <<k, j>> \in Before => card[d][j].status \in {"NONE", "DECLINED"}
  /\ \E t \in Times :
       /\ d <= StampDay[t]
       /\ \A e \in Days, j \in Kinds : card[e][j].time <= t
       /\ card' = [card EXCEPT ![d][k] = [status |-> "PENDING", time |-> t, by |-> NoOne]]
  /\ UNCHANGED <<hours, status, required>>

\* The hours have just reached a requirement that they were below.
Crossed == 0 < required /\ hours < required /\ required <= hours'

Decide(d, k, verdict) ==
  /\ card[d][k].status = "PENDING"
  /\ \E e \in Establishments :
       card' = [card EXCEPT ![d][k] = [status |-> verdict, time |-> card[d][k].time, by |-> e]]
  /\ IF verdict = "APPROVED" THEN hours' \in Nat /\ hours <= hours' ELSE hours' = hours
  /\ status' = IF Crossed /\ status = "ACTIVE" THEN "COMPLETED" ELSE status
  /\ UNCHANGED required

\* The student is edited by hand, which the card does not notice.
Edit ==
  /\ status' \in {"ACTIVE", "PENDING", "COMPLETED", "INACTIVE"}
  /\ required' \in Nat
  /\ UNCHANGED <<card, hours>>

Next ==
  \/ Edit
  \/ \E d \in Days, k \in Kinds :
       \/ Punch(d, k)
       \/ \E verdict \in {"APPROVED", "DECLINED"} : Decide(d, k, verdict)

Spec == Init /\ [][Next]_cardVars

=============================================================================

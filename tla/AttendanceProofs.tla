-------------------------- MODULE AttendanceProofs --------------------------
(***************************************************************************)
(* Theorems about Attendance and about what Oversight reports of it, for   *)
(* every value of their constants: any number of requests in flight, of    *)
(* decisions, of days and of establishments, any length of a day and of a  *)
(* month.                                                                  *)
(***************************************************************************)
EXTENDS Oversight, FiniteSetTheorems, WellFoundedInduction, TLAPS

-----------------------------------------------------------------------------
\* Type correctness.

\* What the fields of a request or of a decision are, at each of its steps.
LEMMA RequestTypes ==
  ASSUME TypeOK, NEW r \in Requests
  PROVE  /\ req[r].pc \in {"day", "read", "stamp", "write"} => req[r] \in PunchReqs
         /\ req[r].pc \in {"remarkDay", "remark"} => req[r] \in RemarkReqs
BY DEF TypeOK, PunchReqs, RemarkReqs, Idle

LEMMA DecisionTypes ==
  ASSUME TypeOK, NEW d \in Decisions
  PROVE  /\ dec[d].pc \in {"lock", "hours", "decide", "after", "commit"} => dec[d] \in Decs
         /\ dec[d].pc = "status" => dec[d] \in StatusReqs
BY DEF TypeOK, Decs, StatusReqs, Idle

LEMMA InitTypeOK == Init => TypeOK
<1> SUFFICES ASSUME Init PROVE TypeOK
  OBVIOUS
<1> USE ConstantsAssumption
<1>1. clock \in Times
  BY DEF Init, Times
<1>2. student \in Students
  <2>1. PICK e \in Establishments, h \in CourseHours, s \in StartDays :
          student = [status |-> "ACTIVE", establishment |-> e, required |-> h, start |-> s]
    BY DEF Init
  <2> QED
    BY <2>1 DEF Students, StudentStatuses
<1>3. NoPunch \in Punches
  BY DEF NoPunch, Punches, PunchStatuses, Times
<1> QED
  BY <1>1, <1>2, <1>3 DEF Init, TypeOK

\* A step of the student's requests keeps the types.
LEMMA RequestTypeOK ==
  ASSUME TypeOK, NEW r \in Requests,
         \/ \E k \in Tried : BeginPunch(r, k)
         \/ \E note \in Remarks : BeginRemark(r, note)
         \/ RequestStep(r)
         \/ RequestLost(r)
  PROVE  TypeOK'
<1> USE ConstantsAssumption, RequestTypes DEF TypeOK
<1>0. Today \in Days
  BY DEF Today, Days
<1>1. ASSUME NEW k \in Tried, BeginPunch(r, k) PROVE TypeOK'
  <2>1. [pc |-> "day", day |-> Today, kind |-> k, again |-> FALSE, time |-> 0] \in PunchReqs
    BY <1>0 DEF PunchReqs, Times
  <2> QED
    BY <1>1, <2>1 DEF BeginPunch
<1>2. ASSUME NEW note \in Remarks, BeginRemark(r, note) PROVE TypeOK'
  <2>1. [pc |-> "remarkDay", day |-> Today, note |-> note] \in RemarkReqs
    BY <1>0 DEF RemarkReqs
  <2> QED
    BY <1>2, <2>1 DEF BeginRemark
<1>3. CASE GetOrCreateDay(r)
  <2>1. CASE req[r].pc = "day"
    <3>1. [req[r] EXCEPT !.pc = "read"] \in PunchReqs
      BY <2>1 DEF PunchReqs
    <3> QED
      BY <1>3, <2>1, <3>1 DEF GetOrCreateDay
  <2>2. CASE req[r].pc = "remarkDay"
    <3>1. [req[r] EXCEPT !.pc = "remark"] \in RemarkReqs
      BY <2>2 DEF RemarkReqs
    <3> QED
      BY <1>3, <2>2, <3>1 DEF GetOrCreateDay
  <2> QED
    BY <1>3, <2>1, <2>2 DEF GetOrCreateDay
<1>4. CASE ReadPunches(r)
  <2>1. \A again \in BOOLEAN : [req[r] EXCEPT !.pc = "stamp", !.again = again] \in PunchReqs
    BY <1>4 DEF ReadPunches, PunchReqs
  <2> QED
    BY <1>4, <2>1 DEF ReadPunches
<1>5. CASE StampPunch(r)
  <2>1. [[req[r] EXCEPT !.pc = "write"] EXCEPT !.time = clock] \in PunchReqs
    BY <1>5 DEF StampPunch, PunchReqs
  <2> QED
    BY <1>5, <2>1 DEF StampPunch
<1>6. CASE WritePunch(r)
  <2>1. /\ req[r].day \in Days
        /\ req[r].kind \in Kinds
        /\ [status |-> "PENDING", time |-> req[r].time, by |-> NoOne] \in Punches
    BY <1>6 DEF WritePunch, PunchReqs, Punches, PunchStatuses
  <2>2. punches' \in [Days -> [Kinds -> Punches]]
    BY <1>6, <2>1 DEF WritePunch
  <2> QED
    BY <1>6, <2>2 DEF WritePunch
<1>7. CASE WriteRemark(r)
  <2>1. req[r].note \in {"blank", "noted"}
    BY <1>7 DEF WriteRemark, RemarkReqs
  <2> QED
    BY <1>7, <2>1 DEF WriteRemark
<1>8. CASE RequestLost(r)
  BY <1>8 DEF RequestLost
<1> QED
  BY <1>1, <1>2, <1>3, <1>4, <1>5, <1>6, <1>7, <1>8 DEF RequestStep

\* A step of the supervisors' requests keeps the types.
LEMMA DecisionTypeOK ==
  ASSUME TypeOK, NEW d \in Decisions,
         \/ \E op \in Ops, day \in Days, k \in Kinds : BeginDecision(d, op, day, k)
         \/ \E to \in SupervisorStatuses : BeginStatus(d, to)
         \/ DecisionStep(d)
         \/ DecisionLost(d)
  PROVE  TypeOK'
<1> USE ConstantsAssumption, DecisionTypes DEF TypeOK
<1>0. Released(d) \in Decisions \cup {NoTx}
  BY DEF Released
<1>1. ASSUME NEW op \in Ops, NEW day \in Days, NEW k \in Kinds, BeginDecision(d, op, day, k)
      PROVE  TypeOK'
  <2>1. student.establishment \in Establishments
    BY <1>1 DEF BeginDecision, Supervised, Students
  <2>2. [pc |-> IF op = "APPROVED" THEN "lock" ELSE "decide", op |-> op,
         est |-> student.establishment, day |-> day, kind |-> k,
         required |-> 0, below |-> FALSE, completes |-> FALSE] \in Decs
    BY <2>1 DEF Decs
  <2> QED
    BY <1>1, <2>2 DEF BeginDecision
<1>2. ASSUME NEW to \in SupervisorStatuses, BeginStatus(d, to) PROVE TypeOK'
  BY <1>2 DEF BeginStatus, StatusReqs
<1>3. CASE LockStudent(d)
  <2>1. [dec[d] EXCEPT !.pc = "hours"] \in Decs
    BY <1>3 DEF LockStudent, Decs
  <2> QED
    BY <1>3, <2>1 DEF LockStudent
<1>4. CASE ReadHours(d)
  <2>1. Below(student.required, Hours) \in BOOLEAN
    BY DEF Below
  <2>2. student.required \in Nat
    BY DEF Students
  <2>3. dec'[d] \in Decs
    BY <1>4, <2>1, <2>2 DEF ReadHours, Decs
  <2> QED
    BY <1>4, <2>3 DEF ReadHours
<1>5. CASE DecidePunch(d)
  <2>1. \A pc \in {"after", "commit"} : [dec[d] EXCEPT !.pc = pc] \in Decs
    BY <1>5 DEF DecidePunch, Decs
  <2> QED
    BY <1>0, <1>5, <2>1 DEF DecidePunch
<1>6. CASE CheckCompletion(d)
  <2>1. dec'[d] \in Decs
    BY <1>6 DEF CheckCompletion, Decs
  <2> QED
    BY <1>6, <2>1 DEF CheckCompletion
<1>7. CASE Commit(d)
  <2>1. /\ dec[d].day \in Days /\ dec[d].kind \in Kinds
        /\ dec[d].op \in PunchStatuses /\ dec[d].est \in Establishments
    BY <1>7 DEF Commit, Decs, Ops, PunchStatuses
  <2>2. [punches[dec[d].day][dec[d].kind] EXCEPT !.status = dec[d].op, !.by = dec[d].est] \in Punches
    <3>1. punches[dec[d].day][dec[d].kind] \in Punches
      BY <2>1
    <3> QED
      BY <2>1, <3>1 DEF Punches
  <2>3. Decided(d) \in [Days -> [Kinds -> Punches]]
    BY <2>1, <2>2 DEF Decided
  <2>4. student' \in Students
    BY <1>7 DEF Commit, Students, StudentStatuses
  <2> QED
    BY <1>0, <1>7, <2>3, <2>4 DEF Commit
<1>8. CASE WriteStatus(d)
  <2>1. student' \in Students
    BY <1>8 DEF WriteStatus, StatusReqs, Students, SupervisorStatuses, StudentStatuses
  <2> QED
    BY <1>8, <2>1 DEF WriteStatus
<1>9. CASE DecisionLost(d)
  BY <1>0, <1>9 DEF DecisionLost
<1> QED
  BY <1>1, <1>2, <1>3, <1>4, <1>5, <1>6, <1>7, <1>8, <1>9 DEF DecisionStep

LEMMA NextTypeOK == TypeOK /\ [Next]_vars => TypeOK'
<1> SUFFICES ASSUME TypeOK, [Next]_vars PROVE TypeOK'
  OBVIOUS
<1>1. CASE Tick
  BY <1>1, ConstantsAssumption DEF Tick, TypeOK, Times
<1>2. CASE EditStudent
  <2>1. student' \in Students
    BY <1>2, ConstantsAssumption DEF EditStudent, TypeOK, Students
  <2> QED
    BY <1>2, <2>1 DEF EditStudent, TypeOK
<1>3. CASE UNCHANGED vars
  BY <1>3 DEF vars, TypeOK
<1> QED
  BY <1>1, <1>2, <1>3, RequestTypeOK, DecisionTypeOK DEF Next

\* The rows and the handlers' local state keep their types in every behaviour.
THEOREM TypeCorrect == Spec => []TypeOK
<1>1. Init => TypeOK
  BY InitTypeOK
<1>2. TypeOK /\ [Next]_vars => TypeOK'
  BY NextTypeOK
<1> QED
  BY <1>1, <1>2, PTL DEF Spec

-----------------------------------------------------------------------------
\* What the two actions that write punches do to one punch.

LEMMA WritePunchEffect ==
  ASSUME TypeOK, NEW r \in Requests, WritePunch(r), NEW day \in Days, NEW k \in Kinds
  PROVE  \/ punches'[day][k] = punches[day][k]
         \/ /\ day = req[r].day
            /\ k = req[r].kind
            /\ punches[day][k].status \in {"NONE", "DECLINED"}
            /\ punches'[day][k].status = "PENDING"
            /\ punches'[day][k].time = req[r].time
            /\ punches'[day][k].by = NoOne
BY RequestTypes DEF TypeOK, WritePunch, PunchReqs

LEMMA CommitEffect ==
  ASSUME TypeOK, NEW d \in Decisions, Commit(d), NEW day \in Days, NEW k \in Kinds
  PROVE  IF day = dec[d].day /\ k = dec[d].kind
         THEN /\ punches'[day][k].status = dec[d].op
              /\ punches'[day][k].time = punches[day][k].time
              /\ punches'[day][k].by = dec[d].est
         ELSE punches'[day][k] = punches[day][k]
<1>1. dec[d] \in Decs /\ punches[day][k] \in Punches
  BY DecisionTypes DEF Commit, TypeOK
<1> QED
  BY <1>1 DEF TypeOK, Commit, Decided, Decs, Punches

-----------------------------------------------------------------------------
\* Decisions are final.

\* Between its update and its commit a decision holds a punch that is PENDING,
\* and no other decision holds the same one.
Holds(d) == dec[d].pc \in {"after", "commit"}

RowsHeld ==
  /\ \A d \in Decisions :
       Holds(d) => punches[dec[d].day][dec[d].kind].status = "PENDING"
  /\ \A d, e \in Decisions :
       Holds(d) /\ Holds(e) /\ dec[d].day = dec[e].day /\ dec[d].kind = dec[e].kind
         => d = e

LEMMA InitRowsHeld == Init => RowsHeld
BY DEF Init, RowsHeld, Holds, Idle

LEMMA NextRowsHeld == TypeOK /\ RowsHeld /\ [Next]_vars => RowsHeld'
<1> SUFFICES ASSUME TypeOK, RowsHeld, [Next]_vars PROVE RowsHeld'
  OBVIOUS
<1> USE DEF RowsHeld, Holds
<1>1. ASSUME UNCHANGED <<punches, dec>> PROVE RowsHeld'
  BY <1>1
<1>2. ASSUME NEW r \in Requests, WritePunch(r) PROVE RowsHeld'
  <2>1. \A d \in Decisions : Holds(d) => dec[d].day \in Days /\ dec[d].kind \in Kinds
    BY DecisionTypes DEF Decs
  <2>2. dec' = dec
    BY <1>2 DEF WritePunch
  <2> QED
    BY <1>2, <2>1, <2>2, WritePunchEffect
<1>3. ASSUME NEW d \in Decisions, UNCHANGED punches,
             \E v : dec' = [dec EXCEPT ![d] = v] /\ v.pc \notin {"after", "commit"}
      PROVE  RowsHeld'
  BY <1>3 DEF TypeOK
<1>4. ASSUME NEW d \in Decisions, DecidePunch(d) PROVE RowsHeld'
  <2>1. CASE Decidable(d)
    <3>1. PICK pc \in {"after", "commit"} : dec' = [dec EXCEPT ![d].pc = pc]
      BY <1>4, <2>1 DEF DecidePunch
    <3>2. dec[d] \in Decs
      BY <1>4, DecisionTypes DEF DecidePunch
    <3>3. \A e \in Decisions \ {d} : dec'[e] = dec[e]
      BY <3>1 DEF TypeOK
    <3>4. dec'[d].day = dec[d].day /\ dec'[d].kind = dec[d].kind
      BY <3>1, <3>2 DEF TypeOK, Decs
    <3>5. punches' = punches /\ ~RowLocked(d)
      BY <1>4 DEF DecidePunch
    <3> QED
      BY <2>1, <3>3, <3>4, <3>5 DEF Decidable, RowLocked
  <2>2. CASE ~Decidable(d)
    BY <1>3, <1>4, <2>2 DEF DecidePunch, Idle
  <2> QED
    BY <2>1, <2>2
<1>5. ASSUME NEW d \in Decisions, CheckCompletion(d) PROVE RowsHeld'
  BY <1>5, DecisionTypes DEF TypeOK, CheckCompletion, Decs
<1>6. ASSUME NEW d \in Decisions, Commit(d) PROVE RowsHeld'
  <2>1. \A e \in Decisions : Holds(e) => dec[e].day \in Days /\ dec[e].kind \in Kinds
    BY DecisionTypes DEF Decs
  <2>2. dec' = [dec EXCEPT ![d] = Idle] /\ Holds(d)
    BY <1>6 DEF Commit
  <2>3. dec'[d].pc = "idle" /\ \A e \in Decisions \ {d} : dec'[e] = dec[e]
    BY <2>2 DEF TypeOK, Idle
  <2>4. ASSUME NEW e \in Decisions \ {d}, Holds(e)
        PROVE  punches'[dec[e].day][dec[e].kind] = punches[dec[e].day][dec[e].kind]
    BY <1>6, <2>1, <2>2, <2>4, CommitEffect
  <2> QED
    BY <2>3, <2>4
<1>7. ASSUME NEW d \in Decisions,
             \/ \E op \in Ops, day \in Days, k \in Kinds : BeginDecision(d, op, day, k)
             \/ \E to \in SupervisorStatuses : BeginStatus(d, to)
             \/ LockStudent(d) \/ ReadHours(d) \/ WriteStatus(d) \/ DecisionLost(d)
      PROVE  RowsHeld'
  <2>1. ASSUME NEW op \in Ops, NEW day \in Days, NEW k \in Kinds, BeginDecision(d, op, day, k)
        PROVE  RowsHeld'
    BY <2>1, <1>3 DEF BeginDecision
  <2>2. ASSUME NEW to \in SupervisorStatuses, BeginStatus(d, to) PROVE RowsHeld'
    BY <2>2, <1>3 DEF BeginStatus
  <2>3. CASE LockStudent(d)
    BY <2>3, DecisionTypes DEF LockStudent, TypeOK, Decs
  <2>4. CASE ReadHours(d)
    BY <2>4, DecisionTypes DEF ReadHours, TypeOK, Decs
  <2>5. CASE WriteStatus(d) \/ DecisionLost(d)
    BY <2>5, <1>3 DEF WriteStatus, DecisionLost, Idle
  <2> QED
    BY <1>7, <2>1, <2>2, <2>3, <2>4, <2>5
<1>8. ASSUME NEW r \in Requests,
             \/ \E k \in Tried : BeginPunch(r, k)
             \/ \E note \in Remarks : BeginRemark(r, note)
             \/ RequestStep(r) \/ RequestLost(r)
      PROVE  RowsHeld'
  BY <1>1, <1>2, <1>8 DEF BeginPunch, BeginRemark, RequestStep, GetOrCreateDay, ReadPunches,
     StampPunch, WriteRemark, RequestLost
<1> QED
  BY <1>1, <1>4, <1>5, <1>6, <1>7, <1>8 DEF Next, DecisionStep, Tick, EditStudent, vars

\* The action under the box of DecisionsFinal.
LEMMA StepDecidesFinally ==
  ASSUME TypeOK, RowsHeld, [Next]_vars, NEW day \in Days, NEW k \in Kinds,
         punches'[day][k] # punches[day][k]
  PROVE  LET old == punches[day][k]
             new == punches'[day][k]
         IN  \/ /\ old.status \in {"NONE", "DECLINED"}
                /\ new.status = "PENDING"
                /\ new.by = NoOne
             \/ /\ old.status = "PENDING"
                /\ new.status \in {"APPROVED", "DECLINED"}
                /\ new.time = old.time
                /\ new.by # NoOne
<1>1. ASSUME NEW r \in Requests, WritePunch(r)
      PROVE  /\ punches[day][k].status \in {"NONE", "DECLINED"}
             /\ punches'[day][k].status = "PENDING"
             /\ punches'[day][k].by = NoOne
  BY <1>1, WritePunchEffect
<1>2. ASSUME NEW d \in Decisions, Commit(d)
      PROVE  /\ punches[day][k].status = "PENDING"
             /\ punches'[day][k].status \in {"APPROVED", "DECLINED"}
             /\ punches'[day][k].time = punches[day][k].time
             /\ punches'[day][k].by # NoOne
  <2>1. Holds(d) /\ dec[d] \in Decs
    BY <1>2, DecisionTypes DEF Commit, Holds
  <2>2. day = dec[d].day /\ k = dec[d].kind
    BY <1>2, CommitEffect
  <2>3. punches[day][k].status = "PENDING"
    BY <2>1, <2>2 DEF RowsHeld
  <2> QED
    BY <1>2, <2>1, <2>2, <2>3, CommitEffect, ConstantsAssumption DEF Decs, Ops
<1>3. \/ \E r \in Requests : WritePunch(r)
      \/ \E d \in Decisions : Commit(d)
      \/ UNCHANGED punches
  BY DEF Next, vars, Tick, EditStudent, BeginPunch, BeginRemark, RequestStep, GetOrCreateDay,
     ReadPunches, StampPunch, WriteRemark, RequestLost, BeginDecision, BeginStatus,
     DecisionStep, LockStudent, ReadHours, DecidePunch, CheckCompletion, WriteStatus,
     DecisionLost
<1> QED
  BY <1>1, <1>2, <1>3

\* Whatever order the requests and the decisions take, a decided punch keeps
\* its decision, unless it was declined and is punched again.
THEOREM DecisionsAreFinal == Spec => DecisionsFinal
<1>1. Init => TypeOK /\ RowsHeld
  BY InitTypeOK, InitRowsHeld
<1>2. TypeOK /\ RowsHeld /\ [Next]_vars => (TypeOK /\ RowsHeld)'
  BY NextTypeOK, NextRowsHeld
<1>3. TypeOK /\ RowsHeld /\ [Next]_vars =>
        [\A d \in Days, k \in Kinds :
           LET old == punches[d][k]
               new == punches'[d][k]
           IN  new # old =>
                 \/ /\ old.status \in {"NONE", "DECLINED"}
                    /\ new.status = "PENDING"
                    /\ new.by = NoOne
                 \/ /\ old.status = "PENDING"
                    /\ new.status \in {"APPROVED", "DECLINED"}
                    /\ new.time = old.time
                    /\ new.by # NoOne]_vars
  BY StepDecidesFinally
<1> QED
  BY <1>1, <1>2, <1>3, PTL DEF Spec, DecisionsFinal

-----------------------------------------------------------------------------
\* With one punch in flight the standing punches of a day are in order.

\* What the check of the punch rules leaves true until the write.  No kind that
\* must come later stands, because only the request in flight can make one
\* stand; and once stamped the request is later than every punch there is.
StampsInOrder ==
  /\ \A d \in Days, k \in Kinds : punches[d][k].time <= clock
  /\ \A q, r \in Requests : Punching(q) /\ Punching(r) => q = r
  /\ \A r \in Requests : req[r].pc \in {"stamp", "write"} =>
       \A k \in Kinds :
         Precedes(req[r].kind, k) => ~Stands(punches[req[r].day], k)
  /\ \A r \in Requests : req[r].pc = "write" =>
       /\ req[r].time <= clock
       /\ \A j \in Kinds :
            Precedes(j, req[r].kind) /\ Stands(punches[req[r].day], j)
              => punches[req[r].day][j].time <= req[r].time

\* The punch rules refuse a kind while a later one stands.
LEMMA MayPunchOrder ==
  ASSUME NEW day, NEW j \in Kinds, NEW k \in Kinds, MayPunch(day, j), Precedes(j, k)
  PROVE  ~Stands(day, k)
BY DEF MayPunch, Precedes, Morning, Kinds

LEMMA InitInOrder == Init => SequentialSessions /\ StampsInOrder
BY ConstantsAssumption DEF Init, SequentialSessions, StampsInOrder, Stands, NoPunch, Punching,
   Idle

LEMMA NextInOrder ==
  ASSUME OnePunchAtATime, TypeOK, RowsHeld, SequentialSessions, StampsInOrder, [Next]_vars
  PROVE  (SequentialSessions /\ StampsInOrder)'
<1> USE DEF SequentialSessions, StampsInOrder
<1>0. /\ clock \in Nat
      /\ \A d \in Days, k \in Kinds : punches[d][k].time \in Nat
      /\ \A r \in Requests : Punching(r) => req[r] \in PunchReqs
  BY RequestTypes, ConstantsAssumption DEF TypeOK, Times, Punches, Punching
\* Punches and punch requests are left alone, or a request ends.
<1>1. ASSUME UNCHANGED punches, clock' \in Nat, clock <= clock',
             \A r \in Requests : Punching(r)' => req'[r] = req[r]
      PROVE  (SequentialSessions /\ StampsInOrder)'
  <2>1. \A r \in Requests : req[r].pc = "write" => req[r].time \in Nat
    BY RequestTypes DEF PunchReqs, Times
  <2> QED
    BY <1>0, <1>1, <2>1 DEF Punching, Stands
<1>2. CASE Tick
  BY <1>0, <1>1, <1>2 DEF Tick
<1>3. CASE EditStudent \/ UNCHANGED vars
  BY <1>0, <1>1, <1>3 DEF EditStudent, vars
<1>4. ASSUME NEW r \in Requests, NEW k \in Tried, BeginPunch(r, k)
      PROVE  (SequentialSessions /\ StampsInOrder)'
  <2>1. \A q \in Requests : Punching(q)' => q = r
    BY <1>4 DEF BeginPunch, Punching, TypeOK
  <2>2. req'[r].pc = "day"
    BY <1>4 DEF BeginPunch, TypeOK
  <2> QED
    BY <1>4, <2>1, <2>2 DEF BeginPunch, Punching, Stands
<1>5. ASSUME NEW r \in Requests,
             \/ \E note \in Remarks : BeginRemark(r, note)
             \/ WriteRemark(r) \/ RequestLost(r)
      PROVE  (SequentialSessions /\ StampsInOrder)'
  <2>1. \A q \in Requests : Punching(q)' => req'[q] = req[q]
    BY <1>5 DEF BeginRemark, WriteRemark, RequestLost, Punching, TypeOK, Idle
  <2> QED
    BY <1>0, <1>1, <1>5, <2>1 DEF BeginRemark, WriteRemark, RequestLost
<1>6. ASSUME NEW r \in Requests, GetOrCreateDay(r)
      PROVE  (SequentialSessions /\ StampsInOrder)'
  <2>1. req'[r].pc \in {"read", "remark"} /\ \A q \in Requests \ {r} : req'[q] = req[q]
    BY <1>6 DEF GetOrCreateDay, TypeOK
  <2>2. Punching(r)' => Punching(r)
    BY <1>6, RequestTypes DEF GetOrCreateDay, Punching, TypeOK, PunchReqs, RemarkReqs
  <2> QED
    BY <1>6, <2>1, <2>2 DEF GetOrCreateDay, Punching, Stands
<1>7. ASSUME NEW r \in Requests, ReadPunches(r)
      PROVE  (SequentialSessions /\ StampsInOrder)'
  <2>1. Punching(r) /\ req[r] \in PunchReqs
    BY <1>0, <1>7 DEF ReadPunches, Punching
  <2>2. \A q \in Requests \ {r} : req'[q] = req[q]
    BY <1>7 DEF ReadPunches, TypeOK
  <2>3. CASE MayPunch(punches[req[r].day], req[r].kind)
    <3>1. /\ req'[r].pc = "stamp"
          /\ req'[r].day = req[r].day
          /\ req'[r].kind = req[r].kind
      BY <1>7, <2>1, <2>3 DEF ReadPunches, TypeOK, PunchReqs
    <3>2. \A k \in Kinds : Precedes(req[r].kind, k) => ~Stands(punches[req[r].day], k)
      BY <2>1, <2>3, MayPunchOrder DEF PunchReqs
    <3> QED
      BY <1>7, <2>1, <2>2, <3>1, <3>2 DEF ReadPunches, Punching, Stands
  <2>4. CASE ~MayPunch(punches[req[r].day], req[r].kind)
    BY <1>0, <1>1, <1>7, <2>2, <2>4 DEF ReadPunches, TypeOK, Punching, Idle
  <2> QED
    BY <2>3, <2>4
<1>8. ASSUME NEW r \in Requests, StampPunch(r)
      PROVE  (SequentialSessions /\ StampsInOrder)'
  <2>1. Punching(r) /\ req[r] \in PunchReqs
    BY <1>0, <1>8 DEF StampPunch, Punching
  <2>2. /\ \A q \in Requests \ {r} : req'[q] = req[q]
        /\ req'[r].pc = "write"
        /\ req'[r].day = req[r].day
        /\ req'[r].kind = req[r].kind
        /\ req'[r].time = clock
    BY <1>8, <2>1 DEF StampPunch, TypeOK, PunchReqs
  <2>3. /\ clock' = clock
        /\ punches' = punches
        /\ req[r].pc = "stamp"
    BY <1>8 DEF StampPunch
  <2>4. \A q \in Requests : Punching(q)' => q = r
    BY <2>1, <2>2 DEF Punching
  <2>5. req[r].day \in Days
    BY <2>1 DEF PunchReqs
  <2>6. \A k \in Kinds :
          Precedes(req'[r].kind, k) => ~Stands(punches'[req'[r].day], k)
    BY <2>2, <2>3
  <2>7. \A j \in Kinds : punches'[req'[r].day][j].time <= req'[r].time
    BY <2>2, <2>3, <2>5
  <2> QED
    BY <1>0, <2>2, <2>3, <2>4, <2>6, <2>7 DEF Punching, Stands
<1>9. ASSUME NEW r \in Requests, WritePunch(r)
      PROVE  (SequentialSessions /\ StampsInOrder)'
  <2>1. Punching(r) /\ req[r] \in PunchReqs
    BY <1>0, <1>9 DEF WritePunch, Punching
  <2>2. \A q \in Requests : ~Punching(q)'
    BY <1>9, <2>1 DEF WritePunch, Punching, TypeOK, Idle
  <2>3. clock' = clock
    BY <1>9 DEF WritePunch
  <2>4. \A d \in Days, k \in Kinds :
          \/ punches'[d][k] = punches[d][k]
          \/ d = req[r].day /\ k = req[r].kind /\ punches'[d][k].time = req[r].time
    BY <1>9, WritePunchEffect
  <2>5. \A d \in Days, k \in Kinds : punches'[d][k].time <= clock
    BY <1>9, <2>4 DEF WritePunch
  <2>6. ASSUME NEW d \in Days, NEW j \in Kinds, NEW k \in Kinds, Precedes(j, k),
               Stands(punches'[d], j), Stands(punches'[d], k)
        PROVE  punches'[d][j].time <= punches'[d][k].time
    <3>1. j # k
      BY <2>6 DEF Precedes
    <3>2. CASE punches'[d][j] = punches[d][j] /\ punches'[d][k] = punches[d][k]
      BY <2>6, <3>2 DEF Stands
    <3>3. CASE d = req[r].day /\ j = req[r].kind
      <4>1. punches'[d][k] = punches[d][k]
        BY <2>4, <3>1, <3>3
      <4> QED
        BY <1>9, <2>6, <3>3, <4>1 DEF WritePunch, Stands
    <3>4. CASE d = req[r].day /\ k = req[r].kind /\ punches'[d][k].time = req[r].time
      <4>1. punches'[d][j] = punches[d][j]
        BY <2>4, <3>1, <3>4
      <4> QED
        BY <1>9, <2>6, <3>4, <4>1 DEF WritePunch, Stands
    <3> QED
      BY <2>4, <3>2, <3>3, <3>4
  <2> QED
    BY <2>2, <2>3, <2>5, <2>6 DEF Punching
\* A decision makes no punch stand that did not, and moves no time.
<1>10. ASSUME NEW d \in Decisions, Commit(d)
       PROVE  (SequentialSessions /\ StampsInOrder)'
  <2>1. \A day \in Days, k \in Kinds :
          /\ punches'[day][k].time = punches[day][k].time
          /\ Stands(punches'[day], k) => Stands(punches[day], k)
    <3>1. punches[dec[d].day][dec[d].kind].status = "PENDING"
      BY <1>10 DEF RowsHeld, Holds, Commit
    <3> QED
      BY <1>10, <3>1, CommitEffect DEF Stands
  <2>2. clock' = clock /\ req' = req
    BY <1>10 DEF Commit
  <2>3. \A r \in Requests : Punching(r) => req[r].day \in Days
    BY <1>0 DEF PunchReqs
  <2> QED
    BY <2>1, <2>2, <2>3 DEF Punching
<1>11. ASSUME NEW d \in Decisions,
              \/ \E op \in Ops, day \in Days, k \in Kinds : BeginDecision(d, op, day, k)
              \/ \E to \in SupervisorStatuses : BeginStatus(d, to)
              \/ LockStudent(d) \/ ReadHours(d) \/ DecidePunch(d) \/ CheckCompletion(d)
              \/ WriteStatus(d) \/ DecisionLost(d)
       PROVE  (SequentialSessions /\ StampsInOrder)'
  <2>1. UNCHANGED <<clock, punches, req>>
    BY <1>11 DEF BeginDecision, BeginStatus, LockStudent, ReadHours, DecidePunch,
       CheckCompletion, WriteStatus, DecisionLost
  <2> QED
    BY <1>0, <1>1, <2>1
<1> QED
  BY <1>2, <1>3, <1>4, <1>5, <1>6, <1>7, <1>8, <1>9, <1>10, <1>11
  DEF Next, RequestStep, DecisionStep

\* While the client keeps one punch in flight, In comes before Out and morning
\* before afternoon, however the supervisors decide meanwhile.
THEOREM SessionsAreSequential ==
  ASSUME OnePunchAtATime
  PROVE  Spec => []SequentialSessions
<1>1. Init => TypeOK /\ RowsHeld /\ SequentialSessions /\ StampsInOrder
  BY InitTypeOK, InitRowsHeld, InitInOrder
<1>2. TypeOK /\ RowsHeld /\ SequentialSessions /\ StampsInOrder /\ [Next]_vars
        => (TypeOK /\ RowsHeld /\ SequentialSessions /\ StampsInOrder)'
  BY OnePunchAtATime, NextTypeOK, NextRowsHeld, NextInOrder
<1> QED
  BY <1>1, <1>2, PTL DEF Spec

-----------------------------------------------------------------------------
\* The approval that crosses the requirement completes the student.

\* The hours are decided by the approved punches alone.
LEMMA HoursOfApproved ==
  ASSUME NEW p \in [Days -> [Kinds -> Punches]], NEW q \in [Days -> [Kinds -> Punches]],
         \A d \in Days, k \in Kinds :
           p[d][k].status = "APPROVED" \/ q[d][k].status = "APPROVED" => p[d][k] = q[d][k]
  PROVE  TotalApproved(p) = TotalApproved(q)
<1>1. ASSUME NEW d \in Days PROVE ApprovedTicks(p[d]) = ApprovedTicks(q[d])
  <2>1. \A s \in Sessions : InKind[s] \in Kinds /\ OutKind[s] \in Kinds
    BY DEF Sessions, InKind, OutKind, Kinds
  <2>2. \A s \in Sessions :
          /\ ApprovedPair(p[d], s) <=> ApprovedPair(q[d], s)
          /\ ApprovedPair(p[d], s) => SessionTicks(p[d], s) = SessionTicks(q[d], s)
    BY <2>1 DEF ApprovedPair, SessionTicks
  <2>3. [s \in Sessions |-> IF ApprovedPair(p[d], s) THEN SessionTicks(p[d], s) ELSE 0]
          = [s \in Sessions |-> IF ApprovedPair(q[d], s) THEN SessionTicks(q[d], s) ELSE 0]
    BY <2>2
  <2> QED
    BY <2>3 DEF ApprovedTicks
<1>2. DOMAIN p = Days /\ DOMAIN q = Days
  OBVIOUS
<1>3. [d \in DOMAIN p |-> ApprovedTicks(p[d])] = [d \in DOMAIN q |-> ApprovedTicks(q[d])]
  BY <1>1, <1>2
<1> QED
  BY <1>3 DEF TotalApproved

\* An approval holds the student row from its first read to its commit ...
Approving(d) ==
  /\ dec[d].pc \in {"hours", "decide", "after", "commit"}
  /\ dec[d].op = "APPROVED"

LockHeld ==
  /\ \A d \in Decisions : Approving(d) => lock = d
  /\ \A d \in Decisions : dec[d].pc \in {"lock", "hours", "after"} => dec[d].op = "APPROVED"

\* ... so what it has read is still so when it commits.
Crossing(d) ==
  /\ Below(student.required, Hours)
  /\ Reached(student.required, TotalApproved(Decided(d)))
  /\ student.status = "ACTIVE"

ReadsStandOf(d) ==
  /\ Approving(d) /\ dec[d].pc # "hours" =>
       /\ dec[d].required = student.required
       /\ dec[d].below <=> Below(student.required, Hours)
  /\ dec[d].pc = "commit" =>
       (dec[d].completes <=> dec[d].op = "APPROVED" /\ Crossing(d))
  /\ dec[d].pc \in {"lock", "hours", "decide"} => ~dec[d].completes

ReadsStand == \A d \in Decisions : ReadsStandOf(d)

LEMMA InitReads == Init => LockHeld /\ ReadsStand
BY DEF Init, LockHeld, ReadsStand, ReadsStandOf, Approving, Idle

LEMMA NextLockHeld == TypeOK /\ LockHeld /\ [Next]_vars => LockHeld'
<1> SUFFICES ASSUME TypeOK, LockHeld, [Next]_vars PROVE LockHeld'
  OBVIOUS
<1> USE DEF LockHeld, Approving
<1>1. CASE UNCHANGED <<dec, lock>>
  BY <1>1
<1>2. ASSUME NEW d \in Decisions, LockStudent(d) PROVE LockHeld'
  <2>1. dec[d].op = "APPROVED" /\ \A e \in Decisions : ~Approving(e)
    BY <1>2, ConstantsAssumption DEF LockStudent, StudentRowFree
  <2>2. dec'[d].op = dec[d].op /\ dec'[d].pc = "hours"
    BY <1>2, DecisionTypes DEF LockStudent, TypeOK, Decs
  <2>3. \A e \in Decisions \ {d} : dec'[e] = dec[e]
    BY <1>2 DEF LockStudent, TypeOK
  <2> QED
    BY <1>2, <2>1, <2>2, <2>3 DEF LockStudent
<1>3. ASSUME NEW d \in Decisions, UNCHANGED lock,
             \A e \in Decisions \ {d} : dec'[e] = dec[e],
             dec'[d].pc \in {"hours", "decide", "after", "commit"} /\ dec'[d].op = "APPROVED"
               => Approving(d),
             dec'[d].pc \in {"lock", "hours", "after"} => dec'[d].op = "APPROVED"
      PROVE  LockHeld'
  BY <1>3
\* A decision that ends gives the lock back if it is its own.
<1>4. ASSUME NEW d \in Decisions, dec' = [dec EXCEPT ![d] = Idle], lock' = Released(d)
      PROVE  LockHeld'
  <2>1. dec'[d].pc = "idle" /\ \A e \in Decisions \ {d} : dec'[e] = dec[e]
    BY <1>4 DEF TypeOK, Idle
  <2> QED
    BY <1>4, <2>1 DEF Released
<1>5. ASSUME NEW d \in Decisions, ReadHours(d) PROVE LockHeld'
  <2>1. /\ dec'[d].op = dec[d].op
        /\ dec'[d].pc = "decide"
        /\ \A e \in Decisions \ {d} : dec'[e] = dec[e]
    BY <1>5, DecisionTypes DEF ReadHours, TypeOK, Decs
  <2> QED
    BY <1>3, <1>5, <2>1 DEF ReadHours
<1>6. ASSUME NEW d \in Decisions, DecidePunch(d) PROVE LockHeld'
  <2>1. CASE Decidable(d)
    <3>1. /\ dec'[d].op = dec[d].op
          /\ dec'[d].pc = IF dec[d].op = "APPROVED" THEN "after" ELSE "commit"
          /\ \A e \in Decisions \ {d} : dec'[e] = dec[e]
      BY <1>6, <2>1, DecisionTypes DEF DecidePunch, TypeOK, Decs
    <3> QED
      BY <1>3, <1>6, <2>1, <3>1 DEF DecidePunch
  <2>2. CASE ~Decidable(d)
    BY <1>4, <1>6, <2>2 DEF DecidePunch
  <2> QED
    BY <2>1, <2>2
<1>7. ASSUME NEW d \in Decisions, CheckCompletion(d) PROVE LockHeld'
  <2>1. /\ dec'[d].op = dec[d].op
        /\ dec'[d].pc = "commit"
        /\ \A e \in Decisions \ {d} : dec'[e] = dec[e]
    BY <1>7, DecisionTypes DEF CheckCompletion, TypeOK, Decs
  <2> QED
    BY <1>3, <1>7, <2>1 DEF CheckCompletion
<1>8. ASSUME NEW d \in Decisions, Commit(d) \/ DecisionLost(d) PROVE LockHeld'
  BY <1>4, <1>8 DEF Commit, DecisionLost
<1>9. ASSUME NEW d \in Decisions,
             \/ \E op \in Ops, day \in Days, k \in Kinds : BeginDecision(d, op, day, k)
             \/ \E to \in SupervisorStatuses : BeginStatus(d, to)
             \/ WriteStatus(d)
      PROVE  LockHeld'
  <2>1. \A e \in Decisions \ {d} : dec'[e] = dec[e]
    BY <1>9 DEF BeginDecision, BeginStatus, WriteStatus, TypeOK
  <2>2. \/ dec'[d].pc \in {"status", "idle"}
        \/ dec'[d].pc = "lock" /\ dec'[d].op = "APPROVED"
        \/ dec'[d].pc = "decide" /\ dec'[d].op # "APPROVED"
    BY <1>9 DEF BeginDecision, BeginStatus, WriteStatus, TypeOK, Idle
  <2> QED
    BY <1>3, <1>9, <2>1, <2>2 DEF BeginDecision, BeginStatus, WriteStatus
<1>10. ASSUME NEW r \in Requests,
              \/ \E k \in Tried : BeginPunch(r, k)
              \/ \E note \in Remarks : BeginRemark(r, note)
              \/ RequestStep(r) \/ RequestLost(r)
       PROVE  UNCHANGED <<dec, lock>>
  BY <1>10 DEF BeginPunch, BeginRemark, RequestStep, GetOrCreateDay, ReadPunches, StampPunch,
     WritePunch, WriteRemark, RequestLost
<1> QED
  BY <1>1, <1>2, <1>5, <1>6, <1>7, <1>8, <1>9, <1>10
  DEF Next, DecisionStep, Tick, EditStudent, vars

\* The rows that count stay as they are, whatever else becomes of the punches.
ApprovedKept ==
  \A day \in Days, k \in Kinds :
    punches[day][k].status = "APPROVED" \/ punches'[day][k].status = "APPROVED"
      => punches'[day][k] = punches[day][k]

LEMMA HoursKept ==
  ASSUME TypeOK, TypeOK', ApprovedKept
  PROVE  Hours' = Hours
BY HoursOfApproved DEF TypeOK, ApprovedKept, Hours

\* What a decision would count also stays, if its own row stays too.
Overwrite(p, x, y, v) == [p EXCEPT ![x][y] = v]

LEMMA OverwriteKept ==
  ASSUME NEW p \in [Days -> [Kinds -> Punches]], NEW q \in [Days -> [Kinds -> Punches]],
         NEW x \in Days, NEW y \in Kinds, NEW v \in Punches,
         \A d \in Days, k \in Kinds :
           p[d][k].status = "APPROVED" \/ q[d][k].status = "APPROVED" => p[d][k] = q[d][k]
  PROVE  TotalApproved(Overwrite(p, x, y, v)) = TotalApproved(Overwrite(q, x, y, v))
<1> DEFINE P == Overwrite(p, x, y, v)
           Q == Overwrite(q, x, y, v)
<1>1. P \in [Days -> [Kinds -> Punches]] /\ Q \in [Days -> [Kinds -> Punches]]
  BY DEF Overwrite
<1>2. \A d \in Days, k \in Kinds :
        /\ P[d][k] = IF d = x /\ k = y THEN v ELSE p[d][k]
        /\ Q[d][k] = IF d = x /\ k = y THEN v ELSE q[d][k]
  BY DEF Overwrite
<1> HIDE DEF P, Q
<1>3. \A d \in Days, k \in Kinds :
        P[d][k].status = "APPROVED" \/ Q[d][k].status = "APPROVED" => P[d][k] = Q[d][k]
  BY <1>2
<1>4. TotalApproved(P) = TotalApproved(Q)
  BY <1>1, <1>3, HoursOfApproved
<1> QED
  BY <1>4 DEF P, Q

LEMMA DecidedKept ==
  ASSUME TypeOK, TypeOK', ApprovedKept, NEW d \in Decisions, Holds(d), dec'[d] = dec[d],
         punches'[dec[d].day][dec[d].kind] = punches[dec[d].day][dec[d].kind]
  PROVE  TotalApproved(Decided(d))' = TotalApproved(Decided(d))
<1> DEFINE x == dec[d].day
           y == dec[d].kind
           v == [punches[x][y] EXCEPT !.status = dec[d].op, !.by = dec[d].est]
<1>1. /\ x \in Days /\ y \in Kinds
      /\ dec[d].op \in PunchStatuses /\ dec[d].est \in Establishments
  BY DecisionTypes DEF Holds, Decs, Ops, PunchStatuses
<1>2. punches[x][y] \in Punches
  BY <1>1 DEF TypeOK
<1>3. v \in Punches
  BY <1>1, <1>2 DEF Punches
<1>4. Decided(d) = Overwrite(punches, x, y, v)
  BY <1>1 DEF Decided, TypeOK, Overwrite
<1>5. Decided(d)' = Overwrite(punches', x, y, v)
  BY <1>1 DEF Decided, TypeOK, Overwrite
<1> HIDE DEF x, y, v
<1>6. TotalApproved(Overwrite(punches', x, y, v)) = TotalApproved(Overwrite(punches, x, y, v))
  <2>1. /\ punches \in [Days -> [Kinds -> Punches]]
        /\ punches' \in [Days -> [Kinds -> Punches]]
    BY DEF TypeOK
  <2>2. \A day \in Days, k \in Kinds :
          punches'[day][k].status = "APPROVED" \/ punches[day][k].status = "APPROVED"
            => punches'[day][k] = punches[day][k]
    BY DEF ApprovedKept
  <2>3. x \in Days /\ y \in Kinds
    BY <1>1
  <2> QED
    BY <1>3, <2>1, <2>2, <2>3, OverwriteKept
<1>7. TotalApproved(Decided(d))' = TotalApproved(Decided(d)')
  OBVIOUS
<1> QED
  BY <1>4, <1>5, <1>6, <1>7

\* A step of someone else that keeps the student row and the approved punches.
LEMMA ReadsKept ==
  ASSUME TypeOK, TypeOK', ApprovedKept, NEW d \in Decisions, ReadsStandOf(d),
         dec'[d] = dec[d], student' = student,
         Holds(d) => punches'[dec[d].day][dec[d].kind] = punches[dec[d].day][dec[d].kind]
  PROVE  ReadsStandOf(d)'
<1>1. Hours' = Hours
  BY HoursKept
<1>2. Holds(d) => TotalApproved(Decided(d))' = TotalApproved(Decided(d))
  BY DecidedKept
<1> QED
  BY <1>1, <1>2 DEF ReadsStandOf, Approving, Crossing, Holds

LEMMA WritePunchKeeps ==
  ASSUME TypeOK, RowsHeld, NEW r \in Requests, WritePunch(r)
  PROVE  /\ ApprovedKept
         /\ \A d \in Decisions :
              Holds(d) => punches'[dec[d].day][dec[d].kind] = punches[dec[d].day][dec[d].kind]
<1>1. ApprovedKept
  BY WritePunchEffect DEF ApprovedKept
<1>2. ASSUME NEW d \in Decisions, Holds(d)
      PROVE  punches'[dec[d].day][dec[d].kind] = punches[dec[d].day][dec[d].kind]
  <2>1. dec[d].day \in Days /\ dec[d].kind \in Kinds
    BY <1>2, DecisionTypes DEF Holds, Decs
  <2>2. punches[dec[d].day][dec[d].kind].status = "PENDING"
    BY <1>2 DEF RowsHeld
  <2> QED
    BY <2>1, <2>2, WritePunchEffect
<1> QED
  BY <1>1, <1>2

LEMMA DeclineKeeps ==
  ASSUME TypeOK, RowsHeld, NEW d \in Decisions, Commit(d), dec[d].op = "DECLINED"
  PROVE  /\ ApprovedKept
         /\ \A e \in Decisions \ {d} :
              Holds(e) => punches'[dec[e].day][dec[e].kind] = punches[dec[e].day][dec[e].kind]
<1>1. Holds(d)
  BY DEF Commit, Holds
<1>2. punches[dec[d].day][dec[d].kind].status = "PENDING"
  BY <1>1 DEF RowsHeld
<1>3. ApprovedKept
  BY <1>2, CommitEffect DEF ApprovedKept
<1>4. ASSUME NEW e \in Decisions \ {d}, Holds(e)
      PROVE  punches'[dec[e].day][dec[e].kind] = punches[dec[e].day][dec[e].kind]
  <2>1. dec[e].day \in Days /\ dec[e].kind \in Kinds
    BY <1>4, DecisionTypes DEF Holds, Decs
  <2>2. ~(dec[e].day = dec[d].day /\ dec[e].kind = dec[d].kind)
    BY <1>1, <1>4 DEF RowsHeld
  <2> QED
    BY <2>1, <2>2, CommitEffect
<1> QED
  BY <1>3, <1>4

\* Nobody approves while the student row is written by hand, so nothing that
\* an approval has read can be overwritten.
LEMMA NotApproving ==
  ASSUME NEW d \in Decisions, ReadsStandOf(d), ~Approving(d), dec'[d] = dec[d],
         dec[d].pc = "commit" => dec[d].op \in Ops
  PROVE  ReadsStandOf(d)'
BY DEF ReadsStandOf, Approving, Ops

LEMMA NextReadsStand ==
  ASSUME TypeOK, TypeOK', RowsHeld, LockHeld, ReadsStand, [Next]_vars
  PROVE  ReadsStand'
<1>0. \A d \in Decisions : dec[d].pc = "commit" => dec[d].op \in Ops
  BY DecisionTypes DEF Decs
\* Punches and the student row stay: so does what the other decisions read.
<1>1. ASSUME UNCHANGED <<punches, student>>, NEW d \in Decisions, dec'[d] = dec[d]
      PROVE  ReadsStandOf(d)'
  BY <1>1, ReadsKept DEF ReadsStand, ApprovedKept
<1>2. ASSUME UNCHANGED <<punches, student, dec>> PROVE ReadsStand'
  BY <1>1, <1>2 DEF ReadsStand
<1>3. ASSUME NEW r \in Requests, WritePunch(r) PROVE ReadsStand'
  <2>1. student' = student /\ dec' = dec
    BY <1>3 DEF WritePunch
  <2> QED
    BY <1>3, <2>1, WritePunchKeeps, ReadsKept DEF ReadsStand
<1>4. CASE EditStudent
  <2>1. dec' = dec /\ \A d \in Decisions : ~Approving(d)
    BY <1>4, ConstantsAssumption DEF EditStudent, StudentRowFree, LockHeld
  <2> QED
    BY <1>0, <2>1, NotApproving DEF ReadsStand
<1>5. ASSUME NEW d \in Decisions, WriteStatus(d) PROVE ReadsStand'
  <2>1. \A e \in Decisions : ~Approving(e)
    BY <1>5, ConstantsAssumption DEF WriteStatus, StudentRowFree, LockHeld
  <2>2. dec'[d] = Idle /\ \A e \in Decisions \ {d} : dec'[e] = dec[e]
    BY <1>5 DEF WriteStatus, TypeOK
  <2>3. \A e \in Decisions \ {d} : ReadsStandOf(e)'
    BY <1>0, <2>1, <2>2, NotApproving DEF ReadsStand
  <2>4. ReadsStandOf(d)'
    BY <2>2 DEF ReadsStandOf, Approving, Idle
  <2> QED
    BY <2>3, <2>4 DEF ReadsStand
\* The steps of a decision before its commit.
<1>6. ASSUME NEW d \in Decisions, UNCHANGED <<punches, student>>,
             \A e \in Decisions \ {d} : dec'[e] = dec[e], ReadsStandOf(d)'
      PROVE  ReadsStand'
  BY <1>1, <1>6 DEF ReadsStand
<1>7. ASSUME NEW d \in Decisions,
             \/ \E op \in Ops, day \in Days, k \in Kinds : BeginDecision(d, op, day, k)
             \/ \E to \in SupervisorStatuses : BeginStatus(d, to)
             \/ DecisionLost(d)
      PROVE  ReadsStand'
  <2>1. /\ \A e \in Decisions \ {d} : dec'[e] = dec[e]
        /\ UNCHANGED <<punches, student>>
    BY <1>7 DEF BeginDecision, BeginStatus, DecisionLost, TypeOK
  <2>2. \/ dec'[d].pc \in {"status", "idle"}
        \/ /\ dec'[d].pc \in {"lock", "decide"}
           /\ ~dec'[d].completes
           /\ dec'[d].pc = "decide" => dec'[d].op # "APPROVED"
    BY <1>7 DEF BeginDecision, BeginStatus, DecisionLost, TypeOK, Idle
  <2>3. ReadsStandOf(d)'
    BY <2>2 DEF ReadsStandOf, Approving
  <2> QED
    BY <1>6, <2>1, <2>3
<1>8. ASSUME NEW d \in Decisions, LockStudent(d) PROVE ReadsStand'
  <2>1. /\ dec'[d].pc = "hours"
        /\ dec'[d].completes = dec[d].completes
        /\ \A e \in Decisions \ {d} : dec'[e] = dec[e]
    BY <1>8, DecisionTypes DEF LockStudent, TypeOK, Decs
  <2>2. ReadsStandOf(d)'
    BY <1>8, <2>1 DEF LockStudent, ReadsStand, ReadsStandOf, Approving
  <2> QED
    BY <1>6, <1>8, <2>1, <2>2 DEF LockStudent
<1>9. ASSUME NEW d \in Decisions, ReadHours(d) PROVE ReadsStand'
  <2>1. /\ dec'[d].pc = "decide"
        /\ dec'[d].completes = dec[d].completes
        /\ dec'[d].required = student.required
        /\ dec'[d].below = Below(student.required, Hours)
        /\ \A e \in Decisions \ {d} : dec'[e] = dec[e]
    BY <1>9, DecisionTypes DEF ReadHours, TypeOK, Decs
  <2>2. UNCHANGED <<punches, student>> /\ dec[d].pc = "hours"
    BY <1>9 DEF ReadHours
  <2>3. Hours' = Hours
    BY <2>2 DEF Hours
  <2>4. ReadsStandOf(d)'
    BY <2>1, <2>2, <2>3 DEF ReadsStand, ReadsStandOf, Approving
  <2> QED
    BY <1>6, <2>1, <2>2, <2>4
<1>10. ASSUME NEW d \in Decisions, DecidePunch(d) PROVE ReadsStand'
  <2>1. UNCHANGED <<punches, student>> /\ dec[d].pc = "decide"
    BY <1>10 DEF DecidePunch
  <2>2. Hours' = Hours
    BY <2>1 DEF Hours
  <2>3. CASE Decidable(d)
    <3>1. /\ dec'[d].pc = IF dec[d].op = "APPROVED" THEN "after" ELSE "commit"
          /\ dec'[d].op = dec[d].op
          /\ dec'[d].completes = dec[d].completes
          /\ dec'[d].required = dec[d].required
          /\ dec'[d].below = dec[d].below
          /\ \A e \in Decisions \ {d} : dec'[e] = dec[e]
      BY <1>10, <2>3, DecisionTypes DEF DecidePunch, TypeOK, Decs
    <3>2. ReadsStandOf(d)'
      BY <2>1, <2>2, <3>1 DEF ReadsStand, ReadsStandOf, Approving
    <3> QED
      BY <1>6, <2>1, <3>1, <3>2
  <2>4. CASE ~Decidable(d)
    <3>1. dec'[d] = Idle /\ \A e \in Decisions \ {d} : dec'[e] = dec[e]
      BY <1>10, <2>4 DEF DecidePunch, TypeOK
    <3>2. ReadsStandOf(d)'
      BY <3>1 DEF ReadsStandOf, Approving, Idle
    <3> QED
      BY <1>6, <2>1, <3>1, <3>2
  <2> QED
    BY <2>3, <2>4
<1>11. ASSUME NEW d \in Decisions, CheckCompletion(d) PROVE ReadsStand'
  <2>1. UNCHANGED <<punches, student>> /\ dec[d].pc = "after"
    BY <1>11 DEF CheckCompletion
  <2>2. Hours' = Hours
    BY <2>1 DEF Hours
  <2>3. dec[d].op = "APPROVED"
    BY <2>1 DEF LockHeld
  <2>4. /\ dec'[d].pc = "commit"
        /\ dec'[d].op = dec[d].op
        /\ dec'[d].day = dec[d].day
        /\ dec'[d].kind = dec[d].kind
        /\ dec'[d].est = dec[d].est
        /\ dec'[d].required = dec[d].required
        /\ dec'[d].below = dec[d].below
        /\ \A e \in Decisions \ {d} : dec'[e] = dec[e]
    BY <1>11, DecisionTypes DEF CheckCompletion, TypeOK, Decs
  <2>5. dec'[d].completes = (/\ dec[d].below
                             /\ Reached(dec[d].required, TotalApproved(Decided(d)))
                             /\ student.status = "ACTIVE")
    BY <1>11, DecisionTypes DEF CheckCompletion, TypeOK, Decs
  <2>6. Decided(d)' = Decided(d)
    BY <2>1, <2>4 DEF Decided
  <2>7. TotalApproved(Decided(d))' = TotalApproved(Decided(d))
    BY <2>6 DEF TotalApproved
  <2>8. /\ dec[d].required = student.required
        /\ dec[d].below <=> Below(student.required, Hours)
    BY <2>1, <2>3 DEF ReadsStand, ReadsStandOf, Approving
  <2>9. ReadsStandOf(d)'
    BY <2>1, <2>2, <2>3, <2>4, <2>5, <2>7, <2>8 DEF ReadsStandOf, Approving, Crossing
  <2> QED
    BY <1>6, <2>1, <2>4, <2>9
<1>12. ASSUME NEW d \in Decisions, Commit(d) PROVE ReadsStand'
  <2>1. /\ dec'[d].pc = "idle"
        /\ \A e \in Decisions \ {d} : dec'[e] = dec[e]
    BY <1>12 DEF Commit, TypeOK, Idle
  <2>2. ReadsStandOf(d)'
    BY <2>1 DEF ReadsStandOf, Approving
  <2>3. dec[d].pc = "commit" /\ dec[d].op \in Ops
    BY <1>0, <1>12 DEF Commit
  <2>4. CASE dec[d].op = "DECLINED"
    <3>1. student' = student
      BY <1>12, <2>3, <2>4 DEF Commit, ReadsStand, ReadsStandOf
    <3>2. \A e \in Decisions \ {d} : ReadsStandOf(e)'
      BY <1>12, <2>1, <2>4, <3>1, DeclineKeeps, ReadsKept DEF ReadsStand
    <3> QED
      BY <2>2, <3>2 DEF ReadsStand
  <2>5. CASE dec[d].op = "APPROVED"
    <3>1. \A e \in Decisions \ {d} : ~Approving(e)
      BY <2>3, <2>5 DEF LockHeld, Approving
    <3>2. \A e \in Decisions \ {d} : ReadsStandOf(e)'
      BY <1>0, <2>1, <3>1, NotApproving DEF ReadsStand
    <3> QED
      BY <2>2, <3>2 DEF ReadsStand
  <2> QED
    BY <2>3, <2>4, <2>5 DEF Ops
<1>13. ASSUME NEW r \in Requests,
              \/ \E k \in Tried : BeginPunch(r, k)
              \/ \E note \in Remarks : BeginRemark(r, note)
              \/ GetOrCreateDay(r) \/ ReadPunches(r) \/ StampPunch(r) \/ WriteRemark(r)
              \/ RequestLost(r)
       PROVE  UNCHANGED <<punches, student, dec>>
  BY <1>13 DEF BeginPunch, BeginRemark, GetOrCreateDay, ReadPunches, StampPunch,
     WriteRemark, RequestLost
<1>14. Tick \/ UNCHANGED vars => UNCHANGED <<punches, student, dec>>
  BY DEF Tick, vars
<1> QED
  BY <1>2, <1>3, <1>4, <1>5, <1>7, <1>8, <1>9, <1>10, <1>11, <1>12, <1>13, <1>14
  DEF Next, RequestStep, DecisionStep

\* The consequent of AutoCompletion.
CompletesOnTime ==
  student'.status =
    IF /\ student.status = "ACTIVE"
       /\ 0 < student.required
       /\ Hours < student.required
       /\ ~(Hours' < student.required)
    THEN "COMPLETED" ELSE student.status

LEMMA StepCompletes ==
  ASSUME TypeOK, TypeOK', RowsHeld, LockHeld, ReadsStand, [Next]_vars, punches' # punches
  PROVE  CompletesOnTime
\* Where the hours stay nothing is crossed.
<1>1. ASSUME Hours' = Hours, student' = student PROVE CompletesOnTime
  BY <1>1 DEF CompletesOnTime
<1>2. ASSUME NEW r \in Requests, WritePunch(r) PROVE CompletesOnTime
  BY <1>1, <1>2, WritePunchKeeps, HoursKept DEF WritePunch
<1>3. ASSUME NEW d \in Decisions, Commit(d) PROVE CompletesOnTime
  <2>1. dec[d].pc = "commit" /\ dec[d].op \in Ops
    BY <1>3, DecisionTypes DEF Commit, Decs
  <2>2. CASE dec[d].op = "DECLINED"
    <3>1. student' = student
      BY <1>3, <2>1, <2>2 DEF Commit, ReadsStand, ReadsStandOf
    <3> QED
      BY <1>1, <1>3, <2>2, <3>1, DeclineKeeps, HoursKept
  <2>3. CASE dec[d].op = "APPROVED"
    <3>1. Hours' = TotalApproved(Decided(d))
      BY <1>3 DEF Commit, Hours
    <3>2. dec[d].completes <=> Crossing(d)
      BY <2>1, <2>3 DEF ReadsStand, ReadsStandOf
    <3>3. student'.status = IF dec[d].completes THEN "COMPLETED" ELSE student.status
      BY <1>3 DEF Commit, TypeOK, Students
    <3>4. student.required \in Nat
      BY DEF TypeOK, Students
    <3>5. Crossing(d) <=> /\ student.status = "ACTIVE"
                          /\ 0 < student.required
                          /\ Hours < student.required
                          /\ ~(Hours' < student.required)
      BY <3>1, <3>4 DEF Crossing, Below, Reached
    <3> QED
      BY <3>2, <3>3, <3>5 DEF CompletesOnTime
  <2> QED
    BY <2>1, <2>2, <2>3 DEF Ops
<1>4. \/ \E r \in Requests : WritePunch(r)
      \/ \E d \in Decisions : Commit(d)
      \/ punches' = punches
  BY DEF Next, vars, RequestStep, DecisionStep, Tick, EditStudent, BeginPunch, BeginRemark,
     GetOrCreateDay, ReadPunches, StampPunch, WriteRemark, RequestLost, BeginDecision,
     BeginStatus, LockStudent, ReadHours, DecidePunch, CheckCompletion, WriteStatus, DecisionLost
<1> QED
  BY <1>2, <1>3, <1>4

\* A step that changes punches completes the student exactly when it takes the
\* approved hours of an ACTIVE student over the requirement, whatever else is
\* in flight: no two approvals hide each other's half of a session.
THEOREM AutoCompletionHolds == Spec => AutoCompletion
<1> DEFINE IInv == TypeOK /\ RowsHeld /\ LockHeld /\ ReadsStand
<1>1. Init => IInv
  BY InitTypeOK, InitRowsHeld, InitReads
<1>2. IInv /\ [Next]_vars => IInv'
  BY NextTypeOK, NextRowsHeld, NextLockHeld, NextReadsStand
<1>3. IInv /\ IInv' /\ [Next]_vars => (punches' # punches => CompletesOnTime)
  BY StepCompletes
<1>4. IInv /\ IInv' /\ [Next]_vars =>
        [punches' # punches =>
          student'.status =
            IF /\ student.status = "ACTIVE"
               /\ 0 < student.required
               /\ Hours < student.required
               /\ ~(Hours' < student.required)
            THEN "COMPLETED" ELSE student.status]_vars
  BY <1>3 DEF CompletesOnTime
<1> QED
  BY <1>1, <1>2, <1>4, PTL DEF Spec, AutoCompletion

-----------------------------------------------------------------------------
\* What the pages say.

\* Days and the bounds of months are integers.
LEMMA DaysAreInts ==
  /\ Days \subseteq Int
  /\ \A m \in Months : m \in Nat /\ FirstDay(m) \in Int /\ LastDay(m) \in Int
<1> USE ConstantsAssumption, MonthAssumption
<1>1. ASSUME NEW t \in Times PROVE DayOf(t) \in Int
  BY DEF DayOf, Times
<1>2. \A m \in Months : m \in Nat
  BY DEF Months
<1>3. ASSUME NEW m \in Nat PROVE FirstDay(m) \in Int /\ LastDay(m) \in Int
  BY DEF FirstDay, LastDay
<1> QED
  BY <1>1, <1>2, <1>3 DEF Days

\* The window of a month, or of all time, is an interval of integers.
LEMMA WindowBounds ==
  ASSUME TypeOK, NEW month \in Months \cup {AllTime}
  PROVE  WindowStart(month) \in Int /\ WindowEnd(month) \in Int
<1>1. student.start \in Int
  BY DEF TypeOK, Students
<1>2. Today \in Int
  BY ConstantsAssumption DEF Today, DayOf, TypeOK, Times
<1>3. CASE month = AllTime
  BY <1>1, <1>2, <1>3 DEF WindowStart, WindowEnd
<1>4. CASE month \in Months
  BY <1>1, <1>2, <1>4, DaysAreInts DEF WindowStart, WindowEnd
<1> QED
  BY <1>3, <1>4

\* The days of presence lie in the window, and the window has TotalDays days.
LEMMA PresenceFits == TypeOK => PercentageFits
<1> SUFFICES ASSUME TypeOK, NEW month \in Months \cup {AllTime}
             PROVE  Cardinality(PresentDays(month)) <= TotalDays(month)
  BY DEF PercentageFits
<1> DEFINE first == WindowStart(month)
           last  == WindowEnd(month)
<1>1. first \in Int /\ last \in Int
  BY WindowBounds
<1>2. PresentDays(month) \in SUBSET (first .. last)
  <2>1. ASSUME NEW d \in PresentDays(month) PROVE d \in Days /\ first <= d /\ d <= last
    BY <2>1 DEF PresentDays
  <2> HIDE DEF first, last
  <2>2. ASSUME NEW d \in PresentDays(month) PROVE d \in first .. last
    <3>1. d \in Int
      BY <2>1, DaysAreInts
    <3>2. first <= d /\ d <= last
      BY <2>1
    <3> QED
      BY <1>1, <3>1, <3>2
  <2> QED
    BY <2>2
<1>3. TotalDays(month) = IF first > last THEN 0 ELSE last - first + 1
  BY <1>1 DEF TotalDays
<1> HIDE DEF first, last
<1>4. IsFiniteSet(first .. last) /\ Cardinality(first .. last) = TotalDays(month)
  BY <1>1, <1>3, FS_Interval
<1> QED
  BY <1>2, <1>4, FS_Subset

\* Nobody is present on more days than his window has, wherever the start date
\* is moved and whatever day a punch is counted on (getAttendanceOversight).
THEOREM PercentagesFit == Spec => []PercentageFits
<1>1. Spec => []TypeOK
  BY TypeCorrect
<1> QED
  BY <1>1, PresenceFits, PTL

-----------------------------------------------------------------------------
\* Sums over finite sets.

\* A set of numbers with 0 and every successor has them all.
LEMMA AllNumbers ==
  ASSUME NEW N \in SUBSET Nat, 0 \in N, \A n \in N : n + 1 \in N
  PROVE  N = Nat
<1>1. SUFFICES ASSUME Nat \ N # {} PROVE FALSE
  OBVIOUS
<1>2. PICK n \in Nat \ N : \A m \in Nat \ N : <<m, n>> \notin OpToRel(<, Nat)
  <2>1. Nat \ N \subseteq Nat
    OBVIOUS
  <2> QED
    BY <1>1, <2>1, NatLessThanWellFounded, WFMin
<1>3. n - 1 \in Nat /\ n - 1 < n /\ (n - 1) + 1 = n
  OBVIOUS
<1>4. n - 1 \notin N
  BY <1>3
<1> QED
  BY <1>2, <1>3, <1>4 DEF OpToRel

\* A family of subsets of a finite set has them all, if it has each set from which
\* every removal leads into the family.
LEMMA AllSubsets ==
  ASSUME NEW S, IsFiniteSet(S), NEW F \in SUBSET SUBSET S,
         \A T \in SUBSET S : (\A x \in T : T \ {x} \in F) => T \in F
  PROVE  F = SUBSET S
<1> DEFINE N == {n \in Nat : \A T \in SUBSET S : Cardinality(T) = n => T \in F}
<1>1. \A T \in SUBSET S : IsFiniteSet(T) /\ Cardinality(T) \in Nat
  BY FS_Subset, FS_CardinalityType
<1>2. 0 \in N
  <2>1. ASSUME NEW T \in SUBSET S, Cardinality(T) = 0 PROVE T \in F
    BY <1>1, <2>1, FS_EmptySet
  <2> QED
    BY <2>1
<1>3. ASSUME NEW n \in N PROVE n + 1 \in N
  <2>1. ASSUME NEW T \in SUBSET S, Cardinality(T) = n + 1 PROVE T \in F
    <3>1. ASSUME NEW x \in T PROVE T \ {x} \in F
      <4>1. Cardinality(T \ {x}) = n /\ T \ {x} \in SUBSET S
        BY <1>1, <2>1, FS_RemoveElement
      <4> QED
        BY <4>1
    <3> QED
      BY <3>1
  <2> QED
    BY <2>1
<1>4. N = Nat
  <2> HIDE DEF N
  <2>1. N \in SUBSET Nat
    BY DEF N
  <2> QED
    BY <1>2, <1>3, <2>1, AllNumbers
<1> QED
  BY <1>1, <1>4

\* What a sum adds up, in the order of its choices.
Some(s) == CHOOSE x \in s : TRUE

Adder(f) ==
  CHOOSE g : g = [s \in SUBSET DOMAIN f |->
                    IF s = {} THEN 0 ELSE f[Some(s)] + g[s \ {Some(s)}]]

IntegersOn(f, S) == IsFiniteSet(S) /\ f \in [S -> Int]

LEMMA SumIsAdder ==
  ASSUME NEW f PROVE SumFunction(f) = Adder(f)[DOMAIN f]
BY DEF SumFunction, SumFunctionOnSet, FoldFunctionOnSet, MapThenFoldSet, Adder, Some

LEMMA AdderAdds ==
  ASSUME NEW S, NEW f, IntegersOn(f, S)
  PROVE  /\ \A s \in SUBSET S : Adder(f)[s] \in Int
         /\ Adder(f)[{}] = 0
         /\ \A s \in SUBSET S : s # {} =>
              /\ Some(s) \in s
              /\ Adder(f)[s] = f[Some(s)] + Adder(f)[s \ {Some(s)}]
<1> DEFINE D(n) == {s \in SUBSET S : Cardinality(s) <= n}
           rhs(g, s) == IF s = {} THEN 0 ELSE f[Some(s)] + g[s \ {Some(s)}]
           Sums(n) == {g \in [D(n) -> Int] : \A s \in D(n) : g[s] = rhs(g, s)}
<1>1. DOMAIN f = S /\ (\A x \in S : f[x] \in Int) /\ IsFiniteSet(S)
  BY DEF IntegersOn
<1>2. \A s \in SUBSET S : IsFiniteSet(s) /\ Cardinality(s) \in Nat
  BY <1>1, FS_Subset, FS_CardinalityType
<1>3. \A s \in SUBSET S : s # {} => Some(s) \in s
  BY DEF Some
<1>4. ASSUME NEW n \in Nat, NEW s \in D(n + 1), s # {}
      PROVE  s \ {Some(s)} \in D(n)
  <2>1. Cardinality(s \ {Some(s)}) = Cardinality(s) - 1
    BY <1>2, <1>3, <1>4, FS_RemoveElement
  <2> QED
    BY <1>2, <1>4, <2>1
<1>5. Sums(0) # {}
  <2>1. D(0) = {{}}
    <3>1. ASSUME NEW s \in SUBSET S, Cardinality(s) <= 0 PROVE s = {}
      BY <1>2, <3>1, FS_EmptySet
    <3>2. Cardinality({}) = 0
      BY FS_EmptySet
    <3> QED
      BY <3>1, <3>2
  <2>2. [s \in D(0) |-> 0] \in Sums(0)
    BY <2>1
  <2> QED
    BY <2>2
<1>6. ASSUME NEW n \in Nat, Sums(n) # {} PROVE Sums(n + 1) # {}
  <2>1. PICK g : g \in [D(n) -> Int] /\ \A s \in D(n) : g[s] = rhs(g, s)
    BY <1>6
  <2> DEFINE h == [s \in D(n + 1) |-> rhs(g, s)]
  <2>2. \A s \in D(n) : h[s] = g[s] /\ s \in D(n + 1)
    BY <1>2, <1>6, <2>1
  <2>3. ASSUME NEW s \in D(n + 1)
        PROVE  h[s] \in Int /\ h[s] = rhs(h, s)
    <3>1. CASE s = {}
      BY <3>1
    <3>2. CASE s # {}
      <4>1. s \ {Some(s)} \in D(n) /\ f[Some(s)] \in Int
        BY <1>1, <1>3, <1>4, <1>6, <3>2
      <4>2. h[s] = f[Some(s)] + g[s \ {Some(s)}]
        BY <3>2
      <4>3. h[s \ {Some(s)}] = g[s \ {Some(s)}] /\ g[s \ {Some(s)}] \in Int
        BY <2>1, <2>2, <4>1
      <4> HIDE DEF h, D
      <4> QED
        BY <3>2, <4>1, <4>2, <4>3
    <3> QED
      BY <3>1, <3>2
  <2>4. h \in Sums(n + 1)
    <3>1. h = [s \in D(n + 1) |-> h[s]]
      OBVIOUS
    <3> HIDE DEF h, D
    <3> QED
      BY <2>3, <3>1
  <2> QED
    BY <2>4
<1>7. \A n \in Nat : Sums(n) # {}
  <2> HIDE DEF Sums
  <2> DEFINE N == {n \in Nat : Sums(n) # {}}
  <2>1. N \in SUBSET Nat /\ 0 \in N /\ \A n \in N : n + 1 \in N
    BY <1>5, <1>6
  <2>2. N = Nat
    <3> HIDE DEF N
    <3> QED
      BY <2>1, AllNumbers
  <2> QED
    BY <2>2
<1>8. D(Cardinality(S)) = SUBSET S
  BY <1>1, <1>2, FS_Subset
<1>9. PICK g : g \in [SUBSET S -> Int] /\ \A s \in SUBSET S : g[s] = rhs(g, s)
  <2>1. Sums(Cardinality(S)) # {}
    BY <1>2, <1>7
  <2> HIDE DEF D
  <2>2. PICK g : g \in [D(Cardinality(S)) -> Int]
                 /\ \A s \in D(Cardinality(S)) : g[s] = rhs(g, s)
    BY <2>1
  <2> QED
    BY <1>8, <2>2
<1>10. \E h : h = [s \in SUBSET S |-> rhs(h, s)]
  BY <1>9
<1>11. Adder(f) = [s \in SUBSET S |-> rhs(Adder(f), s)]
  BY <1>1, <1>10 DEF Adder
<1>12. \A s \in SUBSET S : Adder(f)[s] = rhs(Adder(f), s)
  BY <1>11
<1> DEFINE F == {s \in SUBSET S : Adder(f)[s] \in Int}
<1>13. ASSUME NEW s \in SUBSET S, \A x \in s : s \ {x} \in F PROVE s \in F
  <2>1. CASE s = {}
    <3>1. Adder(f)[s] = 0
      BY <1>12, <2>1
    <3> QED
      BY <3>1
  <2>2. CASE s # {}
    <3>1. Adder(f)[s] = f[Some(s)] + Adder(f)[s \ {Some(s)}]
      BY <1>12, <2>2
    <3>2. f[Some(s)] \in Int /\ Adder(f)[s \ {Some(s)}] \in Int
      BY <1>1, <1>3, <1>13, <2>2
    <3>3. Adder(f)[s] \in Int
      BY <3>1, <3>2
    <3> QED
      BY <3>3
  <2> QED
    BY <2>1, <2>2
<1>14. F = SUBSET S
  <2> HIDE DEF F
  <2>1. F \in SUBSET SUBSET S
    BY DEF F
  <2> QED
    BY <1>1, <1>13, <2>1, AllSubsets
<1>15. \A s \in SUBSET S : Adder(f)[s] \in Int
  BY <1>14
<1> QED
  BY <1>3, <1>12, <1>15
\* The sum of integers is an integer; none add up to 0; and any one of them can be
\* taken first.
LEMMA AdderRemoves ==
  ASSUME NEW S, NEW f, IntegersOn(f, S), NEW T \in SUBSET S, NEW x \in T
  PROVE  Adder(f)[T] = f[x] + Adder(f)[T \ {x}]
<1> DEFINE A == Adder(f)
           Free(s) == \A y \in s : A[s] = f[y] + A[s \ {y}]
           F == {s \in SUBSET S : Free(s)}
<1>1. IsFiniteSet(S) /\ \A y \in S : f[y] \in Int
  BY DEF IntegersOn
<1>2. /\ \A s \in SUBSET S : A[s] \in Int
      /\ \A s \in SUBSET S : s # {} =>
           Some(s) \in s /\ A[s] = f[Some(s)] + A[s \ {Some(s)}]
  BY AdderAdds
<1> HIDE DEF A
<1>3. ASSUME NEW s \in SUBSET S, \A y \in s : Free(s \ {y}), NEW y \in s
      PROVE  A[s] = f[y] + A[s \ {y}]
  <2> DEFINE z == Some(s)
  <2>1. z \in s /\ A[s] = f[z] + A[s \ {z}]
    BY <1>2, <1>3
  <2> HIDE DEF z
  <2>2. CASE z = y
    BY <2>1, <2>2
  <2>3. CASE z # y
    <3>1. A[s \ {z}] = f[y] + A[(s \ {z}) \ {y}]
      BY <1>3, <2>1, <2>3
    <3>2. A[s \ {y}] = f[z] + A[(s \ {y}) \ {z}]
      BY <1>3, <2>1, <2>3
    <3>3. (s \ {z}) \ {y} = (s \ {y}) \ {z}
      OBVIOUS
    <3>4. f[y] \in Int /\ f[z] \in Int /\ A[(s \ {z}) \ {y}] \in Int
      BY <1>1, <1>2, <1>3, <2>1
    <3>5. A[s \ {y}] = f[z] + A[(s \ {z}) \ {y}]
      BY <3>2, <3>3
    <3> QED
      BY <2>1, <3>1, <3>4, <3>5
  <2> QED
    BY <2>2, <2>3
<1>4. F = SUBSET S
  <2>1. ASSUME NEW s \in SUBSET S, \A y \in s : s \ {y} \in F PROVE s \in F
    BY <1>3, <2>1
  <2> HIDE DEF F
  <2>2. F \in SUBSET SUBSET S
    BY DEF F
  <2> QED
    BY <1>1, <2>1, <2>2, AllSubsets
<1> QED
  BY <1>4 DEF A

\* The sum over a part of the domain is the sum of the restriction.
Total(f, T) == SumFunction([x \in T |-> f[x]])

LEMMA TotalIsAdder ==
  ASSUME NEW S, NEW f, IntegersOn(f, S), NEW T \in SUBSET S
  PROVE  Total(f, T) = Adder(f)[T]
<1> DEFINE r == [x \in T |-> f[x]]
           F == {s \in SUBSET T : Adder(r)[s] = Adder(f)[s]}
<1>1. IsFiniteSet(T) /\ IntegersOn(r, T) /\ DOMAIN r = T /\ \A x \in T : r[x] = f[x]
  BY FS_Subset DEF IntegersOn
<1> HIDE DEF r
<1>2. ASSUME NEW s \in SUBSET T, \A x \in s : s \ {x} \in F
      PROVE  s \in F
  <2>1. CASE s = {}
    BY <1>1, <2>1, AdderAdds
  <2>2. CASE s # {}
    <3>1. PICK x \in s : TRUE
      BY <2>2
    <3>2. Adder(r)[s] = r[x] + Adder(r)[s \ {x}]
      BY <1>1, <3>1, AdderRemoves
    <3>3. Adder(f)[s] = f[x] + Adder(f)[s \ {x}]
      BY <1>1, <3>1, AdderRemoves
    <3> QED
      BY <1>1, <1>2, <3>1, <3>2, <3>3
  <2> QED
    BY <2>1, <2>2
<1>3. F = SUBSET T
  <2> HIDE DEF F
  <2>1. F \in SUBSET SUBSET T
    BY DEF F
  <2> QED
    BY <1>1, <1>2, <2>1, AllSubsets
<1>4. Total(f, T) = Adder(r)[T]
  BY <1>1, SumIsAdder DEF Total, r
<1> QED
  BY <1>3, <1>4

LEMMA TotalAdds ==
  ASSUME NEW S, NEW f, IntegersOn(f, S)
  PROVE  /\ Total(f, {}) = 0
         /\ \A T \in SUBSET S : Total(f, T) \in Int
         /\ \A T \in SUBSET S : \A x \in T : Total(f, T) = f[x] + Total(f, T \ {x})
         /\ SumFunction(f) = Total(f, S)
<1>1. \A T \in SUBSET S : Total(f, T) = Adder(f)[T]
  BY TotalIsAdder
<1>2. Adder(f)[{}] = 0 /\ \A T \in SUBSET S : Adder(f)[T] \in Int
  BY AdderAdds
<1>3. ASSUME NEW T \in SUBSET S, NEW x \in T
      PROVE  Adder(f)[T] = f[x] + Adder(f)[T \ {x}]
  BY AdderRemoves
<1>4. SumFunction(f) = Adder(f)[S]
  BY SumIsAdder DEF IntegersOn
<1>5. \A T \in SUBSET S : \A x \in T : T \ {x} \in SUBSET S
  OBVIOUS
<1> QED
  BY <1>1, <1>2, <1>3, <1>4, <1>5

\* Sums are added term by term, and compared term by term.
LEMMA TotalOfSums ==
  ASSUME NEW S, NEW f, NEW g, NEW h, IntegersOn(f, S), IntegersOn(g, S), IntegersOn(h, S),
         \A x \in S : h[x] = f[x] + g[x]
  PROVE  Total(h, S) = Total(f, S) + Total(g, S)
<1> DEFINE F == {T \in SUBSET S : Total(h, T) = Total(f, T) + Total(g, T)}
<1>1. ASSUME NEW T \in SUBSET S, \A x \in T : T \ {x} \in F
      PROVE  T \in F
  <2>1. CASE T = {}
    BY <2>1, TotalAdds
  <2>2. CASE T # {}
    <3>1. PICK x \in T : TRUE
      BY <2>2
    <3>2. /\ Total(f, T) = f[x] + Total(f, T \ {x}) /\ Total(g, T) = g[x] + Total(g, T \ {x})
          /\ Total(h, T) = h[x] + Total(h, T \ {x})
      BY <3>1, TotalAdds
    <3>3. /\ f[x] \in Int /\ g[x] \in Int
          /\ Total(f, T \ {x}) \in Int /\ Total(g, T \ {x}) \in Int
      BY <3>1, TotalAdds DEF IntegersOn
    <3>4. Total(h, T \ {x}) = Total(f, T \ {x}) + Total(g, T \ {x}) /\ h[x] = f[x] + g[x]
      BY <1>1, <3>1
    <3>5. Total(h, T) = Total(f, T) + Total(g, T)
      BY <3>2, <3>3, <3>4
    <3> QED
      BY <3>5
  <2> QED
    BY <2>1, <2>2
<1>2. F = SUBSET S
  <2> HIDE DEF F
  <2>1. F \in SUBSET SUBSET S
    BY DEF F
  <2> QED
    BY <1>1, <2>1, AllSubsets DEF IntegersOn
<1> QED
  BY <1>2

-----------------------------------------------------------------------------
\* The hours of a day.

LEMMA DaysAreFinite == IsFiniteSet(Days)
<1>1. IsFiniteSet(Times)
  BY ConstantsAssumption, FS_Interval DEF Times
<1>2. [t \in Times |-> DayOf(t)] \in Surjection(Times, Days)
  BY DEF Days, Surjection
<1> QED
  BY <1>1, <1>2, FS_Surjection

\* A day has two sessions.
LEMMA TwoSessions ==
  ASSUME NEW f, f \in [Sessions -> Int]
  PROVE  SumFunction(f) = f["AM"] + f["PM"]
<1>1. IsFiniteSet(Sessions)
  <2>1. IsFiniteSet({"AM"}) /\ IsFiniteSet({"PM"})
    BY FS_Singleton
  <2>2. Sessions = {"AM"} \cup {"PM"}
    BY DEF Sessions
  <2> QED
    BY <2>1, <2>2, FS_Union
<1>2. IntegersOn(f, Sessions)
  BY <1>1 DEF IntegersOn
<1>3. {"PM"} \in SUBSET Sessions /\ Sessions \in SUBSET Sessions
      /\ "AM" \in Sessions /\ "PM" \in {"PM"}
      /\ Sessions \ {"AM"} = {"PM"} /\ {"PM"} \ {"PM"} = {}
  BY DEF Sessions
<1>4. Total(f, Sessions) = f["AM"] + Total(f, {"PM"})
  BY <1>2, <1>3, TotalAdds
<1>5. Total(f, {"PM"}) = f["PM"] + Total(f, {})
  <2>1. ASSUME NEW T \in SUBSET Sessions, NEW x \in T
        PROVE  Total(f, T) = f[x] + Total(f, T \ {x})
    BY <1>2, TotalAdds
  <2>2. Total(f, {"PM"}) = f["PM"] + Total(f, {"PM"} \ {"PM"})
    BY <1>3, <2>1, Zenon
  <2> QED
    BY <1>3, <2>2, Zenon
<1>6. Total(f, {}) = 0 /\ SumFunction(f) = Total(f, Sessions)
  BY <1>2, TotalAdds
<1>7. f["AM"] \in Int /\ f["PM"] \in Int
  BY <1>3
<1> QED
  BY <1>4, <1>5, <1>6, <1>7

\* What a session is worth is a natural number.
LEMMA TicksAreNat ==
  ASSUME NEW day, day \in [Kinds -> Punches]
  PROVE  \A s \in Sessions : SessionTicks(day, s) \in Nat
<1> SUFFICES ASSUME NEW s \in Sessions PROVE SessionTicks(day, s) \in Nat
  OBVIOUS
<1>1. InKind[s] \in Kinds /\ OutKind[s] \in Kinds
  BY DEF Sessions, InKind, OutKind, Kinds
<1>2. day[InKind[s]].time \in Int /\ day[OutKind[s]].time \in Int
  BY <1>1, ConstantsAssumption DEF Punches, Times
<1> QED
  BY <1>2 DEF SessionTicks, Span

\* The hours of a day are those of its two sessions.
LEMMA TicksOfDay ==
  ASSUME NEW day, day \in [Kinds -> Punches]
  PROVE  /\ ApprovedTicks(day) =
              (IF ApprovedPair(day, "AM") THEN SessionTicks(day, "AM") ELSE 0)
                + (IF ApprovedPair(day, "PM") THEN SessionTicks(day, "PM") ELSE 0)
         /\ PendingTicks(day) =
              (IF PendingPair(day, "AM") THEN SessionTicks(day, "AM") ELSE 0)
                + (IF PendingPair(day, "PM") THEN SessionTicks(day, "PM") ELSE 0)
         /\ ApprovedTicks(day) \in Nat /\ PendingTicks(day) \in Nat
<1> DEFINE a == [s \in Sessions |-> IF ApprovedPair(day, s) THEN SessionTicks(day, s) ELSE 0]
           p == [s \in Sessions |-> IF PendingPair(day, s) THEN SessionTicks(day, s) ELSE 0]
<1>1. a \in [Sessions -> Int] /\ p \in [Sessions -> Int]
  BY TicksAreNat
<1>2. SumFunction(a) = a["AM"] + a["PM"] /\ SumFunction(p) = p["AM"] + p["PM"]
  <2> HIDE DEF a, p
  <2> QED
    BY <1>1, TwoSessions
<1>3. "AM" \in Sessions /\ "PM" \in Sessions
  BY DEF Sessions
<1>4. SessionTicks(day, "AM") \in Nat /\ SessionTicks(day, "PM") \in Nat
  BY <1>3, TicksAreNat
<1> QED
  BY <1>2, <1>3, <1>4 DEF ApprovedTicks, PendingTicks

LEMMA DayFits == TypeOK /\ SequentialSessions => HoursFitTheDay
<1> SUFFICES ASSUME TypeOK, SequentialSessions, NEW d \in Days,
                    ApprovedTicks(punches[d]) > 0
             PROVE  \E j, k \in Kinds :
                      /\ punches[d][j].status = "APPROVED"
                      /\ punches[d][k].status = "APPROVED"
                      /\ ApprovedTicks(punches[d]) <= punches[d][k].time - punches[d][j].time
  BY DEF HoursFitTheDay
<1> DEFINE day == punches[d]
           at(k) == day[k].time
<1>1. day \in [Kinds -> Punches]
  BY DEF TypeOK
<1>2. {"TIME_IN_AM", "TIME_OUT_AM", "TIME_IN_PM", "TIME_OUT_PM"} \subseteq Kinds
  BY DEF Kinds
<1>3. \A k \in Kinds : at(k) \in Int
  BY <1>1, ConstantsAssumption DEF Punches, Times
<1>4. \A j, k \in Kinds : /\ Precedes(j, k)
                          /\ day[j].status = "APPROVED" /\ day[k].status = "APPROVED"
                          => at(j) <= at(k)
  BY DEF SequentialSessions, Stands
<1>5. /\ ApprovedPair(day, "AM") <=> /\ day["TIME_IN_AM"].status = "APPROVED"
                                     /\ day["TIME_OUT_AM"].status = "APPROVED"
      /\ ApprovedPair(day, "PM") <=> /\ day["TIME_IN_PM"].status = "APPROVED"
                                     /\ day["TIME_OUT_PM"].status = "APPROVED"
      /\ SessionTicks(day, "AM") = Span(at("TIME_IN_AM"), at("TIME_OUT_AM"))
      /\ SessionTicks(day, "PM") = Span(at("TIME_IN_PM"), at("TIME_OUT_PM"))
  BY DEF ApprovedPair, SessionTicks, InKind, OutKind
<1>6. ApprovedTicks(day) =
        (IF ApprovedPair(day, "AM") THEN SessionTicks(day, "AM") ELSE 0)
          + (IF ApprovedPair(day, "PM") THEN SessionTicks(day, "PM") ELSE 0)
  BY <1>1, TicksOfDay
<1>7. ApprovedTicks(day) > 0
  OBVIOUS
<1> HIDE DEF day
\* Both sessions count: the day runs from the morning's In to the afternoon's Out.
<1>8. CASE ApprovedPair(day, "AM") /\ ApprovedPair(day, "PM")
  <2>1. /\ at("TIME_IN_AM") <= at("TIME_OUT_AM") /\ at("TIME_OUT_AM") <= at("TIME_IN_PM")
        /\ at("TIME_IN_PM") <= at("TIME_OUT_PM")
    BY <1>2, <1>4, <1>5, <1>8 DEF Precedes
  <2> HIDE DEF at
  <2>2. /\ SessionTicks(day, "AM") = at("TIME_OUT_AM") - at("TIME_IN_AM")
        /\ SessionTicks(day, "PM") = at("TIME_OUT_PM") - at("TIME_IN_PM")
    BY <1>5, <2>1 DEF Span
  <2>3. ApprovedTicks(day) <= at("TIME_OUT_PM") - at("TIME_IN_AM")
    BY <1>2, <1>3, <1>6, <1>8, <2>1, <2>2
  <2> QED
    BY <1>2, <1>5, <1>8, <2>3 DEF at, day
<1>9. CASE ApprovedPair(day, "AM") /\ ~ApprovedPair(day, "PM")
  <2>1. at("TIME_IN_AM") <= at("TIME_OUT_AM")
    BY <1>2, <1>4, <1>5, <1>9 DEF Precedes
  <2> HIDE DEF at
  <2>2. ApprovedTicks(day) <= at("TIME_OUT_AM") - at("TIME_IN_AM")
    BY <1>2, <1>3, <1>5, <1>6, <1>9, <2>1 DEF Span
  <2> QED
    BY <1>2, <1>5, <1>9, <2>2 DEF at, day
<1>10. CASE ~ApprovedPair(day, "AM") /\ ApprovedPair(day, "PM")
  <2>1. at("TIME_IN_PM") <= at("TIME_OUT_PM")
    BY <1>2, <1>4, <1>5, <1>10 DEF Precedes
  <2> HIDE DEF at
  <2>2. ApprovedTicks(day) <= at("TIME_OUT_PM") - at("TIME_IN_PM")
    BY <1>2, <1>3, <1>5, <1>6, <1>10, <2>1 DEF Span
  <2> QED
    BY <1>2, <1>5, <1>10, <2>2 DEF at, day
<1> QED
  BY <1>6, <1>7, <1>8, <1>9, <1>10

\* While the client keeps one punch in flight, the approved hours of a day are no
\* more than the time between two of its approved punches
\* (attendance-hours.ts, approvedHoursForDay).
THEOREM HoursFit ==
  ASSUME OnePunchAtATime PROVE Spec => []HoursFitTheDay
<1>1. Spec => []SequentialSessions
  BY SessionsAreSequential
<1>2. Spec => []TypeOK
  BY TypeCorrect
<1> QED
  BY <1>1, <1>2, DayFits, PTL

-----------------------------------------------------------------------------
\* Rounding.

\* A positive factor of an inequality can be dropped.
LEMMA Cancels ==
  ASSUME NEW n \in Nat \ {0}, NEW x \in Int, NEW y \in Int, n * x <= n * y
  PROVE  x <= y
<1> SUFFICES ASSUME y + 1 <= x PROVE FALSE
  OBVIOUS
<1>1. PICK z \in Nat : x = y + 1 + z
  <2>1. x - y - 1 \in Nat /\ x = y + 1 + (x - y - 1)
    OBVIOUS
  <2> QED
    BY <2>1
<1>2. n * x = n * y + n + n * z
  BY <1>1
<1>3. n * z \in Nat /\ n * y \in Int /\ n * x \in Int
  OBVIOUS
<1> QED
  BY <1>2, <1>3

\* What the integer division leaves is less than the divisor.
LEMMA Quotients ==
  ASSUME NEW a \in Int, NEW b \in Nat \ {0}
  PROVE  /\ a \div b \in Int
         /\ b * (a \div b) <= a
         /\ a < b * (a \div b) + b
<1>1. a = b * (a \div b) + (a % b) /\ a % b \in 0 .. b - 1
  OBVIOUS
<1>2. a \div b \in Int /\ b * (a \div b) \in Int
  OBVIOUS
<1> QED
  BY <1>1, <1>2

\* A figure is off by half a hundredth at most, on either side.
LEMMA Rounding ==
  ASSUME NEW t \in Int
  PROVE  /\ RoundHours(t) \in Int
         /\ TicksPerCent * (2 * RoundHours(t)) \in Int
         /\ -TicksPerCent <= TicksPerCent * (2 * RoundHours(t)) - 2 * t
         /\ TicksPerCent * (2 * RoundHours(t)) - 2 * t <= TicksPerCent
<1> DEFINE n == TicksPerCent
           a == 2 * t + n
           q == a \div (2 * n)
<1>1. n \in Nat \ {0}
  BY TicksPerCentAssumption
<1> HIDE DEF n
<1>2. a \in Int /\ 2 * n \in Nat \ {0}
  BY <1>1
<1> HIDE DEF a
<1>3. q \in Int /\ (2 * n) * q <= a /\ a < (2 * n) * q + 2 * n
  BY <1>2, Quotients
<1>4. RoundHours(t) = q
  BY DEF RoundHours, a, q, n
<1> HIDE DEF q
<1>5. n * (2 * q) = (2 * n) * q /\ n * (2 * q) \in Int
  BY <1>1, <1>3
<1>6. -n <= n * (2 * q) - 2 * t /\ n * (2 * q) - 2 * t <= n
  <2> DEFINE m == n * (2 * q)
  <2>1. m \in Int /\ m <= 2 * t + n /\ 2 * t + n < m + 2 * n
    BY <1>3, <1>5 DEF a
  <2> HIDE DEF m
  <2>2. -n <= m - 2 * t /\ m - 2 * t <= n
    BY <1>1, <2>1
  <2> QED
    BY <2>2 DEF m
<1> QED
  BY <1>3, <1>4, <1>5, <1>6 DEF n

\* The figure of a sum of two is the sum of their figures, but for one hundredth.
LEMMA RoundsTogether ==
  ASSUME NEW t \in Int, NEW u \in Int
  PROVE  RoundHours(t + u) - RoundHours(t) - RoundHours(u) \in -1 .. 1
<1> DEFINE n == TicksPerCent
           x == RoundHours(t)
           y == RoundHours(u)
           z == RoundHours(t + u)
<1>1. n \in Nat \ {0}
  BY TicksPerCentAssumption
<1>2. /\ x \in Int /\ n * (2 * x) \in Int
      /\ -n <= n * (2 * x) - 2 * t /\ n * (2 * x) - 2 * t <= n
  BY Rounding
<1>3. /\ y \in Int /\ n * (2 * y) \in Int
      /\ -n <= n * (2 * y) - 2 * u /\ n * (2 * y) - 2 * u <= n
  BY Rounding
<1>4. /\ z \in Int /\ n * (2 * z) \in Int
      /\ -n <= n * (2 * z) - 2 * (t + u) /\ n * (2 * z) - 2 * (t + u) <= n
  BY Rounding
<1> HIDE DEF n, x, y, z
<1> DEFINE w == 2 * (z - x - y)
<1>5. n * w = n * (2 * z) - n * (2 * x) - n * (2 * y) /\ w \in Int /\ n * w \in Int
  BY <1>1, <1>2, <1>3, <1>4
<1>6. n * (-3) <= n * w /\ n * w <= n * 3
  <2> HIDE DEF w
  <2> QED
    BY <1>1, <1>2, <1>3, <1>4, <1>5
<1>7. -3 <= w /\ w <= 3
  <2> HIDE DEF w
  <2> QED
    BY <1>1, <1>5, <1>6, Cancels
<1>8. z - x - y \in Int /\ -1 <= z - x - y /\ z - x - y <= 1
  BY <1>2, <1>3, <1>4, <1>7
<1> QED
  BY <1>8 DEF x, y, z

-----------------------------------------------------------------------------
\* The pending figure.

\* A day on which all that waits is approved is worth its approved and its pending
\* ticks.
LEMMA PendingBecomesApproved ==
  ASSUME NEW day, day \in [Kinds -> Punches]
  PROVE  /\ AllApproved(day) \in [Kinds -> Punches]
         /\ ApprovedTicks(AllApproved(day)) = ApprovedTicks(day) + PendingTicks(day)
<1> DEFINE all == AllApproved(day)
<1>1. all \in [Kinds -> Punches]
  BY DEF AllApproved, Punches, PunchStatuses
<1>2. \A k \in Kinds : /\ all[k].time = day[k].time
                       /\ all[k].status = "APPROVED" <=> Stands(day, k)
                       /\ day[k].status = "APPROVED" => Stands(day, k)
  BY DEF AllApproved, Stands, Punches, PunchStatuses
<1>3. \A s \in Sessions : InKind[s] \in Kinds /\ OutKind[s] \in Kinds
  BY DEF Sessions, InKind, OutKind, Kinds
<1> HIDE DEF all
<1>4. ASSUME NEW s \in Sessions
      PROVE  /\ SessionTicks(all, s) = SessionTicks(day, s)
             /\ ApprovedPair(all, s) <=> ApprovedPair(day, s) \/ PendingPair(day, s)
             /\ ~(ApprovedPair(day, s) /\ PendingPair(day, s))
  BY <1>2, <1>3 DEF SessionTicks, ApprovedPair, PendingPair
<1>5. \A s \in Sessions : SessionTicks(day, s) \in Nat
  BY TicksAreNat
<1>6. "AM" \in Sessions /\ "PM" \in Sessions
  BY DEF Sessions
<1>7. ApprovedTicks(all) =
        (IF ApprovedPair(all, "AM") THEN SessionTicks(all, "AM") ELSE 0)
          + (IF ApprovedPair(all, "PM") THEN SessionTicks(all, "PM") ELSE 0)
  BY <1>1, TicksOfDay
<1>8. ApprovedTicks(all) = ApprovedTicks(day) + PendingTicks(day)
  BY <1>4, <1>5, <1>6, <1>7, TicksOfDay
<1> QED
  BY <1>1, <1>8 DEF all

LEMMA PromiseHolds == TypeOK => PendingPromise
<1> SUFFICES ASSUME TypeOK PROVE PendingPromise
  OBVIOUS
<1> DEFINE all == [d \in Days |-> AllApproved(punches[d])]
           a == [d \in Days |-> ApprovedTicks(punches[d])]
           p == [d \in Days |-> PendingTicks(punches[d])]
           b == [d \in Days |-> ApprovedTicks(all[d])]
<1>1. \A d \in Days : punches[d] \in [Kinds -> Punches]
  BY DEF TypeOK
<1>2. ASSUME NEW d \in Days
      PROVE  /\ ApprovedTicks(punches[d]) \in Int /\ PendingTicks(punches[d]) \in Int
             /\ ApprovedTicks(AllApproved(punches[d])) =
                  ApprovedTicks(punches[d]) + PendingTicks(punches[d])
  BY <1>1, TicksOfDay, PendingBecomesApproved
<1>3. IntegersOn(a, Days) /\ IntegersOn(p, Days) /\ IntegersOn(b, Days)
  BY <1>2, DaysAreFinite DEF IntegersOn
<1>4. \A d \in Days : b[d] = a[d] + p[d]
  BY <1>2
<1>5. /\ Hours = RoundHours(SumFunction(a))
      /\ TotalPending(punches) = RoundHours(SumFunction(p))
      /\ TotalApproved(all) = RoundHours(SumFunction(b))
  BY DEF Hours, TotalApproved, TotalPending, TypeOK
<1> HIDE DEF a, p, b
<1>6. SumFunction(a) \in Int /\ SumFunction(p) \in Int
      /\ SumFunction(b) = SumFunction(a) + SumFunction(p)
  <2>1. SumFunction(a) = Total(a, Days) /\ Total(a, Days) \in Int
    BY <1>3, TotalAdds
  <2>2. SumFunction(p) = Total(p, Days) /\ Total(p, Days) \in Int
    BY <1>3, TotalAdds
  <2>3. SumFunction(b) = Total(b, Days)
    BY <1>3, TotalAdds
  <2>4. Total(b, Days) = Total(a, Days) + Total(p, Days)
    BY <1>3, <1>4, TotalOfSums
  <2> QED
    BY <2>1, <2>2, <2>3, <2>4
<1> DEFINE x == RoundHours(SumFunction(a))
           y == RoundHours(SumFunction(p))
           z == RoundHours(SumFunction(b))
<1>7. z - x - y \in -1 .. 1 /\ x \in Int /\ y \in Int /\ z \in Int
  BY <1>6, RoundsTogether, Rounding
<1> HIDE DEF x, y, z
<1>8. z - (x + y) \in -1 .. 1
  BY <1>7
<1>9. TotalApproved(all) - (Hours + TotalPending(punches)) \in -1 .. 1
  BY <1>5, <1>8 DEF x, y, z
<1> QED
  BY <1>9 DEF PendingPromise

\* Whatever the supervisors have decided, approving all that still waits adds what
\* the pending figure says, but for a hundredth of an hour
\* (attendance-hours.ts, totalPendingHours).
THEOREM PromiseKept == Spec => []PendingPromise
<1>1. Spec => []TypeOK
  BY TypeCorrect
<1> QED
  BY <1>1, PromiseHolds, PTL

-----------------------------------------------------------------------------
\* Figures of the parts of a set of days.

LEMMA CancelsStrictly ==
  ASSUME NEW n \in Nat \ {0}, NEW x \in Int, NEW y \in Int, n * x < n * y
  PROVE  x < y
<1> SUFFICES ASSUME y <= x PROVE FALSE
  OBVIOUS
<1>1. PICK z \in Nat : x = y + z
  <2>1. x - y \in Nat /\ x = y + (x - y)
    OBVIOUS
  <2> QED
    BY <2>1
<1>2. n * x = n * y + n * z
  BY <1>1
<1>3. n * z \in Nat /\ n * y \in Int /\ n * x \in Int
  OBVIOUS
<1> QED
  BY <1>2, <1>3

\* There is one quotient, it grows with the dividend and does not exceed it.
LEMMA QuotientIsUnique ==
  ASSUME NEW a \in Int, NEW n \in Nat \ {0}, NEW q \in Int, n * q <= a, a < n * q + n
  PROVE  q = a \div n
<1> DEFINE r == a \div n
<1>1. r \in Int /\ n * r <= a /\ a < n * r + n
  BY Quotients
<1> HIDE DEF r
<1>2. n * (r + 1) = n * r + n /\ n * (q + 1) = n * q + n
      /\ n * r \in Int /\ n * q \in Int
  BY <1>1
<1>3. n * r < n * (q + 1) /\ n * q < n * (r + 1)
  BY <1>1, <1>2
<1>4. r < q + 1 /\ q < r + 1
  BY <1>1, <1>3, CancelsStrictly
<1> QED
  BY <1>1, <1>4 DEF r

LEMMA QuotientsGrow ==
  ASSUME NEW a \in Int, NEW b \in Int, a <= b, NEW n \in Nat \ {0}
  PROVE  a \div n <= b \div n
<1> DEFINE q == a \div n
           r == b \div n
<1>1. q \in Int /\ n * q <= a /\ r \in Int /\ b < n * r + n
  BY Quotients
<1> HIDE DEF q, r
<1>2. n * (r + 1) = n * r + n /\ n * r \in Int /\ n * q \in Int
  BY <1>1
<1>3. n * q < n * (r + 1)
  BY <1>1, <1>2
<1>4. q < r + 1
  BY <1>1, <1>3, CancelsStrictly
<1>5. q <= r
  BY <1>1, <1>4
<1> QED
  BY <1>5 DEF q, r

LEMMA QuotientsAreSmaller ==
  ASSUME NEW a \in Nat, NEW n \in Nat \ {0}
  PROVE  a \div n \in 0 .. a
<1> DEFINE q == a \div n
<1>1. q \in Int /\ n * q <= a /\ a < n * q + n
  BY Quotients
<1> HIDE DEF q
<1>2. n * (q + 1) = n * q + n /\ n * 0 = 0 /\ n * q \in Int
  BY <1>1
<1>3. n * 0 < n * (q + 1)
  BY <1>1, <1>2
<1>4. q \in Nat
  <2>1. 0 < q + 1
    BY <1>1, <1>3, CancelsStrictly
  <2> QED
    BY <1>1, <2>1
<1>5. q <= n * q
  <2>1. n * q = q + (n - 1) * q
    BY <1>4
  <2>2. n - 1 \in Nat /\ (n - 1) * q \in Nat
    BY <1>4
  <2> QED
    BY <1>4, <2>1, <2>2
<1>6. q \in 0 .. a
  BY <1>1, <1>2, <1>4, <1>5
<1> QED
  BY <1>6 DEF q

\* The sum over two sets apart is the sum of their sums.
LEMMA TotalOfUnion ==
  ASSUME NEW S, NEW f, IntegersOn(f, S), NEW A \in SUBSET S, NEW B \in SUBSET S,
         A \cap B = {}
  PROVE  Total(f, A \cup B) = Total(f, A) + Total(f, B)
<1> DEFINE F == {T \in SUBSET A : Total(f, T \cup B) = Total(f, T) + Total(f, B)}
<1>1. IsFiniteSet(A)
  BY FS_Subset DEF IntegersOn
<1>2. ASSUME NEW T \in SUBSET S PROVE Total(f, T) \in Int
  BY TotalAdds
<1>3. ASSUME NEW T \in SUBSET S, NEW x \in T
      PROVE  Total(f, T) = f[x] + Total(f, T \ {x}) /\ f[x] \in Int
  BY TotalAdds DEF IntegersOn
<1>4. ASSUME NEW T \in SUBSET A, \A x \in T : T \ {x} \in F
      PROVE  T \in F
  <2>1. CASE T = {}
    <3>1. T \cup B = B /\ Total(f, T) = 0
      BY <2>1, TotalAdds
    <3>2. Total(f, T \cup B) = Total(f, T) + Total(f, B)
      BY <1>2, <3>1
    <3> QED
      BY <3>2
  <2>2. CASE T # {}
    <3>1. PICK x \in T : TRUE
      BY <2>2
    <3>2. T \in SUBSET S /\ T \cup B \in SUBSET S /\ x \in T \cup B
          /\ T \ {x} \in SUBSET S
      BY <3>1
    <3>3. (T \cup B) \ {x} = (T \ {x}) \cup B
      BY <3>1
    <3>4. Total(f, T \cup B) = f[x] + Total(f, (T \ {x}) \cup B)
      BY <1>3, <3>2, <3>3
    <3>5. Total(f, T) = f[x] + Total(f, T \ {x}) /\ f[x] \in Int
      BY <1>3, <3>1, <3>2
    <3>6. Total(f, (T \ {x}) \cup B) = Total(f, T \ {x}) + Total(f, B)
      BY <1>4, <3>1
    <3>7. Total(f, T \ {x}) \in Int /\ Total(f, B) \in Int
      BY <1>2, <3>2
    <3>8. Total(f, T \cup B) = Total(f, T) + Total(f, B)
      BY <3>4, <3>5, <3>6, <3>7
    <3> QED
      BY <3>8
  <2> QED
    BY <2>1, <2>2
<1>5. F = SUBSET A
  <2> HIDE DEF F
  <2>1. F \in SUBSET SUBSET A
    BY DEF F
  <2> QED
    BY <1>1, <1>4, <2>1, AllSubsets
<1> QED
  BY <1>5

LEMMA TotalOfZeros ==
  ASSUME NEW S, NEW f, IntegersOn(f, S), NEW A \in SUBSET S, \A x \in A : f[x] = 0
  PROVE  Total(f, A) = 0
<1> DEFINE F == {T \in SUBSET A : Total(f, T) = 0}
<1>1. IsFiniteSet(A)
  BY FS_Subset DEF IntegersOn
<1>2. ASSUME NEW T \in SUBSET A, \A x \in T : T \ {x} \in F
      PROVE  T \in F
  <2>1. CASE T = {}
    BY <2>1, TotalAdds
  <2>2. CASE T # {}
    <3>1. PICK x \in T : TRUE
      BY <2>2
    <3>2. Total(f, T) = f[x] + Total(f, T \ {x})
      BY <3>1, TotalAdds
    <3>3. f[x] = 0 /\ Total(f, T \ {x}) = 0
      BY <1>2, <3>1
    <3> QED
      BY <3>2, <3>3
  <2> QED
    BY <2>1, <2>2
<1>3. F = SUBSET A
  <2> HIDE DEF F
  <2>1. F \in SUBSET SUBSET A
    BY DEF F
  <2> QED
    BY <1>1, <1>2, <2>1, AllSubsets
<1> QED
  BY <1>3

\* The figures of parts that do not overlap add up to the figure of the whole, but
\* for half a hundredth a figure.
LEMMA FiguresAddUp ==
  ASSUME NEW S, NEW f, IntegersOn(f, S), NEW M, IsFiniteSet(M), NEW P \in [M -> SUBSET S],
         \A i, j \in M : i # j => P[i] \cap P[j] = {}
  PROVE  2 * (SumFunction([m \in M |-> RoundHours(Total(f, P[m]))])
                - RoundHours(Total(f, UNION {P[m] : m \in M})))
           \in -(Cardinality(M) + 1) .. Cardinality(M) + 1
<1> DEFINE n == TicksPerCent
           g == [m \in M |-> RoundHours(Total(f, P[m]))]
           U(T) == UNION {P[m] : m \in T}
           Near(T) == /\ n * (2 * Total(g, T)) \in Int
                      /\ -(n * Cardinality(T)) <= n * (2 * Total(g, T)) - 2 * Total(f, U(T))
                      /\ n * (2 * Total(g, T)) - 2 * Total(f, U(T)) <= n * Cardinality(T)
           F == {T \in SUBSET M : Near(T)}
<1>1. n \in Nat \ {0}
  BY TicksPerCentAssumption
<1>2. \A T \in SUBSET M : IsFiniteSet(T) /\ Cardinality(T) \in Nat
  BY FS_Subset, FS_CardinalityType
<1>3. ASSUME NEW T \in SUBSET S PROVE Total(f, T) \in Int
  BY TotalAdds
<1>4. IntegersOn(g, M) /\ \A m \in M : g[m] = RoundHours(Total(f, P[m]))
  BY <1>3, Rounding DEF IntegersOn
<1> HIDE DEF g
<1>5. ASSUME NEW T \in SUBSET M PROVE Total(g, T) \in Int /\ Total(f, U(T)) \in Int
  <2>1. U(T) \in SUBSET S
    OBVIOUS
  <2> QED
    BY <1>3, <1>4, <2>1, TotalAdds
<1>6. ASSUME NEW T \in SUBSET M, \A m \in T : T \ {m} \in F
      PROVE  Near(T)
  <2>1. CASE T = {}
    <3>1. U(T) = {} /\ Cardinality(T) = 0
      BY <2>1, FS_EmptySet
    <3>2. Total(g, T) = 0 /\ Total(f, U(T)) = 0
      BY <1>4, <2>1, <3>1, TotalAdds
    <3> QED
      BY <1>1, <3>1, <3>2
  <2>2. CASE T # {}
    <3>1. PICK m \in T : TRUE
      BY <2>2
    <3> DEFINE R == T \ {m}
    <3>2. R \in SUBSET M /\ Near(R)
      BY <1>6, <3>1
    <3>3. Cardinality(T) = Cardinality(R) + 1 /\ Cardinality(R) \in Nat
      BY <1>2, <3>1, <3>2, FS_RemoveElement
    <3>4. Total(g, T) = g[m] + Total(g, R)
      BY <1>4, <3>1, TotalAdds
    <3>5. Total(f, U(T)) = Total(f, U(R)) + Total(f, P[m])
      <4>1. U(T) = U(R) \cup P[m] /\ U(R) \cap P[m] = {}
            /\ U(R) \in SUBSET S /\ P[m] \in SUBSET S
        BY <3>1
      <4> QED
        BY <4>1, TotalOfUnion
    <3> DEFINE t == Total(f, P[m])
               r == g[m]
               c == Cardinality(R)
               x == Total(g, R)
               u == Total(f, U(R))
    <3>6. t \in Int /\ x \in Int /\ u \in Int /\ c \in Nat
      BY <1>3, <1>5, <3>1, <3>2, <3>3
    <3>7. /\ r \in Int /\ n * (2 * r) \in Int
          /\ -n <= n * (2 * r) - 2 * t /\ n * (2 * r) - 2 * t <= n
      BY <1>4, <3>1, <3>6, Rounding
    <3>8. /\ n * (2 * x) \in Int
          /\ -(n * c) <= n * (2 * x) - 2 * u /\ n * (2 * x) - 2 * u <= n * c
      BY <3>2
    <3>9. Total(g, T) = r + x /\ Total(f, U(T)) = u + t /\ Cardinality(T) = c + 1
      BY <3>3, <3>4, <3>5
    <3> HIDE DEF t, r, c, x, u, R, U
    <3>10. n * (2 * (r + x)) = n * (2 * r) + n * (2 * x) /\ n * (c + 1) = n * c + n
           /\ n * c \in Int
      BY <1>1, <3>6, <3>7
    <3>11. /\ n * (2 * (r + x)) \in Int
           /\ -(n * (c + 1)) <= n * (2 * (r + x)) - 2 * (u + t)
           /\ n * (2 * (r + x)) - 2 * (u + t) <= n * (c + 1)
      BY <1>1, <3>6, <3>7, <3>8, <3>10
    <3> QED
      BY <3>9, <3>11
  <2> QED
    BY <2>1, <2>2
<1>7. Near(M)
  <2> HIDE DEF Near
  <2>1. \A T \in SUBSET M : (\A m \in T : T \ {m} \in F) => T \in F
    BY <1>6
  <2>2. F \in SUBSET SUBSET M
    OBVIOUS
  <2>3. F = SUBSET M
    <3> HIDE DEF F
    <3> QED
      BY <2>1, <2>2, AllSubsets
  <2> QED
    BY <2>3
<1> DEFINE x == Total(g, M)
           u == Total(f, U(M))
           r == RoundHours(u)
           c == Cardinality(M)
           w == 2 * (x - r)
<1>8. x \in Int /\ u \in Int /\ c \in Nat
  BY <1>2, <1>5
<1>9. /\ n * (2 * x) \in Int
      /\ -(n * c) <= n * (2 * x) - 2 * u /\ n * (2 * x) - 2 * u <= n * c
  BY <1>7
<1>10. /\ r \in Int /\ n * (2 * r) \in Int
       /\ -n <= n * (2 * r) - 2 * u /\ n * (2 * r) - 2 * u <= n
  <2> HIDE DEF u
  <2> QED
    BY <1>8, Rounding
<1> HIDE DEF n, x, u, r, c
<1>11. w \in Int /\ n * w = n * (2 * x) - n * (2 * r) /\ n * w \in Int
       /\ n * (c + 1) = n * c + n /\ n * (-(c + 1)) = -(n * c) - n /\ n * c \in Int
  BY <1>1, <1>8, <1>10
<1> HIDE DEF w
<1>12. n * (-(c + 1)) <= n * w /\ n * w <= n * (c + 1)
  BY <1>1, <1>8, <1>9, <1>10, <1>11
<1>13. -(c + 1) <= w /\ w <= c + 1
  BY <1>1, <1>8, <1>11, <1>12, Cancels
<1>14. w \in -(c + 1) .. c + 1
  BY <1>8, <1>11, <1>13
<1>15. SumFunction(g) = x
  BY <1>4, TotalAdds DEF x
<1> QED
  BY <1>14, <1>15 DEF w, x, u, r, c, g

-----------------------------------------------------------------------------
\* The months of the pages.

\* Nothing is punched on a day that has not come: the day of a punch is read from
\* the clock, which does not go back.
DaysReached ==
  /\ \A d \in Days, k \in Kinds : punches[d][k].status # "NONE" => d <= Today
  /\ \A r \in Requests : Punching(r) => req[r].day <= Today

LEMMA InitDaysReached == Init => DaysReached
BY DEF Init, DaysReached, NoPunch, Punching, Idle

LEMMA NextDaysReached == TypeOK /\ RowsHeld /\ DaysReached /\ [Next]_vars => DaysReached'
<1> SUFFICES ASSUME TypeOK, RowsHeld, DaysReached, [Next]_vars PROVE DaysReached'
  OBVIOUS
<1>1. clock \in Int /\ clock' \in Int /\ clock <= clock'
  <2>1. clock' = clock \/ clock' = clock + 1
    BY DEF Next, Tick, EditStudent, BeginPunch, BeginRemark, RequestStep, GetOrCreateDay,
       ReadPunches, StampPunch, WritePunch, WriteRemark, RequestLost, BeginDecision, BeginStatus,
       DecisionStep, LockStudent, ReadHours, DecidePunch, CheckCompletion, Commit, WriteStatus,
       DecisionLost, vars
  <2>2. clock \in Int
    BY ConstantsAssumption DEF TypeOK, Times
  <2> QED
    BY <2>1, <2>2
<1>2. Today \in Int /\ Today' \in Int /\ Today <= Today'
  BY <1>1, ConstantsAssumption, QuotientsGrow, Quotients DEF Today, DayOf
<1>3. \A r \in Requests : Punching(r) => req[r] \in PunchReqs /\ req[r].day \in Days
  BY RequestTypes DEF Punching, PunchReqs
<1>4. Days \subseteq Int
  BY DaysAreInts
<1>5. \A d \in Days : d <= Today => d <= Today'
  BY <1>2, <1>4
\* No kind of a day comes to be punched but by a write, and a decision finds it so.
<1>6. ASSUME NEW d \in Days, NEW k \in Kinds, punches'[d][k].status # "NONE"
      PROVE  d <= Today
  <2>1. CASE punches' = punches
    BY <1>6, <2>1 DEF DaysReached
  <2>2. ASSUME NEW r \in Requests, WritePunch(r) PROVE d <= Today
    <3>1. Punching(r)
      BY <2>2 DEF WritePunch, Punching
    <3> QED
      BY <1>6, <2>2, <3>1, WritePunchEffect DEF DaysReached
  <2>3. ASSUME NEW c \in Decisions, Commit(c) PROVE d <= Today
    <3>1. punches[dec[c].day][dec[c].kind].status = "PENDING"
      BY <2>3 DEF RowsHeld, Holds, Commit
    <3> QED
      BY <1>6, <2>3, <3>1, CommitEffect DEF DaysReached
  <2> QED
    BY <2>1, <2>2, <2>3
    DEF Next, Tick, EditStudent, BeginPunch, BeginRemark, RequestStep, GetOrCreateDay,
       ReadPunches, StampPunch, WriteRemark, RequestLost, BeginDecision, BeginStatus,
       DecisionStep, LockStudent, ReadHours, DecidePunch, CheckCompletion, WriteStatus,
       DecisionLost, vars
<1>7. ASSUME NEW r \in Requests, Punching(r)'
      PROVE  req'[r].day = Today \/ (Punching(r) /\ req'[r].day = req[r].day)
  <2>1. CASE req' = req
    BY <1>7, <2>1 DEF Punching
  <2>2. ASSUME NEW q \in Requests, NEW k \in Tried, BeginPunch(q, k)
        PROVE  req'[r].day = Today \/ (Punching(r) /\ req'[r].day = req[r].day)
    BY <1>7, <2>2 DEF BeginPunch, Punching, TypeOK
  <2>3. ASSUME NEW q \in Requests,
               \/ \E note \in Remarks : BeginRemark(q, note)
               \/ WritePunch(q)
               \/ WriteRemark(q)
               \/ RequestLost(q)
        PROVE  Punching(r) /\ req'[r].day = req[r].day
    BY <1>7, <2>3 DEF BeginRemark, WritePunch, WriteRemark, RequestLost, Punching, TypeOK, Idle
  <2>4. ASSUME NEW q \in Requests, GetOrCreateDay(q)
        PROVE  Punching(r) /\ req'[r].day = req[r].day
    BY <1>7, <2>4, RequestTypes DEF GetOrCreateDay, Punching, TypeOK, RemarkReqs, PunchReqs
  <2>5. ASSUME NEW q \in Requests, ReadPunches(q)
        PROVE  Punching(r) /\ req'[r].day = req[r].day
    BY <1>7, <2>5, RequestTypes DEF ReadPunches, Punching, TypeOK, PunchReqs, Idle
  <2>6. ASSUME NEW q \in Requests, StampPunch(q)
        PROVE  Punching(r) /\ req'[r].day = req[r].day
    BY <1>7, <2>6, RequestTypes DEF StampPunch, Punching, TypeOK, PunchReqs
  <2> QED
    BY <2>1, <2>2, <2>3, <2>4, <2>5, <2>6
    DEF Next, Tick, EditStudent, RequestStep, BeginDecision, BeginStatus, DecisionStep,
        LockStudent, ReadHours, DecidePunch, CheckCompletion, Commit, WriteStatus, DecisionLost,
        vars
<1>8. ASSUME NEW r \in Requests, Punching(r)' PROVE req'[r].day <= Today'
  BY <1>2, <1>3, <1>5, <1>7, <1>8 DEF DaysReached
<1> QED
  BY <1>5, <1>6, <1>8 DEF DaysReached

\* A day is at most the bound of the clock, and its month is its quotient.
LEMMA MonthOfDay ==
  ASSUME NEW d \in Days
  PROVE  /\ d \div MonthLength \in Months
         /\ \A m \in Nat : d \in FirstDay(m) .. LastDay(m) <=> m = d \div MonthLength
<1> DEFINE n == MonthLength
           q == d \div n
<1>1. n \in Nat \ {0} /\ MaxClock \in Nat
  BY MonthAssumption, ConstantsAssumption
<1>2. d \in 0 .. MaxClock
  <2>1. PICK t \in 0 .. MaxClock : d = t \div DayLength
    BY DEF Days, DayOf, Times
  <2>2. t \div DayLength \in 0 .. t
    BY <1>1, ConstantsAssumption, QuotientsAreSmaller
  <2> QED
    BY <1>1, <2>1, <2>2
<1> HIDE DEF n
<1>3. q \in 0 .. d /\ q \in Int /\ n * q <= d /\ d < n * q + n
  BY <1>1, <1>2, Quotients, QuotientsAreSmaller
<1>4. ASSUME NEW m \in Nat
      PROVE  d \in FirstDay(m) .. LastDay(m) <=> n * m <= d /\ d < n * m + n
  <2>1. FirstDay(m) = n * m /\ LastDay(m) = n * m + n - 1 /\ n * m \in Int
    BY <1>1 DEF FirstDay, LastDay, n
  <2> QED
    BY <1>1, <1>2, <2>1
<1>5. ASSUME NEW m \in Nat, n * m <= d, d < n * m + n PROVE m = q
  BY <1>1, <1>2, <1>5, QuotientIsUnique
<1> HIDE DEF q
<1>6. q \in Nat /\ q \in 0 .. MaxClock
  BY <1>1, <1>2, <1>3
<1>7. \A m \in Nat : d \in FirstDay(m) .. LastDay(m) <=> m = q
  BY <1>3, <1>4, <1>5, <1>6
<1>8. q \in Months
  BY <1>6, <1>7 DEF Months
<1> QED
  BY <1>7, <1>8 DEF q, n

\* The days of presence of the months are those of all time, month by month.
LEMMA PresenceByMonth ==
  ASSUME TypeOK
  PROVE  /\ \A m \in Months : PresentDays(m) = PresentDays(AllTime) \cap DtrDays(m)
         /\ UNION {PresentDays(m) : m \in Months} = PresentDays(AllTime)
<1>1. Days \subseteq Int /\ (\A m \in Months : m \in Nat /\ FirstDay(m) \in Int
                                                /\ LastDay(m) \in Int)
  BY DaysAreInts
<1>2. student.start \in Int /\ Today \in Int /\ AllTime \notin Nat
  BY WindowBounds, MonthAssumption DEF WindowStart, WindowEnd
<1>3. PresentDays(AllTime) =
        {d \in Days : HasApprovedSession(punches[d]) /\ student.start <= d /\ d <= Today}
  BY DEF PresentDays, WindowStart, WindowEnd
<1>4. ASSUME NEW m \in Months PROVE PresentDays(m) = PresentDays(AllTime) \cap DtrDays(m)
  <2>1. m # AllTime
    BY <1>1, <1>2
  <2>2. ASSUME NEW d \in Days
        PROVE  WindowStart(m) <= d /\ d <= WindowEnd(m)
                 <=> student.start <= d /\ d <= Today /\ d \in FirstDay(m) .. LastDay(m)
    <3>1. d \in Int
      BY <1>1
    <3>2. /\ WindowStart(m) = IF student.start < FirstDay(m) THEN FirstDay(m) ELSE student.start
          /\ WindowEnd(m) = IF LastDay(m) < Today THEN LastDay(m) ELSE Today
      BY <2>1 DEF WindowStart, WindowEnd
    <3> QED
      BY <1>1, <1>2, <3>1, <3>2
  <2> QED
    BY <1>3, <2>2 DEF PresentDays, DtrDays
<1>5. \A d \in Days : \E m \in Months : d \in DtrDays(m)
  BY <1>1, MonthOfDay DEF DtrDays
<1>6. PresentDays(AllTime) \subseteq Days
  BY <1>3
<1> QED
  BY <1>4, <1>5, <1>6

LEMMA MonthsFit == TypeOK /\ DaysReached => MonthsAddUp
<1> SUFFICES ASSUME TypeOK, DaysReached PROVE MonthsAddUp
  OBVIOUS
<1> DEFINE f == [d \in Days |-> ApprovedTicks(punches[d])]
           Present == PresentDays(AllTime)
           before == {d \in Days : d < student.start}
           c == Cardinality(Months)
           Figures(P) == SumFunction([m \in Months |-> RoundHours(Total(f, P[m]))])
           shown == [m \in Months |-> PresentDays(m)]
           printed == [m \in Months |-> DtrDays(m)]
<1>1. \A d \in Days : punches[d] \in [Kinds -> Punches]
  BY DEF TypeOK
<1>2. IntegersOn(f, Days)
  BY <1>1, TicksOfDay, DaysAreFinite DEF IntegersOn
<1>3. IsFiniteSet(Months) /\ Days \subseteq Int /\ \A m \in Months : m \in Nat
  <2>1. IsFiniteSet(0 .. MaxClock)
    BY ConstantsAssumption, FS_Interval
  <2>2. Months \subseteq 0 .. MaxClock
    BY DEF Months
  <2>3. IsFiniteSet(Months)
    BY <2>1, <2>2, FS_Subset
  <2> QED
    BY <2>3, DaysAreInts
<1>4. ASSUME NEW X \in SUBSET Days PROVE HoursOn(X) = RoundHours(Total(f, X))
  <2>1. [d \in X |-> f[d]] = [d \in X |-> ApprovedTicks([e \in X |-> punches[e]][d])]
    OBVIOUS
  <2> HIDE DEF f
  <2> QED
    BY <2>1 DEF HoursOn, TotalApproved, Total
<1>5. Hours = RoundHours(Total(f, Days))
  <2>1. Hours = RoundHours(SumFunction(f))
    BY DEF Hours, TotalApproved, TypeOK
  <2>2. SumFunction(f) = Total(f, Days)
    <3> HIDE DEF f
    <3> QED
      BY <1>2, TotalAdds
  <2> QED
    BY <2>1, <2>2
\* A day on which nothing counts, or that has not come, is worth nothing.
<1>6. ASSUME NEW d \in Days, ~HasApprovedSession(punches[d]) \/ ~(d <= Today)
      PROVE  f[d] = 0
  <2>1. \A s \in Sessions : InKind[s] \in Kinds
    BY DEF Sessions, InKind, Kinds
  <2>2. ~ApprovedPair(punches[d], "AM") /\ ~ApprovedPair(punches[d], "PM")
    BY <1>6, <2>1 DEF DaysReached, HasApprovedSession, ApprovedPair, Sessions
  <2>3. ApprovedTicks(punches[d]) = 0
    BY <1>1, <2>2, TicksOfDay
  <2> QED
    BY <2>3
<1> HIDE DEF f
<1>7. /\ \A m \in Months : PresentDays(m) = Present \cap DtrDays(m)
      /\ UNION {PresentDays(m) : m \in Months} = Present
  BY PresenceByMonth
<1>8. /\ Present \subseteq Days /\ before \subseteq Days
      /\ \A m \in Months : DtrDays(m) \subseteq Days
  BY DEF PresentDays, DtrDays
<1>9. /\ \A i, j \in Months : i # j => DtrDays(i) \cap DtrDays(j) = {}
      /\ UNION {DtrDays(m) : m \in Months} = Days
  <2>1. \A d \in Days : /\ d \div MonthLength \in Months
                        /\ \A m \in Months : d \in DtrDays(m) <=> m = d \div MonthLength
    BY <1>3, MonthOfDay DEF DtrDays
  <2> QED
    BY <1>8, <2>1
<1>10. 2 * (Figures(shown) - RoundHours(Total(f, Present))) \in -(c + 1) .. c + 1
  <2>1. shown \in [Months -> SUBSET Days]
    BY <1>7, <1>8
  <2>2. \A i, j \in Months : i # j => shown[i] \cap shown[j] = {}
    BY <1>7, <1>9
  <2>3. UNION {shown[m] : m \in Months} = Present
    BY <1>7
  <2> HIDE DEF shown, Present
  <2> QED
    BY <1>2, <1>3, <2>1, <2>2, <2>3, FiguresAddUp
<1>11. 2 * (Figures(printed) - Hours) \in -(c + 1) .. c + 1
  <2>1. printed \in [Months -> SUBSET Days]
    BY <1>8
  <2>2. \A i, j \in Months : i # j => printed[i] \cap printed[j] = {}
    BY <1>9
  <2>3. UNION {printed[m] : m \in Months} = Days
    BY <1>9
  <2> HIDE DEF printed
  <2> QED
    BY <1>2, <1>3, <1>5, <2>1, <2>2, <2>3, FiguresAddUp
<1>12. 2 * (Hours - HoursOn(Present) - HoursOn(before)) \in -3 .. 3
  <2> DEFINE rest == Days \ (Present \cup before)
             a == Total(f, Present)
             b == Total(f, before)
  <2>1. ASSUME NEW d \in rest PROVE f[d] = 0
    <3>1. student.start \in Int /\ d \in Days /\ d \in Int
      BY <1>3 DEF TypeOK, Students
    <3>2. ~(d < student.start) /\ d \notin Present
      OBVIOUS
    <3>3. ~HasApprovedSession(punches[d]) \/ ~(d <= Today)
      BY <3>1, <3>2 DEF PresentDays, WindowStart, WindowEnd
    <3> QED
      BY <1>6, <3>1, <3>3
  <2>2. Present \cap before = {}
    <3>1. \A d \in Present : d \in Int /\ student.start <= d
      BY <1>3 DEF PresentDays, WindowStart
    <3>2. student.start \in Int
      BY DEF TypeOK, Students
    <3> QED
      BY <3>1, <3>2
  <2> HIDE DEF Present, before
  <2>3. rest \in SUBSET Days /\ Present \cup before \in SUBSET Days
        /\ (Present \cup before) \cap rest = {} /\ (Present \cup before) \cup rest = Days
    BY <1>8
  <2> HIDE DEF rest
  <2>4. Total(f, Days) = Total(f, Present \cup before) + Total(f, rest)
    <3>1. Total(f, (Present \cup before) \cup rest)
            = Total(f, Present \cup before) + Total(f, rest)
      BY <1>2, <2>3, TotalOfUnion
    <3> QED
      BY <2>3, <3>1
  <2>5. Total(f, rest) = 0
    BY <1>2, <2>1, <2>3, TotalOfZeros
  <2>6. Total(f, Present \cup before) = a + b
    BY <1>2, <1>8, <2>2, TotalOfUnion
  <2>7. a \in Int /\ b \in Int
    BY <1>2, <1>8, TotalAdds
  <2>8. Total(f, Days) = a + b
    BY <2>4, <2>5, <2>6, <2>7
  <2>9. HoursOn(Present) = RoundHours(a) /\ HoursOn(before) = RoundHours(b)
        /\ Hours = RoundHours(a + b)
    BY <1>4, <1>5, <1>8, <2>8
  <2> HIDE DEF a, b
  <2>10. /\ RoundHours(a + b) - RoundHours(a) - RoundHours(b) \in -1 .. 1
         /\ RoundHours(a) \in Int /\ RoundHours(b) \in Int /\ RoundHours(a + b) \in Int
    BY <2>7, RoundsTogether, Rounding
  <2>11. 2 * (RoundHours(a + b) - RoundHours(a) - RoundHours(b)) \in -3 .. 3
    BY <2>10
  <2> QED
    BY <2>9, <2>11
<1>13. /\ HoursOn(Present) = RoundHours(Total(f, Present))
       /\ [m \in Months |-> HoursOn(PresentDays(m))]
             = [m \in Months |-> RoundHours(Total(f, shown[m]))]
       /\ [m \in Months |-> HoursOn(DtrDays(m))]
             = [m \in Months |-> RoundHours(Total(f, printed[m]))]
  <2>1. \A m \in Months : /\ HoursOn(PresentDays(m)) = RoundHours(Total(f, PresentDays(m)))
                          /\ HoursOn(DtrDays(m)) = RoundHours(Total(f, DtrDays(m)))
    BY <1>4, <1>7, <1>8
  <2> QED
    BY <1>4, <1>8, <2>1
<1>14. /\ 2 * (SumFunction([m \in Months |-> HoursOn(PresentDays(m))]) - HoursOn(Present))
            \in -(c + 1) .. c + 1
       /\ 2 * (SumFunction([m \in Months |-> HoursOn(DtrDays(m))]) - Hours)
            \in -(c + 1) .. c + 1
  <2> HIDE DEF shown, printed, Present, c
  <2> QED
    BY <1>10, <1>11, <1>13
<1> QED
  BY <1>7, <1>12, <1>14 DEF MonthsAddUp

\* Whatever month a page shows, the months divide the days of the student and their
\* hours add up, but for the rounding of each figure; and the oversight leaves out
\* no hours but those before the start date (getAttendanceOversight, buildDtrData,
\* listStudents).
THEOREM PagesAgree == Spec => []MonthsAddUp
<1>1. Init => TypeOK /\ RowsHeld /\ DaysReached
  BY InitTypeOK, InitRowsHeld, InitDaysReached
<1>2. TypeOK /\ RowsHeld /\ DaysReached /\ [Next]_vars => (TypeOK /\ RowsHeld /\ DaysReached)'
  BY NextTypeOK, NextRowsHeld, NextDaysReached
<1> QED
  BY <1>1, <1>2, MonthsFit, PTL DEF Spec

-----------------------------------------------------------------------------
\* The rows implement a card.

\* A punch about to be written has the last stamp of the card, on no day to come.
LastStampOf(r) ==
  req[r].pc = "write" =>
    /\ req[r].day <= DayOf(req[r].time)
    /\ \A d \in Days, k \in Kinds : punches[d][k].time <= req[r].time

LastStamp == \A r \in Requests : LastStampOf(r)

LEMMA InitLastStamp == Init => LastStamp
BY DEF Init, LastStamp, LastStampOf, Idle

LEMMA NextLastStamp ==
  ASSUME TypeOK, RowsHeld, StampsInOrder, DaysReached, LastStamp, [Next]_vars
  PROVE  LastStamp'
<1> SUFFICES ASSUME NEW r \in Requests, req'[r].pc = "write" PROVE LastStampOf(r)'
  BY DEF LastStamp, LastStampOf
<1>1. CASE StampPunch(r)
  <2>1. Punching(r) /\ req[r] \in PunchReqs
    BY <1>1, RequestTypes DEF StampPunch, Punching
  <2>2. req'[r].time = clock /\ req'[r].day = req[r].day /\ punches' = punches
    BY <1>1, <2>1 DEF StampPunch, TypeOK, PunchReqs
  <2>3. req[r].day <= DayOf(clock)
    BY <2>1 DEF DaysReached, Today
  <2> QED
    BY <2>2, <2>3 DEF LastStampOf, StampsInOrder
<1>2. ASSUME req'[r] = req[r] PROVE LastStampOf(r)'
  <2>1. ASSUME NEW q \in Requests, WritePunch(q) PROVE FALSE
    <3>1. Punching(q) /\ Punching(r)
      BY <1>2, <2>1 DEF WritePunch, Punching
    <3>2. q = r
      BY <3>1 DEF StampsInOrder
    <3> QED
      BY <2>1, <3>2 DEF WritePunch, TypeOK, Idle
  <2>2. ASSUME NEW c \in Decisions, Commit(c), NEW d \in Days, NEW k \in Kinds
        PROVE  punches'[d][k].time = punches[d][k].time
    BY <2>2, CommitEffect
  <2>3. \/ punches' = punches
        \/ \E q \in Requests : WritePunch(q)
        \/ \E c \in Decisions : Commit(c)
    BY DEF Next, Tick, EditStudent, BeginPunch, BeginRemark, RequestStep, GetOrCreateDay,
       ReadPunches, StampPunch, WriteRemark, RequestLost, BeginDecision, BeginStatus,
       DecisionStep, LockStudent, ReadHours, DecidePunch, CheckCompletion, WriteStatus,
       DecisionLost, vars
  <2>4. \A d \in Days, k \in Kinds : punches'[d][k].time = punches[d][k].time
    BY <2>1, <2>2, <2>3
  <2> QED
    BY <1>2, <2>4 DEF LastStamp, LastStampOf
<1>3. StampPunch(r) \/ req'[r] = req[r]
  <2>1. CASE req' = req
    BY <2>1
  <2>2. ASSUME NEW q \in Requests,
               \/ \E k \in Tried : BeginPunch(q, k)
               \/ \E note \in Remarks : BeginRemark(q, note)
               \/ GetOrCreateDay(q) \/ ReadPunches(q) \/ StampPunch(q) \/ WritePunch(q)
               \/ WriteRemark(q) \/ RequestLost(q)
        PROVE  StampPunch(r) \/ req'[r] = req[r]
    <3>1. CASE q # r
      BY <2>2, <3>1 DEF BeginPunch, BeginRemark, GetOrCreateDay, ReadPunches, StampPunch,
         WritePunch, WriteRemark, RequestLost, TypeOK
    <3>2. CASE q = r /\ ~StampPunch(q)
      <4>1. CASE (\E k \in Tried : BeginPunch(r, k)) \/ \E note \in Remarks : BeginRemark(r, note)
        BY <3>2, <4>1 DEF BeginPunch, BeginRemark, TypeOK
      <4>2. CASE WritePunch(r) \/ WriteRemark(r) \/ RequestLost(r)
        BY <3>2, <4>2 DEF WritePunch, WriteRemark, RequestLost, TypeOK, Idle
      <4>3. CASE GetOrCreateDay(r)
        BY <3>2, <4>3, RequestTypes DEF GetOrCreateDay, TypeOK, PunchReqs, RemarkReqs
      <4>4. CASE ReadPunches(r)
        BY <3>2, <4>4, RequestTypes DEF ReadPunches, TypeOK, PunchReqs, Idle
      <4> QED
        BY <2>2, <3>2, <4>1, <4>2, <4>3, <4>4
    <3> QED
      BY <3>1, <3>2
  <2> QED
    BY <2>1, <2>2
    DEF Next, Tick, EditStudent, RequestStep, BeginDecision, BeginStatus, DecisionStep,
        LockStudent, ReadHours, DecidePunch, CheckCompletion, Commit, WriteStatus, DecisionLost,
        vars
<1> QED
  BY <1>1, <1>2, <1>3

\* A sum of no smaller terms is no smaller.
LEMMA TotalGrows ==
  ASSUME NEW S, NEW f, NEW g, IntegersOn(f, S), IntegersOn(g, S), \A x \in S : f[x] <= g[x]
  PROVE  Total(f, S) <= Total(g, S)
<1> DEFINE F == {T \in SUBSET S : Total(f, T) <= Total(g, T)}
<1>1. ASSUME NEW T \in SUBSET S, \A x \in T : T \ {x} \in F
      PROVE  T \in F
  <2>1. CASE T = {}
    <3>1. Total(f, T) = 0 /\ Total(g, T) = 0
      BY <2>1, TotalAdds
    <3> QED
      BY <3>1
  <2>2. CASE T # {}
    <3>1. PICK x \in T : TRUE
      BY <2>2
    <3>2. /\ Total(f, T) = f[x] + Total(f, T \ {x})
          /\ Total(g, T) = g[x] + Total(g, T \ {x})
      BY <3>1, TotalAdds
    <3>3. /\ f[x] \in Int /\ g[x] \in Int
          /\ Total(f, T \ {x}) \in Int /\ Total(g, T \ {x}) \in Int
      BY <3>1, TotalAdds DEF IntegersOn
    <3>4. Total(f, T \ {x}) <= Total(g, T \ {x}) /\ f[x] <= g[x]
      BY <1>1, <3>1
    <3>5. Total(f, T) <= Total(g, T)
      BY <3>2, <3>3, <3>4
    <3> QED
      BY <3>5
  <2> QED
    BY <2>1, <2>2
<1>2. F = SUBSET S
  <2> HIDE DEF F
  <2>1. F \in SUBSET SUBSET S
    BY DEF F
  <2> QED
    BY <1>1, <2>1, AllSubsets DEF IntegersOn
<1> QED
  BY <1>2

\* A figure of more ticks is no smaller, and that of none is 0.
LEMMA RoundsGrow ==
  ASSUME NEW t \in Int, NEW u \in Int, t <= u
  PROVE  RoundHours(t) <= RoundHours(u)
<1> DEFINE n == 2 * TicksPerCent
<1>1. n \in Nat \ {0} /\ TicksPerCent \in Nat
  BY TicksPerCentAssumption
<1>2. /\ 2 * t + TicksPerCent \in Int /\ 2 * u + TicksPerCent \in Int
      /\ 2 * t + TicksPerCent <= 2 * u + TicksPerCent
  BY <1>1
<1> HIDE DEF n
<1>3. (2 * t + TicksPerCent) \div n <= (2 * u + TicksPerCent) \div n
  BY <1>1, <1>2, QuotientsGrow
<1> QED
  BY <1>3 DEF RoundHours, n

LEMMA RoundsNothing == RoundHours(0) = 0
<1> DEFINE n == 2 * TicksPerCent
<1>1. n \in Nat \ {0} /\ TicksPerCent \in Int /\ n * 0 <= TicksPerCent /\ TicksPerCent < n * 0 + n
  BY TicksPerCentAssumption
<1>2. 2 * 0 + TicksPerCent = TicksPerCent
  BY <1>1
<1> HIDE DEF n
<1>3. 0 = TicksPerCent \div n
  BY <1>1, QuotientIsUnique
<1> QED
  BY <1>2, <1>3 DEF RoundHours, n

\* Hours are a figure of the ticks of the days.
LEMMA HoursOfTicks ==
  ASSUME NEW p \in [Days -> [Kinds -> Punches]]
  PROVE  LET f == [d \in Days |-> ApprovedTicks(p[d])]
         IN  /\ IntegersOn(f, Days)
             /\ \A d \in Days : f[d] \in Nat
             /\ Total(f, Days) \in Int
             /\ TotalApproved(p) = RoundHours(Total(f, Days))
<1> DEFINE f == [d \in Days |-> ApprovedTicks(p[d])]
<1>1. \A d \in Days : ApprovedTicks(p[d]) \in Nat
  BY TicksOfDay
<1>2. IntegersOn(f, Days) /\ \A d \in Days : f[d] \in Nat
  BY <1>1, DaysAreFinite DEF IntegersOn
<1>3. TotalApproved(p) = RoundHours(SumFunction(f))
  BY DEF TotalApproved
<1> HIDE DEF f
<1>4. Total(f, Days) \in Int /\ SumFunction(f) = Total(f, Days)
  BY <1>2, TotalAdds
<1>5. TotalApproved(p) = RoundHours(Total(f, Days))
  BY <1>3, <1>4
<1> QED
  BY <1>2, <1>4, <1>5 DEF f

\* Approving punches takes no hours away.
LEMMA ApprovalsAdd ==
  ASSUME NEW p \in [Days -> [Kinds -> Punches]], NEW q \in [Days -> [Kinds -> Punches]],
         \A d \in Days, k \in Kinds :
           /\ q[d][k].time = p[d][k].time
           /\ p[d][k].status = "APPROVED" => q[d][k].status = "APPROVED"
  PROVE  TotalApproved(p) <= TotalApproved(q)
<1> DEFINE f == [d \in Days |-> ApprovedTicks(p[d])]
           g == [d \in Days |-> ApprovedTicks(q[d])]
<1>1. ASSUME NEW d \in Days PROVE ApprovedTicks(p[d]) <= ApprovedTicks(q[d])
  <2>1. \A s \in Sessions : InKind[s] \in Kinds /\ OutKind[s] \in Kinds
    BY DEF Sessions, InKind, OutKind, Kinds
  <2>2. \A s \in Sessions : /\ SessionTicks(q[d], s) = SessionTicks(p[d], s)
                            /\ ApprovedPair(p[d], s) => ApprovedPair(q[d], s)
                            /\ SessionTicks(p[d], s) \in Nat
    BY <2>1, TicksAreNat DEF ApprovedPair, SessionTicks
  <2>3. "AM" \in Sessions /\ "PM" \in Sessions
    BY DEF Sessions
  <2> QED
    BY <2>2, <2>3, TicksOfDay
<1>2. /\ IntegersOn(f, Days) /\ Total(f, Days) \in Int
      /\ TotalApproved(p) = RoundHours(Total(f, Days))
  BY HoursOfTicks
<1>3. /\ IntegersOn(g, Days) /\ Total(g, Days) \in Int
      /\ TotalApproved(q) = RoundHours(Total(g, Days))
  BY HoursOfTicks
<1>4. \A d \in Days : f[d] <= g[d]
  BY <1>1
<1> HIDE DEF f, g
<1>5. Total(f, Days) <= Total(g, Days)
  BY <1>2, <1>3, <1>4, TotalGrows
<1> QED
  BY <1>2, <1>3, <1>5, RoundsGrow

\* Hours are never negative, and where nothing is approved there are none.
LEMMA HoursAreNat ==
  ASSUME NEW p \in [Days -> [Kinds -> Punches]]
  PROVE  /\ TotalApproved(p) \in Nat
         /\ (\A d \in Days, k \in Kinds : p[d][k].status # "APPROVED") => TotalApproved(p) = 0
<1> DEFINE f == [d \in Days |-> ApprovedTicks(p[d])]
           z == [d \in Days |-> 0]
<1>1. /\ IntegersOn(f, Days) /\ Total(f, Days) \in Int
      /\ TotalApproved(p) = RoundHours(Total(f, Days))
      /\ \A d \in Days : f[d] \in Nat
  BY HoursOfTicks
<1>2. IntegersOn(z, Days) /\ (\A d \in Days : z[d] = 0) /\ Days \in SUBSET Days
  BY DaysAreFinite DEF IntegersOn
<1>3. ASSUME \A d \in Days, k \in Kinds : p[d][k].status # "APPROVED"
      PROVE  \A d \in Days : f[d] = 0
  <2>1. "AM" \in Sessions /\ "PM" \in Sessions /\ \A s \in Sessions : InKind[s] \in Kinds
    BY DEF Sessions, InKind, Kinds
  <2>2. \A d \in Days : ~ApprovedPair(p[d], "AM") /\ ~ApprovedPair(p[d], "PM")
    BY <1>3, <2>1 DEF ApprovedPair
  <2> QED
    BY <2>2, TicksOfDay
<1>4. \A d \in Days : z[d] <= f[d]
  BY <1>1
<1> HIDE DEF f, z
<1>5. Total(z, Days) = 0
  BY <1>2, TotalOfZeros
<1>6. 0 <= Total(f, Days)
  BY <1>1, <1>2, <1>4, <1>5, TotalGrows
<1>7. RoundHours(Total(f, Days)) \in Int /\ 0 <= RoundHours(Total(f, Days))
  BY <1>1, <1>6, RoundsGrow, RoundsNothing, Rounding
<1>8. ASSUME \A d \in Days : f[d] = 0 PROVE Total(f, Days) = 0
  BY <1>1, <1>2, <1>8, TotalOfZeros
<1> QED
  BY <1>1, <1>3, <1>7, <1>8, RoundsNothing

CardInv ==
  /\ TypeOK /\ RowsHeld /\ LockHeld /\ ReadsStand
  /\ SequentialSessions /\ StampsInOrder /\ DaysReached /\ LastStamp

LEMMA InitCard == Init => CardInv /\ Card!Init
<1> SUFFICES ASSUME Init PROVE CardInv /\ Card!Init
  OBVIOUS
<1>1. CardInv
  BY InitTypeOK, InitRowsHeld, InitReads, InitInOrder, InitDaysReached, InitLastStamp
  DEF CardInv
<1>2. /\ punches = [d \in Days |-> [k \in Kinds |-> NoPunch]]
      /\ student.status = "ACTIVE"
      /\ student.required \in Nat
  <2>1. PICK e \in Establishments, h \in CourseHours, s \in StartDays :
          student = [status |-> "ACTIVE", establishment |-> e, required |-> h, start |-> s]
    BY DEF Init
  <2> QED
    BY <2>1, ConstantsAssumption DEF Init
<1>3. punches \in [Days -> [Kinds -> Punches]]
  BY <1>1 DEF CardInv, TypeOK
<1>4. \A d \in Days, k \in Kinds : punches[d][k].status # "APPROVED"
  BY <1>2 DEF NoPunch
<1>5. Hours = 0
  BY <1>3, <1>4, HoursAreNat DEF Hours
<1> QED
  BY <1>1, <1>2, <1>5 DEF Card!Init, NoPunch

\* A write that finds the row as it was read is a punch of the card; any other is
\* none.
LEMMA WriteIsPunch ==
  ASSUME CardInv, TypeOK', NEW r \in Requests, WritePunch(r), punches' # punches
  PROVE  Card!Punch(req[r].day, req[r].kind) /\ req[r].day \in Days /\ req[r].kind \in Kinds
<1> DEFINE d == req[r].day
           k == req[r].kind
           t == req[r].time
<1>1. d \in Days /\ k \in Kinds /\ t \in Times
  BY RequestTypes DEF CardInv, WritePunch, PunchReqs
<1>2. punches' = [punches EXCEPT ![d][k] = [status |-> "PENDING", time |-> t, by |-> NoOne]]
  BY DEF WritePunch
<1>3. punches[d][k].status \in {"NONE", "DECLINED"}
  BY DEF WritePunch
<1>4. student' = student
  BY DEF WritePunch
<1>5. Hours' = Hours
  BY WritePunchKeeps, HoursKept DEF CardInv
<1>6. ASSUME NEW j \in Kinds, <<k, j>> \in {jk \in Kinds \X Kinds : Precedes(jk[1], jk[2])}
      PROVE  punches[d][j].status \in {"NONE", "DECLINED"}
  <2>1. Precedes(k, j)
    BY <1>6
  <2>2. ~Stands(punches[d], j)
    BY <2>1 DEF CardInv, StampsInOrder, WritePunch
  <2>3. punches[d][j].status \in PunchStatuses
    BY <1>1 DEF CardInv, TypeOK, Punches
  <2> QED
    BY <2>2, <2>3 DEF Stands, PunchStatuses
<1>7. /\ d <= [x \in Times |-> DayOf(x)][t]
      /\ \A e \in Days, j \in Kinds : punches[e][j].time <= t
  BY <1>1 DEF CardInv, LastStamp, LastStampOf, WritePunch
<1> HIDE DEF d, k, t
<1>8. Card!Punch(d, k)
  BY <1>1, <1>2, <1>3, <1>4, <1>5, <1>6, <1>7 DEF Card!Punch
<1> QED
  BY <1>1, <1>8 DEF d, k

\* A commit is a decision of the card.
LEMMA CommitIsDecision ==
  ASSUME CardInv, TypeOK', [Next]_vars, NEW c \in Decisions, Commit(c)
  PROVE  /\ Card!Decide(dec[c].day, dec[c].kind, dec[c].op)
         /\ dec[c].day \in Days /\ dec[c].kind \in Kinds /\ dec[c].op \in Ops
<1> DEFINE d == dec[c].day
           k == dec[c].kind
           op == dec[c].op
           e == dec[c].est
<1>1. d \in Days /\ k \in Kinds /\ op \in Ops /\ e \in Establishments
  BY DecisionTypes DEF CardInv, Commit, Decs
<1>2. punches[d][k].status = "PENDING" /\ punches[d][k] \in Punches
  BY <1>1 DEF CardInv, RowsHeld, Holds, Commit, TypeOK
<1>3. punches' = [punches EXCEPT ![d][k] = [status |-> op, time |-> punches[d][k].time, by |-> e]]
  <2>1. punches' = [punches EXCEPT ![d][k] = [@ EXCEPT !.status = op, !.by = e]]
    BY DEF Commit, Decided
  <2> DEFINE new == [punches[d][k] EXCEPT !.status = op, !.by = e]
  <2>2. new \in Punches /\ new.status = op /\ new.time = punches[d][k].time /\ new.by = e
    BY <1>1, <1>2 DEF Punches, PunchStatuses, Ops
  <2>3. new = [status |-> op, time |-> punches[d][k].time, by |-> e]
    <3> HIDE DEF new
    <3> QED
      BY <2>2 DEF Punches
  <2> QED
    BY <2>1, <2>3
<1>4. Hours \in Nat /\ Hours' \in Nat
  BY HoursAreNat DEF CardInv, TypeOK, Hours
<1>5. IF op = "APPROVED" THEN Hours' \in Nat /\ Hours <= Hours' ELSE Hours' = Hours
  <2>1. CASE op = "APPROVED"
    <3>1. \A x \in Days, y \in Kinds :
            /\ punches'[x][y].time = punches[x][y].time
            /\ punches[x][y].status = "APPROVED" => punches'[x][y].status = "APPROVED"
      BY <2>1, CommitEffect DEF CardInv
    <3>2. punches \in [Days -> [Kinds -> Punches]] /\ punches' \in [Days -> [Kinds -> Punches]]
      BY DEF CardInv, TypeOK
    <3> QED
      BY <1>4, <2>1, <3>1, <3>2, ApprovalsAdd DEF Hours
  <2>2. CASE op = "DECLINED"
    BY <2>2, DeclineKeeps, HoursKept DEF CardInv
  <2> QED
    BY <1>1, <2>1, <2>2 DEF Ops
<1>6. punches' # punches
  <2>1. punches'[d][k].status = op
    BY <1>1, CommitEffect DEF CardInv
  <2> QED
    BY <1>1, <1>2, <2>1 DEF Ops
<1>7. student.required \in Nat /\ student'.required = student.required
  BY DEF CardInv, TypeOK, Students, Commit
<1>8. student'.status = IF /\ 0 < student.required /\ Hours < student.required
                           /\ student.required <= Hours'
                           /\ student.status = "ACTIVE"
                        THEN "COMPLETED" ELSE student.status
  <2>1. CompletesOnTime
    BY <1>6, StepCompletes DEF CardInv
  <2>2. ~(Hours' < student.required) <=> student.required <= Hours'
    BY <1>4, <1>7
  <2> QED
    BY <2>1, <2>2 DEF CompletesOnTime
<1> HIDE DEF d, k, op, e
<1>9. Card!Decide(d, k, op)
  BY <1>1, <1>2, <1>3, <1>5, <1>7, <1>8 DEF Card!Decide, Card!Crossed
<1> QED
  BY <1>1, <1>9 DEF d, k, op

\* Whatever else happens is hidden from the card, or an edit by hand.
LEMMA StepOfCard ==
  ASSUME CardInv, TypeOK', [Next]_vars
  PROVE  Card!Next
<1>1. CASE punches' = punches
  <2>1. Hours' = Hours
    BY <1>1 DEF Hours
  <2>2. student' \in Students
    BY DEF TypeOK
  <2>3. Card!Edit
    BY <1>1, <2>1, <2>2 DEF Card!Edit, Students, StudentStatuses
  <2> QED
    BY <2>3 DEF Card!Next
<1>2. ASSUME NEW r \in Requests, WritePunch(r), punches' # punches PROVE Card!Next
  BY <1>2, WriteIsPunch DEF Card!Next
<1>3. ASSUME NEW c \in Decisions, Commit(c) PROVE Card!Next
  BY <1>3, CommitIsDecision DEF Card!Next, Ops
<1>4. \/ punches' = punches
      \/ \E r \in Requests : WritePunch(r)
      \/ \E c \in Decisions : Commit(c)
  BY DEF Next, Tick, EditStudent, BeginPunch, BeginRemark, RequestStep, GetOrCreateDay,
     ReadPunches, StampPunch, WriteRemark, RequestLost, BeginDecision, BeginStatus,
     DecisionStep, LockStudent, ReadHours, DecidePunch, CheckCompletion, WriteStatus,
     DecisionLost, vars
<1> QED
  BY <1>1, <1>2, <1>3, <1>4

\* While the client keeps one punch in flight, the rows, the lock and the handlers
\* implement a card on which a punch and a decision are single moments, for any
\* number of decisions, days and re-punches (punch, decidePunch).
THEOREM AttendanceRefinesTimeCard ==
  ASSUME OnePunchAtATime PROVE Spec => RefinesTimeCard
<1>1. Init => CardInv /\ Card!Init
  BY InitCard
<1>2. CardInv /\ [Next]_vars => CardInv'
  BY OnePunchAtATime, NextTypeOK, NextRowsHeld, NextLockHeld, NextReadsStand, NextInOrder,
     NextDaysReached, NextLastStamp
  DEF CardInv
<1>3. CardInv /\ [Next]_vars => Card!Next
  <2>1. CardInv /\ [Next]_vars => TypeOK'
    BY NextTypeOK DEF CardInv
  <2> QED
    BY <2>1, StepOfCard
<1> QED
  BY <1>1, <1>2, <1>3, PTL DEF Spec, RefinesTimeCard, Card!Spec

=============================================================================

----------------------------- MODULE Attendance -----------------------------
(***************************************************************************)
(* One student's live attendance: the student's punch and remark requests, *)
(* the decisions of the supervisors of the establishments on each punch,   *)
(* the automatic completion when approved hours reach the requirement, and *)
(* the hand edits of the student row that race with all of them.           *)
(*                                                                         *)
(* The database is PostgreSQL at READ COMMITTED.  dayRows, punches and     *)
(* student are its committed rows; every other variable is the local state *)
(* of a handler between two awaits.  Two students share no row that a      *)
(* handler here writes, so one student is enough.                          *)
(***************************************************************************)
EXTENDS Integers, PunchRules

CONSTANTS
  Requests,            \* the student's HTTP requests that can be in flight
  Decisions,           \* the supervisors' HTTP requests that can be in flight
  Establishments,      \* each has one supervisor, named by its establishment
  NoOne,               \* no establishment; no decider
  NoTx,                \* nobody holds the lock on the student row
  CourseHours,         \* required hours of the courses, in hundredths; 0 unset
  StartDays,           \* start dates a coordinator may set
  HandStatuses,        \* statuses that may be set by hand
  Remarks,             \* what a remark request does to the day's remark
  Tried,               \* kinds the student tries to punch
  DayLength,           \* ticks in a Manila calendar day
  MaxClock,            \* bound on the server's clock
  OnePunchAtATime      \* TRUE: the client keeps one punch in flight

StudentStatuses == {"ACTIVE", "PENDING", "COMPLETED", "INACTIVE"}

ASSUME ConstantsAssumption ==
  /\ NoOne \notin Establishments
  /\ NoTx \notin Decisions
  /\ CourseHours \subseteq Nat
  /\ StartDays \subseteq Int
  /\ HandStatuses \subseteq StudentStatuses
  /\ Remarks \subseteq {"blank", "noted"}
  /\ Tried \subseteq Kinds
  /\ DayLength \in Nat \ {0}
  /\ MaxClock \in Nat
  /\ OnePunchAtATime \in BOOLEAN

Times == 0 .. MaxClock

DayOf(t) == t \div DayLength

Days == {DayOf(t) : t \in Times}

PunchStatuses == {"NONE", "PENDING", "APPROVED", "DECLINED"}

Punches == [status : PunchStatuses,
            time   : Times,
            by     : Establishments \cup {NoOne}]

NoPunch == [status |-> "NONE", time |-> 0, by |-> NoOne]

Students == [status        : StudentStatuses,
             establishment : Establishments \cup {NoOne},
             required      : Nat,
             start         : Int]

VARIABLES
  clock,     \* the server's clock, in ticks
  student,   \* the Student row
  dayRows,   \* Attendance rows: absent, blank, or noted with a remark
  punches,   \* AttendancePunch rows by day and kind
  req,       \* the student's requests
  dec,       \* the supervisors' requests
  lock       \* holder of the FOR UPDATE lock on the student row

vars == <<clock, student, dayRows, punches, req, dec, lock>>

Idle == [pc |-> "idle"]

\* A punch request: the day it read from the clock, whether the kind already
\* has a (declined) row, and the time stamped on it.
PunchReqs == [pc : {"day", "read", "stamp", "write"}, day : Days, kind : Kinds,
              again : BOOLEAN, time : Times]

RemarkReqs == [pc : {"remarkDay", "remark"}, day : Days, note : Remarks]

Ops == {"APPROVED", "DECLINED"}

\* A decision on a punch.  The last three fields belong to approvals: the
\* requirement, whether the hours were below it before this approval, and
\* whether this approval completes the student.
Decs == [pc : {"lock", "hours", "decide", "after", "commit"}, op : Ops,
         est : Establishments, day : Days, kind : Kinds,
         required : Nat, below : BOOLEAN, completes : BOOLEAN]

\* A supervisor may set two of the statuses, the coordinator all four.
SupervisorStatuses == {"ACTIVE", "COMPLETED"} \cap HandStatuses

StatusReqs == [pc : {"status"}, to : SupervisorStatuses]

TypeOK ==
  /\ clock \in Times
  /\ student \in Students
  /\ dayRows \in [Days -> {"absent", "blank", "noted"}]
  /\ punches \in [Days -> [Kinds -> Punches]]
  /\ req \in [Requests -> PunchReqs \cup RemarkReqs \cup {Idle}]
  /\ dec \in [Decisions -> Decs \cup StatusReqs \cup {Idle}]
  /\ lock \in Decisions \cup {NoTx}

Init ==
  /\ clock = 0
  /\ \E e \in Establishments, h \in CourseHours, s \in StartDays :
       student = [status |-> "ACTIVE", establishment |-> e,
                  required |-> h, start |-> s]
  /\ dayRows = [d \in Days |-> "absent"]
  /\ punches = [d \in Days |-> [k \in Kinds |-> NoPunch]]
  /\ req = [r \in Requests |-> Idle]
  /\ dec = [d \in Decisions |-> Idle]
  /\ lock = NoTx

-----------------------------------------------------------------------------
\* Operators named Broken... are the slips each property is tried against:
\* no specification uses them.

\* Nobody holds the student row FOR UPDATE, so it can be locked or written.
BrokenRowFree == TRUE
StudentRowFree == lock = NoTx

-----------------------------------------------------------------------------
\* The student's requests.

Today == DayOf(clock)

Tick ==
  /\ clock < MaxClock
  /\ clock' = clock + 1
  /\ UNCHANGED <<student, dayRows, punches, req, dec, lock>>

\* attendanceBlockedReason finds nothing against this student row.
MayLog(s) ==
  /\ s.status # "COMPLETED"
  /\ s.establishment # NoOne
  /\ s.start <= Today

Punching(r) == req[r].pc \in {"day", "read", "stamp", "write"}

\* punch: read the student row and today's date, refuse a blocked student.
BeginPunch(r, k) ==
  /\ req[r] = Idle
  /\ OnePunchAtATime => \A q \in Requests : ~Punching(q)
  /\ MayLog(student)
  /\ req' = [req EXCEPT ![r] = [pc |-> "day", day |-> Today, kind |-> k,
                                again |-> FALSE, time |-> 0]]
  /\ UNCHANGED <<clock, student, dayRows, punches, dec, lock>>

\* updateTodayRemarks: the same blocks.
BeginRemark(r, note) ==
  /\ req[r] = Idle
  /\ MayLog(student)
  /\ req' = [req EXCEPT ![r] = [pc |-> "remarkDay", day |-> Today, note |-> note]]
  /\ UNCHANGED <<clock, student, dayRows, punches, dec, lock>>

\* getOrCreateDay.  Inserting the row takes a key lock on its student row,
\* which waits for a transaction that holds the row FOR UPDATE.
GetOrCreateDay(r) ==
  /\ req[r].pc \in {"day", "remarkDay"}
  /\ dayRows[req[r].day] = "absent" => StudentRowFree
  /\ dayRows' = [dayRows EXCEPT ![req[r].day] = IF @ = "absent" THEN "blank" ELSE @]
  /\ req' = [req EXCEPT ![r].pc = IF @ = "day" THEN "read" ELSE "remark"]
  /\ UNCHANGED <<clock, student, punches, dec, lock>>

\* Read the day's punches and ask punchAvailability; a refusal ends the request.
ReadPunches(r) ==
  /\ req[r].pc = "read"
  /\ LET day == punches[req[r].day]
         k   == req[r].kind
     IN  req' = [req EXCEPT ![r] =
           IF MayPunch(day, k)
           THEN [req[r] EXCEPT !.pc = "stamp", !.again = day[k].status = "DECLINED"]
           ELSE Idle]
  /\ UNCHANGED <<clock, student, dayRows, punches, dec, lock>>

\* const now = new Date(), once the answer to the read has arrived.
StampPunch(r) ==
  /\ req[r].pc = "stamp"
  /\ req' = [req EXCEPT ![r].pc = "write", ![r].time = clock]
  /\ UNCHANGED <<clock, student, dayRows, punches, dec, lock>>

\* Overwrite a row that is still DECLINED, or insert a row unless the unique
\* index finds one.  Otherwise nothing is written and the answer is a 409.
WritePunch(r) ==
  /\ req[r].pc = "write"
  /\ LET d == req[r].day
         k == req[r].kind
         expected == IF req[r].again THEN "DECLINED" ELSE "NONE"
     IN  punches' = IF punches[d][k].status = expected
                    THEN [punches EXCEPT ![d][k] = [status |-> "PENDING",
                                                    time   |-> req[r].time,
                                                    by     |-> NoOne]]
                    ELSE punches
  /\ req' = [req EXCEPT ![r] = Idle]
  /\ UNCHANGED <<clock, student, dayRows, dec, lock>>

\* The remark is set or cleared.
WriteRemark(r) ==
  /\ req[r].pc = "remark"
  /\ dayRows' = [dayRows EXCEPT ![req[r].day] = req[r].note]
  /\ req' = [req EXCEPT ![r] = Idle]
  /\ UNCHANGED <<clock, student, punches, dec, lock>>

\* The connection or the process is lost between two awaits.
RequestLost(r) ==
  /\ req[r] # Idle
  /\ req' = [req EXCEPT ![r] = Idle]
  /\ UNCHANGED <<clock, student, dayRows, punches, dec, lock>>

-----------------------------------------------------------------------------
\* The supervisors' decisions.

\* The rows as transaction d sees them: committed, with its own update on top.
Decided(d) ==
  [punches EXCEPT ![dec[d].day][dec[d].kind] =
     [@ EXCEPT !.status = dec[d].op, !.by = dec[d].est]]

Hours == TotalApproved(punches)

\* The ownership check: some supervisor's establishment is the student's.
Supervised == student.establishment # NoOne

\* decidePunch before its transaction: the punch exists and its student is at
\* the caller's establishment.  Only an approval will lock the student row.
BeginDecision(d, op, day, k) ==
  /\ dec[d] = Idle
  /\ punches[day][k].status # "NONE"
  /\ Supervised
  /\ dec' = [dec EXCEPT ![d] =
       [pc |-> IF op = "APPROVED" THEN "lock" ELSE "decide", op |-> op,
        est |-> student.establishment, day |-> day, kind |-> k,
        required |-> 0, below |-> FALSE, completes |-> FALSE]]
  /\ UNCHANGED <<clock, student, dayRows, punches, req, lock>>

\* SELECT ... FOR UPDATE on the student row.
LockStudent(d) ==
  /\ dec[d].pc = "lock"
  /\ StudentRowFree
  /\ lock' = d
  /\ dec' = [dec EXCEPT ![d].pc = "hours"]
  /\ UNCHANGED <<clock, student, dayRows, punches, req>>

\* Only the approval that crosses the line completes: the hours were below the
\* requirement before it.  A requirement of 0 is not set, never already met.
Below(required, before) == required > 0 /\ before < required

\* The requirement and the approved hours before this approval.
ReadHours(d) ==
  /\ dec[d].pc = "hours"
  /\ dec' = [dec EXCEPT ![d].pc = "decide", ![d].required = student.required,
                        ![d].below = Below(student.required, Hours)]
  /\ UNCHANGED <<clock, student, dayRows, punches, req, lock>>

\* An uncommitted decision of another transaction locks the punch row.
RowLocked(d) ==
  \E e \in Decisions \ {d} :
    /\ dec[e].pc \in {"after", "commit"}
    /\ dec[e].day = dec[d].day
    /\ dec[e].kind = dec[d].kind

BrokenReleased(d) == lock
Released(d) == IF lock = d THEN NoTx ELSE lock

\* The filter of the decision's updateMany: status = PENDING.
BrokenDecidable(d) == punches[dec[d].day][dec[d].kind].status # "NONE"
Decidable(d) == punches[dec[d].day][dec[d].kind].status = "PENDING"

\* updateMany where status = PENDING.  No row: a 409, and the rollback.
DecidePunch(d) ==
  /\ dec[d].pc = "decide"
  /\ ~RowLocked(d)
  /\ IF Decidable(d)
     THEN /\ dec' = [dec EXCEPT ![d].pc = IF dec[d].op = "APPROVED" THEN "after"
                                          ELSE "commit"]
          /\ UNCHANGED lock
     ELSE /\ dec' = [dec EXCEPT ![d] = Idle]
          /\ lock' = Released(d)
  /\ UNCHANGED <<clock, student, dayRows, punches, req>>

\* after >= requiredHours, as the negation of after < requiredHours: the proofs
\* then need no fact about what a sum over the days is.
Reached(required, hours) == ~(hours < required)

\* The hours again, now with this approval, and the update where ACTIVE.
CheckCompletion(d) ==
  /\ dec[d].pc = "after"
  /\ dec' = [dec EXCEPT ![d].pc = "commit",
                        ![d].completes = /\ dec[d].below
                                         /\ Reached(dec[d].required, TotalApproved(Decided(d)))
                                         /\ student.status = "ACTIVE"]
  /\ UNCHANGED <<clock, student, dayRows, punches, req, lock>>

Commit(d) ==
  /\ dec[d].pc = "commit"
  /\ punches' = Decided(d)
  /\ student' = IF dec[d].completes THEN [student EXCEPT !.status = "COMPLETED"]
                ELSE student
  /\ dec' = [dec EXCEPT ![d] = Idle]
  /\ lock' = Released(d)
  /\ UNCHANGED <<clock, dayRows, req>>

\* setStudentStatus: the ownership check on one read, then the update.
BeginStatus(d, to) ==
  /\ dec[d] = Idle
  /\ Supervised
  /\ dec' = [dec EXCEPT ![d] = [pc |-> "status", to |-> to]]
  /\ UNCHANGED <<clock, student, dayRows, punches, req, lock>>

WriteStatus(d) ==
  /\ dec[d].pc = "status"
  /\ StudentRowFree
  /\ student' = [student EXCEPT !.status = dec[d].to]
  /\ dec' = [dec EXCEPT ![d] = Idle]
  /\ UNCHANGED <<clock, dayRows, punches, req, lock>>

\* A timeout, a lost connection or a crash: the transaction rolls back.
DecisionLost(d) ==
  /\ dec[d] # Idle
  /\ dec' = [dec EXCEPT ![d] = Idle]
  /\ lock' = Released(d)
  /\ UNCHANGED <<clock, student, dayRows, punches, req>>

-----------------------------------------------------------------------------
\* updateStudent: the coordinator moves the student, changes the course (and
\* the hours with it), the start date or the status.  The update waits for the
\* row.  Only this handler writes the course, so with one edit at a time its
\* earlier read of the row adds nothing.
EditStudent ==
  /\ StudentRowFree
  /\ \E e \in Establishments \cup {NoOne}, h \in CourseHours \cup {student.required},
        s \in StartDays, st \in HandStatuses \cup {student.status} :
       student' = [status |-> st, establishment |-> e, required |-> h, start |-> s]
  /\ UNCHANGED <<clock, dayRows, punches, req, dec, lock>>

RequestStep(r) ==
  \/ GetOrCreateDay(r)
  \/ ReadPunches(r)
  \/ StampPunch(r)
  \/ WritePunch(r)
  \/ WriteRemark(r)

DecisionStep(d) ==
  \/ LockStudent(d)
  \/ ReadHours(d)
  \/ DecidePunch(d)
  \/ CheckCompletion(d)
  \/ Commit(d)
  \/ WriteStatus(d)

Next ==
  \/ Tick
  \/ EditStudent
  \/ \E r \in Requests :
       \/ \E k \in Tried : BeginPunch(r, k)
       \/ \E note \in Remarks : BeginRemark(r, note)
       \/ RequestStep(r)
       \/ RequestLost(r)
  \/ \E d \in Decisions :
       \/ \E op \in Ops, day \in Days, k \in Kinds : BeginDecision(d, op, day, k)
       \/ \E to \in SupervisorStatuses : BeginStatus(d, to)
       \/ DecisionStep(d)
       \/ DecisionLost(d)

Spec == Init /\ [][Next]_vars

(***************************************************************************)
(* A handler that has begun keeps being scheduled by the event loop, and   *)
(* PostgreSQL queues the waiters of a row lock, so a step that is enabled  *)
(* again and again is taken: strong fairness for the steps that wait.      *)
(***************************************************************************)
Fairness ==
  /\ \A r \in Requests : SF_vars(RequestStep(r))
  /\ \A d \in Decisions : SF_vars(DecisionStep(d))

FairSpec == Spec /\ Fairness

-----------------------------------------------------------------------------
\* Properties.

\* The first kind must come before the second.
Precedes(j, k) ==
  <<j, k>> \in {<<"TIME_IN_AM", "TIME_OUT_AM">>, <<"TIME_IN_PM", "TIME_OUT_PM">>,
                <<"TIME_OUT_AM", "TIME_IN_PM">>, <<"TIME_IN_AM", "TIME_IN_PM">>}

\* Whatever was declined and punched again in between, the standing punches of
\* a day are in order: In before Out, morning before afternoon.  The punch
\* rules compare no clocks, so this rests on the order of stamps alone
\* (attendance-hours.ts, punchAvailability).
SequentialSessions ==
  \A d \in Days : \A j, k \in Kinds :
    /\ Precedes(j, k)
    /\ Stands(punches[d], j)
    /\ Stands(punches[d], k)
    => punches[d][j].time <= punches[d][k].time

\* No moment is counted twice: the approved ticks of a day fit between two of
\* its approved punches (attendance-hours.ts, approvedHoursForDay).
HoursFitTheDay ==
  \A d \in Days :
    ApprovedTicks(punches[d]) > 0 =>
      \E j, k \in Kinds :
        /\ punches[d][j].status = "APPROVED"
        /\ punches[d][k].status = "APPROVED"
        /\ ApprovedTicks(punches[d]) <= punches[d][k].time - punches[d][j].time

\* A decision is final: an approved punch never changes, a declined one only
\* by being punched again, which clears its decider, and only the supervisors
\* decide, only pending punches (decidePunch, punch).
DecisionsFinal ==
  [][\A d \in Days, k \in Kinds :
       LET old == punches[d][k]
           new == punches'[d][k]
       IN  new # old =>
             \/ /\ old.status \in {"NONE", "DECLINED"}
                /\ new.status = "PENDING"
                /\ new.by = NoOne
             \/ /\ old.status = "PENDING"
                /\ new.status \in {"APPROVED", "DECLINED"}
                /\ new.time = old.time
                /\ new.by # NoOne]_vars

\* A step that changes punches changes the status of the student exactly when
\* it takes the approved hours of an ACTIVE student over the requirement, and
\* then to COMPLETED.  Without the lock two approvals that are each one half of
\* a session would both see it incomplete (decidePunch, lockAndReadHours).
AutoCompletion ==
  [][punches' # punches =>
       student'.status =
         IF /\ student.status = "ACTIVE"
            /\ 0 < student.required
            /\ Hours < student.required
            /\ ~(Hours' < student.required)
         THEN "COMPLETED" ELSE student.status]_vars

\* The day as it will be if the supervisors approve all that waits.
AllApproved(day) ==
  [k \in Kinds |-> IF day[k].status = "PENDING" THEN [day[k] EXCEPT !.status = "APPROVED"]
                   ELSE day[k]]

\* The pending figure promises what approving all that waits would add, but for
\* the rounding of the two figures (pendingHoursForDay, totalPendingHours).
PendingPromise ==
  LET all == TotalApproved([d \in Days |-> AllApproved(punches[d])])
  IN  all - (Hours + TotalPending(punches)) \in -1 .. 1

\* The card that the rows stand for.
Card == INSTANCE TimeCard WITH
  StampDay <- [t \in Times |-> DayOf(t)],
  Before   <- {jk \in Kinds \X Kinds : Precedes(jk[1], jk[2])},
  card     <- punches,
  hours    <- Hours,
  status   <- student.status,
  required <- student.required

\* The rows, the lock and the handlers implement a card on which punches and
\* decisions are single moments: each stamp is the last, on no day to come and
\* before no kind that follows it; each punch is decided once; the hours never
\* drop, and reaching the requirement completes (punch, decidePunch).
RefinesTimeCard == Card!Spec

\* Every request that has begun ends, whoever else waits for the student row.
RequestsEnd ==
  /\ \A r \in Requests : req[r] # Idle ~> req[r] = Idle
  /\ \A d \in Decisions : dec[d] # Idle ~> dec[d] = Idle

=============================================================================

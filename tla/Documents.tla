----------------------------- MODULE Documents ------------------------------
(***************************************************************************)
(* The documents of one student: rows in the database and objects in the   *)
(* store, which no transaction covers together.  The student uploads,      *)
(* replaces and deletes (student.service.ts); the coordinator deletes the  *)
(* student, alone or in bulk, and the documents with it                    *)
(* (coordinator.service.ts, cascade-delete.ts).                            *)
(*                                                                         *)
(* Two students share no row and no object here, so one is enough.  A      *)
(* request is a record of where its handler is and what it has read; the   *)
(* writes of the cascade's transaction take effect at its commit, and the  *)
(* rows it has deleted by then are locked.                                 *)
(***************************************************************************)
EXTENDS Integers

CONSTANTS
  Requirements,   \* document types
  Documents,      \* ids a document row may get
  Objects,        \* paths a stored object may get; each is used once
  Requests,       \* handlers that may run at once
  NoObject, NoDocument, NoRequirement,
  Faults,         \* what may go wrong: "crash", "storage", "database", "reply"
  MaxFaults       \* how often; bounds the runs

ASSUME DocumentsAssumption ==
  /\ NoObject \notin Objects
  /\ NoDocument \notin Documents
  /\ Faults \subseteq {"crash", "storage", "database", "reply"}
  /\ MaxFaults \in Nat

VARIABLES
  student,     \* status of the student row, or GONE
  documents,   \* document rows
  objects,     \* stored objects
  request,     \* the handlers
  faults       \* how many things have gone wrong so far

vars == <<student, documents, objects, request, faults>>

StudentStatuses == {"ACTIVE", "COMPLETED"}

\* An id that no row has yet, and one that a row had.
Absent == [state |-> "absent"]
Deleted == [state |-> "deleted"]

Row(q, o) == [state |-> "row", type |-> q, file |-> o]

DocumentRows == [state : {"row"}, type : Requirements, file : Objects]

Present(d) == documents[d].state = "row"

\* The row of a requirement (unique on student and type): at most one.
RowsOf(q) == {d \in Documents : Present(d) /\ documents[d].type = q}

AllRows == {d \in Documents : Present(d)}

OnShelf == {documents[d].file : d \in AllRows}

\* An upload, a delete and the deletion of the student, step by step.
Uploading == {"store", "upsert"}
Removing == {"recheck", "list", "erase", "commit", "sweep"}
Steps == Uploading \cup {"row", "drop"} \cup Removing

\* drop is the object a request will delete; files and rows are those that a
\* cascade has listed and deleted.
Requested == [pc : Steps, type : Requirements \cup {NoRequirement},
              document : Documents \cup {NoDocument},
              new : Objects \cup {NoObject}, drop : Objects \cup {NoObject},
              files : SUBSET Objects, rows : SUBSET Documents]

Idle == [pc |-> "idle"]

Busy(r) == request[r] # Idle

TypeOK ==
  /\ student \in StudentStatuses \cup {"GONE"}
  /\ documents \in [Documents -> DocumentRows \cup {Absent, Deleted}]
  /\ objects \in [Objects -> {"NEW", "STORED", "GONE"}]
  /\ request \in [Requests -> Requested \cup {Idle}]
  /\ faults \in 0 .. MaxFaults

Init ==
  /\ student = "ACTIVE"
  /\ documents = [d \in Documents |-> Absent]
  /\ objects = [o \in Objects |-> "NEW"]
  /\ request = [r \in Requests |-> Idle]
  /\ faults = 0

-----------------------------------------------------------------------------
Request(pc) ==
  [pc |-> pc, type |-> NoRequirement, document |-> NoDocument, new |-> NoObject,
   drop |-> NoObject, files |-> {}, rows |-> {}]

Begins(r, req) == ~Busy(r) /\ request' = [request EXCEPT ![r] = req]

Continues(r, pc) == request' = [request EXCEPT ![r].pc = pc]

Ends(r) == request' = [request EXCEPT ![r] = Idle]

\* Go on to delete an object.
DropsThen(r, o) ==
  request' = [request EXCEPT ![r].pc = "drop", ![r].drop = o]

Fault(kind) ==
  /\ kind \in Faults
  /\ faults < MaxFaults
  /\ faults' = faults + 1

\* A row that an uncommitted cascade has deleted is locked.
Locked(d) == \E r \in Requests : request[r].pc = "commit" /\ d \in request[r].rows

BrokenFresh(o) == objects[o] # "GONE"   \* a path that may be in use

\* A path holds a random uuid, so it is like no other.
Fresh(o) == objects[o] = "NEW" /\ \A r \in Requests : Busy(r) => request[r].new # o

-----------------------------------------------------------------------------
\* uploadDocument.

\* Read the student and the row of the requirement, and build a new path.
BeginUpload(r, q) ==
  /\ student # "GONE"
  /\ \E o \in Objects, old \in Objects \cup {NoObject} :
       /\ Fresh(o)
       /\ IF RowsOf(q) = {} THEN old = NoObject
          ELSE \E d \in RowsOf(q) : old = documents[d].file
       /\ Begins(r, [Request("store") EXCEPT !.type = q, !.new = o, !.drop = old])
  /\ UNCHANGED <<student, documents, objects, faults>>

\* uploadFile.  When it fails, the object may have been stored all the same.
StoreObject(r) ==
  /\ request[r].pc = "store"
  /\ \/ /\ objects' = [objects EXCEPT ![request[r].new] = "STORED"]
        /\ \/ Continues(r, "upsert") /\ UNCHANGED faults
           \/ Ends(r) /\ Fault("storage")
     \/ Ends(r) /\ Fault("storage") /\ UNCHANGED objects
  /\ UNCHANGED <<student, documents>>

BrokenSaved(q, o) ==   \* a second row for the requirement
  {[documents EXCEPT ![d] = Row(q, o)] : d \in {e \in Documents : documents[e] = Absent}}

\* The upsert: point the row at the new object, or insert one.
Saved(q, o) ==
  IF RowsOf(q) # {} THEN {[documents EXCEPT ![d].file = o] : d \in RowsOf(q)}
  ELSE {[documents EXCEPT ![d] = Row(q, o)] : d \in {e \in Documents : documents[e] = Absent}}

BrokenAfterSave(r) == [request EXCEPT ![r] = Idle]   \* leaves the old object

\* What is left to do once the row is saved: the object it pointed at.
AfterSave(r) ==
  [request EXCEPT ![r] = IF request[r].drop = NoObject THEN Idle
                         ELSE [request[r] EXCEPT !.pc = "drop"]]

\* A foreign key keeps rows off a deleted student.  In the catch the new object
\* is deleted, also when the row was saved and only the answer was lost.
Upsert(r) ==
  /\ request[r].pc = "upsert"
  /\ \A d \in RowsOf(request[r].type) : ~Locked(d)
  /\ \/ /\ student # "GONE"
        /\ documents' \in Saved(request[r].type, request[r].new)
        /\ \/ request' = AfterSave(r) /\ UNCHANGED faults
           \/ DropsThen(r, request[r].new) /\ Fault("reply")
     \/ /\ DropsThen(r, request[r].new)
        /\ \/ student = "GONE" /\ UNCHANGED faults
           \/ Fault("database")
        /\ UNCHANGED documents
  /\ UNCHANGED <<student, objects>>

-----------------------------------------------------------------------------
\* deleteDocument.

BeginDelete(r, d) ==
  /\ student # "GONE"
  /\ Present(d)
  /\ Begins(r, [Request("row") EXCEPT !.document = d, !.drop = documents[d].file])
  /\ UNCHANGED <<student, documents, objects, faults>>

\* The row first; it fails when the row is gone, and then the object stays.
DeleteRow(r) ==
  /\ request[r].pc = "row"
  /\ ~Locked(request[r].document)
  /\ IF Present(request[r].document)
     THEN /\ documents' = [documents EXCEPT ![request[r].document] = Deleted]
          /\ Continues(r, "drop")
     ELSE Ends(r) /\ UNCHANGED documents
  /\ UNCHANGED <<student, objects, faults>>

\* deleteStoredObject: an error is logged, and the object may stay.
DropObject(r) ==
  /\ request[r].pc = "drop"
  /\ \/ objects' = [objects EXCEPT ![request[r].drop] = "GONE"] /\ UNCHANGED faults
     \/ Fault("storage") /\ UNCHANGED objects
  /\ Ends(r)
  /\ UNCHANGED <<student, documents>>

-----------------------------------------------------------------------------
\* removeStudent and bulkRemoveStudents: deleteStudentCascade in a transaction.

BeginRemove(r) ==
  /\ student # "GONE"
  /\ Begins(r, Request("list"))
  /\ UNCHANGED <<student, documents, objects, faults>>

BeginBulkRemove(r) ==
  /\ student = "COMPLETED"
  /\ Begins(r, Request("recheck"))
  /\ UNCHANGED <<student, documents, objects, faults>>

\* In the transaction the status is read again, without a lock.
Recheck(r) ==
  /\ request[r].pc = "recheck"
  /\ IF student = "COMPLETED" THEN Continues(r, "list") ELSE Ends(r)
  /\ UNCHANGED <<student, documents, objects, faults>>

\* The files are listed first ...
ListFiles(r) ==
  /\ request[r].pc = "list"
  /\ request' = [request EXCEPT ![r].pc = "erase", ![r].files = OnShelf]
  /\ UNCHANGED <<student, documents, objects, faults>>

\* ... and then the rows are deleted, whichever there are by now.
EraseRows(r) ==
  /\ request[r].pc = "erase"
  /\ \A d \in AllRows : ~Locked(d)
  /\ request' = [request EXCEPT ![r].pc = "commit", ![r].rows = AllRows]
  /\ UNCHANGED <<student, documents, objects, faults>>

BrokenErased(rows) == TRUE   \* deletes the student whatever is left
\* The foreign key: the student can go when no row is left.
Erased(rows) == AllRows \subseteq rows

\* The student row is deleted, unless it is gone or a row was inserted since.
CommitRemove(r) ==
  /\ request[r].pc = "commit"
  /\ IF student # "GONE" /\ Erased(request[r].rows)
     THEN /\ student' = "GONE"
          /\ documents' = [d \in Documents |->
                             IF d \in request[r].rows THEN Deleted ELSE documents[d]]
          /\ IF request[r].files = {} THEN Ends(r) ELSE Continues(r, "sweep")
     ELSE Ends(r) /\ UNCHANGED <<student, documents>>
  /\ UNCHANGED <<objects, faults>>

\* deleteStudentFiles: after the commit, in any order, errors logged.
SweepFile(r) ==
  /\ request[r].pc = "sweep"
  /\ \E o \in request[r].files :
       /\ \/ objects' = [objects EXCEPT ![o] = "GONE"] /\ UNCHANGED faults
          \/ Fault("storage") /\ UNCHANGED objects
       /\ IF request[r].files = {o} THEN Ends(r)
          ELSE request' = [request EXCEPT ![r].files = @ \ {o}]
  /\ UNCHANGED <<student, documents>>

-----------------------------------------------------------------------------
\* setStudentStatus and the coordinator's edit: no lock, no check.
EditStatus ==
  /\ student # "GONE"
  /\ student' \in StudentStatuses \ {student}
  /\ UNCHANGED <<documents, objects, request, faults>>

\* A crash, a lost connection or a timeout: a transaction rolls back, and what
\* the handler still had to do is forgotten.
RequestLost(r) ==
  /\ Busy(r)
  /\ Fault("crash")
  /\ Ends(r)
  /\ UNCHANGED <<student, documents, objects>>

UploadStep(r) == (\E q \in Requirements : BeginUpload(r, q)) \/ StoreObject(r) \/ Upsert(r)

DeleteStep(r) == (\E d \in Documents : BeginDelete(r, d)) \/ DeleteRow(r) \/ DropObject(r)

RemoveStep(r) ==
  \/ BeginRemove(r) \/ BeginBulkRemove(r) \/ Recheck(r)
  \/ ListFiles(r) \/ EraseRows(r) \/ CommitRemove(r) \/ SweepFile(r)

Next ==
  \/ \E r \in Requests : UploadStep(r) \/ DeleteStep(r) \/ RemoveStep(r) \/ RequestLost(r)
  \/ EditStatus

Spec == Init /\ [][Next]_vars

-----------------------------------------------------------------------------
\* Properties.

\* A row never points at an object that is not there, however uploads, deletes
\* and the deletion of the student run together and whichever of them stops
\* half-way ("the worst case is an orphaned object", uploadDocument).
NeverDangling == \A d \in AllRows : objects[documents[d].file] = "STORED"

\* A deleted student leaves no document row, not even that of an upload which
\* was on its way (deleteStudentCascade).
NothingLeftBehind == student = "GONE" => AllRows = {}

AtMostOneBusy == \A r, s \in Requests : Busy(r) /\ Busy(s) => r = s

NoOrphans == \A o \in Objects : objects[o] = "STORED" => o \in OnShelf

\* When requests take turns and nothing fails, none leaves an object that no
\* row points at: a replacement, a failed upload, a delete and the deletion of
\* the student all clean up after themselves.
TurnsLeaveNoOrphans ==
  [](AtMostOneBusy /\ faults = 0) => []((\A r \in Requests : ~Busy(r)) => NoOrphans)

\* The shelf that rows and objects stand for: what can be opened.
Shelf == INSTANCE DocumentShelf WITH
  Files     <- Objects,
  NoFile    <- NoObject,
  shelf     <- [q \in Requirements |->
                  IF RowsOf(q) = {} THEN NoObject
                  ELSE documents[CHOOSE d \in RowsOf(q) : TRUE].file],
  destroyed <- {o \in Objects : objects[o] = "GONE"},
  closed    <- student = "GONE"

\* Every step of a handler submits, withdraws, closes, destroys a file that is
\* off the shelf, or changes nothing that the student can see.
RefinesShelf == Shelf!Spec

=============================================================================

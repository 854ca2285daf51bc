-------------------------- MODULE DocumentsProofs ---------------------------
(***************************************************************************)
(* Theorems about Documents for every value of its constants: any number   *)
(* of handlers, documents, objects and faults.  What is proved of rows and *)
(* objects needs answers of the database not to be lost: an upload takes a *)
(* lost one for a refusal, and deletes the object that its row points at.  *)
(***************************************************************************)
EXTENDS Documents, TLAPS

-----------------------------------------------------------------------------
\* Type correctness.

\* What a handler has to know at each of its steps.
FieldsSet ==
  \A r \in Requests :
    /\ request[r].pc \in Uploading =>
         request[r].type \in Requirements /\ request[r].new \in Objects
    /\ request[r].pc = "row" => request[r].document \in Documents
    /\ request[r].pc \in {"row", "drop"} => request[r].drop \in Objects

RequestOK == TypeOK /\ FieldsSet

\* Between its steps a handler keeps the type of its record.
LEMMA RequestedTypes ==
  /\ Idle \notin Requested
  /\ \A req \in Requested :
       /\ req.pc \in Steps /\ req.type \in Requirements \cup {NoRequirement}
       /\ req.document \in Documents \cup {NoDocument}
       /\ req.new \in Objects \cup {NoObject} /\ req.drop \in Objects \cup {NoObject}
       /\ req.files \in SUBSET Objects /\ req.rows \in SUBSET Documents
  /\ \A pc \in Steps : Request(pc) \in Requested
  /\ \A pc \in Steps, req \in Requested : [req EXCEPT !.pc = pc] \in Requested
BY DEF Idle, Requested, Request, Steps, Uploading, Removing

LEMMA BusyTypes ==
  ASSUME TypeOK, NEW r \in Requests
  PROVE  /\ request[r].pc \in Steps => Busy(r)
         /\ Busy(r) => request[r] \in Requested
BY RequestedTypes DEF TypeOK, Busy, Idle, Steps, Uploading, Removing

LEMMA RowTypes ==
  ASSUME TypeOK, NEW d \in AllRows
  PROVE  /\ documents[d] \in DocumentRows
         /\ documents[d].type \in Requirements
         /\ documents[d].file \in Objects
BY DEF TypeOK, AllRows, Present, DocumentRows, Absent, Deleted

LEMMA FaultType ==
  ASSUME TypeOK, NEW kind, Fault(kind) \/ UNCHANGED faults
  PROVE  faults' \in 0 .. MaxFaults
BY DocumentsAssumption DEF TypeOK, Fault

\* What an upsert can leave: the rows, with the new object in the one row of the
\* requirement or in a new one.
LEMMA SavedRows ==
  ASSUME TypeOK, NEW q \in Requirements, NEW o \in Objects, documents' \in Saved(q, o)
  PROVE  \E d \in Documents :
           /\ documents[d] = Absent \/ d \in RowsOf(q)
           /\ RowsOf(q) = {} \/ d \in RowsOf(q)
           /\ documents' = [documents EXCEPT ![d] = Row(q, o)]
<1>1. CASE RowsOf(q) # {}
  <2>1. PICK d \in RowsOf(q) : documents' = [documents EXCEPT ![d].file = o]
    BY <1>1 DEF Saved
  <2>2. d \in Documents /\ documents[d] \in DocumentRows /\ documents[d].type = q
    BY RowTypes DEF RowsOf, AllRows
  <2>3. [documents[d] EXCEPT !.file = o] = Row(q, o)
    BY <2>2 DEF Row, DocumentRows
  <2>4. documents' = [documents EXCEPT ![d] = Row(q, o)]
    BY <2>1, <2>2, <2>3 DEF TypeOK
  <2> QED
    BY <2>2, <2>4
<1>2. CASE RowsOf(q) = {}
  BY <1>2 DEF Saved
<1> QED
  BY <1>1, <1>2

LEMMA InitRequestOK == Init => RequestOK
BY DocumentsAssumption DEF Init, RequestOK, TypeOK, FieldsSet, StudentStatuses, Idle, Uploading

\* A handler that ends, or goes on with a record of the right type.
LEMMA OneRequestOK ==
  ASSUME RequestOK, NEW r \in Requests, NEW req, request' = [request EXCEPT ![r] = req],
         \/ req = Idle
         \/ /\ req \in Requested
            /\ req.pc \in Uploading => req.type \in Requirements /\ req.new \in Objects
            /\ req.pc = "row" => req.document \in Documents
            /\ req.pc \in {"row", "drop"} => req.drop \in Objects
  PROVE  request' \in [Requests -> Requested \cup {Idle}] /\ FieldsSet'
BY DEF RequestOK, TypeOK, FieldsSet, Idle, Uploading

LEMMA UploadRequestOK ==
  ASSUME RequestOK, NEW r \in Requests, UploadStep(r)
  PROVE  RequestOK'
<1> USE RequestedTypes, BusyTypes DEF RequestOK
<1>1. ASSUME NEW q \in Requirements, BeginUpload(r, q) PROVE RequestOK'
  <2>1. PICK o \in Objects, old \in Objects \cup {NoObject} :
          Begins(r, [Request("store") EXCEPT !.type = q, !.new = o, !.drop = old])
    BY <1>1 DEF BeginUpload
  <2> DEFINE req == [Request("store") EXCEPT !.type = q, !.new = o, !.drop = old]
  <2>2. req \in Requested /\ req.pc = "store" /\ req.type = q /\ req.new = o
    BY DEF Request, Requested, Steps, Uploading
  <2>3. request' = [request EXCEPT ![r] = req]
    BY <2>1 DEF Begins
  <2> HIDE DEF req
  <2>4. request' \in [Requests -> Requested \cup {Idle}] /\ FieldsSet'
    BY <2>2, <2>3, OneRequestOK
  <2> QED
    BY <1>1, <2>4 DEF BeginUpload, TypeOK
<1>2. CASE StoreObject(r)
  <2>1. request[r] \in Requested /\ request[r].type \in Requirements /\ request[r].new \in Objects
    BY <1>2 DEF StoreObject, FieldsSet, Uploading, Steps
  <2>2. objects' \in [Objects -> {"NEW", "STORED", "GONE"}] /\ faults' \in 0 .. MaxFaults
    BY <1>2, <2>1, FaultType DEF StoreObject, TypeOK
  <2>3. request' = [request EXCEPT ![r] = Idle]
          \/ request' = [request EXCEPT ![r] = [request[r] EXCEPT !.pc = "upsert"]]
    BY <1>2 DEF StoreObject, Continues, Ends
  <2> DEFINE req == [request[r] EXCEPT !.pc = "upsert"]
  <2>4. req \in Requested /\ req.type = request[r].type /\ req.new = request[r].new
          /\ req.pc = "upsert"
    BY <2>1 DEF Requested, Steps, Uploading
  <2> HIDE DEF req
  <2>5. request' \in [Requests -> Requested \cup {Idle}] /\ FieldsSet'
    BY <2>1, <2>3, <2>4, OneRequestOK DEF req
  <2> QED
    BY <1>2, <2>2, <2>5 DEF StoreObject, TypeOK
<1>3. CASE Upsert(r)
  <2>1. /\ request[r] \in Requested /\ request[r].type \in Requirements
        /\ request[r].new \in Objects
    BY <1>3 DEF Upsert, FieldsSet, Uploading, Steps
  <2>2. documents' \in [Documents -> DocumentRows \cup {Absent, Deleted}]
    <3>1. Row(request[r].type, request[r].new) \in DocumentRows
      BY <2>1 DEF Row, DocumentRows
    <3> QED
      BY <1>3, <2>1, <3>1, SavedRows DEF Upsert, TypeOK
  <2>3. \E o \in Objects :
          \/ request' = [request EXCEPT ![r] = Idle]
          \/ request' = [request EXCEPT ![r] = [request[r] EXCEPT !.pc = "drop", !.drop = o]]
    <3>1. request' = AfterSave(r) =>
            \/ request' = [request EXCEPT ![r] = Idle]
            \/ /\ request[r].drop \in Objects
               /\ request' = [request EXCEPT ![r] = [request[r] EXCEPT !.pc = "drop"]]
      BY <2>1 DEF AfterSave
    <3>2. [request[r] EXCEPT !.pc = "drop"]
            = [request[r] EXCEPT !.pc = "drop", !.drop = request[r].drop]
      BY <2>1 DEF Requested
    <3>3. DropsThen(r, request[r].new) =>
            request' = [request EXCEPT
                          ![r] = [request[r] EXCEPT !.pc = "drop", !.drop = request[r].new]]
      BY <2>1 DEF DropsThen, TypeOK
    <3>4. request' = AfterSave(r) \/ DropsThen(r, request[r].new)
      BY <1>3 DEF Upsert
    <3>5. CASE request' = AfterSave(r)
      BY <2>1, <3>1, <3>2, <3>5
    <3>6. CASE DropsThen(r, request[r].new)
      BY <2>1, <3>3, <3>6
    <3> QED
      BY <3>4, <3>5, <3>6
  <2>4. PICK o \in Objects :
          \/ request' = [request EXCEPT ![r] = Idle]
          \/ request' = [request EXCEPT ![r] = [request[r] EXCEPT !.pc = "drop", !.drop = o]]
    BY <2>3
  <2> DEFINE req == [request[r] EXCEPT !.pc = "drop", !.drop = o]
  <2>5. req \in Requested /\ req.pc = "drop" /\ req.drop = o
    BY <2>1 DEF Requested, Steps
  <2> HIDE DEF req
  <2>6. request' \in [Requests -> Requested \cup {Idle}] /\ FieldsSet'
    BY <2>4, <2>5, OneRequestOK DEF Uploading, req
  <2>7. faults' \in 0 .. MaxFaults
    BY <1>3, FaultType DEF Upsert
  <2> QED
    BY <1>3, <2>2, <2>6, <2>7 DEF Upsert, TypeOK
<1> QED
  BY <1>1, <1>2, <1>3 DEF UploadStep

LEMMA DeleteRequestOK ==
  ASSUME RequestOK, NEW r \in Requests, DeleteStep(r)
  PROVE  RequestOK'
<1> USE RequestedTypes, BusyTypes DEF RequestOK
<1>1. ASSUME NEW d \in Documents, BeginDelete(r, d) PROVE RequestOK'
  <2> DEFINE req == [Request("row") EXCEPT !.document = d, !.drop = documents[d].file]
  <2>1. documents[d].file \in Objects
    BY <1>1, RowTypes DEF BeginDelete, AllRows
  <2>2. req \in Requested /\ req.pc = "row" /\ req.document = d /\ req.drop \in Objects
    BY <2>1 DEF Request, Requested, Steps
  <2>3. request' = [request EXCEPT ![r] = req]
    BY <1>1 DEF BeginDelete, Begins
  <2> HIDE DEF req
  <2>4. request' \in [Requests -> Requested \cup {Idle}] /\ FieldsSet'
    BY <2>2, <2>3, OneRequestOK DEF Uploading
  <2> QED
    BY <1>1, <2>4 DEF BeginDelete, TypeOK
<1>2. CASE DeleteRow(r)
  <2> DEFINE req == [request[r] EXCEPT !.pc = "drop"]
  <2>1. /\ request[r] \in Requested /\ request[r].document \in Documents
        /\ request[r].drop \in Objects
    BY <1>2 DEF DeleteRow, FieldsSet, Steps
  <2>2. req \in Requested /\ req.pc = "drop" /\ req.drop \in Objects
    BY <2>1 DEF Requested, Steps
  <2>3. request' = [request EXCEPT ![r] = Idle] \/ request' = [request EXCEPT ![r] = req]
    BY <1>2 DEF DeleteRow, Continues, Ends
  <2> HIDE DEF req
  <2>4. request' \in [Requests -> Requested \cup {Idle}] /\ FieldsSet'
    BY <2>2, <2>3, OneRequestOK DEF Uploading
  <2> QED
    BY <1>2, <2>1, <2>4 DEF DeleteRow, TypeOK
<1>3. CASE DropObject(r)
  <2>1. request' \in [Requests -> Requested \cup {Idle}] /\ FieldsSet'
    BY <1>3, OneRequestOK DEF DropObject, Ends
  <2>2. request[r].drop \in Objects /\ faults' \in 0 .. MaxFaults
    BY <1>3, FaultType DEF DropObject, FieldsSet
  <2> QED
    BY <1>3, <2>1, <2>2 DEF DropObject, TypeOK
<1> QED
  BY <1>1, <1>2, <1>3 DEF DeleteStep

LEMMA RemoveRequestOK ==
  ASSUME RequestOK, NEW r \in Requests, RemoveStep(r)
  PROVE  RequestOK'
<1> USE RequestedTypes, BusyTypes DEF RequestOK
<1>1. CASE BeginRemove(r) \/ BeginBulkRemove(r)
  <2>1. PICK pc \in {"list", "recheck"} : request' = [request EXCEPT ![r] = Request(pc)]
    BY <1>1 DEF BeginRemove, BeginBulkRemove, Begins
  <2>2. Request(pc) \in Requested /\ Request(pc).pc = pc
    BY DEF Steps, Removing, Request
  <2>3. request' \in [Requests -> Requested \cup {Idle}] /\ FieldsSet'
    BY <2>1, <2>2, OneRequestOK DEF Uploading
  <2> QED
    BY <1>1, <2>3 DEF BeginRemove, BeginBulkRemove, TypeOK
<1>2. CASE Recheck(r) \/ ListFiles(r) \/ EraseRows(r) \/ CommitRemove(r) \/ SweepFile(r)
  <2>1. /\ request[r] \in Requested
        /\ request[r].pc \in Removing
    BY <1>2 DEF Recheck, ListFiles, EraseRows, CommitRemove, SweepFile, Removing, Steps
  <2>2. OnShelf \in SUBSET Objects /\ AllRows \in SUBSET Documents
    BY RowTypes DEF OnShelf, AllRows
  <2> DEFINE req(pc, files, rows) ==
               [request[r] EXCEPT !.pc = pc, !.files = files, !.rows = rows]
  <2>3. \/ request' = [request EXCEPT ![r] = Idle]
        \/ \E pc \in Removing, files \in SUBSET Objects, rows \in SUBSET Documents :
             request' = [request EXCEPT ![r] = req(pc, files, rows)]
    <3>1. \A pc \in Removing :
            Continues(r, pc) =>
              request' = [request EXCEPT ![r] = req(pc, request[r].files, request[r].rows)]
      BY <2>1 DEF Continues, TypeOK, Requested
    <3>2. CASE Recheck(r) \/ CommitRemove(r)
      <4>1. request' = [request EXCEPT ![r] = Idle]
              \/ \E pc \in {"list", "sweep"} : Continues(r, pc)
        BY <3>2 DEF Recheck, CommitRemove, Ends
      <4> HIDE DEF req
      <4> QED
        BY <2>1, <3>1, <4>1 DEF Removing
    <3>3. CASE ListFiles(r)
      <4>1. request' = [request EXCEPT ![r] = req("erase", OnShelf, request[r].rows)]
        BY <2>1, <3>3 DEF ListFiles, TypeOK, Requested
      <4> HIDE DEF req
      <4> QED
        BY <2>1, <2>2, <4>1 DEF Removing
    <3>4. CASE EraseRows(r)
      <4>1. request' = [request EXCEPT ![r] = req("commit", request[r].files, AllRows)]
        BY <2>1, <3>4 DEF EraseRows, TypeOK, Requested
      <4> HIDE DEF req
      <4> QED
        BY <2>1, <2>2, <4>1 DEF Removing
    <3>5. CASE SweepFile(r)
      <4>1. PICK o \in request[r].files :
              \/ request' = [request EXCEPT ![r] = Idle]
              \/ request' = [request EXCEPT ![r].files = @ \ {o}]
        BY <3>5 DEF SweepFile, Ends
      <4>2. request' = [request EXCEPT ![r].files = @ \ {o}] =>
              request' = [request EXCEPT
                            ![r] = req("sweep", request[r].files \ {o}, request[r].rows)]
        <5>1. request[r].pc = "sweep"
          BY <3>5 DEF SweepFile
        <5>2. [request[r] EXCEPT !.files = request[r].files \ {o}]
                = req("sweep", request[r].files \ {o}, request[r].rows)
          BY <2>1, <5>1 DEF Requested
        <5> HIDE DEF req
        <5> QED
          BY <5>2 DEF TypeOK
      <4>3. /\ "sweep" \in Removing /\ request[r].files \ {o} \in SUBSET Objects
            /\ request[r].rows \in SUBSET Documents
        BY <2>1 DEF Removing
      <4> HIDE DEF req
      <4> QED
        BY <4>1, <4>2, <4>3
    <3> QED
      BY <1>2, <3>2, <3>3, <3>4, <3>5
  <2>4. \A pc \in Removing, files \in SUBSET Objects, rows \in SUBSET Documents :
          req(pc, files, rows) \in Requested /\ req(pc, files, rows).pc = pc
    BY <2>1 DEF Requested, Steps
  <2> HIDE DEF req
  <2>5. request' \in [Requests -> Requested \cup {Idle}] /\ FieldsSet'
    BY <2>3, <2>4, OneRequestOK DEF Removing, Uploading
  <2>6. UNCHANGED <<student, documents, objects, faults>> => RequestOK'
    BY <2>5 DEF TypeOK
  <2>7. CASE CommitRemove(r)
    BY <2>5, <2>7 DEF CommitRemove, TypeOK
  <2>8. CASE SweepFile(r)
    <3>1. objects' \in [Objects -> {"NEW", "STORED", "GONE"}]
      BY <2>1, <2>8 DEF SweepFile, TypeOK
    <3>2. faults' \in 0 .. MaxFaults
      BY <2>8, FaultType DEF SweepFile
    <3> QED
      BY <2>5, <2>8, <3>1, <3>2 DEF SweepFile, TypeOK
  <2> QED
    BY <1>2, <2>6, <2>7, <2>8 DEF Recheck, ListFiles, EraseRows
<1> QED
  BY <1>1, <1>2 DEF RemoveStep

LEMMA NextRequestOK == RequestOK /\ [Next]_vars => RequestOK'
<1> SUFFICES ASSUME RequestOK, [Next]_vars PROVE RequestOK'
  OBVIOUS
<1>1. ASSUME NEW r \in Requests, UploadStep(r) \/ DeleteStep(r) \/ RemoveStep(r)
      PROVE  RequestOK'
  BY <1>1, UploadRequestOK, DeleteRequestOK, RemoveRequestOK
<1>2. ASSUME NEW r \in Requests, RequestLost(r) PROVE RequestOK'
  <2>1. faults' \in 0 .. MaxFaults
    BY <1>2, FaultType DEF RequestLost, RequestOK
  <2>2. request' \in [Requests -> Requested \cup {Idle}] /\ FieldsSet'
    BY <1>2, OneRequestOK DEF RequestLost, Ends
  <2> QED
    BY <1>2, <2>1, <2>2 DEF RequestLost, RequestOK, TypeOK
<1>3. CASE EditStatus
  BY <1>3 DEF EditStatus, RequestOK, TypeOK, FieldsSet
<1>4. CASE UNCHANGED vars
  BY <1>4 DEF vars, RequestOK, TypeOK, FieldsSet
<1> QED
  BY <1>1, <1>2, <1>3, <1>4 DEF Next

LEMMA SpecRequestOK == Spec => []RequestOK
BY InitRequestOK, NextRequestOK, PTL DEF Spec

\* Rows, objects and handlers always have their types, whatever is lost.
THEOREM TypeCorrect == Spec => []TypeOK
<1>1. RequestOK => TypeOK
  BY DEF RequestOK
<1> QED
  BY <1>1, SpecRequestOK, PTL

-----------------------------------------------------------------------------
\* Rows and objects.

\* A requirement has one row and a file is in one row.
OneRowEach ==
  \A d, e \in AllRows :
    documents[d].type = documents[e].type \/ documents[d].file = documents[e].file => d = e

Uploads(r) == request[r].pc \in Uploading

\* The object of an upload on its way is nobody else's, and on no row yet.
NewApart ==
  \A r \in Requests : Uploads(r) =>
    /\ request[r].new \notin OnShelf
    /\ objects[request[r].new] = IF request[r].pc = "store" THEN "NEW" ELSE "STORED"
    /\ \A s \in Requests : Uploads(s) /\ request[s].new = request[r].new => s = r

\* An object that will be deleted is on the row that goes first, if on any.
Drops(r) == request[r].pc \in Uploading \cup {"row", "drop"} /\ request[r].drop \in Objects

OldKnown ==
  \A r \in Requests : Drops(r) =>
    /\ objects[request[r].drop] # "NEW"
    /\ \A s \in Requests : Uploads(s) => request[s].new # request[r].drop
    /\ \A d \in AllRows : documents[d].file = request[r].drop =>
         \/ Uploads(r) /\ documents[d].type = request[r].type
         \/ request[r].pc = "row" /\ d = request[r].document

\* What a cascade has listed was on a row once, and is swept when the student is
\* gone.
ListedKnown ==
  \A r \in Requests : request[r].pc \in {"erase", "commit", "sweep"} =>
    /\ request[r].pc = "sweep" => student = "GONE"
    /\ \A o \in request[r].files :
         /\ objects[o] # "NEW"
         /\ \A s \in Requests : Uploads(s) => request[s].new # o

ShelfSound ==
  NeverDangling /\ NothingLeftBehind /\ OneRowEach /\ NewApart /\ OldKnown /\ ListedKnown

\* A step that loses no answer of the database: there is no such fault, or nothing
\* has gone wrong so far.
NoLostAnswer == "reply" \notin Faults \/ faults' = 0

\* A handler that goes on to something that holds no object: nothing changes.
LEMMA IdleKeepsShelf ==
  ASSUME ShelfSound, UNCHANGED <<documents, objects>>,
         student' = "GONE" <=> student = "GONE", NEW r \in Requests,
         \A s \in Requests \ {r} : request'[s] = request[s],
         request'[r].pc \notin Uploading \cup {"row", "drop", "erase", "commit", "sweep"}
  PROVE  ShelfSound'
<1>1. AllRows' = AllRows /\ OnShelf' = OnShelf
  BY DEF AllRows, OnShelf, Present
<1>2. \A s \in Requests : Uploads(s)' \/ Drops(s)'
                            \/ request'[s].pc \in {"erase", "commit", "sweep"} =>
        request'[s] = request[s]
  BY DEF Uploads, Drops
<1>3. \A s \in Requests : /\ Uploads(s)' => Uploads(s) /\ request'[s] = request[s]
                          /\ Drops(s)' => Drops(s) /\ request'[s] = request[s]
  BY <1>2 DEF Uploads, Drops
<1>4. NeverDangling' /\ NothingLeftBehind' /\ OneRowEach'
  BY <1>1 DEF ShelfSound, NeverDangling, NothingLeftBehind, OneRowEach
<1>5. NewApart'
  BY <1>1, <1>3 DEF ShelfSound, NewApart
<1>6. OldKnown'
  BY <1>1, <1>3 DEF ShelfSound, OldKnown, Drops, Uploads
<1>7. ListedKnown'
  BY <1>2, <1>3 DEF ShelfSound, ListedKnown
<1> QED
  BY <1>4, <1>5, <1>6, <1>7 DEF ShelfSound

LEMMA BeginUploadKeepsShelf ==
  ASSUME RequestOK, ShelfSound, NEW r \in Requests, NEW q \in Requirements, BeginUpload(r, q)
  PROVE  ShelfSound'
<1>1. PICK o \in Objects, old \in Objects \cup {NoObject} :
        /\ Fresh(o)
        /\ IF RowsOf(q) = {} THEN old = NoObject
           ELSE \E d \in RowsOf(q) : old = documents[d].file
        /\ Begins(r, [Request("store") EXCEPT !.type = q, !.new = o, !.drop = old])
  BY DEF BeginUpload
<1>2. /\ request'[r].pc = "store" /\ request'[r].type = q
      /\ request'[r].new = o /\ request'[r].drop = old
      /\ \A s \in Requests \ {r} : request'[s] = request[s]
      /\ ~Uploads(r)
  BY <1>1 DEF Begins, Busy, Request, RequestOK, TypeOK, Uploads, Uploading, Idle
<1>3. UNCHANGED <<student, documents, objects>> /\ AllRows' = AllRows /\ OnShelf' = OnShelf
  BY DEF BeginUpload, AllRows, OnShelf, Present
<1>4. /\ objects[o] = "NEW"
      /\ \A s \in Requests : Uploads(s) => request[s].new # o
  BY <1>1 DEF Fresh, Uploads, Uploading, Busy, Idle
<1>5. o \notin OnShelf
  BY <1>4 DEF ShelfSound, NeverDangling, OnShelf
<1>6. NeverDangling' /\ NothingLeftBehind' /\ OneRowEach'
  BY <1>3 DEF ShelfSound, NeverDangling, NothingLeftBehind, OneRowEach
<1>7. NewApart'
  BY <1>2, <1>3, <1>4, <1>5 DEF ShelfSound, NewApart, Uploads, Uploading
<1>8. OldKnown'
  <2>1. ASSUME NEW s \in Requests \ {r}, Drops(s)'
        PROVE  /\ objects'[request'[s].drop] # "NEW"
               /\ \A u \in Requests : Uploads(u)' => request'[u].new # request'[s].drop
               /\ \A d \in AllRows' : documents'[d].file = request'[s].drop =>
                    \/ Uploads(s)' /\ documents'[d].type = request'[s].type
                    \/ request'[s].pc = "row" /\ d = request'[s].document
    <3>1. Drops(s) /\ request'[s] = request[s] /\ request[s].drop # o
      BY <1>2, <1>4, <2>1 DEF Drops, ShelfSound, OldKnown
    <3> QED
      BY <1>2, <1>3, <3>1 DEF ShelfSound, OldKnown, Uploads
  <2>2. ASSUME Drops(r)'
        PROVE  /\ objects'[old] # "NEW"
               /\ \A u \in Requests : Uploads(u)' => request'[u].new # old
               /\ \A d \in AllRows' : documents'[d].file = old => documents'[d].type = q
    <3>1. old \in Objects
      BY <1>2, <2>2 DEF Drops
    <3>2. PICK d \in AllRows : documents[d].file = old /\ documents[d].type = q
      BY <1>1, <3>1, DocumentsAssumption DEF RowsOf, AllRows
    <3>3. old \in OnShelf /\ objects[old] = "STORED"
      BY <3>2 DEF OnShelf, ShelfSound, NeverDangling
    <3> QED
      BY <1>2, <1>3, <1>4, <3>2, <3>3 DEF ShelfSound, NewApart, OneRowEach, Uploads
  <2> QED
    BY <1>2, <2>1, <2>2 DEF OldKnown, Uploads, Uploading
<1>9. ListedKnown'
  BY <1>2, <1>3, <1>4 DEF ShelfSound, ListedKnown, Uploads
<1> QED
  BY <1>6, <1>7, <1>8, <1>9 DEF ShelfSound

LEMMA StoreKeepsShelf ==
  ASSUME RequestOK, ShelfSound, NEW r \in Requests, StoreObject(r)
  PROVE  ShelfSound'
<1> DEFINE o == request[r].new
<1>1. /\ o \in Objects /\ Uploads(r) /\ objects[o] = "NEW" /\ o \notin OnShelf
      /\ \A s \in Requests : Uploads(s) /\ request[s].new = o => s = r
  BY DEF StoreObject, RequestOK, FieldsSet, Uploads, Uploading, ShelfSound, NewApart
<1>2. /\ UNCHANGED <<student, documents>> /\ AllRows' = AllRows /\ OnShelf' = OnShelf
      /\ \A s \in Requests \ {r} : request'[s] = request[s]
  BY DEF StoreObject, Continues, Ends, AllRows, OnShelf, Present, RequestOK, TypeOK
<1>3. /\ objects' = objects \/ objects' = [objects EXCEPT ![o] = "STORED"]
      /\ \A p \in Objects \ {o} : objects'[p] = objects[p]
      /\ \A p \in Objects : objects[p] # "NEW" => objects'[p] = objects[p]
  BY <1>1 DEF StoreObject, RequestOK, TypeOK
<1>4. \/ request'[r] = Idle
      \/ /\ request'[r].pc = "upsert" /\ objects'[o] = "STORED"
         /\ request'[r].type = request[r].type
         /\ request'[r].new = o /\ request'[r].drop = request[r].drop
  <2>1. request[r] \in Requested
    BY BusyTypes DEF StoreObject, RequestOK, Steps, Uploading
  <2> QED
    BY <1>1, <2>1 DEF StoreObject, Continues, Ends, RequestOK, TypeOK, Requested
<1> HIDE DEF o
<1>5. \A s \in Requests : Uploads(s)' =>
        Uploads(s) /\ request'[s].new = request[s].new /\ request'[s].type = request[s].type
  BY <1>1, <1>2, <1>4 DEF Uploads, Idle, Uploading, o
<1>6. \A s \in Requests : Drops(s)' =>
        /\ Drops(s) /\ request'[s].drop = request[s].drop
        /\ s # r => request'[s] = request[s]
        /\ s = r => Uploads(s)' /\ request[s].pc # "row"
  BY <1>1, <1>2, <1>4 DEF Drops, Uploads, Idle, Uploading
<1>7. NeverDangling' /\ NothingLeftBehind' /\ OneRowEach'
  BY <1>1, <1>2, <1>3, RowTypes
     DEF RequestOK, ShelfSound, NeverDangling, NothingLeftBehind, OneRowEach, OnShelf
<1>8. NewApart'
  <2>1. ASSUME NEW s \in Requests, Uploads(s)'
        PROVE  objects'[request'[s].new] =
                 IF request'[s].pc = "store" THEN "NEW" ELSE "STORED"
    <3>1. CASE s = r
      BY <1>4, <2>1, <3>1 DEF Uploads, Uploading, Idle
    <3>2. CASE s # r
      <4>1. Uploads(s) /\ request'[s] = request[s] /\ request[s].new # o
        BY <1>1, <1>2, <1>5, <2>1, <3>2
      <4>2. request[s].new \in Objects
        BY <4>1 DEF RequestOK, FieldsSet, Uploads
      <4> QED
        BY <1>3, <4>1, <4>2 DEF ShelfSound, NewApart
    <3> QED
      BY <3>1, <3>2
  <2> QED
    BY <1>2, <1>5, <2>1 DEF ShelfSound, NewApart
<1>9. OldKnown'
  <2> SUFFICES ASSUME NEW s \in Requests, Drops(s)'
               PROVE  /\ objects'[request'[s].drop] # "NEW"
                      /\ \A u \in Requests : Uploads(u)' => request'[u].new # request'[s].drop
                      /\ \A d \in AllRows' : documents'[d].file = request'[s].drop =>
                           \/ Uploads(s)' /\ documents'[d].type = request'[s].type
                           \/ request'[s].pc = "row" /\ d = request'[s].document
    BY DEF OldKnown
  <2>1. request[s].drop \in Objects /\ objects[request[s].drop] # "NEW"
    BY <1>6 DEF Drops, ShelfSound, OldKnown
  <2>2. Uploads(s)' <=> Uploads(s)
    BY <1>1, <1>6 DEF Uploads
  <2> QED
    BY <1>2, <1>3, <1>5, <1>6, <2>1, <2>2 DEF ShelfSound, OldKnown
<1>10. ListedKnown'
  <2> SUFFICES ASSUME NEW s \in Requests, request'[s].pc \in {"erase", "commit", "sweep"}
               PROVE  /\ request'[s].pc = "sweep" => student' = "GONE"
                      /\ \A p \in request'[s].files :
                           /\ objects'[p] # "NEW"
                           /\ \A u \in Requests : Uploads(u)' => request'[u].new # p
    BY DEF ListedKnown
  <2>1. s # r /\ request'[s] = request[s]
    BY <1>2, <1>4 DEF Idle
  <2>2. request[s].files \in SUBSET Objects
    BY <2>1, BusyTypes, RequestedTypes DEF RequestOK, Steps, Removing
  <2> QED
    BY <1>2, <1>3, <1>5, <2>1, <2>2 DEF ShelfSound, ListedKnown
<1> QED
  BY <1>7, <1>8, <1>9, <1>10 DEF ShelfSound

\* The row is saved, and what it pointed at is dropped.
LEMMA SaveKeepsShelf ==
  ASSUME RequestOK, ShelfSound, NEW r \in Requests, request[r].pc = "upsert",
         student # "GONE", documents' \in Saved(request[r].type, request[r].new),
         request' = AfterSave(r), UNCHANGED <<student, objects>>
  PROVE  ShelfSound'
<1> DEFINE q == request[r].type
           o == request[r].new
<1>1. /\ q \in Requirements /\ o \in Objects /\ Uploads(r) /\ objects[o] = "STORED"
      /\ o \notin OnShelf
      /\ \A s \in Requests : Uploads(s) /\ request[s].new = o => s = r
      /\ request[r] \in Requested
  BY BusyTypes DEF RequestOK, FieldsSet, Uploads, Uploading, Steps, ShelfSound, NewApart
<1>2. PICK d \in Documents :
        /\ documents[d] = Absent \/ d \in RowsOf(q)
        /\ RowsOf(q) = {} \/ d \in RowsOf(q)
        /\ documents' = [documents EXCEPT ![d] = Row(q, o)]
  BY <1>1, SavedRows DEF RequestOK
<1>3. /\ documents'[d] = Row(q, o) /\ Row(q, o).type = q /\ Row(q, o).file = o
      /\ Row(q, o).state = "row"
      /\ \A e \in Documents \ {d} : documents'[e] = documents[e]
  BY <1>2 DEF Row, RequestOK, TypeOK
<1>4. AllRows' = AllRows \cup {d}
  BY <1>3 DEF AllRows, Present
<1>5. \A e \in AllRows \ {d} : e \in Documents /\ documents'[e] = documents[e]
                                 /\ documents[e].type # q /\ documents[e].file # o
  <2> SUFFICES ASSUME NEW e \in AllRows \ {d}
               PROVE  e \in Documents /\ documents[e].type # q /\ documents[e].file # o
    BY <1>3 DEF AllRows
  <2>1. e \in Documents /\ documents[e].file # o
    BY <1>1 DEF AllRows, OnShelf
  <2>2. documents[e].type # q
    BY <1>2 DEF RowsOf, AllRows, ShelfSound, OneRowEach
  <2> QED
    BY <2>1, <2>2
<1>6. /\ \A s \in Requests \ {r} : request'[s] = request[s]
      /\ \/ request'[r] = Idle
         \/ /\ request'[r].pc = "drop" /\ request'[r].drop = request[r].drop
            /\ request[r].drop \in Objects
  BY <1>1 DEF AfterSave, RequestOK, TypeOK, Requested
<1> HIDE DEF q, o
<1>7. \A s \in Requests : Uploads(s)' => Uploads(s) /\ s # r /\ request'[s] = request[s]
                                           /\ request[s].new # o
  BY <1>1, <1>6 DEF Uploads, Uploading, Idle, o
<1>8. NeverDangling' /\ NothingLeftBehind' /\ OneRowEach'
  <2>1. NeverDangling'
    BY <1>1, <1>3, <1>4, <1>5 DEF ShelfSound, NeverDangling
  <2>2. OneRowEach'
    BY <1>3, <1>4, <1>5 DEF ShelfSound, OneRowEach
  <2> QED
    BY <2>1, <2>2 DEF NothingLeftBehind
<1>9. NewApart'
  <2>1. OnShelf' \subseteq OnShelf \cup {o}
    BY <1>3, <1>4, <1>5 DEF OnShelf
  <2> QED
    BY <1>7, <2>1 DEF ShelfSound, NewApart
<1>10. OldKnown'
  <2> SUFFICES ASSUME NEW s \in Requests, Drops(s)'
               PROVE  /\ objects'[request'[s].drop] # "NEW"
                      /\ \A u \in Requests : Uploads(u)' => request'[u].new # request'[s].drop
                      /\ \A e \in AllRows' : documents'[e].file = request'[s].drop =>
                           \/ Uploads(s)' /\ documents'[e].type = request'[s].type
                           \/ request'[s].pc = "row" /\ e = request'[s].document
    BY DEF OldKnown
  <2>1. Drops(s) /\ request'[s].drop = request[s].drop /\ request[s].drop # o
    BY <1>1, <1>6 DEF Drops, Idle, ShelfSound, OldKnown, Uploads, Uploading, o
  <2>2. objects'[request'[s].drop] # "NEW"
          /\ \A u \in Requests : Uploads(u)' => request'[u].new # request'[s].drop
    BY <1>7, <2>1 DEF ShelfSound, OldKnown
  <2>3. ASSUME NEW e \in AllRows', documents'[e].file = request'[s].drop
        PROVE  /\ s # r /\ request'[s] = request[s]
               /\ \/ Uploads(s) /\ documents'[e].type = request[s].type
                  \/ request[s].pc = "row" /\ e = request[s].document
    <3>1. e \in AllRows \ {d} /\ documents'[e] = documents[e]
      BY <1>3, <1>4, <1>5, <2>1, <2>3
    <3>2. \/ Uploads(s) /\ documents[e].type = request[s].type
          \/ request[s].pc = "row" /\ e = request[s].document
      BY <2>1, <2>3, <3>1 DEF ShelfSound, OldKnown
    <3>3. s # r
      BY <1>1, <1>5, <3>1, <3>2 DEF q
    <3> QED
      BY <1>6, <3>1, <3>2, <3>3
  <2> QED
    BY <2>2, <2>3 DEF Uploads
<1>11. ListedKnown'
  <2>1. \A s \in Requests : request'[s].pc \in {"erase", "commit", "sweep"} =>
                              request'[s] = request[s]
    BY <1>6 DEF Idle
  <2> QED
    BY <1>7, <2>1 DEF ShelfSound, ListedKnown
<1> QED
  BY <1>8, <1>9, <1>10, <1>11 DEF ShelfSound

\* The row was not saved: the new object is dropped, which nobody has seen.
LEMMA GiveUpKeepsShelf ==
  ASSUME RequestOK, ShelfSound, NEW r \in Requests, request[r].pc = "upsert",
         DropsThen(r, request[r].new), UNCHANGED <<student, documents, objects>>
  PROVE  ShelfSound'
<1> DEFINE o == request[r].new
<1>1. /\ o \in Objects /\ Uploads(r) /\ objects[o] = "STORED" /\ o \notin OnShelf
      /\ \A s \in Requests : Uploads(s) /\ request[s].new = o => s = r
      /\ request[r] \in Requested
  BY BusyTypes DEF RequestOK, FieldsSet, Uploads, Uploading, Steps, ShelfSound, NewApart
<1>2. AllRows' = AllRows /\ OnShelf' = OnShelf
  BY DEF AllRows, OnShelf, Present
<1>3. /\ \A s \in Requests \ {r} : request'[s] = request[s]
      /\ request'[r].pc = "drop" /\ request'[r].drop = o
  BY <1>1 DEF DropsThen, RequestOK, TypeOK, Requested
<1> HIDE DEF o
<1>4. \A s \in Requests : Uploads(s)' => Uploads(s) /\ request'[s] = request[s]
                                           /\ request[s].new # o
  BY <1>1, <1>3 DEF Uploads, Uploading
<1>5. NeverDangling' /\ NothingLeftBehind' /\ OneRowEach'
  BY <1>2 DEF ShelfSound, NeverDangling, NothingLeftBehind, OneRowEach
<1>6. NewApart'
  BY <1>2, <1>4 DEF ShelfSound, NewApart
<1>7. OldKnown'
  <2>1. \A d \in AllRows : documents[d].file # o
    BY <1>1 DEF OnShelf
  <2>2. \A s \in Requests \ {r} : Drops(s)' => Drops(s) /\ request'[s] = request[s]
                                                 /\ (Uploads(s)' <=> Uploads(s))
    BY <1>3 DEF Drops, Uploads
  <2> QED
    BY <1>1, <1>2, <1>3, <1>4, <2>1, <2>2 DEF ShelfSound, OldKnown
<1>8. ListedKnown'
  BY <1>3, <1>4 DEF ShelfSound, ListedKnown
<1> QED
  BY <1>5, <1>6, <1>7, <1>8 DEF ShelfSound

LEMMA UpsertKeepsShelf ==
  ASSUME NoLostAnswer, RequestOK, ShelfSound, NEW r \in Requests, Upsert(r)
  PROVE  ShelfSound'
<1>1. \/ /\ student # "GONE"
         /\ documents' \in Saved(request[r].type, request[r].new)
         /\ request' = AfterSave(r)
      \/ DropsThen(r, request[r].new) /\ UNCHANGED documents
  BY DEF Upsert, Fault, NoLostAnswer, RequestOK, TypeOK
<1> QED
  BY <1>1, SaveKeepsShelf, GiveUpKeepsShelf DEF Upsert

LEMMA BeginDeleteKeepsShelf ==
  ASSUME RequestOK, ShelfSound, NEW r \in Requests, NEW d \in Documents, BeginDelete(r, d)
  PROVE  ShelfSound'
<1> DEFINE o == documents[d].file
<1>1. d \in AllRows /\ o \in OnShelf /\ objects[o] = "STORED"
  BY DEF BeginDelete, AllRows, OnShelf, ShelfSound, NeverDangling
<1>2. /\ UNCHANGED <<student, documents, objects>> /\ AllRows' = AllRows /\ OnShelf' = OnShelf
      /\ \A s \in Requests \ {r} : request'[s] = request[s]
      /\ request'[r].pc = "row" /\ request'[r].document = d /\ request'[r].drop = o
  BY DEF BeginDelete, Begins, Request, AllRows, OnShelf, Present, RequestOK, TypeOK
<1> HIDE DEF o
<1>3. \A s \in Requests : Uploads(s)' => Uploads(s) /\ request'[s] = request[s]
                                           /\ request[s].new # o
  BY <1>1, <1>2 DEF Uploads, Uploading, ShelfSound, NewApart
<1>4. NeverDangling' /\ NothingLeftBehind' /\ OneRowEach'
  BY <1>2 DEF ShelfSound, NeverDangling, NothingLeftBehind, OneRowEach
<1>5. NewApart'
  BY <1>2, <1>3 DEF ShelfSound, NewApart
<1>6. OldKnown'
  <2>1. \A e \in AllRows : documents[e].file = o => e = d
    BY <1>1 DEF ShelfSound, OneRowEach, o
  <2>2. \A s \in Requests \ {r} : Drops(s)' => Drops(s) /\ request'[s] = request[s]
                                                 /\ (Uploads(s)' <=> Uploads(s))
    BY <1>2 DEF Drops, Uploads
  <2> QED
    BY <1>1, <1>2, <1>3, <2>1, <2>2 DEF ShelfSound, OldKnown
<1>7. ListedKnown'
  BY <1>2, <1>3 DEF ShelfSound, ListedKnown
<1> QED
  BY <1>4, <1>5, <1>6, <1>7 DEF ShelfSound

LEMMA DeleteRowKeepsShelf ==
  ASSUME RequestOK, ShelfSound, NEW r \in Requests, DeleteRow(r)
  PROVE  ShelfSound'
<1> DEFINE d == request[r].document
<1>0. request[r].pc = "row" /\ d \in Documents /\ request[r].drop \in Objects
        /\ request[r] \in Requested
  BY BusyTypes DEF DeleteRow, RequestOK, FieldsSet, Steps
<1>1. CASE UNCHANGED documents /\ Ends(r)
  BY <1>1, IdleKeepsShelf DEF DeleteRow, Ends, RequestOK, TypeOK, Idle, Uploading
<1>2. CASE documents' = [documents EXCEPT ![d] = Deleted] /\ Continues(r, "drop")
  <2>1. AllRows' = AllRows \ {d} /\ \A e \in AllRows' : documents'[e] = documents[e]
    BY <1>0, <1>2 DEF AllRows, Present, Deleted, RequestOK, TypeOK
  <2>2. /\ UNCHANGED <<student, objects>> /\ OnShelf' \subseteq OnShelf
        /\ \A s \in Requests \ {r} : request'[s] = request[s]
        /\ request'[r].pc = "drop" /\ request'[r].drop = request[r].drop
    BY <1>0, <1>2, <2>1 DEF DeleteRow, Continues, OnShelf, RequestOK, TypeOK, Requested
  <2> HIDE DEF d
  <2>3. \A s \in Requests : Uploads(s)' => Uploads(s) /\ request'[s] = request[s]
    BY <2>2 DEF Uploads, Uploading
  <2>4. NeverDangling' /\ NothingLeftBehind' /\ OneRowEach'
    BY <2>1, <2>2 DEF ShelfSound, NeverDangling, NothingLeftBehind, OneRowEach
  <2>5. NewApart'
    BY <2>2, <2>3 DEF ShelfSound, NewApart
  <2>6. OldKnown'
    <3>1. Drops(r) /\ ~Uploads(r)
      BY <1>0 DEF Drops, Uploads, Uploading
    <3>2. \A e \in AllRows' : documents[e].file # request[r].drop
      BY <1>0, <2>1, <3>1 DEF ShelfSound, OldKnown, d
    <3>3. \A s \in Requests \ {r} : Drops(s)' => Drops(s) /\ request'[s] = request[s]
                                                   /\ (Uploads(s)' <=> Uploads(s))
      BY <2>2 DEF Drops, Uploads
    <3> QED
      BY <2>1, <2>2, <2>3, <3>1, <3>2, <3>3 DEF ShelfSound, OldKnown
  <2>7. ListedKnown'
    BY <2>2, <2>3 DEF ShelfSound, ListedKnown
  <2> QED
    BY <2>4, <2>5, <2>6, <2>7 DEF ShelfSound
<1> QED
  BY <1>1, <1>2 DEF DeleteRow

\* An object that is on no row, and that no upload is about to put there, may go;
\* handlers end, or sweep on.
LEMMA DestroyKeepsShelf ==
  ASSUME RequestOK, ShelfSound, NEW o \in Objects, o \notin OnShelf,
         \A s \in Requests : Uploads(s) => request[s].new # o,
         objects' \in {objects, [objects EXCEPT ![o] = "GONE"]},
         \A s \in Requests :
           \/ request'[s] = request[s]
           \/ request'[s] = Idle
           \/ /\ request'[s].pc = "sweep" /\ request[s].pc = "sweep"
              /\ request'[s].files \subseteq request[s].files,
         UNCHANGED <<student, documents>>
  PROVE  ShelfSound'
<1>1. /\ \A p \in Objects \ {o} : objects'[p] = objects[p]
      /\ \A p \in Objects : objects[p] # "NEW" => objects'[p] # "NEW"
      /\ AllRows' = AllRows /\ OnShelf' = OnShelf
  BY DEF AllRows, OnShelf, Present, RequestOK, TypeOK
<1>2. \A s \in Requests : /\ Uploads(s)' => Uploads(s) /\ request'[s] = request[s]
                          /\ Drops(s)' => Drops(s) /\ request'[s] = request[s]
  BY DEF Uploads, Uploading, Drops, Idle
<1>3. NeverDangling' /\ NothingLeftBehind' /\ OneRowEach'
  BY <1>1, RowTypes
     DEF RequestOK, ShelfSound, NeverDangling, NothingLeftBehind, OneRowEach, OnShelf
<1>4. NewApart'
  <2>1. \A s \in Requests : Uploads(s) => request[s].new \in Objects \ {o}
    BY DEF RequestOK, FieldsSet, Uploads
  <2> QED
    BY <1>1, <1>2, <2>1 DEF ShelfSound, NewApart
<1>5. OldKnown'
  <2>1. \A s \in Requests : Drops(s) => request[s].drop \in Objects
    BY DEF Drops
  <2> QED
    BY <1>1, <1>2, <2>1 DEF ShelfSound, OldKnown, Uploads
<1>6. ListedKnown'
  <2>1. \A s \in Requests : request[s].pc \in {"erase", "commit", "sweep"} =>
                              request[s].files \in SUBSET Objects
    BY BusyTypes, RequestedTypes DEF RequestOK, Steps, Removing
  <2>2. \A s \in Requests : request'[s].pc \in {"erase", "commit", "sweep"} =>
          request'[s].pc = request[s].pc /\ request'[s].files \subseteq request[s].files
    BY DEF Idle
  <2> QED
    BY <1>1, <1>2, <2>1, <2>2 DEF ShelfSound, ListedKnown
<1> QED
  BY <1>3, <1>4, <1>5, <1>6 DEF ShelfSound

LEMMA DropKeepsShelf ==
  ASSUME RequestOK, ShelfSound, NEW r \in Requests, DropObject(r)
  PROVE  ShelfSound'
<1> DEFINE o == request[r].drop
<1>1. o \in Objects /\ Drops(r) /\ ~Uploads(r)
  BY DEF DropObject, RequestOK, FieldsSet, Drops, Uploads, Uploading
<1>2. o \notin OnShelf
  BY <1>1 DEF DropObject, OnShelf, ShelfSound, OldKnown
<1>3. \A s \in Requests : Uploads(s) => request[s].new # o
  BY <1>1 DEF ShelfSound, OldKnown
<1>4. /\ \A s \in Requests : request'[s] = request[s] \/ request'[s] = Idle
      /\ objects' \in {objects, [objects EXCEPT ![o] = "GONE"]}
      /\ UNCHANGED <<student, documents>>
  BY DEF DropObject, Ends, RequestOK, TypeOK
<1> HIDE DEF o
<1> QED
  BY <1>1, <1>2, <1>3, <1>4, DestroyKeepsShelf

LEMMA SweepKeepsShelf ==
  ASSUME RequestOK, ShelfSound, NEW r \in Requests, SweepFile(r)
  PROVE  ShelfSound'
<1>1. PICK o \in request[r].files :
        /\ objects' \in {objects, [objects EXCEPT ![o] = "GONE"]}
        /\ Ends(r) \/ request' = [request EXCEPT ![r].files = @ \ {o}]
  BY DEF SweepFile
<1>2. request[r] \in Requested /\ request[r].pc = "sweep" /\ o \in Objects
  BY BusyTypes, RequestedTypes DEF SweepFile, RequestOK, Steps, Removing
<1>3. o \notin OnShelf
  BY <1>2 DEF OnShelf, ShelfSound, ListedKnown, NothingLeftBehind
<1>4. \A s \in Requests : Uploads(s) => request[s].new # o
  BY <1>2 DEF ShelfSound, ListedKnown
<1>5. \A s \in Requests :
        \/ request'[s] = request[s]
        \/ request'[s] = Idle
        \/ /\ request'[s].pc = "sweep" /\ request[s].pc = "sweep"
           /\ request'[s].files \subseteq request[s].files
  BY <1>1, <1>2 DEF Ends, RequestOK, TypeOK, Requested
<1> QED
  BY <1>1, <1>2, <1>3, <1>4, <1>5, DestroyKeepsShelf DEF SweepFile

\* The cascade up to its commit reads, and then takes all rows at once.
LEMMA RemoveKeepsShelf ==
  ASSUME RequestOK, ShelfSound, NEW r \in Requests, RemoveStep(r)
  PROVE  ShelfSound'
<1>1. CASE BeginRemove(r) \/ BeginBulkRemove(r)
  BY <1>1, IdleKeepsShelf
     DEF BeginRemove, BeginBulkRemove, Begins, Request, Uploading, RequestOK, TypeOK
<1>2. CASE Recheck(r)
  <2>1. request[r] \in Requested
    BY <1>2, BusyTypes DEF Recheck, RequestOK, Steps, Removing
  <2>2. request'[r].pc \in {"list", "idle"} /\ \A s \in Requests \ {r} : request'[s] = request[s]
    BY <1>2, <2>1 DEF Recheck, Continues, Ends, Idle, RequestOK, TypeOK, Requested
  <2> QED
    BY <1>2, <2>2, IdleKeepsShelf DEF Recheck, Uploading
<1>3. CASE ListFiles(r) \/ EraseRows(r)
  <2>1. request[r] \in Requested
    BY <1>3, BusyTypes DEF ListFiles, EraseRows, RequestOK, Steps, Removing
  <2>2. /\ request'[r].pc \in {"erase", "commit"}
        /\ \/ request'[r].files = OnShelf
           \/ request'[r].files = request[r].files /\ request[r].pc = "erase"
        /\ \A s \in Requests \ {r} : request'[s] = request[s]
        /\ UNCHANGED <<student, documents, objects>>
    <3>1. CASE ListFiles(r)
      <4>1. request' = [request EXCEPT ![r] = [@ EXCEPT !.pc = "erase", !.files = OnShelf]]
        BY <3>1 DEF ListFiles, RequestOK, TypeOK
      <4>2. [request[r] EXCEPT !.pc = "erase", !.files = OnShelf].pc = "erase"
              /\ [request[r] EXCEPT !.pc = "erase", !.files = OnShelf].files = OnShelf
        BY <2>1 DEF Requested
      <4> QED
        BY <3>1, <4>1, <4>2 DEF ListFiles, RequestOK, TypeOK
    <3>2. CASE EraseRows(r)
      <4>1. request' = [request EXCEPT ![r] = [@ EXCEPT !.pc = "commit", !.rows = AllRows]]
        BY <3>2 DEF EraseRows, RequestOK, TypeOK
      <4> QED
        BY <2>1, <3>2, <4>1 DEF EraseRows, RequestOK, TypeOK, Requested
    <3> QED
      BY <1>3, <3>1, <3>2
  <2>3. /\ AllRows' = AllRows /\ OnShelf' = OnShelf
        /\ \A s \in Requests : /\ Uploads(s)' => Uploads(s) /\ request'[s] = request[s]
                               /\ Drops(s)' => Drops(s) /\ request'[s] = request[s]
    <3>1. ~Uploads(r)' /\ ~Drops(r)'
      BY <2>2 DEF Uploads, Uploading, Drops
    <3> QED
      BY <2>2, <3>1 DEF AllRows, OnShelf, Present, Uploads, Drops
  <2>4. NeverDangling' /\ NothingLeftBehind' /\ OneRowEach'
    BY <2>2, <2>3 DEF ShelfSound, NeverDangling, NothingLeftBehind, OneRowEach
  <2>5. NewApart'
    BY <2>2, <2>3 DEF ShelfSound, NewApart
  <2>6. OldKnown'
    BY <2>2, <2>3 DEF ShelfSound, OldKnown, Uploads
  <2>7. ListedKnown'
    <3>1. \A o \in OnShelf : /\ objects[o] # "NEW"
                             /\ \A s \in Requests : Uploads(s) => request[s].new # o
      BY DEF OnShelf, ShelfSound, NeverDangling, NewApart
    <3> QED
      BY <2>2, <2>3, <3>1 DEF ShelfSound, ListedKnown
  <2> QED
    BY <2>4, <2>5, <2>6, <2>7 DEF ShelfSound
<1>4. CASE CommitRemove(r)
  <2>0. request[r] \in Requested
    BY <1>4, BusyTypes DEF CommitRemove, RequestOK, Steps, Removing
  <2>1. CASE UNCHANGED <<student, documents>> /\ Ends(r)
    BY <1>4, <2>1, IdleKeepsShelf DEF CommitRemove, Ends, RequestOK, TypeOK, Idle, Uploading
  <2>2. CASE /\ student' = "GONE" /\ Erased(request[r].rows)
             /\ documents' = [d \in Documents |->
                                IF d \in request[r].rows THEN Deleted ELSE documents[d]]
             /\ Ends(r) \/ Continues(r, "sweep")
    <3>1. AllRows' = {} /\ OnShelf' = {}
      BY <2>2 DEF AllRows, OnShelf, Present, Erased, Deleted
    <3>2. /\ \A s \in Requests \ {r} : request'[s] = request[s]
          /\ \/ request'[r] = Idle
             \/ request'[r].pc = "sweep" /\ request'[r].files = request[r].files
      <4>1. CASE Ends(r)
        BY <4>1 DEF Ends, RequestOK, TypeOK
      <4>2. CASE Continues(r, "sweep")
        <5>1. request' = [request EXCEPT ![r] = [@ EXCEPT !.pc = "sweep"]]
          BY <4>2 DEF Continues
        <5>2. [request[r] EXCEPT !.pc = "sweep"].pc = "sweep"
                /\ [request[r] EXCEPT !.pc = "sweep"].files = request[r].files
          BY <2>0 DEF Requested
        <5> QED
          BY <5>1, <5>2 DEF RequestOK, TypeOK
      <4> QED
        BY <2>2, <4>1, <4>2
    <3>3. \A s \in Requests : /\ Uploads(s)' => Uploads(s) /\ request'[s] = request[s]
                              /\ Drops(s)' => Drops(s) /\ request'[s] = request[s]
      BY <3>2 DEF Uploads, Uploading, Drops, Idle
    <3>4. NeverDangling' /\ NothingLeftBehind' /\ OneRowEach'
      BY <3>1 DEF NeverDangling, NothingLeftBehind, OneRowEach
    <3>5. NewApart'
      BY <1>4, <3>1, <3>3 DEF CommitRemove, ShelfSound, NewApart
    <3>6. OldKnown'
      BY <1>4, <3>1, <3>3 DEF CommitRemove, ShelfSound, OldKnown
    <3>7. ListedKnown'
      <4>1. \A s \in Requests : request'[s].pc \in {"erase", "commit", "sweep"} =>
              /\ request[s].pc \in {"erase", "commit", "sweep"}
              /\ request'[s].files = request[s].files
        BY <1>4, <3>2 DEF CommitRemove, Idle
      <4>2. UNCHANGED objects /\ student' = "GONE"
        BY <1>4, <2>2 DEF CommitRemove
      <4> QED
        BY <3>3, <4>1, <4>2 DEF ShelfSound, ListedKnown
    <3> QED
      BY <3>4, <3>5, <3>6, <3>7 DEF ShelfSound
  <2> QED
    BY <1>4, <2>1, <2>2 DEF CommitRemove
<1>5. CASE SweepFile(r)
  BY <1>5, SweepKeepsShelf
<1> QED
  BY <1>1, <1>2, <1>3, <1>4, <1>5 DEF RemoveStep

LEMMA NextShelfSound ==
  NoLostAnswer /\ RequestOK /\ ShelfSound /\ [Next]_vars => ShelfSound'
<1> SUFFICES ASSUME NoLostAnswer, RequestOK, ShelfSound, [Next]_vars
             PROVE  ShelfSound'
  OBVIOUS
<1>1. ASSUME NEW r \in Requests, UploadStep(r) PROVE ShelfSound'
  BY <1>1, BeginUploadKeepsShelf, StoreKeepsShelf, UpsertKeepsShelf DEF UploadStep
<1>2. ASSUME NEW r \in Requests, DeleteStep(r) PROVE ShelfSound'
  BY <1>2, BeginDeleteKeepsShelf, DeleteRowKeepsShelf, DropKeepsShelf DEF DeleteStep
<1>3. ASSUME NEW r \in Requests, RemoveStep(r) PROVE ShelfSound'
  BY <1>3, RemoveKeepsShelf
<1>4. ASSUME NEW r \in Requests, RequestLost(r) PROVE ShelfSound'
  BY <1>4, IdleKeepsShelf DEF RequestLost, Ends, RequestOK, TypeOK, Idle, Uploading
<1>5. CASE EditStatus \/ UNCHANGED vars
  <2>1. UNCHANGED <<documents, objects, request>> /\ (student' = "GONE" <=> student = "GONE")
    BY <1>5 DEF EditStatus, vars, StudentStatuses
  <2> QED
    BY <2>1 DEF ShelfSound, NeverDangling, NothingLeftBehind, OneRowEach, NewApart, OldKnown,
                ListedKnown, AllRows, OnShelf, Present, Uploads, Drops
<1> QED
  BY <1>1, <1>2, <1>3, <1>4, <1>5 DEF Next

LEMMA InitShelfSound == Init => ShelfSound
BY DEF Init, ShelfSound, NeverDangling, NothingLeftBehind, OneRowEach, NewApart, OldKnown,
       ListedKnown, AllRows, Present, Absent, Uploads, Uploading, Drops, Idle

LEMMA SpecShelfSound == "reply" \notin Faults => (Spec => []ShelfSound)
<1> SUFFICES ASSUME "reply" \notin Faults PROVE Spec => []ShelfSound
  OBVIOUS
<1>1. RequestOK /\ ShelfSound /\ [Next]_vars => ShelfSound'
  BY NextShelfSound DEF NoLostAnswer
<1> QED
  BY <1>1, InitShelfSound, SpecRequestOK, PTL DEF Spec

\* A row never points at an object that is not there, with any number of
\* uploads, deletes and deletions of the student, stopped anywhere, as long as
\* no answer of the database is lost ("the worst case is an orphaned object").
THEOREM RowsOpen == "reply" \notin Faults => (Spec => []NeverDangling)
<1>1. ShelfSound => NeverDangling
  BY DEF ShelfSound
<1> QED
  BY <1>1, SpecShelfSound, PTL

\* A deleted student leaves no document row, under the same assumption
\* (deleteStudentCascade).
THEOREM NothingStays == "reply" \notin Faults => (Spec => []NothingLeftBehind)
<1>1. ShelfSound => NothingLeftBehind
  BY DEF ShelfSound
<1> QED
  BY <1>1, SpecShelfSound, PTL

-----------------------------------------------------------------------------
\* The shelf that rows and objects stand for.

FileOf(q) ==
  IF RowsOf(q) = {} THEN NoObject ELSE documents[CHOOSE d \in RowsOf(q) : TRUE].file

ShelfNow == [q \in Requirements |-> FileOf(q)]

Destroyed == {o \in Objects : objects[o] = "GONE"}

\* A requirement has a file exactly if it has a row, which then is its only one.
LEMMA FileOfRow ==
  ASSUME ShelfSound, NEW q \in Requirements
  PROVE  /\ RowsOf(q) = {} => FileOf(q) = NoObject
         /\ \A d \in RowsOf(q) : RowsOf(q) = {d} /\ FileOf(q) = documents[d].file
<1>1. RowsOf(q) = {} => FileOf(q) = NoObject
  BY DEF FileOf
<1>2. ASSUME NEW d \in RowsOf(q)
      PROVE  RowsOf(q) = {d} /\ FileOf(q) = documents[d].file
  <2>1. RowsOf(q) = {d}
    BY DEF RowsOf, AllRows, ShelfSound, OneRowEach
  <2> QED
    BY <2>1 DEF FileOf
<1> QED
  BY <1>1, <1>2

\* Everything else on the shelf is there because some row holds it.
LEMMA OnlyRowsOnShelf ==
  ASSUME ShelfSound, NEW o \in Objects, o \notin OnShelf
  PROVE  o \in Objects \ Shelf!Range(ShelfNow)
<1>1. \A q \in Requirements : FileOf(q) \in OnShelf \cup {NoObject}
  BY FileOfRow DEF OnShelf, AllRows, RowsOf
<1> QED
  BY <1>1, DocumentsAssumption DEF ShelfNow, Shelf!Range

LEMMA SameRowsSameShelf ==
  ASSUME UNCHANGED documents PROVE ShelfNow' = ShelfNow
<1>1. \A q \in Requirements : FileOf(q)' = FileOf(q)
  BY DEF FileOf, RowsOf, Present
<1> QED
  BY <1>1 DEF ShelfNow

\* A saved row submits its object.
LEMMA SaveSubmits ==
  ASSUME RequestOK, ShelfSound, ShelfSound', NEW r \in Requests, request[r].pc = "upsert",
         NEW q, q = request[r].type, NEW o, o = request[r].new, documents' \in Saved(q, o)
  PROVE  /\ q \in Requirements
         /\ o \in Objects \ Destroyed
         /\ ShelfNow' = [ShelfNow EXCEPT ![q] = o]
<1>1. q \in Requirements /\ o \in Objects /\ objects[o] = "STORED"
  BY DEF RequestOK, FieldsSet, Uploads, Uploading, ShelfSound, NewApart
<1>2. PICK d \in Documents :
        /\ documents[d] = Absent \/ d \in RowsOf(q)
        /\ documents' = [documents EXCEPT ![d] = Row(q, o)]
  BY <1>1, SavedRows DEF RequestOK
<1>3. /\ documents'[d] = Row(q, o) /\ Row(q, o).type = q /\ Row(q, o).file = o
      /\ Row(q, o).state = "row"
      /\ \A e \in Documents \ {d} : documents'[e] = documents[e]
  BY <1>2 DEF Row, RequestOK, TypeOK
<1>4. FileOf(q)' = o
  <2>1. d \in RowsOf(q)'
    BY <1>3 DEF RowsOf, Present
  <2>2. RowsOf(q)' = {d}
    BY <2>1 DEF RowsOf, AllRows, ShelfSound, OneRowEach
  <2> QED
    BY <1>3, <2>2 DEF FileOf
<1>5. ASSUME NEW p \in Requirements \ {q} PROVE FileOf(p)' = FileOf(p)
  <2>1. d \notin RowsOf(p)' /\ d \notin RowsOf(p)
    BY <1>2, <1>3 DEF RowsOf, Present, Absent
  <2>2. RowsOf(p)' = RowsOf(p)
    BY <1>3, <2>1 DEF RowsOf, Present
  <2>3. \A e \in RowsOf(p) : documents'[e] = documents[e]
    BY <1>3, <2>1 DEF RowsOf
  <2> QED
    BY <2>2, <2>3 DEF FileOf
<1>6. ShelfNow' = [ShelfNow EXCEPT ![q] = o]
  BY <1>1, <1>4, <1>5 DEF ShelfNow
<1> QED
  BY <1>1, <1>6 DEF Destroyed

\* A deleted row withdraws its file.
LEMMA DeleteWithdraws ==
  ASSUME RequestOK, ShelfSound, NEW d \in AllRows, NEW q, q = documents[d].type,
         documents' = [documents EXCEPT ![d] = Deleted]
  PROVE  /\ q \in Requirements
         /\ ShelfNow' = [ShelfNow EXCEPT ![q] = NoObject]
<1>1. d \in RowsOf(q) /\ d \in Documents /\ q \in Requirements
  BY RowTypes DEF RowsOf, AllRows, RequestOK
<1>2. /\ documents'[d] = Deleted
      /\ \A e \in Documents \ {d} : documents'[e] = documents[e]
  BY <1>1 DEF RequestOK, TypeOK
<1>3. FileOf(q)' = NoObject
  <2>1. RowsOf(q) = {d}
    BY <1>1, FileOfRow
  <2>2. RowsOf(q)' = {}
    BY <1>2, <2>1 DEF RowsOf, Present, Deleted
  <2> QED
    BY <2>2 DEF FileOf
<1>4. ASSUME NEW p \in Requirements \ {q} PROVE FileOf(p)' = FileOf(p)
  <2>1. d \notin RowsOf(p)' /\ d \notin RowsOf(p)
    BY <1>2 DEF RowsOf, Present, Deleted
  <2>2. RowsOf(p)' = RowsOf(p)
    BY <1>2, <2>1 DEF RowsOf, Present
  <2>3. \A e \in RowsOf(p) : documents'[e] = documents[e]
    BY <1>2, <2>1 DEF RowsOf
  <2>4. CASE RowsOf(p) = {}
    BY <2>2, <2>4 DEF FileOf
  <2>5. CASE RowsOf(p) # {}
    <3>1. FileOf(p) = documents[CHOOSE e \in RowsOf(p) : TRUE].file
      BY <2>5 DEF FileOf
    <3>2. FileOf(p)' = documents'[CHOOSE e \in RowsOf(p) : TRUE].file
      BY <2>2, <2>5 DEF FileOf
    <3>3. (CHOOSE e \in RowsOf(p) : TRUE) \in RowsOf(p)
      BY <2>5
    <3> QED
      BY <2>3, <3>1, <3>2, <3>3
  <2> QED
    BY <2>4, <2>5
<1>5. ShelfNow' = [ShelfNow EXCEPT ![q] = NoObject]
  BY <1>1, <1>3, <1>4 DEF ShelfNow
<1> QED
  BY <1>1, <1>5

\* The refinement, step by step.
ShelfVars == <<ShelfNow, Destroyed, student = "GONE">>

LEMMA DestroyStep ==
  ASSUME RequestOK, ShelfSound, NEW o \in Objects, o \notin OnShelf,
         objects' \in {objects, [objects EXCEPT ![o] = "GONE"]},
         UNCHANGED <<student, documents>>
  PROVE  Shelf!Destroy \/ UNCHANGED ShelfVars
<1>1. ShelfNow' = ShelfNow
  BY SameRowsSameShelf
<1>2. Destroyed' = Destroyed \cup {o} \/ Destroyed' = Destroyed
  BY DEF Destroyed, RequestOK, TypeOK
<1>3. o \in Objects \ Shelf!Range(ShelfNow)
  BY OnlyRowsOnShelf
<1> QED
  BY <1>1, <1>2, <1>3 DEF Shelf!Destroy, ShelfVars, ShelfNow, FileOf, Destroyed

LEMMA NextRefines ==
  ASSUME "reply" \notin Faults, RequestOK, ShelfSound, ShelfSound', [Next]_vars
  PROVE  Shelf!Next \/ UNCHANGED ShelfVars
<1>1. ASSUME UNCHANGED <<documents, objects>>, student' = "GONE" <=> student = "GONE"
      PROVE  UNCHANGED ShelfVars
  BY <1>1, SameRowsSameShelf DEF ShelfVars, Destroyed
<1>2. ASSUME NEW r \in Requests, StoreObject(r) PROVE UNCHANGED ShelfVars
  <2>1. request[r].new \in Objects /\ objects[request[r].new] = "NEW"
    BY <1>2 DEF StoreObject, RequestOK, FieldsSet, Uploads, Uploading, ShelfSound, NewApart
  <2>2. Destroyed' = Destroyed
    BY <1>2, <2>1 DEF StoreObject, Destroyed, RequestOK, TypeOK
  <2> QED
    BY <1>2, <2>2, SameRowsSameShelf DEF StoreObject, ShelfVars
<1>3. ASSUME NEW r \in Requests, Upsert(r)
      PROVE  Shelf!Next \/ UNCHANGED ShelfVars
  <2>1. \/ /\ student # "GONE" /\ request[r].pc = "upsert"
           /\ documents' \in Saved(request[r].type, request[r].new)
        \/ UNCHANGED documents
    BY <1>3 DEF Upsert
  <2>2. CASE UNCHANGED documents
    BY <1>1, <1>3, <2>2 DEF Upsert
  <2>3. CASE /\ student # "GONE" /\ request[r].pc = "upsert"
             /\ documents' \in Saved(request[r].type, request[r].new)
    <3>1. PICK q \in Requirements, o \in Objects \ Destroyed :
            ShelfNow' = [ShelfNow EXCEPT ![q] = o]
      BY <2>3, SaveSubmits
    <3>2. UNCHANGED <<student, objects>>
      BY <1>3 DEF Upsert
    <3>3. Shelf!Submit(q)
      BY <2>3, <3>1, <3>2 DEF Shelf!Submit, ShelfNow, FileOf, Destroyed
    <3> QED
      BY <3>3 DEF Shelf!Next
  <2> QED
    BY <2>1, <2>2, <2>3
<1>4. ASSUME NEW r \in Requests, DeleteRow(r)
      PROVE  Shelf!Next \/ UNCHANGED ShelfVars
  <2>1. CASE UNCHANGED documents
    BY <1>1, <1>4, <2>1 DEF DeleteRow
  <2>2. CASE /\ Present(request[r].document)
             /\ documents' = [documents EXCEPT ![request[r].document] = Deleted]
    <3>1. request[r].document \in AllRows
      BY <1>4, <2>2 DEF DeleteRow, AllRows, RequestOK, FieldsSet
    <3>2. PICK q \in Requirements : ShelfNow' = [ShelfNow EXCEPT ![q] = NoObject]
      BY <2>2, <3>1, DeleteWithdraws
    <3>3. UNCHANGED <<student, objects>>
      BY <1>4 DEF DeleteRow
    <3>4. Shelf!Withdraw(q)
      BY <3>2, <3>3 DEF Shelf!Withdraw, ShelfNow, FileOf, Destroyed
    <3> QED
      BY <3>4 DEF Shelf!Next
  <2> QED
    BY <1>4, <2>1, <2>2 DEF DeleteRow
<1>5. ASSUME NEW r \in Requests, DropObject(r)
      PROVE  Shelf!Next \/ UNCHANGED ShelfVars
  <2> DEFINE o == request[r].drop
  <2>1. o \in Objects /\ o \notin OnShelf
    BY <1>5 DEF DropObject, RequestOK, FieldsSet, Drops, Uploads, Uploading, OnShelf,
                ShelfSound, OldKnown
  <2>2. objects' \in {objects, [objects EXCEPT ![o] = "GONE"]}
    BY <1>5 DEF DropObject
  <2> HIDE DEF o
  <2> QED
    BY <1>5, <2>1, <2>2, DestroyStep DEF DropObject, Shelf!Next
<1>6. ASSUME NEW r \in Requests, SweepFile(r)
      PROVE  Shelf!Next \/ UNCHANGED ShelfVars
  <2>1. PICK o \in request[r].files : objects' \in {objects, [objects EXCEPT ![o] = "GONE"]}
    BY <1>6 DEF SweepFile
  <2>2. o \in Objects
    BY <1>6, BusyTypes, RequestedTypes DEF SweepFile, RequestOK, Steps, Removing
  <2>3. o \notin OnShelf
    BY <1>6 DEF SweepFile, OnShelf, ShelfSound, ListedKnown, NothingLeftBehind
  <2> QED
    BY <1>6, <2>1, <2>2, <2>3, DestroyStep DEF SweepFile, Shelf!Next
<1>7. ASSUME NEW r \in Requests, CommitRemove(r)
      PROVE  Shelf!Next \/ UNCHANGED ShelfVars
  <2>1. CASE UNCHANGED <<student, documents>>
    BY <1>1, <1>7, <2>1 DEF CommitRemove
  <2>2. CASE student' = "GONE"
    <3>1. AllRows' = {}
      BY <2>2 DEF ShelfSound, NothingLeftBehind
    <3>2. \A q \in Requirements : FileOf(q)' = NoObject
      BY <3>1 DEF FileOf, RowsOf, AllRows
    <3>3. ShelfNow' = [q \in Requirements |-> NoObject]
      BY <3>2 DEF ShelfNow
    <3>4. UNCHANGED objects
      BY <1>7 DEF CommitRemove
    <3>5. Shelf!Close
      BY <2>2, <3>3, <3>4 DEF Shelf!Close, ShelfNow, FileOf, Destroyed
    <3> QED
      BY <3>5 DEF Shelf!Next
  <2> QED
    BY <1>7, <2>1, <2>2 DEF CommitRemove
<1>8. ASSUME \/ EditStatus \/ UNCHANGED vars
             \/ \E r \in Requests :
                  \/ RequestLost(r) \/ BeginRemove(r) \/ BeginBulkRemove(r)
                  \/ Recheck(r) \/ ListFiles(r) \/ EraseRows(r)
                  \/ \E q \in Requirements : BeginUpload(r, q)
                  \/ \E d \in Documents : BeginDelete(r, d)
      PROVE  UNCHANGED ShelfVars
  <2>1. UNCHANGED <<documents, objects>> /\ (student' = "GONE" <=> student = "GONE")
    BY <1>8 DEF EditStatus, StudentStatuses, vars, RequestLost, BeginRemove, BeginBulkRemove,
                Recheck, ListFiles, EraseRows, BeginUpload, BeginDelete
  <2> QED
    BY <1>1, <2>1
<1> QED
  BY <1>2, <1>3, <1>4, <1>5, <1>6, <1>7, <1>8 DEF Next, UploadStep, DeleteStep, RemoveStep

\* Handlers in any number, with failing stores, failing databases and crashes,
\* implement the shelf, as long as no answer of the database is lost
\* (uploadDocument, deleteDocument, deleteStudentCascade).
THEOREM DocumentsRefineShelf == "reply" \notin Faults => (Spec => RefinesShelf)
<1> SUFFICES ASSUME "reply" \notin Faults PROVE Spec => RefinesShelf
  OBVIOUS
<1>1. Init => Shelf!Init
  <2> SUFFICES ASSUME Init PROVE Shelf!Init
    OBVIOUS
  <2>1. \A q \in Requirements : RowsOf(q) = {}
    BY DEF Init, RowsOf, Present, Absent
  <2> QED
    BY <2>1 DEF Init, Shelf!Init
<1>2. RequestOK /\ ShelfSound /\ ShelfSound' /\ [Next]_vars
        => Shelf!Next \/ UNCHANGED ShelfVars
  BY NextRefines
<1>3. Spec => []ShelfSound
  BY SpecShelfSound
<1> QED
  BY <1>1, <1>2, <1>3, SpecRequestOK, PTL
     DEF Spec, RefinesShelf, Shelf!Spec, ShelfVars, ShelfNow, FileOf, Destroyed

-----------------------------------------------------------------------------
\* Requests in turn.

Alone == AtMostOneBusy /\ faults = 0

Orphan(o) == objects[o] = "STORED" /\ o \notin OnShelf

\* An object that is off the shelf is one that the request at work will save or
\* delete.
Owes(r, o) ==
  \/ request[r].pc = "upsert" /\ o = request[r].new
  \/ request[r].pc = "drop" /\ o = request[r].drop
  \/ request[r].pc = "sweep" /\ o \in request[r].files

\* What a request has read is still so while it is alone.
ReadsStill(r) ==
  /\ request[r].pc \in Uploading =>
       \A d \in RowsOf(request[r].type) : request[r].drop = documents[d].file
  /\ request[r].pc = "row" /\ Present(request[r].document) =>
       request[r].drop = documents[request[r].document].file
  /\ request[r].pc \in {"erase", "commit"} => request[r].files = OnShelf
  /\ request[r].pc = "commit" => request[r].rows = AllRows

Tidy ==
  /\ \A r \in Requests : ReadsStill(r)
  /\ \A o \in Objects : Orphan(o) => \E r \in Requests : Owes(r, o)

\* Who acts is the only one at work, before and after.
LEMMA ActsAlone ==
  ASSUME RequestOK, Alone, Alone', NEW r \in Requests, Busy(r) \/ Busy(r)',
         \A s \in Requests \ {r} : request'[s] = request[s]
  PROVE  \A s \in Requests \ {r} : request[s] = Idle /\ request'[s] = Idle
BY DEF Alone, AtMostOneBusy, Busy

LEMMA OthersWait ==
  ASSUME RequestOK, NEW r \in Requests, UploadStep(r) \/ DeleteStep(r) \/ RemoveStep(r)
  PROVE  /\ \A s \in Requests \ {r} : request'[s] = request[s]
         /\ Busy(r) \/ Busy(r)'
<1>1. \A s \in Requests \ {r} : request'[s] = request[s]
  BY DEF RequestOK, TypeOK, UploadStep, BeginUpload, StoreObject, Upsert, AfterSave, DeleteStep,
         BeginDelete, DeleteRow, DropObject, RemoveStep, BeginRemove, BeginBulkRemove, Recheck,
         ListFiles, EraseRows, CommitRemove, SweepFile, Begins, Continues, Ends, DropsThen
<1>2. CASE request[r].pc \in Steps
  BY <1>1, <1>2, BusyTypes DEF RequestOK
<1>3. CASE request[r].pc \notin Steps
  <2>1. \/ \E q \in Requirements : BeginUpload(r, q)
        \/ \E d \in Documents : BeginDelete(r, d)
        \/ BeginRemove(r) \/ BeginBulkRemove(r)
    BY <1>3 DEF UploadStep, StoreObject, Upsert, DeleteStep, DeleteRow, DropObject, RemoveStep,
                Recheck, ListFiles, EraseRows, CommitRemove, SweepFile, Steps, Uploading, Removing
  <2>2. \E req : req.pc \in {"store", "row", "list", "recheck"} /\ Begins(r, req)
    <3>1. ASSUME NEW q \in Requirements, BeginUpload(r, q)
          PROVE  \E req : req.pc = "store" /\ Begins(r, req)
      BY <3>1 DEF BeginUpload, Request
    <3>2. ASSUME NEW d \in Documents, BeginDelete(r, d)
          PROVE  \E req : req.pc = "row" /\ Begins(r, req)
      BY <3>2 DEF BeginDelete, Request
    <3>3. ASSUME BeginRemove(r) \/ BeginBulkRemove(r)
          PROVE  \E req : req.pc \in {"list", "recheck"} /\ Begins(r, req)
      BY <3>3 DEF BeginRemove, BeginBulkRemove, Request
    <3> QED
      BY <2>1, <3>1, <3>2, <3>3
  <2>3. request'[r].pc \in {"store", "row", "list", "recheck"}
    BY <2>2 DEF Begins, RequestOK, TypeOK
  <2> QED
    BY <1>1, <2>3 DEF Busy, Idle
<1> QED
  BY <1>2, <1>3

\* It is enough to look at the one that acts.
LEMMA TidyInTurn ==
  ASSUME NEW r \in Requests, \A s \in Requests \ {r} : request'[s] = Idle,
         ReadsStill(r)', \A o \in Objects : Orphan(o)' => Owes(r, o)'
  PROVE  Tidy'
<1>1. ASSUME NEW s \in Requests \ {r} PROVE ReadsStill(s)'
  BY <1>1 DEF ReadsStill, Idle, Uploading
<1> QED
  BY <1>1 DEF Tidy

LEMMA OwesInTurn ==
  ASSUME Tidy, NEW r \in Requests, \A s \in Requests \ {r} : request[s] = Idle,
         NEW o \in Objects, Orphan(o)
  PROVE  Owes(r, o)
BY DEF Tidy, Owes, Idle

\* A step that leaves rows and objects alone keeps the shelf and the orphans.
LEMMA NothingStored ==
  ASSUME UNCHANGED <<documents, objects>>
  PROVE  /\ AllRows' = AllRows /\ OnShelf' = OnShelf
         /\ \A q : RowsOf(q)' = RowsOf(q)
         /\ \A o \in Objects : Orphan(o)' <=> Orphan(o)
BY DEF AllRows, OnShelf, RowsOf, Present, Orphan

LEMMA UploadTidy ==
  ASSUME RequestOK, ShelfSound, Tidy, Alone, Alone', NEW r \in Requests, UploadStep(r)
  PROVE  Tidy'
<1>1. \A s \in Requests \ {r} : request[s] = Idle /\ request'[s] = Idle
  BY ActsAlone, OthersWait
<1>2. \A o \in Objects : Orphan(o) => Owes(r, o)
  BY <1>1, OwesInTurn
<1>3. faults' = faults /\ faults = 0
  BY DEF Alone
<1>4. ASSUME NEW q \in Requirements, BeginUpload(r, q) PROVE Tidy'
  <2>1. PICK o \in Objects, old \in Objects \cup {NoObject} :
          /\ IF RowsOf(q) = {} THEN old = NoObject
             ELSE \E d \in RowsOf(q) : old = documents[d].file
          /\ Begins(r, [Request("store") EXCEPT !.type = q, !.new = o, !.drop = old])
    BY <1>4 DEF BeginUpload
  <2>2. /\ request[r] = Idle
        /\ request'[r].pc = "store" /\ request'[r].type = q /\ request'[r].drop = old
    BY <2>1 DEF Begins, Busy, Request, RequestOK, TypeOK
  <2>3. \A d \in RowsOf(q) : old = documents[d].file
    BY <2>1 DEF RowsOf, AllRows, ShelfSound, OneRowEach
  <2>4. UNCHANGED <<documents, objects>>
    BY <1>4 DEF BeginUpload
  <2>5. \A p \in Objects : ~Orphan(p)'
    BY <1>2, <2>2, <2>4, NothingStored DEF Owes, Idle
  <2>6. ReadsStill(r)'
    BY <2>2, <2>3, <2>4, NothingStored DEF ReadsStill
  <2> QED
    BY <1>1, <2>5, <2>6, TidyInTurn
<1>5. CASE StoreObject(r)
  <2>1. request[r].pc = "store" /\ request[r] \in Requested /\ request[r].new \in Objects
    BY <1>5, BusyTypes DEF StoreObject, RequestOK, FieldsSet, Uploading, Steps
  <2>2. /\ objects' = [objects EXCEPT ![request[r].new] = "STORED"]
        /\ Continues(r, "upsert") /\ UNCHANGED documents
    BY <1>3, <1>5 DEF StoreObject, Fault
  <2>3. /\ request'[r].pc = "upsert" /\ request'[r].new = request[r].new
        /\ request'[r].type = request[r].type /\ request'[r].drop = request[r].drop
    BY <2>1, <2>2 DEF Continues, Requested, RequestOK, TypeOK
  <2>4. OnShelf' = OnShelf /\ \A q : RowsOf(q)' = RowsOf(q)
    BY <2>2 DEF OnShelf, AllRows, RowsOf, Present
  <2>5. ASSUME NEW o \in Objects, Orphan(o)' PROVE Owes(r, o)'
    <3>1. CASE o = request[r].new
      BY <2>3, <3>1 DEF Owes
    <3>2. CASE o # request[r].new
      <4>1. Orphan(o)
        BY <2>2, <2>4, <2>5, <3>2 DEF Orphan, RequestOK, TypeOK
      <4> QED
        BY <1>2, <2>1, <4>1 DEF Owes
    <3> QED
      BY <3>1, <3>2
  <2>6. ReadsStill(r)'
    BY <2>1, <2>2, <2>3, <2>4 DEF ReadsStill, Tidy, Uploading
  <2> QED
    BY <1>1, <2>5, <2>6, TidyInTurn
<1>6. CASE Upsert(r)
  <2>1. /\ request[r].pc = "upsert" /\ request[r] \in Requested
        /\ request[r].type \in Requirements /\ request[r].new \in Objects
    BY <1>6, BusyTypes DEF Upsert, RequestOK, FieldsSet, Uploading, Steps
  <2>2. \A o \in Objects : Orphan(o) => o = request[r].new
    BY <1>2, <2>1 DEF Owes
  <2>3. CASE documents' \in Saved(request[r].type, request[r].new) /\ request' = AfterSave(r)
    <3>1. PICK d \in Documents :
            /\ documents[d] = Absent \/ d \in RowsOf(request[r].type)
            /\ documents' = [documents EXCEPT ![d] = Row(request[r].type, request[r].new)]
      BY <2>1, <2>3, SavedRows DEF RequestOK
    <3>2. /\ d \in AllRows' /\ documents'[d].file = request[r].new
          /\ \A e \in Documents \ {d} : documents'[e] = documents[e]
      BY <3>1 DEF AllRows, Present, Row, RequestOK, TypeOK
    <3>3. ASSUME NEW o \in Objects, Orphan(o)' PROVE Owes(r, o)'
      <4>1. objects[o] = "STORED" /\ o # request[r].new
        BY <1>6, <3>2, <3>3 DEF Orphan, OnShelf, Upsert
      <4>2. PICK e \in AllRows : documents[e].file = o
        BY <2>2, <4>1 DEF Orphan, OnShelf
      <4>3. e = d
        BY <3>2, <3>3, <4>2 DEF Orphan, OnShelf, AllRows, Present
      <4>4. d \in RowsOf(request[r].type)
        BY <3>1, <4>2, <4>3 DEF AllRows, Present, Absent
      <4>5. request[r].drop = o
        BY <2>1, <4>2, <4>3, <4>4 DEF Tidy, ReadsStill, Uploading
      <4>6. request'[r] = [request[r] EXCEPT !.pc = "drop"]
        BY <2>3, <4>5, DocumentsAssumption DEF AfterSave, RequestOK, TypeOK
      <4>7. request'[r].pc = "drop" /\ request'[r].drop = o
        BY <2>1, <4>5, <4>6 DEF Requested
      <4> QED
        BY <4>7 DEF Owes
    <3>4. request'[r].pc \in {"idle", "drop"}
      BY <2>1, <2>3 DEF AfterSave, Idle, Requested, RequestOK, TypeOK
    <3>5. ReadsStill(r)'
      BY <3>4 DEF ReadsStill, Uploading
    <3> QED
      BY <1>1, <3>3, <3>5, TidyInTurn
  <2>4. CASE DropsThen(r, request[r].new) /\ UNCHANGED documents
    <3>1. request'[r].pc = "drop" /\ request'[r].drop = request[r].new
      BY <2>1, <2>4 DEF DropsThen, Requested, RequestOK, TypeOK
    <3>2. \A o \in Objects : Orphan(o)' => Owes(r, o)'
      BY <1>6, <2>2, <2>4, <3>1, NothingStored DEF Upsert, Owes
    <3>3. ReadsStill(r)'
      BY <3>1 DEF ReadsStill, Uploading
    <3> QED
      BY <1>1, <3>2, <3>3, TidyInTurn
  <2> QED
    BY <1>3, <1>6, <2>3, <2>4 DEF Upsert, Fault
<1> QED
  BY <1>4, <1>5, <1>6 DEF UploadStep

LEMMA DeleteTidy ==
  ASSUME RequestOK, ShelfSound, Tidy, Alone, Alone', NEW r \in Requests, DeleteStep(r)
  PROVE  Tidy'
<1>1. \A s \in Requests \ {r} : request[s] = Idle /\ request'[s] = Idle
  BY ActsAlone, OthersWait
<1>2. \A o \in Objects : Orphan(o) => Owes(r, o)
  BY <1>1, OwesInTurn
<1>3. faults' = faults /\ faults = 0
  BY DEF Alone
<1>4. ASSUME NEW d \in Documents, BeginDelete(r, d) PROVE Tidy'
  <2>1. /\ request[r] = Idle
        /\ request'[r].pc = "row" /\ request'[r].document = d
        /\ request'[r].drop = documents[d].file
    BY <1>4 DEF BeginDelete, Begins, Busy, Request, RequestOK, TypeOK
  <2>2. UNCHANGED <<documents, objects>>
    BY <1>4 DEF BeginDelete
  <2>3. \A o \in Objects : ~Orphan(o)'
    BY <1>2, <2>1, <2>2, NothingStored DEF Owes, Idle
  <2>4. ReadsStill(r)'
    BY <2>1, <2>2 DEF ReadsStill, Uploading
  <2> QED
    BY <1>1, <2>3, <2>4, TidyInTurn
<1>5. CASE DeleteRow(r)
  <2>1. request[r].pc = "row" /\ request[r] \in Requested /\ request[r].document \in Documents
    BY <1>5, BusyTypes DEF DeleteRow, RequestOK, FieldsSet, Steps
  <2>2. \A o \in Objects : ~Orphan(o)
    BY <1>2, <2>1 DEF Owes
  <2>3. CASE /\ Present(request[r].document)
             /\ documents' = [documents EXCEPT ![request[r].document] = Deleted]
             /\ Continues(r, "drop")
    <3>1. request'[r].pc = "drop" /\ request'[r].drop = request[r].drop
      BY <2>1, <2>3 DEF Continues, Requested, RequestOK, TypeOK
    <3>2. \A e \in Documents \ {request[r].document} : documents'[e] = documents[e]
      BY <2>1, <2>3 DEF RequestOK, TypeOK
    <3>3. ASSUME NEW o \in Objects, Orphan(o)' PROVE Owes(r, o)'
      <4>1. PICK e \in AllRows : documents[e].file = o
        BY <1>5, <2>2, <3>3 DEF Orphan, OnShelf, DeleteRow
      <4>2. e = request[r].document
        BY <3>2, <3>3, <4>1 DEF Orphan, OnShelf, AllRows, Present
      <4>3. request[r].drop = o
        BY <2>1, <2>3, <4>1, <4>2 DEF Tidy, ReadsStill
      <4> QED
        BY <3>1, <4>3 DEF Owes
    <3>4. ReadsStill(r)'
      BY <3>1 DEF ReadsStill, Uploading
    <3> QED
      BY <1>1, <3>3, <3>4, TidyInTurn
  <2>4. CASE Ends(r) /\ UNCHANGED documents
    <3>1. \A o \in Objects : ~Orphan(o)'
      BY <1>5, <2>2, <2>4, NothingStored DEF DeleteRow
    <3>2. ReadsStill(r)'
      BY <2>4 DEF Ends, Idle, ReadsStill, Uploading, RequestOK, TypeOK
    <3> QED
      BY <1>1, <3>1, <3>2, TidyInTurn
  <2> QED
    BY <1>5, <2>3, <2>4 DEF DeleteRow
<1>6. CASE DropObject(r)
  <2>1. /\ request[r].pc = "drop" /\ request[r].drop \in Objects
        /\ objects' = [objects EXCEPT ![request[r].drop] = "GONE"]
    BY <1>3, <1>6 DEF DropObject, Fault, RequestOK, FieldsSet
  <2>2. OnShelf' = OnShelf
    BY <1>6 DEF DropObject, OnShelf, AllRows, Present
  <2>3. ASSUME NEW o \in Objects PROVE ~Orphan(o)'
    <3>1. CASE o = request[r].drop
      BY <2>1, <3>1 DEF Orphan, RequestOK, TypeOK
    <3>2. CASE o # request[r].drop
      <4>1. ~Orphan(o)
        BY <1>2, <2>1, <3>2 DEF Owes
      <4> QED
        BY <2>1, <2>2, <3>2, <4>1 DEF Orphan, RequestOK, TypeOK
    <3> QED
      BY <3>1, <3>2
  <2>4. ReadsStill(r)'
    BY <1>6 DEF DropObject, Ends, Idle, ReadsStill, Uploading, RequestOK, TypeOK
  <2> QED
    BY <1>1, <2>3, <2>4, TidyInTurn
<1> QED
  BY <1>4, <1>5, <1>6 DEF DeleteStep

LEMMA RemoveTidy ==
  ASSUME RequestOK, ShelfSound, Tidy, Alone, Alone', NEW r \in Requests, RemoveStep(r)
  PROVE  Tidy'
<1>1. \A s \in Requests \ {r} : request[s] = Idle /\ request'[s] = Idle
  BY ActsAlone, OthersWait
<1>2. \A o \in Objects : Orphan(o) => Owes(r, o)
  BY <1>1, OwesInTurn
<1>3. faults' = faults /\ faults = 0
  BY DEF Alone
<1>4. ASSUME UNCHANGED <<documents, objects>>, ReadsStill(r)',
             request[r] = Idle \/ request[r].pc \in Removing \ {"sweep"}
      PROVE  Tidy'
  <2>1. \A o \in Objects : ~Orphan(o)
    BY <1>2, <1>4 DEF Owes, Idle, Removing
  <2> QED
    BY <1>1, <1>4, <2>1, NothingStored, TidyInTurn
<1>5. ASSUME request'[r].pc \in {"list", "recheck", "idle", "sweep"}
      PROVE  ReadsStill(r)'
  BY <1>5 DEF ReadsStill, Uploading
<1>6. ASSUME Ends(r) PROVE request'[r].pc = "idle"
  BY <1>6 DEF Ends, Idle, RequestOK, TypeOK
<1>7. CASE BeginRemove(r) \/ BeginBulkRemove(r)
  <2>1. \E pc \in {"list", "recheck"} : Begins(r, Request(pc))
    BY <1>7 DEF BeginRemove, BeginBulkRemove
  <2>2. request[r] = Idle /\ request'[r].pc \in {"list", "recheck"}
    BY <2>1 DEF Begins, Busy, Request, RequestOK, TypeOK
  <2> QED
    BY <1>4, <1>5, <1>7, <2>2 DEF BeginRemove, BeginBulkRemove
<1>8. CASE Recheck(r)
  <2>1. request[r].pc = "recheck" /\ request[r] \in Requested
    BY <1>8, BusyTypes DEF Recheck, RequestOK, Steps, Removing
  <2>2. request'[r].pc \in {"list", "idle"}
    BY <1>6, <1>8, <2>1 DEF Recheck, Continues, Requested, RequestOK, TypeOK
  <2> QED
    BY <1>4, <1>5, <1>8, <2>1, <2>2 DEF Recheck, Removing
<1>9. CASE ListFiles(r)
  <2>1. request[r].pc = "list" /\ request[r] \in Requested
    BY <1>9, BusyTypes DEF ListFiles, RequestOK, Steps, Removing
  <2>2. request'[r].pc = "erase" /\ request'[r].files = OnShelf
    BY <1>9, <2>1 DEF ListFiles, Requested, RequestOK, TypeOK
  <2>3. ReadsStill(r)'
    BY <1>9, <2>2, NothingStored DEF ListFiles, ReadsStill, Uploading
  <2> QED
    BY <1>4, <1>9, <2>1, <2>3 DEF ListFiles, Removing
<1>10. CASE EraseRows(r)
  <2>1. /\ request[r].pc = "erase" /\ request[r] \in Requested /\ request[r].files = OnShelf
    BY <1>10, BusyTypes DEF EraseRows, RequestOK, Steps, Removing, Tidy, ReadsStill
  <2>2. /\ request'[r].pc = "commit" /\ request'[r].rows = AllRows
        /\ request'[r].files = OnShelf
    BY <1>10, <2>1 DEF EraseRows, Requested, RequestOK, TypeOK
  <2>3. ReadsStill(r)'
    BY <1>10, <2>2, NothingStored DEF EraseRows, ReadsStill, Uploading
  <2> QED
    BY <1>4, <1>10, <2>1, <2>3 DEF EraseRows, Removing
<1>11. CASE CommitRemove(r)
  <2>1. /\ request[r].pc = "commit" /\ request[r] \in Requested
        /\ request[r].files = OnShelf /\ request[r].rows = AllRows
    BY <1>11, BusyTypes DEF CommitRemove, RequestOK, Steps, Removing, Tidy, ReadsStill
  <2>2. CASE Ends(r) /\ UNCHANGED documents
    BY <1>4, <1>5, <1>6, <1>11, <2>1, <2>2 DEF CommitRemove, Removing
  <2>3. CASE /\ documents' = [d \in Documents |->
                  IF d \in request[r].rows THEN Deleted ELSE documents[d]]
             /\ IF request[r].files = {} THEN Ends(r) ELSE Continues(r, "sweep")
    <3>1. \/ request'[r].pc = "sweep" /\ request'[r].files = OnShelf
          \/ request'[r].pc = "idle" /\ OnShelf = {}
      BY <1>6, <2>1, <2>3 DEF Continues, Requested, RequestOK, TypeOK
    <3>2. ASSUME NEW o \in Objects, Orphan(o)' PROVE Owes(r, o)'
      <4>1. ~Orphan(o)
        BY <1>2, <2>1 DEF Owes
      <4>2. o \in OnShelf
        BY <1>11, <3>2, <4>1 DEF Orphan, CommitRemove
      <4> QED
        BY <3>1, <4>2 DEF Owes
    <3> QED
      BY <1>1, <1>5, <3>1, <3>2, TidyInTurn
  <2> QED
    BY <1>11, <2>2, <2>3 DEF CommitRemove
<1>12. CASE SweepFile(r)
  <2>1. request[r].pc = "sweep" /\ request[r] \in Requested
    BY <1>12, BusyTypes DEF SweepFile, RequestOK, Steps, Removing
  <2>2. PICK o \in request[r].files :
          /\ objects' = [objects EXCEPT ![o] = "GONE"]
          /\ IF request[r].files = {o} THEN Ends(r)
             ELSE request' = [request EXCEPT ![r].files = @ \ {o}]
    BY <1>3, <1>12 DEF SweepFile, Fault
  <2>3. \/ request'[r].pc = "idle" /\ request[r].files = {o}
        \/ request'[r].pc = "sweep" /\ request'[r].files = request[r].files \ {o}
    BY <1>6, <2>1, <2>2 DEF Requested, RequestOK, TypeOK
  <2>4. OnShelf' = OnShelf
    BY <1>12 DEF SweepFile, OnShelf, AllRows, Present
  <2>5. ASSUME NEW p \in Objects, Orphan(p)' PROVE Owes(r, p)'
    <3>1. p # o /\ Orphan(p)
      BY <2>2, <2>4, <2>5 DEF Orphan, RequestOK, TypeOK
    <3>2. p \in request[r].files
      BY <1>2, <2>1, <3>1 DEF Owes
    <3> QED
      BY <2>3, <3>1, <3>2 DEF Owes
  <2> QED
    BY <1>1, <1>5, <2>3, <2>5, TidyInTurn
<1> QED
  BY <1>7, <1>8, <1>9, <1>10, <1>11, <1>12 DEF RemoveStep

LEMMA NextTidy ==
  ASSUME RequestOK, ShelfSound, Tidy, Alone, Alone', [Next]_vars
  PROVE  Tidy'
<1>1. CASE EditStatus \/ UNCHANGED vars
  <2>1. UNCHANGED <<documents, objects, request>>
    BY <1>1 DEF EditStatus, vars
  <2> QED
    BY <2>1, NothingStored DEF Tidy, ReadsStill, Owes, Present
<1>2. ASSUME NEW r \in Requests, RequestLost(r) PROVE FALSE
  BY <1>2 DEF RequestLost, Fault, Alone
<1> QED
  BY <1>1, <1>2, UploadTidy, DeleteTidy, RemoveTidy DEF Next

\* When requests take turns and nothing fails, none leaves an object that no row
\* points at, whatever answers could have been lost: a replacement, a failed
\* upload, a delete and the deletion of the student clean up after themselves
\* (uploadDocument, deleteDocument, deleteStudentFiles).
THEOREM TurnsClean == Spec => TurnsLeaveNoOrphans
<1> DEFINE Idles == \A r \in Requests : ~Busy(r)
<1>1. Init => Tidy
  BY DEF Init, Tidy, ReadsStill, Orphan, Idle, Uploading
<1>2. RequestOK /\ ShelfSound /\ Tidy /\ Alone /\ Alone' /\ [Next]_vars => Tidy' /\ ShelfSound'
  BY NextTidy, NextShelfSound DEF NoLostAnswer, Alone
<1>3. Tidy => (Idles => NoOrphans)
  BY DEF Tidy, Owes, Orphan, NoOrphans, Busy, Idle
<1> HIDE DEF Idles
<1>4. Spec /\ []Alone => [](Idles => NoOrphans)
  BY <1>1, <1>2, <1>3, InitShelfSound, SpecRequestOK, PTL DEF Spec
<1> QED
  BY <1>4, PTL DEF TurnsLeaveNoOrphans, Alone, Idles

=============================================================================

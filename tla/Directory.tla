----------------------------- MODULE Directory ------------------------------
(***************************************************************************)
(* Establishments and the one supervisor each may have                     *)
(* (establishment.service.ts, and removeSupervisor of                      *)
(* coordinator.service.ts).                                                *)
(*                                                                         *)
(* An establishment is known by its name and branch as somebody would say  *)
(* them, not as they were typed: two key columns hold the normalised pair  *)
(* under a unique index.  An update may send only one of the two and takes *)
(* the other from a row that it has read before.                           *)
(*                                                                         *)
(* The writes of a transaction take effect at its commit, where the index  *)
(* and the foreign keys decide; the reads before it are actions of their   *)
(* own.  User names and accounts are left to Accounts.                     *)
(***************************************************************************)
CONSTANTS
  Establishments, Supervisors,             \* row ids
  Names, Branches,                         \* labels [key, typed], as trimmed
  NoBranch, Same,                          \* no branch; a field left out of a form
  Requests,
  Absent, Deleted                          \* an id that no row has yet, or had

ASSUME DirectoryAssumption ==
  /\ Absent # Deleted
  /\ {Absent, Deleted} \cap Establishments = {}
  /\ {Absent, Deleted} \cap [name : Names, branch : Branches \cup {NoBranch},
       nameKey : {n.key : n \in Names},
       branchKey : {b.key : b \in Branches \cup {NoBranch}}] = {}
  /\ Same \notin Names \cup Branches \cup {NoBranch}
  /\ \A b \in Branches : b.key # NoBranch.key

VARIABLES
  establishments,   \* rows with their label and their stored keys
  supervisors,      \* the establishment of each supervisor row
  request           \* handlers in flight

vars == <<establishments, supervisors, request>>

Labels == [name : Names, branch : Branches \cup {NoBranch}]

\* establishmentKeys.
Keys(l) == [nameKey |-> l.name.key, branchKey |-> l.branch.key]

Row(l) == [name |-> l.name, branch |-> l.branch,
           nameKey |-> Keys(l).nameKey, branchKey |-> Keys(l).branchKey]

EstablishmentRows ==
  [name : Names, branch : Branches \cup {NoBranch},
   nameKey : {n.key : n \in Names}, branchKey : {b.key : b \in Branches \cup {NoBranch}}]

Living == {e \in Establishments : establishments[e] \notin {Absent, Deleted}}
Employed == {s \in Supervisors : supervisors[s] \notin {Absent, Deleted}}

LabelOf(e) == [name |-> establishments[e].name, branch |-> establishments[e].branch]
KeysOf(e) ==
  [nameKey |-> establishments[e].nameKey, branchKey |-> establishments[e].branchKey]

SupervisorsOf(e) == {s \in Employed : supervisors[s] = e}

\* A form: each field is a value to store, or was left out.
Forms == [name : Names \cup {Same}, branch : Branches \cup {NoBranch, Same}]

Whole(f) == f.name # Same /\ f.branch # Same

Idle == [pc |-> "idle"]
Busy(r) == request[r] # Idle

\* Where a handler is, and what it has read.
Handling ==
  {Idle}
  \cup [pc : {"recheck", "insert"}, label : Labels, staffed : BOOLEAN]
  \cup [pc : {"vacancy", "hire"}, at : Establishments]
  \cup [pc : {"available", "rewrite"}, at : Establishments, form : Forms, label : Labels]
  \cup [pc : {"list"}, at : Establishments]
  \cup [pc : {"raze"}, at : Establishments, seen : SUBSET Supervisors]

TypeOK ==
  /\ establishments \in [Establishments -> EstablishmentRows \cup {Absent, Deleted}]
  /\ supervisors \in [Supervisors -> Establishments \cup {Absent, Deleted}]
  /\ request \in [Requests -> Handling]

Init ==
  /\ establishments = [e \in Establishments |-> Absent]
  /\ supervisors = [s \in Supervisors |-> Absent]
  /\ request = [r \in Requests |-> Idle]

-----------------------------------------------------------------------------
Begins(r, req) == ~Busy(r) /\ request' = [request EXCEPT ![r] = req]
Continues(r, pc) == request' = [request EXCEPT ![r].pc = pc]
Ends(r) == request' = [request EXCEPT ![r] = Idle]

\* The living establishments that hold the keys, but for the one being edited.
Taken(k, self) == {e \in Living \ self : KeysOf(e) = k}

\* The unique index on Supervisor.establishmentId.
BrokenVacant(e) == TRUE
Vacant(e) == SupervisorsOf(e) = {}

\* A new id: which one does not matter.
HasNew(rows) == \E i \in DOMAIN rows : rows[i] = Absent
New(rows) == CHOOSE i \in DOMAIN rows : rows[i] = Absent

-----------------------------------------------------------------------------
\* create, with or without a supervisor.

BeginCreate(r, l, staffed) ==
  /\ Taken(Keys(l), {}) = {}
  /\ Begins(r, [pc |-> IF staffed THEN "recheck" ELSE "insert",
                label |-> l, staffed |-> staffed])
  /\ UNCHANGED <<establishments, supervisors>>

\* In the transaction, once more before the insert.
RecheckName(r) ==
  /\ request[r].pc = "recheck"
  /\ IF Taken(Keys(request[r].label), {}) = {} THEN Continues(r, "insert") ELSE Ends(r)
  /\ UNCHANGED <<establishments, supervisors>>

\* The insert, which the unique index may refuse (rethrowNameClash); its
\* supervisor, if any, is inserted by the same transaction.
Insert(r) ==
  /\ request[r].pc = "insert"
  /\ LET l == request[r].label IN
     IF Taken(Keys(l), {}) = {}
     THEN /\ HasNew(establishments)
          /\ establishments' = [establishments EXCEPT ![New(establishments)] = Row(l)]
          /\ IF request[r].staffed
             THEN /\ HasNew(supervisors)
                  /\ supervisors' =
                       [supervisors EXCEPT ![New(supervisors)] = New(establishments)]
             ELSE UNCHANGED supervisors
     ELSE UNCHANGED <<establishments, supervisors>>
  /\ Ends(r)

-----------------------------------------------------------------------------
\* addSupervisor: refused three times over.

BeginHire(r, e) ==
  /\ e \in Living
  /\ Vacant(e)
  /\ Begins(r, [pc |-> "vacancy", at |-> e])
  /\ UNCHANGED <<establishments, supervisors>>

RecheckVacancy(r) ==
  /\ request[r].pc = "vacancy"
  /\ IF SupervisorsOf(request[r].at) = {} THEN Continues(r, "hire") ELSE Ends(r)
  /\ UNCHANGED <<establishments, supervisors>>

\* The insert: the index may refuse it, and the establishment may be gone.
Hire(r) ==
  /\ request[r].pc = "hire"
  /\ IF request[r].at \in Living /\ Vacant(request[r].at)
     THEN /\ HasNew(supervisors)
          /\ supervisors' = [supervisors EXCEPT ![New(supervisors)] = request[r].at]
     ELSE UNCHANGED supervisors
  /\ Ends(r)
  /\ UNCHANGED establishments

-----------------------------------------------------------------------------
\* update, of a name, a branch or both.

\* The label that a form gives an establishment, and the keys come from: a
\* field left out keeps the value that was read.
Result(f, old) ==
  [name |-> IF f.name = Same THEN old.name ELSE f.name,
   branch |-> IF f.branch = Same THEN old.branch ELSE f.branch]

BeginUpdate(r, e, f) ==
  /\ e \in Living
  /\ f.name # Same \/ f.branch # Same
  /\ Begins(r, [pc |-> "available", at |-> e, form |-> f, label |-> Result(f, LabelOf(e))])
  /\ UNCHANGED <<establishments, supervisors>>

CheckAvailable(r) ==
  /\ request[r].pc = "available"
  /\ IF Taken(Keys(request[r].label), {request[r].at}) = {}
     THEN Continues(r, "rewrite") ELSE Ends(r)
  /\ UNCHANGED <<establishments, supervisors>>

BrokenRewritten(row, f, l) ==   \* forgets the keys
  [row EXCEPT !.name = Result(f, row).name, !.branch = Result(f, row).branch]
\* The fields of the form and both keys are written, the rest of the row stays.
Rewritten(row, f, l) ==
  [Row(Result(f, row)) EXCEPT !.nameKey = Keys(l).nameKey, !.branchKey = Keys(l).branchKey]

Rewrite(r) ==
  /\ request[r].pc = "rewrite"
  /\ LET e == request[r].at
         l == request[r].label
     IN  IF e \in Living /\ Taken(Keys(l), {e}) = {}
         THEN establishments' =
                [establishments EXCEPT ![e] = Rewritten(@, request[r].form, l)]
         ELSE UNCHANGED establishments
  /\ Ends(r)
  /\ UNCHANGED supervisors

-----------------------------------------------------------------------------
\* remove.

BeginRemove(r, e) ==
  /\ e \in Living
  /\ Begins(r, [pc |-> "list", at |-> e])
  /\ UNCHANGED <<establishments, supervisors>>

\* In the transaction: the supervisors to delete first.
ListSupervisors(r) ==
  /\ request[r].pc = "list"
  /\ request' = [request EXCEPT
       ![r] = [pc |-> "raze", at |-> @.at, seen |-> SupervisorsOf(@.at)]]
  /\ UNCHANGED <<establishments, supervisors>>

BrokenRemovable(e, seen) == e \in Living   \* no foreign key
\* A supervisor deleted meanwhile, or hired meanwhile (the foreign key of
\* Supervisor is RESTRICT), aborts the transaction.
Removable(e, seen) == e \in Living /\ SupervisorsOf(e) = seen

\* The supervisors and the establishment go, or neither.  What becomes of the
\* students is in StudentRecord.
Raze(r) ==
  /\ request[r].pc = "raze"
  /\ LET e == request[r].at
         seen == request[r].seen
     IN  IF Removable(e, seen)
         THEN /\ establishments' = [establishments EXCEPT ![e] = Deleted]
              /\ supervisors' =
                   [s \in Supervisors |-> IF s \in seen THEN Deleted ELSE supervisors[s]]
         ELSE UNCHANGED <<establishments, supervisors>>
  /\ Ends(r)

-----------------------------------------------------------------------------
\* The coordinator removes a supervisor: removeSupervisor.
RemoveSupervisor(s) ==
  /\ s \in Employed
  /\ supervisors' = [supervisors EXCEPT ![s] = Deleted]
  /\ UNCHANGED <<establishments, request>>

\* A crash, a timeout or a lost connection: a transaction rolls back.
RequestLost(r) ==
  /\ Busy(r)
  /\ Ends(r)
  /\ UNCHANGED <<establishments, supervisors>>

EditStep(r) ==
  \/ \E l \in Labels, staffed \in BOOLEAN : BeginCreate(r, l, staffed)
  \/ RecheckName(r) \/ Insert(r)
  \/ \E e \in Establishments, f \in Forms : BeginUpdate(r, e, f)
  \/ CheckAvailable(r) \/ Rewrite(r)

StaffStep(r) ==
  \/ \E e \in Establishments : BeginHire(r, e)
  \/ RecheckVacancy(r) \/ Hire(r)

RemoveStep(r) ==
  \/ \E e \in Establishments : BeginRemove(r, e)
  \/ ListSupervisors(r) \/ Raze(r)

Next ==
  \/ \E r \in Requests : EditStep(r) \/ StaffStep(r) \/ RemoveStep(r) \/ RequestLost(r)
  \/ \E s \in Supervisors : RemoveSupervisor(s)

Spec == Init /\ [][Next]_vars

-----------------------------------------------------------------------------
\* Properties.

\* Two living establishments are told apart by name and branch, however they
\* were typed (establishment-identity.ts).
LabelsUnique ==
  \A e, f \in Living :
    establishments[e].name.key = establishments[f].name.key
      /\ establishments[e].branch.key = establishments[f].branch.key => e = f

Updating(r) == request[r].pc \in {"available", "rewrite"}

\* No update that leaves a field out runs beside another update.
NoMixedForms ==
  \A r, s \in Requests :
    r # s /\ Updating(r) /\ Updating(s) => Whole(request[r].form) /\ Whole(request[s].form)

\* Establishments stay told apart as long as updates that leave a field out
\* take turns: the unique index holds the keys, and the keys then always are
\* those of the name and the branch (EstablishmentService.update).
LabelsStayApart == []NoMixedForms => []LabelsUnique

\* No supervisor is left at an establishment that is gone, in whatever order
\* removals and hires meet (EstablishmentService.remove).
PlacementsLive == \A s \in Employed : supervisors[s] \in Living

\* An establishment never has two supervisors, though two requests may both
\* find it without one (EstablishmentService.addSupervisor).
OneSupervisorEach ==
  \A s, u \in Employed : s # u => supervisors[s] # supervisors[u]

\* The register that the rows stand for.
Register == INSTANCE Registry WITH
  KeyPairs  <- [nameKey : {n.key : n \in Names},
                branchKey : {b.key : b \in Branches \cup {NoBranch}}],
  key       <- [e \in Living |-> KeysOf(e)],
  post      <- [s \in Employed |-> supervisors[s]],
  closed    <- {e \in Establishments : establishments[e] = Deleted},
  dismissed <- {s \in Supervisors : supervisors[s] = Deleted}

\* However reads and writes of handlers meet, the rows change as a register does
\* whose operations are single moments: no two open establishments with the same
\* keys, no second supervisor, no supervisor who stays at a closed one or comes
\* back (create, addSupervisor, update, remove, removeSupervisor).
RefinesRegistry == Register!Spec

=============================================================================

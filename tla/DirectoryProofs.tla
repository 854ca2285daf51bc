-------------------------- MODULE DirectoryProofs ---------------------------
(***************************************************************************)
(* Theorems about Directory for every value of its constants, and about    *)
(* AddressForm: the establishments, and their addresses.                   *)
(***************************************************************************)
EXTENDS Directory, AddressForm, TLAPS

-----------------------------------------------------------------------------
\* Type correctness.

\* The fields of a request at each of its steps.
LEMMA RequestTypes ==
  ASSUME TypeOK, NEW r \in Requests
  PROVE  /\ request[r].pc \in {"recheck", "insert"} =>
              request[r] \in [pc : {"recheck", "insert"}, label : Labels, staffed : BOOLEAN]
         /\ request[r].pc \in {"vacancy", "hire"} =>
              request[r] \in [pc : {"vacancy", "hire"}, at : Establishments]
         /\ request[r].pc \in {"available", "rewrite"} =>
              request[r] \in [pc : {"available", "rewrite"}, at : Establishments,
                              form : Forms, label : Labels]
         /\ request[r].pc = "list" => request[r] \in [pc : {"list"}, at : Establishments]
         /\ request[r].pc = "raze" =>
              request[r] \in [pc : {"raze"}, at : Establishments, seen : SUBSET Supervisors]
BY DEF TypeOK, Handling, Idle

\* A label makes a row, and a living row has a label.
LEMMA RowTypes ==
  /\ \A l \in Labels : Row(l) \in EstablishmentRows
  /\ TypeOK => \A e \in Living : /\ establishments[e] \in EstablishmentRows
                                 /\ LabelOf(e) \in Labels
<1>1. \A l \in Labels : Row(l) \in EstablishmentRows
  BY DEF Labels, Row, Keys, EstablishmentRows
<1>2. ASSUME TypeOK, NEW e \in Living
      PROVE  establishments[e] \in EstablishmentRows /\ LabelOf(e) \in Labels
  BY <1>2 DEF TypeOK, Living, EstablishmentRows, LabelOf, Labels
<1> QED
  BY <1>1, <1>2

\* A new id is one that no row has.
LEMMA NewIsAbsent ==
  ASSUME NEW rows, HasNew(rows)
  PROVE  New(rows) \in DOMAIN rows /\ rows[New(rows)] = Absent
BY DEF HasNew, New

LEMMA ResultIsLabel ==
  ASSUME NEW f \in Forms, NEW old \in Labels
  PROVE  Result(f, old) \in Labels
BY DEF Forms, Labels, Result

\* What an update writes is a row.
LEMMA RewrittenIsRow ==
  ASSUME NEW row \in EstablishmentRows, NEW f \in Forms, NEW l \in Labels
  PROVE  /\ Rewritten(row, f, l) \in EstablishmentRows
         /\ Rewritten(row, f, l).name = Result(f, row).name
         /\ Rewritten(row, f, l).branch = Result(f, row).branch
         /\ Rewritten(row, f, l).nameKey = l.name.key
         /\ Rewritten(row, f, l).branchKey = l.branch.key
<1>1. Result(f, row) \in Labels
  BY DEF Forms, Labels, Result, EstablishmentRows
<1>2. Row(Result(f, row)) \in EstablishmentRows
  BY <1>1, RowTypes
<1> QED
  BY <1>1, <1>2 DEF Rewritten, Keys, Labels, EstablishmentRows, Row

LEMMA InitTypeOK == Init => TypeOK
BY DEF Init, TypeOK, Handling

\* A step of a handler keeps the types.
LEMMA EditTypeOK ==
  ASSUME TypeOK, NEW r \in Requests, EditStep(r)
  PROVE  TypeOK'
<1> USE RequestTypes DEF TypeOK, Handling
<1>1. ASSUME NEW l \in Labels, NEW staffed \in BOOLEAN, BeginCreate(r, l, staffed) PROVE TypeOK'
  BY <1>1 DEF BeginCreate, Begins
<1>2. CASE RecheckName(r)
  <2>1. [request[r] EXCEPT !.pc = "insert"] \in Handling
    BY <1>2 DEF RecheckName
  <2> QED
    BY <1>2, <2>1 DEF RecheckName, Continues, Ends
<1>3. CASE Insert(r)
  <2>1. CASE UNCHANGED <<establishments, supervisors>>
    BY <1>3, <2>1 DEF Insert, Ends
  <2>2. CASE /\ HasNew(establishments)
             /\ establishments' =
                  [establishments EXCEPT ![New(establishments)] = Row(request[r].label)]
             /\ \/ UNCHANGED supervisors
                \/ /\ HasNew(supervisors)
                   /\ supervisors' =
                        [supervisors EXCEPT ![New(supervisors)] = New(establishments)]
    <3>1. /\ New(establishments) \in Establishments
          /\ HasNew(supervisors) => New(supervisors) \in Supervisors
      BY <2>2, NewIsAbsent
    <3>2. Row(request[r].label) \in EstablishmentRows
      BY <1>3, RowTypes DEF Insert
    <3> QED
      BY <1>3, <2>2, <3>1, <3>2 DEF Insert, Ends
  <2> QED
    BY <1>3, <2>1, <2>2 DEF Insert
<1>4. ASSUME NEW e \in Establishments, NEW f \in Forms, BeginUpdate(r, e, f) PROVE TypeOK'
  <2>1. Result(f, LabelOf(e)) \in Labels
    BY <1>4, RowTypes, ResultIsLabel DEF BeginUpdate
  <2> QED
    BY <1>4, <2>1 DEF BeginUpdate, Begins
<1>5. CASE CheckAvailable(r)
  <2>1. [request[r] EXCEPT !.pc = "rewrite"] \in Handling
    BY <1>5 DEF CheckAvailable
  <2> QED
    BY <1>5, <2>1 DEF CheckAvailable, Continues, Ends
<1>6. CASE Rewrite(r)
  <2>1. request[r].at \in Living =>
          Rewritten(establishments[request[r].at], request[r].form, request[r].label)
            \in EstablishmentRows
    BY <1>6, RowTypes, RewrittenIsRow DEF Rewrite
  <2> QED
    BY <1>6, <2>1 DEF Rewrite, Ends
<1> QED
  BY <1>1, <1>2, <1>3, <1>4, <1>5, <1>6 DEF EditStep

LEMMA StaffTypeOK ==
  ASSUME TypeOK, NEW r \in Requests, StaffStep(r)
  PROVE  TypeOK'
<1> USE RequestTypes DEF TypeOK, Handling
<1>1. ASSUME NEW e \in Establishments, BeginHire(r, e) PROVE TypeOK'
  BY <1>1 DEF BeginHire, Begins
<1>2. CASE RecheckVacancy(r)
  <2>1. [request[r] EXCEPT !.pc = "hire"] \in Handling
    BY <1>2 DEF RecheckVacancy
  <2> QED
    BY <1>2, <2>1 DEF RecheckVacancy, Continues, Ends
<1>3. CASE Hire(r)
  <2>1. HasNew(supervisors) => New(supervisors) \in Supervisors
    BY NewIsAbsent
  <2> QED
    BY <1>3, <2>1 DEF Hire, Ends
<1> QED
  BY <1>1, <1>2, <1>3 DEF StaffStep

LEMMA RemoveTypeOK ==
  ASSUME TypeOK, NEW r \in Requests, RemoveStep(r)
  PROVE  TypeOK'
<1> USE RequestTypes DEF TypeOK, Handling
<1>1. ASSUME NEW e \in Establishments, BeginRemove(r, e) PROVE TypeOK'
  BY <1>1 DEF BeginRemove, Begins
<1>2. CASE ListSupervisors(r)
  BY <1>2 DEF ListSupervisors, SupervisorsOf, Employed
<1>3. CASE Raze(r)
  BY <1>3 DEF Raze, Ends
<1> QED
  BY <1>1, <1>2, <1>3 DEF RemoveStep

LEMMA NextTypeOK == TypeOK /\ [Next]_vars => TypeOK'
<1> SUFFICES ASSUME TypeOK, [Next]_vars PROVE TypeOK'
  OBVIOUS
<1>1. ASSUME NEW r \in Requests, EditStep(r) \/ StaffStep(r) \/ RemoveStep(r) PROVE TypeOK'
  BY <1>1, EditTypeOK, StaffTypeOK, RemoveTypeOK
<1>2. ASSUME NEW r \in Requests, RequestLost(r) PROVE TypeOK'
  BY <1>2 DEF RequestLost, Ends, TypeOK, Handling
<1>3. ASSUME NEW s \in Supervisors, RemoveSupervisor(s) PROVE TypeOK'
  BY <1>3 DEF RemoveSupervisor, TypeOK
<1>4. CASE UNCHANGED vars
  BY <1>4 DEF vars, TypeOK
<1> QED
  BY <1>1, <1>2, <1>3, <1>4 DEF Next

\* Rows, keys and requests always have their types.
THEOREM TypeCorrect == Spec => []TypeOK
BY InitTypeOK, NextTypeOK, PTL DEF Spec

-----------------------------------------------------------------------------
\* Supervisors and the establishments they are at.

\* One step of the argument needs both halves: a new establishment is without a
\* supervisor because supervisors are at living ones only.
Staffed == PlacementsLive /\ OneSupervisorEach

\* A supervisor is inserted at an establishment without one, and the others stay.
LEMMA HireKeepsStaffed ==
  ASSUME TypeOK, Staffed, NEW e \in Living', NEW s \in Supervisors,
         supervisors[s] = Absent, SupervisorsOf(e) = {},
         supervisors' = [supervisors EXCEPT ![s] = e],
         Living \subseteq Living'
  PROVE  Staffed'
<1>1. e \in Establishments /\ e \notin {Absent, Deleted}
  BY DirectoryAssumption DEF Living
<1>2. Employed' = Employed \cup {s}
  BY <1>1 DEF Employed, TypeOK
<1>3. supervisors'[s] = e /\ \A u \in Employed : supervisors'[u] = supervisors[u]
  BY DEF Employed, TypeOK
<1>4. \A u \in Employed : supervisors[u] # e
  BY DEF SupervisorsOf
<1> QED
  BY <1>2, <1>3, <1>4 DEF Staffed, PlacementsLive, OneSupervisorEach

\* What changes neither a placement nor who is living changes nothing here; a
\* supervisor who goes leaves the others where they are.
LEMMA FewerKeepStaffed ==
  ASSUME TypeOK, Staffed, Employed' \subseteq Employed,
         \A s \in Employed' : supervisors'[s] = supervisors[s]
                                /\ supervisors[s] \in Living'
  PROVE  Staffed'
BY DEF Staffed, PlacementsLive, OneSupervisorEach

LEMMA NextStaffed == TypeOK /\ Staffed /\ [Next]_vars => Staffed'
<1> SUFFICES ASSUME TypeOK, Staffed, [Next]_vars PROVE Staffed'
  OBVIOUS
<1>1. ASSUME NEW r \in Requests, Insert(r) PROVE Staffed'
  <2> DEFINE e == New(establishments)
             row == Row(request[r].label)
  <2>1. row \notin {Absent, Deleted}
    BY <1>1, RequestTypes, RowTypes, DirectoryAssumption DEF Insert, EstablishmentRows
  <2>2. CASE UNCHANGED <<establishments, supervisors>>
    BY <2>2, FewerKeepStaffed DEF Staffed, PlacementsLive, Employed, Living
  <2>3. CASE HasNew(establishments) /\ establishments' = [establishments EXCEPT ![e] = row]
    <3>1. e \in Establishments /\ establishments[e] = Absent
      BY <2>3, NewIsAbsent DEF TypeOK
    <3>2. Living' = Living \cup {e} /\ e \notin Living
      BY <2>1, <2>3, <3>1 DEF Living, TypeOK
    <3>3. CASE UNCHANGED supervisors
      BY <3>2, <3>3, FewerKeepStaffed DEF Staffed, PlacementsLive, Employed
    <3>4. CASE /\ HasNew(supervisors)
               /\ supervisors' = [supervisors EXCEPT ![New(supervisors)] = e]
      <4>1. New(supervisors) \in Supervisors /\ supervisors[New(supervisors)] = Absent
        BY <3>4, NewIsAbsent DEF TypeOK
      <4>2. SupervisorsOf(e) = {}
        BY <3>2 DEF SupervisorsOf, Staffed, PlacementsLive
      <4> HIDE DEF e
      <4> QED
        BY <3>2, <3>4, <4>1, <4>2, HireKeepsStaffed
    <3> QED
      BY <1>1, <2>2, <2>3, <3>3, <3>4 DEF Insert
  <2> QED
    BY <1>1, <2>2, <2>3 DEF Insert
<1>2. ASSUME NEW r \in Requests, Hire(r) PROVE Staffed'
  <2>1. CASE UNCHANGED supervisors
    BY <1>2, <2>1, FewerKeepStaffed DEF Hire, Staffed, PlacementsLive, Employed, Living
  <2>2. CASE /\ request[r].at \in Living /\ Vacant(request[r].at)
             /\ HasNew(supervisors)
             /\ supervisors' = [supervisors EXCEPT ![New(supervisors)] = request[r].at]
    <3>1. New(supervisors) \in Supervisors /\ supervisors[New(supervisors)] = Absent
      BY <2>2, NewIsAbsent DEF TypeOK
    <3>2. Living' = Living
      BY <1>2 DEF Hire, Living
    <3> QED
      BY <2>2, <3>1, <3>2, HireKeepsStaffed DEF Vacant
  <2> QED
    BY <1>2, <2>1, <2>2 DEF Hire
<1>3. ASSUME NEW r \in Requests, Rewrite(r) PROVE Staffed'
  <2>1. Living' = Living
    <3>1. request[r].at \in Living =>
            Rewritten(establishments[request[r].at], request[r].form, request[r].label)
              \notin {Absent, Deleted}
      BY <1>3, RequestTypes, RowTypes, RewrittenIsRow, DirectoryAssumption
         DEF Rewrite, EstablishmentRows
    <3> QED
      BY <1>3, <3>1 DEF Rewrite, Living, TypeOK
  <2> QED
    BY <1>3, <2>1, FewerKeepStaffed DEF Rewrite, Staffed, PlacementsLive, Employed
<1>4. ASSUME NEW r \in Requests, Raze(r) PROVE Staffed'
  <2> DEFINE e == request[r].at
             seen == request[r].seen
  <2>1. CASE UNCHANGED <<establishments, supervisors>>
    BY <2>1, FewerKeepStaffed DEF Staffed, PlacementsLive, Employed, Living
  <2>2. CASE /\ Removable(e, seen)
             /\ establishments' = [establishments EXCEPT ![e] = Deleted]
             /\ supervisors' =
                  [s \in Supervisors |-> IF s \in seen THEN Deleted ELSE supervisors[s]]
    <3>1. Living' = Living \ {e}
      BY <2>2 DEF Living, TypeOK
    <3>2. /\ Employed' = Employed \ seen
          /\ \A s \in Employed' : supervisors'[s] = supervisors[s]
      BY <2>2 DEF Employed
    <3>3. \A s \in Employed' : supervisors[s] # e
      BY <2>2, <3>2 DEF Removable, SupervisorsOf
    <3> QED
      BY <3>1, <3>2, <3>3, FewerKeepStaffed DEF Staffed, PlacementsLive
  <2> QED
    BY <1>4, <2>1, <2>2 DEF Raze
<1>5. ASSUME NEW s \in Supervisors, RemoveSupervisor(s) PROVE Staffed'
  <2>1. Living' = Living
    BY <1>5 DEF RemoveSupervisor, Living
  <2>2. /\ Employed' = Employed \ {s}
        /\ \A u \in Employed' : supervisors'[u] = supervisors[u]
    BY <1>5 DEF RemoveSupervisor, Employed, TypeOK
  <2> QED
    BY <2>1, <2>2, FewerKeepStaffed DEF Staffed, PlacementsLive
<1>6. CASE UNCHANGED <<establishments, supervisors>>
  BY <1>6, FewerKeepStaffed DEF Staffed, PlacementsLive, Employed, Living
<1>7. ASSUME NEW r \in Requests,
             \/ EditStep(r) /\ ~Insert(r) /\ ~Rewrite(r)
             \/ StaffStep(r) /\ ~Hire(r)
             \/ RemoveStep(r) /\ ~Raze(r)
             \/ RequestLost(r)
      PROVE  UNCHANGED <<establishments, supervisors>>
  BY <1>7 DEF EditStep, StaffStep, RemoveStep, RequestLost, BeginCreate, RecheckName,
              BeginUpdate, CheckAvailable, BeginHire, RecheckVacancy, BeginRemove, ListSupervisors
<1> QED
  BY <1>1, <1>2, <1>3, <1>4, <1>5, <1>6, <1>7 DEF Next, vars

LEMMA SpecStaffed == Spec => []Staffed
<1>1. Init => Staffed
  BY DEF Init, Staffed, PlacementsLive, OneSupervisorEach, Employed
<1> QED
  BY <1>1, TypeCorrect, NextStaffed, PTL DEF Spec

\* No supervisor is ever left at an establishment that is gone, however many
\* removals and hires are under way (EstablishmentService.remove).
THEOREM SupervisorsPlaced == Spec => []PlacementsLive
<1>1. Staffed => PlacementsLive
  BY DEF Staffed
<1> QED
  BY <1>1, SpecStaffed, PTL

\* No establishment ever has two supervisors, however many hires find it
\* without one (EstablishmentService.addSupervisor).
THEOREM SupervisorAlone == Spec => []OneSupervisorEach
<1>1. Staffed => OneSupervisorEach
  BY DEF Staffed
<1> QED
  BY <1>1, SpecStaffed, PTL

-----------------------------------------------------------------------------
\* Labels and keys.

\* The unique index.
KeysApart == \A e, f \in Living : KeysOf(e) = KeysOf(f) => e = f

\* What the keys have to say of the label.
KeysTrue == \A e \in Living : KeysOf(e) = Keys(LabelOf(e))

\* The label whose keys an update will write is the one that the row will have.
LabelsKept ==
  \A r \in Requests : Updating(r) =>
    /\ establishments[request[r].at] # Absent
    /\ request[r].at \in Living =>
         request[r].label = Result(request[r].form, LabelOf(request[r].at))

Told == KeysApart /\ KeysTrue /\ LabelsKept

\* A step that leaves the rows and the updates in flight alone.
LEMMA SameRowsKeepTold ==
  ASSUME Told, UNCHANGED establishments,
         \A r \in Requests : Updating(r)' =>
           Updating(r) /\ request'[r].at = request[r].at
             /\ request'[r].form = request[r].form /\ request'[r].label = request[r].label
  PROVE  Told'
BY DEF Told, KeysApart, KeysTrue, LabelsKept, Living, KeysOf, LabelOf

\* A step that changes one living row, or makes one of a new id, and gives it
\* keys that are its own and that no other row has.
LEMMA OneRowKeepsTold ==
  ASSUME TypeOK, Told, NEW e \in Establishments, NEW row \in EstablishmentRows,
         establishments' = [establishments EXCEPT ![e] = row],
         row.nameKey = row.name.key, row.branchKey = row.branch.key,
         Taken([nameKey |-> row.nameKey, branchKey |-> row.branchKey], {e}) = {},
         \A r \in Requests : Updating(r)' =>
           /\ Updating(r) /\ request'[r].at = request[r].at
           /\ request'[r].form = request[r].form /\ request'[r].label = request[r].label
           /\ request[r].at = e => e \in Living /\ Whole(request[r].form)
  PROVE  Told'
<1>1. row \notin {Absent, Deleted}
  BY DirectoryAssumption DEF EstablishmentRows
<1>2. Living' = Living \cup {e}
  BY <1>1 DEF Living, TypeOK
<1>3. /\ establishments'[e] = row
      /\ \A f \in Establishments \ {e} : establishments'[f] = establishments[f]
  BY DEF TypeOK
<1>4. KeysApart'
  <2>1. \A f \in Living \ {e} :
          KeysOf(f) # [nameKey |-> row.nameKey, branchKey |-> row.branchKey]
    BY DEF Taken
  <2>2. /\ KeysOf(e)' = [nameKey |-> row.nameKey, branchKey |-> row.branchKey]
        /\ \A f \in Living \ {e} : KeysOf(f)' = KeysOf(f)
    BY <1>3 DEF KeysOf, Living
  <2> QED
    BY <1>2, <2>1, <2>2 DEF Told, KeysApart
<1>5. KeysTrue'
  <2>1. KeysOf(e)' = Keys(LabelOf(e))'
    BY <1>3 DEF KeysOf, Keys, LabelOf
  <2>2. ASSUME NEW f \in Living \ {e} PROVE KeysOf(f)' = Keys(LabelOf(f))'
    BY <1>3 DEF KeysOf, Keys, LabelOf, Living, Told, KeysTrue
  <2> QED
    BY <1>2, <2>1, <2>2 DEF KeysTrue
<1>6. LabelsKept'
  <2> SUFFICES ASSUME NEW r \in Requests, Updating(r)', NEW f, f = request'[r].at
               PROVE  /\ establishments'[f] # Absent
                      /\ f \in Living' =>
                           request'[r].label = Result(request'[r].form, LabelOf(f)')
    BY DEF LabelsKept, LabelOf
  <2>1. /\ Updating(r) /\ f = request[r].at
        /\ request'[r].form = request[r].form /\ request'[r].label = request[r].label
    OBVIOUS
  <2>2. f \in Establishments
    BY <2>1, RequestTypes DEF Updating
  <2>3. /\ establishments[f] # Absent
        /\ f \in Living => request[r].label = Result(request[r].form, LabelOf(f))
    BY <2>1 DEF Told, LabelsKept
  <2>4. CASE f # e
    <3>1. establishments'[f] = establishments[f]
      BY <1>3, <2>2, <2>4
    <3>2. LabelOf(f)' = LabelOf(f)
      BY <3>1 DEF LabelOf
    <3>3. f \in Living' => f \in Living
      BY <1>2, <2>4
    <3> QED
      BY <2>1, <2>3, <3>1, <3>2, <3>3
  <2>5. CASE f = e
    <3>1. e \in Living /\ Whole(request[r].form)
      BY <2>1, <2>5
    <3>2. Result(request[r].form, LabelOf(f)') = Result(request[r].form, LabelOf(f))
      BY <3>1 DEF Result, Whole
    <3> QED
      BY <1>1, <1>3, <2>1, <2>3, <2>5, <3>1, <3>2
  <2> QED
    BY <2>4, <2>5
<1> QED
  BY <1>4, <1>5, <1>6 DEF Told

LEMMA NextTold == TypeOK /\ Told /\ NoMixedForms /\ [Next]_vars => Told'
<1> SUFFICES ASSUME TypeOK, Told, NoMixedForms, [Next]_vars PROVE Told'
  OBVIOUS
<1>1. ASSUME NEW r \in Requests, Insert(r) PROVE Told'
  <2> DEFINE l == request[r].label
  <2>1. \A s \in Requests : Updating(s)' => Updating(s) /\ request'[s] = request[s]
    BY <1>1 DEF Insert, Ends, Updating, Idle, TypeOK
  <2>2. CASE UNCHANGED establishments
    BY <2>1, <2>2, SameRowsKeepTold
  <2>3. CASE /\ Taken(Keys(l), {}) = {}
             /\ HasNew(establishments)
             /\ establishments' = [establishments EXCEPT ![New(establishments)] = Row(l)]
    <3>1. New(establishments) \in Establishments /\ establishments[New(establishments)] = Absent
      BY <2>3, NewIsAbsent DEF TypeOK
    <3>2. l \in Labels /\ Row(l) \in EstablishmentRows
      BY <1>1, RequestTypes, RowTypes DEF Insert
    <3>3. /\ Row(l).nameKey = Row(l).name.key /\ Row(l).branchKey = Row(l).branch.key
          /\ [nameKey |-> Row(l).nameKey, branchKey |-> Row(l).branchKey] = Keys(l)
      BY DEF Row, Keys
    <3>4. \A s \in Requests : Updating(s) => request[s].at # New(establishments)
      BY <3>1 DEF Told, LabelsKept
    <3>5. Taken(Keys(l), {New(establishments)}) = {}
      BY <2>3 DEF Taken
    <3> HIDE DEF l
    <3> QED
      BY <2>1, <2>3, <3>1, <3>2, <3>3, <3>4, <3>5, OneRowKeepsTold
  <2> QED
    BY <1>1, <2>2, <2>3 DEF Insert
<1>2. ASSUME NEW r \in Requests, Rewrite(r) PROVE Told'
  <2> DEFINE e == request[r].at
             f == request[r].form
             l == request[r].label
             row == Rewritten(establishments[e], f, l)
  <2>1. \A s \in Requests : Updating(s)' => s # r /\ Updating(s) /\ request'[s] = request[s]
    BY <1>2 DEF Rewrite, Ends, Updating, Idle, TypeOK
  <2>2. CASE UNCHANGED establishments
    BY <2>1, <2>2, SameRowsKeepTold
  <2>3. CASE /\ e \in Living /\ Taken(Keys(l), {e}) = {}
             /\ establishments' = [establishments EXCEPT ![e] = row]
    <3>1. e \in Establishments /\ f \in Forms /\ l \in Labels
      BY <1>2, RequestTypes DEF Rewrite
    <3>2. row \in EstablishmentRows
      BY <2>3, <3>1, RowTypes, RewrittenIsRow
    <3>3. /\ row.name = l.name /\ row.branch = l.branch
          /\ row.nameKey = l.name.key /\ row.branchKey = l.branch.key
      <4>1. l = Result(f, LabelOf(e))
        BY <1>2, <2>3 DEF Rewrite, Updating, Told, LabelsKept
      <4>2. Result(f, LabelOf(e)) = Result(f, establishments[e])
        BY DEF Result, LabelOf
      <4>3. establishments[e] \in EstablishmentRows
        BY <2>3, RowTypes
      <4> HIDE DEF e, f, l
      <4> QED
        BY <3>1, <4>1, <4>2, <4>3, RewrittenIsRow
    <3>4. [nameKey |-> row.nameKey, branchKey |-> row.branchKey] = Keys(l)
      BY <3>3 DEF Keys
    <3>5. \A s \in Requests : Updating(s)' => Whole(request[s].form)
      BY <1>2, <2>1 DEF Rewrite, Updating, NoMixedForms
    <3> HIDE DEF e, f, l, row
    <3> QED
      BY <2>1, <2>3, <3>1, <3>2, <3>3, <3>4, <3>5, OneRowKeepsTold
  <2> QED
    BY <1>2, <2>2, <2>3 DEF Rewrite
<1>3. ASSUME NEW r \in Requests, Raze(r) PROVE Told'
  <2>1. \A s \in Requests : Updating(s)' => Updating(s) /\ request'[s] = request[s]
    BY <1>3 DEF Raze, Ends, Updating, Idle, TypeOK
  <2>2. CASE UNCHANGED establishments
    BY <2>1, <2>2, SameRowsKeepTold
  <2>3. CASE establishments' = [establishments EXCEPT ![request[r].at] = Deleted]
    <3>1. /\ Living' \subseteq Living
          /\ \A e \in Living' : establishments'[e] = establishments[e]
          /\ \A e \in Establishments : establishments'[e] = Absent => establishments[e] = Absent
      BY <2>3, DirectoryAssumption DEF Living, TypeOK
    <3>2. KeysApart' /\ KeysTrue'
      BY <3>1 DEF Told, KeysApart, KeysTrue, KeysOf, LabelOf, Keys
    <3>3. LabelsKept'
      <4> SUFFICES ASSUME NEW s \in Requests, Updating(s)', NEW e, e = request'[s].at
                   PROVE  /\ establishments'[e] # Absent
                          /\ e \in Living' =>
                               request'[s].label = Result(request'[s].form, LabelOf(e)')
        BY DEF LabelsKept, LabelOf
      <4>1. Updating(s) /\ request'[s] = request[s] /\ e \in Establishments
        BY <2>1, RequestTypes DEF Updating
      <4>2. e \in Living' => LabelOf(e)' = LabelOf(e)
        BY <3>1 DEF LabelOf
      <4> QED
        BY <3>1, <4>1, <4>2 DEF Told, LabelsKept
    <3> QED
      BY <3>2, <3>3 DEF Told
  <2> QED
    BY <1>3, <2>2, <2>3 DEF Raze
<1>4. ASSUME NEW r \in Requests, NEW e \in Establishments, NEW f \in Forms, BeginUpdate(r, e, f)
      PROVE  Told'
  <2>1. /\ request'[r].at = e /\ request'[r].form = f
        /\ request'[r].label = Result(f, LabelOf(e))
        /\ \A s \in Requests \ {r} : request'[s] = request[s]
    BY <1>4 DEF BeginUpdate, Begins, TypeOK
  <2>2. UNCHANGED establishments /\ e \in Living /\ establishments[e] # Absent
    BY <1>4 DEF BeginUpdate, Living
  <2>3. KeysApart' /\ KeysTrue'
    BY <2>2 DEF Told, KeysApart, KeysTrue, Living, KeysOf, LabelOf
  <2>4. LabelsKept'
    BY <2>1, <2>2 DEF Told, LabelsKept, Updating, Living, LabelOf
  <2> QED
    BY <2>3, <2>4 DEF Told
<1>5. ASSUME NEW r \in Requests, CheckAvailable(r) PROVE Told'
  <2>1. \A s \in Requests : Updating(s)' =>
          Updating(s) /\ request'[s].at = request[s].at
            /\ request'[s].form = request[s].form /\ request'[s].label = request[s].label
    <3>1. \A s \in Requests \ {r} : request'[s] = request[s]
      BY <1>5 DEF CheckAvailable, Continues, Ends, TypeOK
    <3>2. request[r] \in [pc : {"available", "rewrite"}, at : Establishments, form : Forms,
                          label : Labels]
      BY <1>5, RequestTypes DEF CheckAvailable
    <3>3. request'[r] \in {[request[r] EXCEPT !.pc = "rewrite"], Idle}
      BY <1>5 DEF CheckAvailable, Continues, Ends, TypeOK
    <3> QED
      BY <3>1, <3>2, <3>3 DEF Updating, Idle
  <2> QED
    BY <1>5, <2>1, SameRowsKeepTold DEF CheckAvailable
<1>6. ASSUME NEW r \in Requests, \/ \E l \in Labels, staffed \in BOOLEAN : BeginCreate(r, l, staffed)
                                 \/ RecheckName(r) \/ StaffStep(r)
                                 \/ \E e \in Establishments : BeginRemove(r, e)
                                 \/ ListSupervisors(r) \/ RequestLost(r)
      PROVE  Told'
  <2>1. UNCHANGED establishments
    BY <1>6 DEF BeginCreate, RecheckName, StaffStep, BeginHire, RecheckVacancy, Hire,
                BeginRemove, ListSupervisors, RequestLost
  <2>2. /\ \A s \in Requests \ {r} : request'[s] = request[s]
        /\ ~Updating(r)'
    <3>1. CASE RecheckName(r) \/ RecheckVacancy(r)
      BY <3>1, RequestTypes
         DEF RecheckName, RecheckVacancy, Continues, Ends, Idle, Updating, TypeOK
    <3>2. CASE \/ \E l \in Labels, staffed \in BOOLEAN : BeginCreate(r, l, staffed)
               \/ \E e \in Establishments : BeginHire(r, e) \/ BeginRemove(r, e)
               \/ Hire(r) \/ ListSupervisors(r) \/ RequestLost(r)
      BY <3>2 DEF BeginCreate, BeginHire, BeginRemove, Hire, ListSupervisors, RequestLost,
                  Begins, Ends, Idle, Updating, TypeOK
    <3> QED
      BY <1>6, <3>1, <3>2 DEF StaffStep
  <2> QED
    BY <2>1, <2>2, SameRowsKeepTold DEF Updating
<1>7. CASE UNCHANGED <<establishments, request>>
  BY <1>7, SameRowsKeepTold DEF Updating
<1> QED
  BY <1>1, <1>2, <1>3, <1>4, <1>5, <1>6, <1>7
     DEF Next, EditStep, RemoveStep, RemoveSupervisor, vars

\* Establishments stay told apart by name and branch, however they were typed and
\* however many requests are under way, as long as updates that leave a field
\* out take turns (EstablishmentService.update).
THEOREM LabelsToldApart == Spec => LabelsStayApart
<1>1. Init => Told
  BY DEF Init, Told, KeysApart, KeysTrue, LabelsKept, Living, Updating, Idle
<1>2. TypeOK /\ Told => LabelsUnique
  BY DEF Told, KeysApart, KeysTrue, LabelsUnique, KeysOf, LabelOf, Keys
<1> QED
  BY <1>1, <1>2, TypeCorrect, NextTold, PTL DEF Spec, LabelsStayApart

-----------------------------------------------------------------------------
\* The rows implement a register.

KeysNow == [e \in Living |-> KeysOf(e)]

PostsNow == [s \in Employed |-> supervisors[s]]

ClosedNow == {e \in Establishments : establishments[e] = Deleted}

DismissedNow == {s \in Supervisors : supervisors[s] = Deleted}

KeyPairsNow ==
  [nameKey : {n.key : n \in Names}, branchKey : {b.key : b \in Branches \cup {NoBranch}}]

RegisterVars == <<KeysNow, PostsNow, ClosedNow, DismissedNow>>

\* The rows that one handler does not write are the same in the register.
LEMMA SameEstablishments ==
  ASSUME UNCHANGED establishments PROVE UNCHANGED <<KeysNow, ClosedNow>>
BY DEF KeysNow, ClosedNow, Living, KeysOf

LEMMA SameSupervisors ==
  ASSUME UNCHANGED supervisors PROVE UNCHANGED <<PostsNow, DismissedNow>>
BY DEF PostsNow, DismissedNow, Employed

\* A row that is written at an id that is new, or living, gives it its keys.
LEMMA KeysWritten ==
  ASSUME TypeOK, NEW e \in Establishments, NEW row \in EstablishmentRows,
         establishments[e] # Deleted, establishments' = [establishments EXCEPT ![e] = row],
         NEW k \in KeyPairsNow, k.nameKey = row.nameKey, k.branchKey = row.branchKey
  PROVE  /\ KeysNow' = [f \in Living \cup {e} |-> IF f = e THEN k ELSE KeysNow[f]]
         /\ e \in Living => KeysNow' = [KeysNow EXCEPT ![e] = k]
         /\ ClosedNow' = ClosedNow
<1>1. row \notin {Absent, Deleted}
  BY DirectoryAssumption DEF EstablishmentRows
<1>2. Living' = Living \cup {e}
  BY <1>1 DEF Living, TypeOK
<1>3. \A f \in Living' : KeysOf(f)' = IF f = e THEN k ELSE KeysOf(f)
  <2>1. k = [nameKey |-> row.nameKey, branchKey |-> row.branchKey]
    BY DEF KeyPairsNow
  <2> QED
    BY <2>1 DEF KeysOf, TypeOK, Living
<1>4. ClosedNow' = ClosedNow
  BY <1>1 DEF ClosedNow, TypeOK
<1>5. KeysNow' = [f \in Living' |-> KeysOf(f)']
  BY DEF KeysNow
<1>6. \A f \in Living : KeysNow[f] = KeysOf(f)
  BY DEF KeysNow
<1>7. KeysNow' = [f \in Living \cup {e} |-> IF f = e THEN k ELSE KeysNow[f]]
  BY <1>2, <1>3, <1>5, <1>6
<1>8. ASSUME e \in Living PROVE KeysNow' = [KeysNow EXCEPT ![e] = k]
  <2>1. Living \cup {e} = Living
    BY <1>8
  <2>2. KeysNow = [f \in Living |-> KeysNow[f]]
    BY DEF KeysNow
  <2> QED
    BY <1>7, <2>1, <2>2
<1> QED
  BY <1>4, <1>7, <1>8

\* The unique index keeps the keys of the register apart.
LEMMA IndexKeepsFree ==
  ASSUME NEW k, NEW self, Taken(k, self) = {}
  PROVE  \A e \in DOMAIN KeysNow \ self : KeysNow[e] # k
BY DEF Taken, KeysNow

\* A supervisor is inserted where there is none.
LEMMA HireAppoints ==
  ASSUME TypeOK, NEW s \in Supervisors, NEW e \in Establishments,
         supervisors[s] = Absent, SupervisorsOf(e) = {},
         supervisors' = [supervisors EXCEPT ![s] = e]
  PROVE  Register!Appointed(s, e)
<1>1. e \notin {Absent, Deleted}
  BY DirectoryAssumption
<1>2. Employed' = Employed \cup {s} /\ s \notin Employed
  BY <1>1 DEF Employed, TypeOK
<1>3. \A u \in Employed' : supervisors'[u] = IF u = s THEN e ELSE supervisors[u]
  BY DEF Employed, TypeOK
<1>4. \A u \in Employed : PostsNow[u] = supervisors[u] /\ supervisors[u] # e
  BY DEF PostsNow, SupervisorsOf
<1>5. DOMAIN PostsNow = Employed
  BY DEF PostsNow
<1>6. PostsNow' = [u \in Employed' |-> supervisors'[u]]
  BY DEF PostsNow
<1>7. PostsNow' = [u \in Employed \cup {s} |-> IF u = s THEN e ELSE PostsNow[u]]
  BY <1>2, <1>3, <1>4, <1>6
<1>8. DismissedNow' = DismissedNow /\ s \notin DismissedNow
  BY <1>1, DirectoryAssumption DEF DismissedNow, TypeOK
<1> QED
  BY <1>2, <1>4, <1>5, <1>7, <1>8 DEF Register!Appointed, PostsNow, DismissedNow

\* Supervisors are deleted.
LEMMA DeletedLeave ==
  ASSUME TypeOK, NEW gone, gone \subseteq Employed,
         supervisors' =
           [s \in Supervisors |-> IF s \in gone THEN Deleted ELSE supervisors[s]]
  PROVE  Register!Leave(gone)
<1>1. Employed' = Employed \ gone /\ \A s \in Employed' : supervisors'[s] = supervisors[s]
  BY DEF Employed
<1>2. PostsNow' = [s \in Employed' |-> supervisors'[s]]
  BY DEF PostsNow
<1>3. DOMAIN PostsNow = Employed /\ \A s \in Employed : PostsNow[s] = supervisors[s]
  BY DEF PostsNow
<1>4. PostsNow' = [s \in DOMAIN PostsNow \ gone |-> PostsNow[s]]
  BY <1>1, <1>2, <1>3
<1>5. DismissedNow' = DismissedNow \cup gone
  BY DEF DismissedNow, Employed
<1> QED
  BY <1>4, <1>5 DEF Register!Leave, PostsNow, DismissedNow

LEMMA InitRegister == Init => Register!Init
<1> SUFFICES ASSUME Init PROVE Register!Init
  OBVIOUS
<1>1. Living = {} /\ Employed = {} /\ ClosedNow = {} /\ DismissedNow = {}
  BY DirectoryAssumption DEF Init, Living, Employed, ClosedNow, DismissedNow
<1>2. KeysNow = [e \in {} |-> {}] /\ PostsNow = [s \in {} |-> {}]
  BY <1>1 DEF KeysNow, PostsNow
<1> QED
  BY <1>1, <1>2 DEF Register!Init, KeysNow, PostsNow, ClosedNow, DismissedNow

LEMMA LabelSteps ==
  ASSUME NEW e \in Establishments, NEW k \in KeyPairsNow,
         Register!Open(e, k) \/ Register!Rename(e, k)
  PROVE  Register!Next
BY DEF Register!Next, KeyPairsNow

\* The insert of an establishment, with or without a supervisor.
LEMMA InsertOpens ==
  ASSUME TypeOK, Staffed, NEW r \in Requests, Insert(r)
  PROVE  Register!Next \/ UNCHANGED RegisterVars
<1>1. PICK l \in Labels : l = request[r].label
  BY RequestTypes DEF Insert
<1>2. PICK k \in KeyPairsNow : k = Keys(l)
  BY DEF Keys, Labels, KeyPairsNow
<1>3. PICK row \in EstablishmentRows :
        row = Row(l) /\ k.nameKey = row.nameKey /\ k.branchKey = row.branchKey
  BY <1>2, RowTypes DEF Row, Keys
<1>4. CASE UNCHANGED <<establishments, supervisors>>
  BY <1>4, SameEstablishments, SameSupervisors DEF RegisterVars
<1>5. CASE /\ Taken(Keys(l), {}) = {}
           /\ HasNew(establishments)
           /\ establishments' = [establishments EXCEPT ![New(establishments)] = Row(l)]
           /\ \/ UNCHANGED supervisors
              \/ /\ HasNew(supervisors)
                 /\ supervisors' = [supervisors EXCEPT ![New(supervisors)] = New(establishments)]
  <2>1. PICK e \in Establishments : e = New(establishments) /\ establishments[e] = Absent
    BY <1>5, NewIsAbsent DEF TypeOK
  <2>2. e \notin Living /\ e \notin ClosedNow /\ establishments[e] # Deleted
    BY <2>1, DirectoryAssumption DEF Living, ClosedNow
  <2>3. /\ KeysNow' = [f \in Living \cup {e} |-> IF f = e THEN k ELSE KeysNow[f]]
        /\ ClosedNow' = ClosedNow
    <3>1. establishments' = [establishments EXCEPT ![e] = row]
      BY <1>3, <1>5, <2>1
    <3> QED
      BY <1>3, <2>2, <3>1, KeysWritten
  <2>4. DOMAIN KeysNow = Living
    BY DEF KeysNow
  <2>5. \A f \in DOMAIN KeysNow \ {} : KeysNow[f] # k
    BY <1>2, <1>5, IndexKeepsFree
  <2>6. \/ UNCHANGED <<PostsNow, DismissedNow>>
        \/ \E s \in Supervisors : Register!Appointed(s, e)
    <3>1. CASE UNCHANGED supervisors
      BY <3>1, SameSupervisors
    <3>2. CASE /\ HasNew(supervisors)
               /\ supervisors' = [supervisors EXCEPT ![New(supervisors)] = e]
      <4>1. PICK s \in Supervisors : s = New(supervisors) /\ supervisors[s] = Absent
        BY <3>2, NewIsAbsent DEF TypeOK
      <4>2. SupervisorsOf(e) = {} /\ supervisors' = [supervisors EXCEPT ![s] = e]
        BY <2>2, <3>2, <4>1 DEF SupervisorsOf, Staffed, PlacementsLive
      <4>3. Register!Appointed(s, e)
        BY <4>1, <4>2, HireAppoints
      <4> QED
        BY <4>3
    <3> QED
      BY <1>5, <2>1, <3>1, <3>2
  <2>7. Register!Open(e, k)
    BY <2>2, <2>3, <2>4, <2>5, <2>6
    DEF Register!Open, Register!Free, KeysNow, PostsNow, ClosedNow, DismissedNow
  <2> QED
    BY <2>7, LabelSteps
<1> QED
  BY <1>1, <1>4, <1>5 DEF Insert

\* The insert of a supervisor.
LEMMA HireIsAppointment ==
  ASSUME TypeOK, NEW r \in Requests, Hire(r)
  PROVE  Register!Next \/ UNCHANGED RegisterVars
<1>1. UNCHANGED establishments
  BY DEF Hire
<1>2. UNCHANGED <<KeysNow, ClosedNow>>
  BY <1>1, SameEstablishments
<1>3. CASE UNCHANGED supervisors
  BY <1>2, <1>3, SameSupervisors DEF RegisterVars
<1>4. CASE /\ request[r].at \in Living /\ Vacant(request[r].at)
           /\ HasNew(supervisors)
           /\ supervisors' = [supervisors EXCEPT ![New(supervisors)] = request[r].at]
  <2>1. PICK s \in Supervisors : s = New(supervisors) /\ supervisors[s] = Absent
    BY <1>4, NewIsAbsent DEF TypeOK
  <2>2. PICK e \in Establishments : e = request[r].at
    BY <1>4 DEF Living
  <2>3. SupervisorsOf(e) = {} /\ supervisors' = [supervisors EXCEPT ![s] = e]
    BY <1>4, <2>1, <2>2 DEF Vacant
  <2>4. Register!Appointed(s, e)
    BY <2>1, <2>3, HireAppoints
  <2>5. e \in DOMAIN KeysNow
    BY <1>4, <2>2 DEF KeysNow
  <2>6. Register!Appoint(s, e)
    BY <1>2, <2>4, <2>5 DEF Register!Appoint, KeysNow, ClosedNow
  <2> QED
    BY <2>6 DEF Register!Next
<1> QED
  BY <1>3, <1>4 DEF Hire

\* The update of an establishment gives it the keys of the label that was formed
\* from what was read, whichever fields it writes.
LEMMA RewriteRenames ==
  ASSUME TypeOK, NEW r \in Requests, Rewrite(r)
  PROVE  Register!Next \/ UNCHANGED RegisterVars
<1>1. UNCHANGED supervisors
  BY DEF Rewrite
<1>2. UNCHANGED <<PostsNow, DismissedNow>>
  BY <1>1, SameSupervisors
<1>3. CASE UNCHANGED establishments
  BY <1>2, <1>3, SameEstablishments DEF RegisterVars
<1>4. ASSUME NEW e \in Establishments, e = request[r].at, e \in Living,
             Taken(Keys(request[r].label), {e}) = {},
             establishments' = [establishments EXCEPT
               ![e] = Rewritten(establishments[e], request[r].form, request[r].label)]
      PROVE  Register!Next
  <2>1. /\ request[r].label \in Labels /\ request[r].form \in Forms
        /\ establishments[e] \in EstablishmentRows /\ establishments[e] # Deleted
    BY <1>4, RequestTypes, RowTypes DEF Rewrite, Living
  <2>2. PICK row \in EstablishmentRows :
          /\ establishments' = [establishments EXCEPT ![e] = row]
          /\ row.nameKey = request[r].label.name.key
          /\ row.branchKey = request[r].label.branch.key
    BY <1>4, <2>1, RewrittenIsRow
  <2>3. PICK k \in KeyPairsNow :
          k = Keys(request[r].label) /\ k.nameKey = row.nameKey /\ k.branchKey = row.branchKey
    <3>1. PICK l \in Labels : l = request[r].label
      BY <2>1
    <3>2. /\ Keys(l) \in KeyPairsNow
          /\ Keys(l).nameKey = l.name.key /\ Keys(l).branchKey = l.branch.key
      BY DEF Keys, Labels, KeyPairsNow
    <3> QED
      BY <2>2, <3>1, <3>2
  <2>4. KeysNow' = [KeysNow EXCEPT ![e] = k] /\ ClosedNow' = ClosedNow
    <3>1. e \in Living
      BY <1>4
    <3> QED
      BY <2>1, <2>2, <2>3, <3>1, KeysWritten
  <2>5. \A g \in DOMAIN KeysNow \ {e} : KeysNow[g] # k
    BY <1>4, <2>3, IndexKeepsFree
  <2>6. e \in DOMAIN KeysNow
    BY <1>4 DEF KeysNow
  <2>7. Register!Rename(e, k)
    BY <1>2, <2>4, <2>5, <2>6
    DEF Register!Rename, Register!Free, KeysNow, PostsNow, ClosedNow, DismissedNow
  <2> QED
    BY <2>7, LabelSteps
<1>5. \/ UNCHANGED establishments
      \/ \E e \in Establishments :
           /\ e = request[r].at /\ e \in Living
           /\ Taken(Keys(request[r].label), {e}) = {}
           /\ establishments' = [establishments EXCEPT
                ![e] = Rewritten(establishments[e], request[r].form, request[r].label)]
  BY DEF Rewrite, Living
<1> QED
  BY <1>3, <1>4, <1>5

\* The deletion of an establishment takes the supervisors that were listed, who
\* are the ones who are there.
LEMMA RazeCloses ==
  ASSUME TypeOK, NEW r \in Requests, Raze(r)
  PROVE  Register!Next \/ UNCHANGED RegisterVars
<1> DEFINE seen == request[r].seen
<1>1. CASE UNCHANGED <<establishments, supervisors>>
  BY <1>1, SameEstablishments, SameSupervisors DEF RegisterVars
<1>2. CASE /\ Removable(request[r].at, seen)
           /\ establishments' = [establishments EXCEPT ![request[r].at] = Deleted]
           /\ supervisors' =
                [s \in Supervisors |-> IF s \in seen THEN Deleted ELSE supervisors[s]]
  <2>1. PICK e \in Establishments : e = request[r].at
    BY <1>2 DEF Removable, Living
  <2>2. /\ e \in Living /\ seen = SupervisorsOf(e)
        /\ establishments' = [establishments EXCEPT ![e] = Deleted]
    BY <1>2, <2>1 DEF Removable
  <2>3. Living' = Living \ {e} /\ \A f \in Living' : KeysOf(f)' = KeysOf(f)
    BY <2>2 DEF Living, KeysOf, TypeOK
  <2>4. KeysNow' = [f \in Living' |-> KeysOf(f)']
    BY DEF KeysNow
  <2>5. DOMAIN KeysNow = Living /\ \A f \in Living : KeysNow[f] = KeysOf(f)
    BY DEF KeysNow
  <2>6. KeysNow' = [f \in DOMAIN KeysNow \ {e} |-> KeysNow[f]]
    BY <2>3, <2>4, <2>5
  <2>7. ClosedNow' = ClosedNow \cup {e}
    BY <2>2 DEF ClosedNow, TypeOK
  <2>8. PICK gone \in SUBSET Employed : gone = seen
    BY <2>2 DEF SupervisorsOf
  <2>9. gone = {s \in DOMAIN PostsNow : PostsNow[s] = e}
    BY <2>2, <2>8 DEF PostsNow, SupervisorsOf
  <2>10. Register!Leave(gone)
    BY <1>2, <2>8, DeletedLeave
  <2>11. Register!Close(e)
    BY <2>2, <2>5, <2>6, <2>7, <2>9, <2>10
    DEF Register!Close, Register!Leave, KeysNow, PostsNow, ClosedNow
  <2> QED
    BY <2>11 DEF Register!Next
<1> QED
  BY <1>1, <1>2 DEF Raze

LEMMA RemovalDismisses ==
  ASSUME TypeOK, NEW s \in Supervisors, RemoveSupervisor(s)
  PROVE  Register!Next
<1>1. UNCHANGED establishments
  BY DEF RemoveSupervisor
<1>2. UNCHANGED <<KeysNow, ClosedNow>>
  BY <1>1, SameEstablishments
<1>3. /\ {s} \subseteq Employed
      /\ supervisors' = [u \in Supervisors |-> IF u \in {s} THEN Deleted ELSE supervisors[u]]
  BY DEF RemoveSupervisor, TypeOK
<1>4. Register!Leave({s})
  BY <1>3, DeletedLeave
<1>5. s \in DOMAIN PostsNow
  BY <1>3 DEF PostsNow
<1>6. Register!Dismiss(s)
  BY <1>2, <1>4, <1>5 DEF Register!Dismiss, KeysNow, PostsNow, ClosedNow
<1> QED
  BY <1>6 DEF Register!Next

LEMMA StepOfRegister ==
  ASSUME TypeOK, Staffed, [Next]_vars
  PROVE  Register!Next \/ UNCHANGED RegisterVars
<1>1. CASE UNCHANGED <<establishments, supervisors>>
  BY <1>1, SameEstablishments, SameSupervisors DEF RegisterVars
<1>2. ASSUME NEW r \in Requests,
             \/ EditStep(r) /\ ~Insert(r) /\ ~Rewrite(r)
             \/ StaffStep(r) /\ ~Hire(r)
             \/ RemoveStep(r) /\ ~Raze(r)
             \/ RequestLost(r)
      PROVE  UNCHANGED <<establishments, supervisors>>
  BY <1>2 DEF EditStep, StaffStep, RemoveStep, RequestLost, BeginCreate, RecheckName,
              BeginUpdate, CheckAvailable, BeginHire, RecheckVacancy, BeginRemove, ListSupervisors
<1> QED
  BY <1>1, <1>2, InsertOpens, HireIsAppointment, RewriteRenames, RazeCloses, RemovalDismisses
  DEF Next, vars

\* Whatever reads and writes of creations, hires, updates and removals meet, the
\* rows change as a register does whose operations are single moments, for any
\* number of requests (EstablishmentService, removeSupervisor).
THEOREM DirectoryRefinesRegistry == Spec => RefinesRegistry
<1>1. Spec => [](TypeOK /\ Staffed)
  BY TypeCorrect, SpecStaffed, PTL
<1>2. TypeOK /\ Staffed /\ [Next]_vars => Register!Next \/ UNCHANGED RegisterVars
  BY StepOfRegister
<1> QED
  BY <1>1, <1>2, InitRegister, PTL
  DEF Spec, RefinesRegistry, Register!Spec, Register!registryVars, RegisterVars, KeysNow,
      PostsNow, ClosedNow, DismissedNow

-----------------------------------------------------------------------------
\* The address of an establishment, as the form of the page edits it: AddressForm.

\* handleEdit looks places up by their names: a region or a province by its name
\* alone, a city by its name in its province.
NamesApart ==
  \A p, q \in Places :
    /\ LevelOf[p] < 4 /\ LevelOf[p] = LevelOf[q] /\ NameOf[p] = NameOf[q]
    /\ LevelOf[p] = 3 => ParentOf[p] = ParentOf[q]
    => p = q

\* What is stored and listed nests, and what is sent with no name left out above
\* one that is given: but for the rows that are halved.
RowsNest ==
  /\ \A e \in Rows \ halved : stored[e] # NoRow => stored[e] \in Nested
  /\ \A e \in Rows \ halved : listed[e] # NoRow => listed[e] \in Nested

Gapless(a) == \A k, l \in Levels : k < l /\ a[k] = NoName => a[l] = NoName

SentNests ==
  call.pc = "sent" /\ call.at \notin halved /\ Gapless(call.body) => call.body \in Nested

\* A select holds a place of its level.
Levelled ==
  \A l \in Levels :
    dialog.selected[l] # NoPlace => LevelOf[dialog.selected[l]] = l

\* It offers the places inside of the pick above it, of this render or the last.
Offered ==
  /\ options[1] = At(1)
  /\ \A l \in 2 .. 4 :
       \/ options[l] = Under(ran.selected[l - 1])
       \/ options[l] = Under(dialog.selected[l - 1])

\* The effects are about to clear only what has no name to send.
Emptied ==
  ~ran.populating =>
    \A c \in Changed, k \in Levels : k > c => dialog.form[k] = NoName

\* SentIsShown, between the effects as well.
FormShown ==
  \A l \in Levels :
    dialog.form[l] # NoName =>
      dialog.selected[l] # NoPlace /\ NameOf[dialog.selected[l]] = dialog.form[l]

\* Two names in a row are of a place and of the one that it is inside of.
FormNests ==
  \A l \in 2 .. 4 :
    dialog.form[l] # NoName /\ dialog.form[l - 1] # NoName =>
      ParentOf[dialog.selected[l]] = dialog.selected[l - 1]

Mirrors == Emptied /\ FormShown /\ FormNests

Faithful == Levelled /\ Offered /\ (dialog.target.at \notin halved => Mirrors)

\* The four selects are the numbers from 1 to 4.
LEMMA FourLevels ==
  /\ Levels = {1, 2, 3, 4}
  /\ 2 .. 4 = {2, 3, 4} /\ 1 .. 3 = {1, 2, 3}
BY DEF Levels

\* A lookup finds a place with the name, or there is none.
LEMMA Found ==
  ASSUME NEW S, NEW name, NoPlace \notin S
  PROVE  /\ Find(S, name) = NoPlace => \A p \in S : NameOf[p] # name
         /\ Find(S, name) # NoPlace =>
              Find(S, name) \in S /\ NameOf[Find(S, name)] = name
<1> DEFINE found == {p \in S : NameOf[p] = name}
<1>1. CASE found = {}
  BY <1>1 DEF Find
<1>2. CASE found # {}
  <2>1. (CHOOSE p \in found : TRUE) \in found
    BY <1>2
  <2>2. Find(S, name) = CHOOSE p \in found : TRUE
    BY <1>2 DEF Find
  <2> QED
    BY <2>1, <2>2
<1> QED
  BY <1>1, <1>2

\* The places that handleEdit looks up for a row: each of its level.
LEMMA RestoredTypes ==
  ASSUME AddressList, NEW a \in Addresses
  PROVE  /\ Restored(a) \in Picks
         /\ \A l \in Levels :
              Restored(a)[l] # NoPlace => LevelOf[Restored(a)[l]] = l
         /\ Restored(a)[2] = NoPlace => Restored(a)[3] = NoPlace
<1> DEFINE region == Region(a)
           province == Find(At(2), a[2])
           city == Find(Under(province), a[3])
           barangay == Find(Under(city), a[4])
<1>1. /\ NoPlace \notin At(1) /\ NoPlace \notin At(2)
      /\ \A p : NoPlace \notin Under(p)
  BY DEF AddressList, At, Under
<1>2. province \in Places \cup {NoPlace} /\ (province # NoPlace => LevelOf[province] = 2)
  BY <1>1, Found DEF At
<1>3. region \in Places \cup {NoPlace} /\ (region # NoPlace => LevelOf[region] = 1)
  <2> DEFINE r == Find(At(1), a[1])
  <2>1. r \in Places \cup {NoPlace} /\ (r # NoPlace => LevelOf[r] = 1)
    BY <1>1, Found DEF At
  <2>2. region = IF r = NoPlace /\ province # NoPlace THEN ParentOf[province] ELSE r
    BY DEF Region
  <2>3. province # NoPlace => ParentOf[province] \in Places /\ LevelOf[ParentOf[province]] = 1
    BY <1>2 DEF AddressList, Levels
  <2> QED
    BY <2>1, <2>2, <2>3
<1>4. ASSUME NEW p, NEW n \in Nat, p \in Places \cup {NoPlace},
             p # NoPlace => LevelOf[p] = n, NEW q \in Under(p)
      PROVE  q \in Places /\ LevelOf[q] = n + 1
  <2>1. p \in Places /\ q \in Places /\ ParentOf[q] = p /\ p # NoPlace
    BY <1>4 DEF Under
  <2> QED
    BY <1>4, <2>1 DEF AddressList, Levels
<1>5. city \in Places \cup {NoPlace} /\ (city # NoPlace => LevelOf[city] = 3)
  <2>1. city # NoPlace => city \in Under(province)
    BY <1>1, Found
  <2> QED
    BY <1>2, <1>4, <2>1
<1>6. barangay \in Places \cup {NoPlace} /\ (barangay # NoPlace => LevelOf[barangay] = 4)
  <2>1. barangay # NoPlace => barangay \in Under(city)
    BY <1>1, Found
  <2> QED
    BY <1>5, <1>4, <2>1
<1>7. province = NoPlace => city = NoPlace
  <2>1. city # NoPlace => city \in Under(province)
    BY <1>1, Found
  <2> QED
    BY <2>1 DEF Under
<1>8. Restored(a) = <<region, province, city, barangay>>
  BY DEF Restored
<1> HIDE DEF region, province, city, barangay
<1> QED
  BY <1>2, <1>3, <1>5, <1>6, <1>7, <1>8, FourLevels DEF Picks

\* The names of a place lead back to it, and to the places around it: as far as
\* the city, and then to a barangay of that city with the name.
LEMMA RestoredIsTheRow ==
  ASSUME AddressList, NamesApart, NEW a \in Nested
  PROVE  /\ \A l \in Levels :
              a[l] # NoName => Restored(a)[l] # NoPlace /\ NameOf[Restored(a)[l]] = a[l]
         /\ \A l \in 2 .. 4 :
              a[l] # NoName => /\ a[l - 1] # NoName
                               /\ ParentOf[Restored(a)[l]] = Restored(a)[l - 1]
<1> DEFINE region == Region(a)
           province == Find(At(2), a[2])
           city == Find(Under(province), a[3])
           barangay == Find(Under(city), a[4])
<1>1. PICK c \in Chains :
        a = [l \in Levels |-> IF c[l] = NoPlace THEN NoName ELSE NameOf[c[l]]]
  BY DEF Nested
<1>2. \A l \in Levels :
        /\ c[l] \in Places \cup {NoPlace}
        /\ c[l] # NoPlace => LevelOf[c[l]] = l /\ (l > 1 => ParentOf[c[l]] = c[l - 1])
        /\ a[l] = IF c[l] = NoPlace THEN NoName ELSE NameOf[c[l]]
  BY <1>1 DEF Chains, Picks
<1>3. \A l \in Levels : a[l] # NoName => /\ c[l] \in Places /\ LevelOf[c[l]] = l
                                         /\ a[l] = NameOf[c[l]]
  BY <1>2
<1>4. \A l \in Levels : c[l] # NoPlace => a[l] # NoName
  BY <1>2 DEF AddressList
<1>5. \A l \in 2 .. 4 : a[l] # NoName => ParentOf[c[l]] = c[l - 1] /\ a[l - 1] # NoName
  <2> SUFFICES ASSUME NEW l \in 2 .. 4, a[l] # NoName
               PROVE  ParentOf[c[l]] = c[l - 1] /\ a[l - 1] # NoName
    OBVIOUS
  <2>1. l \in Levels /\ l - 1 \in Levels /\ l > 1
    BY FourLevels
  <2>2. ParentOf[c[l]] = c[l - 1] /\ c[l] \in Places /\ LevelOf[c[l]] # 1
    BY <1>2, <2>1
  <2>3. c[l - 1] # NoPlace
    BY <2>2 DEF AddressList
  <2> QED
    BY <1>4, <2>1, <2>2, <2>3
<1>6. /\ NoPlace \notin Places /\ NoPlace \notin At(1) /\ NoPlace \notin At(2)
      /\ \A p : NoPlace \notin Under(p)
  BY DEF AddressList, At, Under
<1>7. a[1] # NoName => region = c[1]
  <2> DEFINE r == Find(At(1), a[1])
  <2> SUFFICES ASSUME a[1] # NoName
               PROVE  region = c[1]
    OBVIOUS
  <2>1. c[1] \in Places /\ LevelOf[c[1]] = 1 /\ NameOf[c[1]] = a[1]
    BY <1>3, FourLevels
  <2>2. c[1] \in At(1)
    BY <2>1 DEF At
  <2>3. r # NoPlace
    BY <1>6, <2>1, <2>2, Found
  <2>4. r \in At(1) /\ NameOf[r] = a[1]
    BY <1>6, <2>3, Found
  <2>5. r = c[1]
    BY <2>1, <2>4 DEF At, NamesApart
  <2> QED
    BY <2>3, <2>5 DEF Region
<1>8. a[2] # NoName => province = c[2]
  <2> SUFFICES ASSUME a[2] # NoName
               PROVE  province = c[2]
    OBVIOUS
  <2>1. c[2] \in Places /\ LevelOf[c[2]] = 2 /\ NameOf[c[2]] = a[2]
    BY <1>3, FourLevels
  <2>2. c[2] \in At(2)
    BY <2>1 DEF At
  <2>3. province # NoPlace
    BY <1>6, <2>1, <2>2, Found
  <2>4. province \in At(2) /\ NameOf[province] = a[2]
    BY <1>6, <2>3, Found
  <2> QED
    BY <2>1, <2>4 DEF At, NamesApart
<1>9. a[3] # NoName => city = c[3]
  <2> SUFFICES ASSUME a[3] # NoName
               PROVE  city = c[3]
    OBVIOUS
  <2>1. /\ c[3] \in Places /\ LevelOf[c[3]] = 3 /\ NameOf[c[3]] = a[3]
        /\ ParentOf[c[3]] = c[2] /\ a[2] # NoName
    BY <1>3, <1>5, FourLevels
  <2>2. c[2] \in Places /\ LevelOf[c[2]] = 2
    BY <1>3, <2>1, FourLevels
  <2>3. city = Find(Under(c[2]), a[3]) /\ c[3] \in Under(c[2])
    BY <1>6, <1>8, <2>1, <2>2 DEF Under
  <2> HIDE DEF city, province
  <2>4. city # NoPlace
    BY <1>6, <2>1, <2>3, Found
  <2>5. city \in Under(c[2]) /\ NameOf[city] = a[3]
    BY <1>6, <2>3, <2>4, Found
  <2>6. city \in Places /\ ParentOf[city] = c[2] /\ LevelOf[city] = 3
    BY <1>6, <2>2, <2>5 DEF Under, AddressList, Levels
  <2> QED
    BY <2>1, <2>5, <2>6 DEF NamesApart
<1>10. a[4] # NoName => /\ barangay \in Places /\ NameOf[barangay] = a[4]
                        /\ ParentOf[barangay] = c[3]
  <2> SUFFICES ASSUME a[4] # NoName
               PROVE  /\ barangay \in Places /\ NameOf[barangay] = a[4]
                      /\ ParentOf[barangay] = c[3]
    OBVIOUS
  <2>1. /\ c[4] \in Places /\ NameOf[c[4]] = a[4]
        /\ ParentOf[c[4]] = c[3] /\ a[3] # NoName
    BY <1>3, <1>5, FourLevels
  <2>2. c[3] \in Places
    BY <1>3, <2>1, FourLevels
  <2>3. barangay = Find(Under(c[3]), a[4]) /\ c[4] \in Under(c[3])
    BY <1>6, <1>9, <2>1, <2>2 DEF Under
  <2> HIDE DEF barangay, city
  <2>4. barangay # NoPlace
    BY <1>6, <2>1, <2>3, Found
  <2>5. barangay \in Under(c[3]) /\ NameOf[barangay] = a[4]
    BY <1>6, <2>3, <2>4, Found
  <2> QED
    BY <1>6, <2>2, <2>5 DEF Under
<1>11. Restored(a) = <<region, province, city, barangay>>
  BY DEF Restored
<1> HIDE DEF region, province, city, barangay
<1>12. /\ Restored(a)[1] = region /\ Restored(a)[2] = province
       /\ Restored(a)[3] = city /\ Restored(a)[4] = barangay
  BY <1>11
<1>13. \A l \in {1, 2, 3} : a[l] # NoName => Restored(a)[l] = c[l]
  BY <1>7, <1>8, <1>9, <1>12
<1>14. \A l \in Levels :
         a[l] # NoName => Restored(a)[l] # NoPlace /\ NameOf[Restored(a)[l]] = a[l]
  BY <1>3, <1>6, <1>10, <1>12, <1>13, FourLevels
<1>15. \A l \in 2 .. 4 :
         a[l] # NoName => /\ a[l - 1] # NoName
                          /\ ParentOf[Restored(a)[l]] = Restored(a)[l - 1]
  BY <1>5, <1>10, <1>12, <1>13, FourLevels
<1> QED
  BY <1>14, <1>15

\* Addresses are names of the four levels.
LEMMA AddressedTypes ==
  ASSUME AddressList
  PROVE  /\ NoAddress \in Addresses /\ NoPick \in Picks
         /\ Nested \subseteq Addresses /\ Before \subseteq Nested
         /\ \A l \in Levels : NoAddress[l] = NoName /\ NoPick[l] = NoPlace
<1>1. /\ NoAddress \in Addresses /\ NoPick \in Picks
      /\ \A l \in Levels : NoAddress[l] = NoName /\ NoPick[l] = NoPlace
  BY DEF NoAddress, NoPick, Addresses, Picks
<1>2. ASSUME NEW w \in Nested
      PROVE  w \in Addresses
  <2>1. PICK c \in Chains :
          w = [l \in Levels |-> IF c[l] = NoPlace THEN NoName ELSE NameOf[c[l]]]
    BY DEF Nested
  <2> QED
    BY <2>1 DEF Chains, Picks, AddressList, Addresses
<1> QED
  BY <1>1, <1>2 DEF AddressList

LEMMA FormInitTypeOK ==
  ASSUME AddressList
  PROVE  FormInit => FormTypeOK
<1> SUFFICES ASSUME FormInit
             PROVE  FormTypeOK
  OBVIOUS
<1> USE DEF FormInit
<1>1. stored \in [Rows -> Addresses \cup {NoRow}] /\ listed = stored
  BY AddressedTypes
<1>2. /\ dialog \in [open : BOOLEAN, target : Targets \cup {NoTarget},
                     form : Addresses, selected : Picks]
      /\ ran \in [selected : Picks, target : Targets \cup {NoTarget},
                  populating : BOOLEAN]
  BY AddressedTypes
<1>3. options \in [Levels -> SUBSET Places]
  BY DEF At
<1>4. call \in [pc : {"idle", "sent", "done", "failed"},
                at : Rows \cup {Nobody}, body : Addresses]
  BY AddressedTypes DEF NoCall
<1>5. calls \in 0 .. MaxCalls
  BY DEF AddressList
<1> QED
  BY <1>1, <1>2, <1>3, <1>4, <1>5 DEF FormTypeOK

\* A render and the effects after it.
LEMMA EffectsTypeOK ==
  ASSUME AddressList, FormTypeOK, RunEffects
  PROVE  FormTypeOK'
<1> USE DEF FormTypeOK, RunEffects
<1>1. Cleared \in Picks
  BY DEF Cleared, Picks
<1>2. dialog' \in [open : BOOLEAN, target : Targets \cup {NoTarget},
                   form : Addresses, selected : Picks]
  BY <1>1
<1>3. options' \in [Levels -> SUBSET Places]
  BY DEF Under
<1>4. ran' \in [selected : Picks, target : Targets \cup {NoTarget},
                populating : BOOLEAN]
  <2>1. dialog.selected \in Picks /\ dialog.target \in Targets \cup {NoTarget}
    OBVIOUS
  <2>2. (ran.populating /\ dialog.target = ran.target) \in BOOLEAN
    OBVIOUS
  <2> QED
    BY <2>1, <2>2
<1> QED
  BY <1>2, <1>3, <1>4

\* A stored row is edited.
LEMMA OpenEditTypeOK ==
  ASSUME AddressList, FormTypeOK, NEW e \in Rows, OpenEdit(e)
  PROVE  FormTypeOK'
<1> DEFINE places == Restored(listed[e])
           picks == [l \in Levels |-> IF l = 3 /\ places[2] = NoPlace
                                           THEN dialog.selected[3] ELSE places[l]]
<1>1. listed[e] \in Addresses
  BY DEF FormTypeOK, OpenEdit
<1>2. places \in Picks
  BY <1>1, RestoredTypes
<1>3. picks \in Picks
  BY <1>2, FourLevels DEF Picks, FormTypeOK
<1>4. /\ dialog' = [open |-> TRUE, target |-> [at |-> e, row |-> listed[e]],
                    form |-> listed[e], selected |-> picks]
      /\ options' = [l \in Levels |-> IF l > 1 /\ places[l - 1] # NoPlace
                                           THEN Under(places[l - 1]) ELSE options[l]]
      /\ ran' = [ran EXCEPT !.populating = TRUE]
      /\ UNCHANGED <<stored, listed, call, calls, halved>>
  BY DEF OpenEdit, Populating
<1> HIDE DEF places, picks
<1>5. dialog' \in [open : BOOLEAN, target : Targets \cup {NoTarget},
                   form : Addresses, selected : Picks]
  BY <1>1, <1>3, <1>4 DEF Targets
<1>6. options' \in [Levels -> SUBSET Places]
  BY <1>4 DEF Under, FormTypeOK
<1> QED
  BY <1>4, <1>5, <1>6 DEF FormTypeOK

\* A place is picked.
LEMMA PickTypeOK ==
  ASSUME AddressList, FormTypeOK, NEW l \in Levels, NEW p \in At(l),
         Pick(l, p)
  PROVE  FormTypeOK'
<1>1. p \in Places /\ NameOf[p] \in PlaceNames
  BY DEF At, AddressList
<1>2. Picked(l, p) \in Addresses
  BY <1>1 DEF Picked, Addresses, FormTypeOK
<1>3. dialog' \in [open : BOOLEAN, target : Targets \cup {NoTarget},
                   form : Addresses, selected : Picks]
  BY <1>1, <1>2 DEF Pick, Picks, FormTypeOK
<1> QED
  BY <1>3 DEF Pick, FormTypeOK

\* The server writes an address.
LEMMA WriteTypeOK ==
  ASSUME AddressList, FormTypeOK, NEW e \in Rows,
         Create(e) \/ Update(e)
  PROVE  FormTypeOK'
<1>1. ASSUME NEW old \in Addresses
      PROVE  Written(old, call.body) \in Addresses
  BY DEF Written, Addresses, FormTypeOK
<1>2. CASE Create(e)
  <2>1. Written(NoAddress, call.body) \in Addresses
    BY <1>1, AddressedTypes
  <2> QED
    BY <1>2, <2>1, AddressedTypes DEF Create, FormTypeOK
<1>3. CASE Update(e)
  <2>1. Written(stored[e], call.body) \in Addresses
    BY <1>1, <1>3 DEF Update, FormTypeOK
  <2> QED
    BY <1>3, <2>1, AddressedTypes DEF Update, FormTypeOK
<1> QED
  BY <1>2, <1>3

LEMMA FormNextTypeOK ==
  ASSUME AddressList, FormTypeOK, [FormNext]_formVars
  PROVE  FormTypeOK'
<1>1. CASE RunEffects
  BY <1>1, EffectsTypeOK
<1>2. CASE OpenAdd \/ Close
  <2>1. \E o \in BOOLEAN : dialog' = [open |-> o, target |-> NoTarget,
                                     form |-> NoAddress, selected |-> NoPick]
    BY <1>2 DEF OpenAdd, Close
  <2>2. dialog' \in [open : BOOLEAN, target : Targets \cup {NoTarget},
                     form : Addresses, selected : Picks]
    BY <2>1, AddressedTypes
  <2>3. UNCHANGED <<stored, listed, options, ran, call, calls, halved>>
    BY <1>2 DEF OpenAdd, Close
  <2> QED
    BY <2>2, <2>3 DEF FormTypeOK
<1>3. CASE Submit
  <2>1. dialog.target.at \in Rows \cup {Nobody}
    BY DEF FormTypeOK, Targets, NoTarget
  <2>2. calls' \in 0 .. MaxCalls
    BY <1>3 DEF Submit, FormTypeOK, AddressList
  <2> QED
    BY <1>3, <2>1, <2>2 DEF Submit, FormTypeOK
<1>4. CASE Refuse \/ Refresh
  BY <1>4, AddressedTypes DEF Refuse, Refresh, FormTypeOK
<1>5. CASE Answered
  <2>1. NoCall \in [pc : {"idle", "sent", "done", "failed"},
                       at : Rows \cup {Nobody}, body : Addresses]
    BY AddressedTypes DEF NoCall
  <2>2. dialog' \in [open : BOOLEAN, target : Targets \cup {NoTarget},
                     form : Addresses, selected : Picks]
    BY <1>5, AddressedTypes DEF Answered, FormTypeOK
  <2> QED
    BY <1>5, <2>1, <2>2 DEF Answered, FormTypeOK
<1>6. ASSUME NEW e \in Rows, OpenEdit(e)
      PROVE  FormTypeOK'
  BY <1>6, OpenEditTypeOK
<1>7. ASSUME NEW e \in Rows, Create(e) \/ Update(e)
      PROVE  FormTypeOK'
  BY <1>7, WriteTypeOK
<1>8. ASSUME NEW e \in Rows, Remove(e)
      PROVE  FormTypeOK'
  BY <1>8 DEF Remove, FormTypeOK
<1>9. ASSUME NEW l \in Levels, NEW p \in At(l), Pick(l, p)
      PROVE  FormTypeOK'
  BY <1>9, PickTypeOK
<1>10. CASE UNCHANGED formVars
  BY <1>10 DEF FormTypeOK, formVars
<1> QED
  BY <1>1, <1>2, <1>3, <1>4, <1>5, <1>6, <1>7, <1>8, <1>9, <1>10 DEF FormNext

\* Every reachable state of the form and of the rows is well typed.
THEOREM FormTypeCorrect ==
  ASSUME AddressList
  PROVE  FormSpec => []FormTypeOK
<1>1. FormInit => FormTypeOK
  BY FormInitTypeOK
<1>2. FormTypeOK /\ [FormNext]_formVars => FormTypeOK'
  BY FormNextTypeOK
<1> QED
  BY <1>1, <1>2, PTL DEF FormSpec

\* The names of the form, with none left out above another, are those of a place.
LEMMA FormIsOfAPlace ==
  ASSUME AddressList, FormTypeOK, Levelled, Mirrors, Gapless(dialog.form)
  PROVE  dialog.form \in Nested
<1> DEFINE c == [l \in Levels |-> IF dialog.form[l] = NoName THEN NoPlace
                                  ELSE dialog.selected[l]]
<1>1. /\ dialog.selected \in [Levels -> Places \cup {NoPlace}]
      /\ dialog.form \in [Levels -> PlaceNames \cup {NoName}]
  BY DEF FormTypeOK, Picks, Addresses
<1>2. c \in Picks
  BY <1>1 DEF Picks
<1>3. ASSUME NEW l \in Levels, c[l] # NoPlace
      PROVE  LevelOf[c[l]] = l /\ (l > 1 => ParentOf[c[l]] = c[l - 1])
  <2>1. dialog.form[l] # NoName /\ c[l] = dialog.selected[l]
    BY <1>3
  <2>2. LevelOf[c[l]] = l
    BY <1>3, <2>1 DEF Levelled
  <2>3. ASSUME l > 1
        PROVE  ParentOf[c[l]] = c[l - 1]
    <3>1. l \in 2 .. 4 /\ l - 1 \in Levels /\ l - 1 < l
      BY <2>3, FourLevels
    <3>2. dialog.form[l - 1] # NoName
      BY <2>1, <3>1 DEF Gapless
    <3>3. c[l - 1] = dialog.selected[l - 1]
      BY <3>1, <3>2
    <3> QED
      BY <2>1, <3>1, <3>2, <3>3 DEF Mirrors, FormNests
  <2> QED
    BY <2>2, <2>3
<1>4. c \in Chains
  BY <1>2, <1>3 DEF Chains
<1>5. ASSUME NEW l \in Levels
      PROVE  dialog.form[l] = IF c[l] = NoPlace THEN NoName ELSE NameOf[c[l]]
  BY DEF Mirrors, FormShown
<1>6. dialog.form = [l \in Levels |-> IF c[l] = NoPlace THEN NoName ELSE NameOf[c[l]]]
  BY <1>1, <1>5
<1> QED
  BY <1>4, <1>6 DEF Nested

\* A write that does not halve an address replaces it.
LEMMA WrittenIsSent ==
  ASSUME NEW old, NEW body \in Addresses, ~Halves(old, body)
  PROVE  Gapless(body) /\ Written(old, body) = body
<1>1. Gapless(body)
  BY DEF Halves, Gapless
<1>2. \A l \in Levels : body[l] = NoName => old[l] = NoName
  BY DEF Halves
<1> QED
  BY <1>1, <1>2 DEF Written, Addresses

\* What is written nests, where what is sent does.
LEMMA FormNextNests ==
  ASSUME AddressList, FormTypeOK, RowsNest, SentNests, Faithful,
         [FormNext]_formVars
  PROVE  RowsNest' /\ SentNests'
<1>1. CASE Submit
  <2>1. call' = [pc |-> "sent", at |-> dialog.target.at, body |-> dialog.form]
        /\ UNCHANGED <<stored, listed, halved>>
    BY <1>1 DEF Submit
  <2>2. dialog.target.at \notin halved /\ Gapless(dialog.form) => dialog.form \in Nested
    BY FormIsOfAPlace DEF Faithful
  <2> QED
    BY <2>1, <2>2 DEF RowsNest, SentNests, Nested, Gapless
<1>2. ASSUME NEW e \in Rows, Create(e) \/ Update(e)
      PROVE  RowsNest' /\ SentNests'
  <2>1. PICK old :
          /\ stored' = [stored EXCEPT ![e] = Written(old, call.body)]
          /\ halved' = IF Halves(old, call.body) THEN halved \cup {e} ELSE halved
    BY <1>2 DEF Create, Update
  <2>2. /\ call.pc = "sent" /\ call.at \in {e, Nobody} /\ call.body \in Addresses
        /\ listed' = listed /\ call'.pc = "done"
    BY <1>2 DEF Create, Update, FormTypeOK
  <2>3. halved \subseteq halved' /\ Nobody \notin halved
    BY <2>1 DEF FormTypeOK, AddressList
  <2>4. ASSUME e \notin halved'
        PROVE  stored'[e] \in Nested
    <3>1. ~Halves(old, call.body) /\ e \notin halved
      BY <2>1, <2>4
    <3>2. Gapless(call.body) /\ Written(old, call.body) = call.body
      BY <2>2, <3>1, WrittenIsSent
    <3>3. call.body \in Nested
      BY <2>2, <2>3, <3>1, <3>2 DEF SentNests
    <3> QED
      BY <2>1, <3>2, <3>3 DEF FormTypeOK
  <2>5. \A d \in Rows : d # e => stored'[d] = stored[d]
    BY <2>1 DEF FormTypeOK
  <2>6. RowsNest'
    BY <2>2, <2>3, <2>4, <2>5 DEF RowsNest, Nested
  <2> QED
    BY <2>2, <2>6 DEF SentNests
<1>3. ASSUME NEW e \in Rows, Remove(e)
      PROVE  RowsNest' /\ SentNests'
  BY <1>3 DEF Remove, RowsNest, SentNests, FormTypeOK, Nested, Gapless
<1>4. CASE Refresh
  BY <1>4 DEF Refresh, RowsNest, SentNests, Nested, Gapless
<1>5. CASE Refuse \/ Answered
  <2>1. call'.pc # "sent"
    <3>1. CASE Refuse
      <4>1. call' = [call EXCEPT !.pc = "failed", !.body = NoAddress]
        BY <3>1 DEF Refuse
      <4> QED
        BY <4>1 DEF FormTypeOK
    <3>2. CASE Answered
      BY <3>2 DEF Answered, NoCall
    <3> QED
      BY <1>5, <3>1, <3>2
  <2>2. UNCHANGED <<stored, listed, halved>>
    BY <1>5 DEF Refuse, Answered
  <2> QED
    BY <2>1, <2>2 DEF RowsNest, SentNests, Nested
<1>6. CASE \/ RunEffects \/ OpenAdd \/ Close
           \/ (\E e \in Rows : OpenEdit(e))
           \/ (\E l \in Levels : \E p \in At(l) : Pick(l, p))
           \/ UNCHANGED formVars
  <2>1. UNCHANGED <<stored, listed, call, halved>>
    BY <1>6 DEF RunEffects, OpenAdd, Close, OpenEdit, Pick,
                formVars
  <2> QED
    BY <2>1 DEF RowsNest, SentNests, Nested, Gapless
<1> QED
  BY <1>1, <1>2, <1>3, <1>4, <1>5, <1>6 DEF FormNext

\* With the effects done, a select offers what is inside of the pick above it.
LEMMA SettledOffers ==
  ASSUME Settled, Offered
  PROVE  /\ \A l \in 1 .. 3 : dialog.selected[l] = ran.selected[l]
         /\ \A l \in 2 .. 4 : /\ options[l] = Under(dialog.selected[l - 1])
                              /\ options[l] = Under(ran.selected[l - 1])
<1>1. \A l \in 1 .. 3 : dialog.selected[l] = ran.selected[l]
  BY DEF Settled, Changed
<1> QED
  BY <1>1, FourLevels DEF Offered

\* One pass of the effects.
LEMMA EffectsFaithful ==
  ASSUME AddressList, FormTypeOK, Faithful, RunEffects
  PROVE  Faithful'
<1>1. /\ ran'.selected = dialog.selected
      /\ ran'.populating = (ran.populating /\ dialog.target = ran.target)
  BY DEF RunEffects
<1>2. /\ dialog'.form = dialog.form /\ dialog'.selected = Cleared
      /\ dialog'.target = dialog.target /\ halved' = halved
  BY DEF RunEffects, FormTypeOK
<1>3. \A l \in Levels :
        Cleared[l] = IF ~ran.populating /\ (\E c \in Changed : c < l)
                          THEN NoPlace ELSE dialog.selected[l]
  BY DEF Cleared
<1>4. Levelled'
  BY <1>2, <1>3 DEF Faithful, Levelled
<1>5. Offered'
  <2>1. options'[1] = options[1]
    BY FourLevels DEF RunEffects, Changed
  <2>2. ASSUME NEW l \in 2 .. 4
        PROVE  options'[l] = Under(dialog.selected[l - 1])
    <3>1. l \in Levels /\ l - 1 \in 1 .. 3
      BY FourLevels
    <3>2. CASE l - 1 \in Changed
      BY <3>1, <3>2 DEF RunEffects
    <3>3. CASE l - 1 \notin Changed
      <4>1. dialog.selected[l - 1] = ran.selected[l - 1]
        BY <3>1, <3>3 DEF Changed
      <4>2. options'[l] = options[l]
        BY <3>1, <3>3 DEF RunEffects
      <4> QED
        BY <4>1, <4>2 DEF Faithful, Offered
    <3> QED
      BY <3>2, <3>3
  <2>3. \A p : Under(p)' = Under(p)
    BY DEF Under
  <2>4. At(1)' = At(1)
    BY DEF At
  <2> QED
    BY <1>1, <2>1, <2>2, <2>4 DEF Faithful, Offered, Under
<1>6. ASSUME Mirrors
      PROVE  Mirrors'
  <2>1. \A l \in Levels : dialog.form[l] # NoName => Cleared[l] = dialog.selected[l]
    <3> SUFFICES ASSUME NEW l \in Levels, dialog.form[l] # NoName,
                        ~ran.populating, NEW c \in Changed, c < l
                 PROVE  FALSE
      BY <1>3
    <3>1. l > c
      BY FourLevels DEF Changed
    <3> QED
      BY <1>6, <3>1 DEF Mirrors, Emptied
  <2>2. Emptied'
    <3> SUFFICES ASSUME ~ran'.populating, NEW c \in Changed', NEW k \in Levels, k > c
                 PROVE  dialog.form[k] = NoName
      BY <1>2 DEF Emptied
    <3>1. c \in 1 .. 3 /\ Cleared[c] # dialog.selected[c]
      BY <1>1, <1>2 DEF Changed
    <3>2. ~ran.populating /\ \E d \in Changed : d < c
      BY <1>3, <3>1, FourLevels
    <3>3. PICK d \in Changed : d < c
      BY <3>2
    <3>4. k > d
      BY <3>1, <3>3, FourLevels DEF Changed
    <3> QED
      BY <1>6, <3>2, <3>3, <3>4 DEF Mirrors, Emptied
  <2>3. FormShown'
    BY <1>2, <1>6, <2>1 DEF Mirrors, FormShown
  <2>4. FormNests'
    BY <1>2, <1>6, <2>1, FourLevels DEF Mirrors, FormNests
  <2> QED
    BY <2>2, <2>3, <2>4 DEF Mirrors
<1> QED
  BY <1>2, <1>4, <1>5, <1>6 DEF Faithful

\* The dialog opens for a new establishment, or is left.
LEMMA ClearedFormFaithful ==
  ASSUME AddressList, FormTypeOK, Faithful,
         OpenAdd \/ Close \/ Answered
  PROVE  Faithful'
<1>1. UNCHANGED <<options, ran, halved>> /\ Settled
  BY DEF OpenAdd, Close, Answered
<1>2. CASE UNCHANGED dialog
  BY <1>1, <1>2 DEF Faithful, Levelled, Offered, Mirrors, Emptied, FormShown, FormNests,
                    Changed, Under, At
<1>3. CASE dialog' # dialog
  <2>1. /\ dialog'.form = NoAddress
        /\ dialog'.selected \in {dialog.selected, NoPick}
    <3>1. CASE OpenAdd \/ Close
      BY <3>1 DEF OpenAdd, Close
    <3>2. CASE Answered
      <4>1. \E target : dialog' = [dialog EXCEPT !.open = FALSE, !.form = NoAddress,
                                                !.target = target]
        BY <1>3, <3>2 DEF Answered
      <4> QED
        BY <4>1 DEF FormTypeOK
    <3> QED
      BY <3>1, <3>2
  <2>2. \A l \in Levels : dialog'.form[l] = NoName
    BY <2>1, AddressedTypes
  <2>3. Levelled'
    BY <2>1, AddressedTypes DEF Faithful, Levelled
  <2>4. Offered'
    <3>1. \A l \in 2 .. 4 : options[l] = Under(ran.selected[l - 1])
      BY <1>1, SettledOffers DEF Faithful
    <3> QED
      BY <1>1, <3>1 DEF Faithful, Offered, Under, At
  <2>5. Mirrors'
    BY <2>2, FourLevels DEF Mirrors, Emptied, FormShown, FormNests
  <2> QED
    BY <2>3, <2>4, <2>5 DEF Faithful
<1> QED
  BY <1>2, <1>3

\* A place is picked in a select, and the names below it go at once.
LEMMA PickFaithful ==
  ASSUME AddressList, FormTypeOK, Faithful,
         NEW l \in Levels, NEW p \in At(l), Pick(l, p)
  PROVE  Faithful'
<1>1. UNCHANGED <<options, ran, halved>> /\ Settled
  BY DEF Pick
<1>2. /\ dialog'.form = Picked(l, p)
      /\ dialog'.selected = [dialog.selected EXCEPT ![l] = p]
      /\ dialog'.target = dialog.target
  BY DEF Pick, FormTypeOK
<1>3. \A k \in Levels :
        /\ k < l => dialog'.form[k] = dialog.form[k]
        /\ dialog'.form[l] = NameOf[p]
        /\ k > l => dialog'.form[k] = NoName
        /\ dialog'.selected[k] = IF k = l THEN p ELSE dialog.selected[k]
  BY <1>2, FourLevels DEF Picked, FormTypeOK, Picks
<1>4. p \in Places /\ LevelOf[p] = l /\ p # NoPlace
  BY DEF At, AddressList
<1>5. l > 1 => ParentOf[p] = dialog.selected[l - 1]
  <2> SUFFICES ASSUME l > 1
               PROVE  ParentOf[p] = dialog.selected[l - 1]
    OBVIOUS
  <2>1. l \in 2 .. 4
    BY FourLevels
  <2>2. p \in Under(dialog.selected[l - 1])
    BY <1>1, <2>1, SettledOffers DEF Pick, Faithful
  <2> QED
    BY <2>2 DEF Under
<1>6. Levelled'
  BY <1>3, <1>4 DEF Faithful, Levelled
<1>7. Offered'
  <2>1. \A k \in 2 .. 4 : options[k] = Under(ran.selected[k - 1])
    BY <1>1, SettledOffers DEF Faithful
  <2> QED
    BY <1>1, <2>1 DEF Faithful, Offered, Under, At
<1>8. Emptied'
  <2>1. \A c \in Changed' : c = l
    BY <1>1, <1>3, SettledOffers, FourLevels DEF Changed, Faithful
  <2> QED
    BY <1>3, <2>1 DEF Emptied
<1>9. ASSUME Mirrors
      PROVE  FormShown'
  <2> SUFFICES ASSUME NEW k \in Levels, dialog'.form[k] # NoName
               PROVE  /\ dialog'.selected[k] # NoPlace
                      /\ NameOf[dialog'.selected[k]] = dialog'.form[k]
    BY DEF FormShown
  <2>1. CASE k = l
    BY <1>3, <1>4, <2>1
  <2>2. CASE k # l
    <3>1. k < l
      BY <1>3, <2>2, FourLevels
    <3> QED
      BY <1>3, <1>9, <3>1 DEF Mirrors, FormShown
  <2> QED
    BY <2>1, <2>2
<1>10. ASSUME Mirrors
       PROVE  FormNests'
  <2> SUFFICES ASSUME NEW k \in 2 .. 4,
                      dialog'.form[k] # NoName, dialog'.form[k - 1] # NoName
               PROVE  ParentOf[dialog'.selected[k]] = dialog'.selected[k - 1]
    BY DEF FormNests
  <2>0. k \in Levels /\ k - 1 \in Levels /\ k - 1 < k
    BY FourLevels
  <2>1. CASE k = l
    BY <1>3, <1>5, <2>0, <2>1, FourLevels
  <2>2. CASE k # l
    <3>1. k < l /\ k - 1 < l
      BY <1>3, <2>0, <2>2, FourLevels
    <3>2. dialog.form[k] # NoName /\ dialog.form[k - 1] # NoName
      BY <1>3, <2>0, <3>1
    <3>3. ParentOf[dialog.selected[k]] = dialog.selected[k - 1]
      BY <1>10, <3>2 DEF Mirrors, FormNests
    <3> QED
      BY <1>3, <2>0, <3>1, <3>3, FourLevels
  <2> QED
    BY <2>1, <2>2
<1> QED
  BY <1>1, <1>2, <1>6, <1>7, <1>8, <1>9, <1>10 DEF Faithful, Mirrors

\* A listed row is edited: its names, and the places looked up for them.
LEMMA OpenEditFaithful ==
  ASSUME AddressList, NamesApart, FormTypeOK, RowsNest, Faithful,
         NEW e \in Rows, OpenEdit(e)
  PROVE  Faithful'
<1> DEFINE row == listed[e]
           places == Restored(row)
<1>1. Settled /\ row \in Addresses /\ (e \notin halved => row \in Nested)
  BY DEF OpenEdit, RowsNest, FormTypeOK
<1>2. /\ dialog'.form = row
      /\ dialog'.selected = [l \in Levels |-> IF l = 3 /\ places[2] = NoPlace
                                                   THEN dialog.selected[3] ELSE places[l]]
      /\ options' = [l \in Levels |-> IF l > 1 /\ places[l - 1] # NoPlace
                                           THEN Under(places[l - 1]) ELSE options[l]]
      /\ ran'.populating /\ ran'.selected = ran.selected
      /\ dialog'.target.at = e /\ halved' = halved
  BY DEF OpenEdit, Populating, FormTypeOK
<1>3. \A l \in Levels :
        /\ dialog'.selected[l] = IF l = 3 /\ places[2] = NoPlace
                                 THEN dialog.selected[3] ELSE places[l]
        /\ options'[l] = IF l > 1 /\ places[l - 1] # NoPlace
                         THEN Under(places[l - 1]) ELSE options[l]
  BY <1>2
<1>4. /\ \A l \in Levels : places[l] # NoPlace => LevelOf[places[l]] = l
      /\ places[2] = NoPlace => places[3] = NoPlace
  BY <1>1, RestoredTypes
<1>5. ASSUME e \notin halved
      PROVE  /\ \A l \in Levels :
                  row[l] # NoName => places[l] # NoPlace /\ NameOf[places[l]] = row[l]
             /\ \A l \in 2 .. 4 :
                  row[l] # NoName => /\ row[l - 1] # NoName
                                     /\ ParentOf[places[l]] = places[l - 1]
  BY <1>1, <1>5, RestoredIsTheRow
<1> HIDE DEF places, row
<1>6. Levelled'
  BY <1>3, <1>4, FourLevels DEF Faithful, Levelled
<1>7. Offered'
  <2>1. options'[1] = At(1)
    BY <1>3, FourLevels DEF Faithful, Offered
  <2>2. ASSUME NEW l \in 2 .. 4
        PROVE  \/ options'[l] = Under(ran'.selected[l - 1])
               \/ options'[l] = Under(dialog'.selected[l - 1])
    <3>1. l \in Levels /\ l - 1 \in Levels /\ l > 1
      BY FourLevels
    <3>2. CASE places[l - 1] # NoPlace
      <4>1. options'[l] = Under(places[l - 1])
        BY <1>3, <3>1, <3>2
      <4>2. dialog'.selected[l - 1] = places[l - 1]
        BY <1>3, <1>4, <3>1, <3>2
      <4> QED
        BY <4>1, <4>2
    <3>3. CASE places[l - 1] = NoPlace
      <4>1. options'[l] = options[l]
        BY <1>3, <3>1, <3>3
      <4>2. options[l] = Under(ran.selected[l - 1])
        BY <1>1, SettledOffers DEF Faithful
      <4> QED
        BY <1>2, <4>1, <4>2
    <3> QED
      BY <3>2, <3>3
  <2> QED
    BY <2>1, <2>2 DEF Offered, Under, At
<1>8. Emptied'
  BY <1>2 DEF Emptied
<1>9. ASSUME e \notin halved
      PROVE  FormShown' /\ FormNests'
  <2>1. ASSUME NEW l \in Levels, row[l] # NoName
        PROVE  dialog'.selected[l] = places[l]
    <3>1. l = 3 => row[2] # NoName
      BY <1>5, <1>9, <2>1, FourLevels
    <3>2. l = 3 => places[2] # NoPlace
      BY <1>5, <1>9, <3>1, FourLevels
    <3> QED
      BY <1>3, <3>2
  <2>2. FormShown'
    BY <1>2, <1>5, <1>9, <2>1 DEF FormShown
  <2>3. ASSUME NEW l \in 2 .. 4, row[l] # NoName
        PROVE  ParentOf[dialog'.selected[l]] = dialog'.selected[l - 1]
    <3>1. l \in Levels /\ l - 1 \in Levels
      BY FourLevels
    <3>2. row[l - 1] # NoName /\ ParentOf[places[l]] = places[l - 1]
      BY <1>5, <1>9, <2>3
    <3> QED
      BY <2>1, <2>3, <3>1, <3>2
  <2>4. FormNests'
    BY <1>2, <2>3 DEF FormNests
  <2> QED
    BY <2>2, <2>4
<1> QED
  BY <1>2, <1>6, <1>7, <1>8, <1>9 DEF Faithful, Mirrors

LEMMA FormNextFaithful ==
  ASSUME AddressList, NamesApart, FormTypeOK, RowsNest, Faithful,
         [FormNext]_formVars
  PROVE  Faithful'
<1>1. CASE RunEffects
  BY <1>1, EffectsFaithful
<1>2. CASE OpenAdd \/ Close \/ Answered
  BY <1>2, ClearedFormFaithful
<1>3. ASSUME NEW e \in Rows, OpenEdit(e)
      PROVE  Faithful'
  BY <1>3, OpenEditFaithful
<1>4. ASSUME NEW l \in Levels, NEW p \in At(l), Pick(l, p)
      PROVE  Faithful'
  BY <1>4, PickFaithful
<1>5. CASE \/ Submit \/ Refuse \/ Refresh
           \/ (\E e \in Rows : Create(e) \/ Update(e) \/ Remove(e))
           \/ UNCHANGED formVars
  <2>1. UNCHANGED <<dialog, options, ran>>
    BY <1>5 DEF Submit, Refuse, Refresh, Create, Update,
                Remove, formVars
  <2>2. halved \subseteq halved'
    BY <1>5 DEF Submit, Refuse, Refresh, Create, Update,
                Remove, formVars
  <2> QED
    BY <2>1, <2>2 DEF Faithful, Levelled, Offered, Mirrors, Emptied, FormShown,
                      FormNests, Changed, Under, At
<1> QED
  BY <1>1, <1>2, <1>3, <1>4, <1>5 DEF FormNext

LEMMA FormInitFaithful ==
  ASSUME AddressList, FormInit
  PROVE  RowsNest /\ SentNests /\ Faithful
<1> USE DEF FormInit
<1>1. RowsNest /\ SentNests
  BY AddressedTypes DEF RowsNest, SentNests, NoCall
<1>2. Levelled /\ Mirrors
  BY AddressedTypes, FourLevels DEF Levelled, Mirrors, Emptied, FormShown, FormNests
<1>3. Offered
  <2>1. \A l \in 2 .. 4 : options[l] = {} /\ ran.selected[l - 1] = NoPlace
    BY AddressedTypes, FourLevels
  <2>2. Under(NoPlace) = {}
    BY DEF Under
  <2> QED
    BY <2>1, <2>2, FourLevels DEF Offered
<1> QED
  BY <1>1, <1>2, <1>3 DEF Faithful

LEMMA SpecFaithful ==
  ASSUME AddressList, NamesApart
  PROVE  FormSpec => [](FormTypeOK /\ RowsNest /\ Faithful)
<1> DEFINE IInv == FormTypeOK /\ RowsNest /\ SentNests /\ Faithful
<1>1. FormInit => IInv
  BY FormInitTypeOK, FormInitFaithful
<1>2. IInv /\ [FormNext]_formVars => IInv'
  BY FormNextTypeOK, FormNextNests, FormNextFaithful
<1>3. IInv => FormTypeOK /\ RowsNest /\ Faithful
  OBVIOUS
<1> QED
  BY <1>1, <1>2, <1>3, PTL DEF FormSpec

\* What is stored of an establishment is the address of a place (handleUpdate,
\* handleEdit, establishment.service.ts), unless a request left out a name that
\* the row had, or one above a name that it gave; where the address list tells
\* its places apart: whatever dialogs were opened and left before, and however
\* late an answer or the list comes.
THEOREM AddressesNest ==
  ASSUME AddressList, NamesApart
  PROVE  FormSpec => []AddressNests
<1>1. RowsNest => AddressNests
  BY DEF RowsNest, AddressNests, Existing
<1> QED
  BY <1>1, SpecFaithful, PTL

\* A name that the form will send is the one that its select shows (handleEdit
\* and "the cascade effects"), whoever left what unpicked, unless the dialog edits
\* a row with half an address.
THEOREM SentAreShown ==
  ASSUME AddressList, NamesApart
  PROVE  FormSpec => []SentIsShown
<1>1. Faithful => SentIsShown
  BY DEF Faithful, Mirrors, FormShown, SentIsShown
<1> QED
  BY <1>1, SpecFaithful, PTL

=============================================================================

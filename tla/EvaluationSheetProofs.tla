----------------------- MODULE EvaluationSheetProofs ------------------------
(***************************************************************************)
(* Theorems about EvaluationSheet, for any number of templates, items,     *)
(* evaluations and requests.                                               *)
(***************************************************************************)
EXTENDS EvaluationSheet, FiniteSetTheorems, WellFoundedInduction, TLAPS

-----------------------------------------------------------------------------
\* What the steps rely on: TypeOK but for the totals, which are sums, and with
\* the steps of a request at which it has a target or an outgoing template.

Aimed == {"store", "current", "max", "promote", "count", "discard"}

RowShape(row) ==
  /\ row = [state |-> "written", template |-> row.template, scores |-> row.scores,
            total |-> row.total, max |-> row.max]
  /\ row.template \in Templates

TemplatesShape == templates \in [Templates -> TemplateRows]

EditShape ==
  /\ edit \in [Edits -> EditReqs \cup {Idle}]
  /\ \A c \in Edits : edit[c].pc \in Aimed => edit[c].target \in Templates

EvaluationsShape ==
  /\ evaluations = [e \in Evaluations |-> evaluations[e]]
  /\ \A e \in Evaluations : evaluations[e] \in {Absent, Removed} \/ RowShape(evaluations[e])

RatingShape == rating \in [Ratings -> RatingReqs \cup {Idle}]

Shape == TemplatesShape /\ EditShape /\ EvaluationsShape /\ RatingShape

\* A sheet being filled in was published when it was read: it may have been
\* deleted since, but it is no draft.
RatedSheetIssued ==
  \A r \in Ratings : rating[r].pc = "insert" =>
    templates[rating[r].template].status \in {"PUBLISHED", "ARCHIVED", "DELETED"}

KeptInv == Shape /\ SheetKept /\ RatedSheetIssued

\* What an editor's step may do to the status of a template.
StatusMoves ==
  \A t \in Templates :
    /\ templates[t].status \in {"PUBLISHED", "ARCHIVED"} =>
         \/ templates'[t].status \in {"PUBLISHED", "ARCHIVED"}
         \/ templates'[t].status = "DELETED" /\ Unused(t)
    /\ templates[t].status = "DELETED" => templates'[t].status = "DELETED"

-----------------------------------------------------------------------------
LEMMA InitShape == Init => Shape
<1> SUFFICES ASSUME Init PROVE Shape
  OBVIOUS
<1>1. TemplatesShape
  BY DEF Init, TemplatesShape, TemplateRows, TemplateStatuses
<1>2. EditShape
  BY DEF Init, EditShape, Idle, Aimed
<1>3. EvaluationsShape
  BY DEF Init, EvaluationsShape
<1>4. RatingShape
  BY DEF Init, RatingShape
<1> QED
  BY <1>1, <1>2, <1>3, <1>4 DEF Shape

\* The version a transaction computes is a number.
LEMMA HighestIsNat ==
  ASSUME TemplatesShape, NEW v \in {0} \cup {templates[t].version : t \in Templates}
  PROVE  v \in Nat
BY DEF TemplatesShape, TemplateRows

LEMMA EditKeepsShape ==
  ASSUME Shape, NEW c \in Edits, EditStep(c)
  PROVE  Shape'
<1> USE DEF Shape, Saving, Publishing, Discarding
<1>1. EvaluationsShape' /\ RatingShape'
  <2>1. UNCHANGED <<evaluations, rating>>
    BY DEF EditStep, BeginSave, ReadSource, ReadNumber, CreateDraft, StoreDraft, AnswerSave,
           BeginPublish, ReadCurrent, ReadMax, Promote, BeginDiscard, CountSigned, Discard,
           EditLost
  <2> QED
    BY <2>1 DEF EvaluationsShape, RatingShape
<1>2. ASSUME edit' = [edit EXCEPT ![c] = Idle]
      PROVE  EditShape'
  BY <1>2 DEF EditShape, Idle, Aimed
<1>3. ASSUME NEW pc \in {"source", "number"}, NEW s \in SUBSET Items,
             edit' = [edit EXCEPT ![c] = Request(pc, NoTemplate, s)]
      PROVE  EditShape'
  BY <1>3 DEF EditShape, Request, EditReqs, Aimed
<1>4. ASSUME NEW pc \in Aimed, NEW t \in Templates, NEW s \in SUBSET Items,
             edit' = [edit EXCEPT ![c] = Request(pc, t, s)]
      PROVE  EditShape'
  BY <1>4 DEF EditShape, Request, EditReqs, Aimed
<1>5. CASE BeginSave(c)
  <2>1. TemplatesShape'
    BY <1>5 DEF BeginSave, TemplatesShape
  <2>2. EditShape'
    <3>1. CASE edit' = [edit EXCEPT ![c] = Request("source", NoTemplate, {})]
      <4>1. {} \in SUBSET Items /\ "source" \in {"source", "number"}
        OBVIOUS
      <4> QED
        BY <3>1, <4>1, <1>3
    <3>2. CASE \E t \in Newest("DRAFT") : \E s \in Sheets(templates[t].items) :
                 edit' = [edit EXCEPT ![c] = Request("store", t, s)]
      BY <3>2, <1>4 DEF Newest, Sheets, Aimed
    <3> QED
      BY <1>5, <3>1, <3>2 DEF BeginSave
  <2> QED
    BY <1>1, <2>1, <2>2
<1>6. CASE ReadSource(c)
  <2>1. TemplatesShape'
    BY <1>6 DEF ReadSource, TemplatesShape
  <2>2. EditShape'
    BY <1>6, <1>3 DEF ReadSource, Sheets
  <2> QED
    BY <1>1, <2>1, <2>2
<1>7. CASE ReadNumber(c)
  <2>1. TemplatesShape'
    BY <1>7 DEF ReadNumber, TemplatesShape
  <2>2. EditShape'
    <3>1. PICK v \in {0} \cup {templates[t].version : t \in Templates} :
            edit' = [edit EXCEPT ![c].pc = "create", ![c].version = v + 1]
      BY <1>7 DEF ReadNumber
    <3>2. v + 1 \in Nat
      BY HighestIsNat
    <3>3. edit[c] \in EditReqs
      BY <1>7 DEF ReadNumber, EditShape, Idle
    <3> QED
      BY <3>1, <3>2, <3>3 DEF EditShape, EditReqs, Aimed
  <2> QED
    BY <1>1, <2>1, <2>2
<1>8. CASE CreateDraft(c)
  <2>1. edit[c] \in EditReqs
    BY <1>8 DEF CreateDraft, EditShape, Idle
  <2>2. TemplatesShape'
    BY <1>8, <2>1 DEF CreateDraft, TemplatesShape, TemplateRows, TemplateStatuses, EditReqs
  <2>3. EditShape'
    BY <1>8, <2>1, <1>2 DEF CreateDraft, Ends, EditShape, EditReqs, Aimed
  <2> QED
    BY <1>1, <2>2, <2>3
<1>9. CASE StoreDraft(c)
  <2>1. edit[c] \in EditReqs
    BY <1>9 DEF StoreDraft, EditShape, Idle
  <2>2. TemplatesShape'
    BY <1>9, <2>1 DEF StoreDraft, TemplatesShape, TemplateRows, TemplateStatuses, EditReqs
  <2>3. EditShape'
    BY <1>9, <2>1, <1>2 DEF StoreDraft, Ends, EditShape, EditReqs, Aimed
  <2> QED
    BY <1>1, <2>2, <2>3
<1>10. CASE AnswerSave(c)
  BY <1>10, <1>1, <1>2 DEF AnswerSave, Ends, TemplatesShape
<1>11. CASE BeginPublish(c)
  <2>1. TemplatesShape'
    BY <1>11 DEF BeginPublish, TemplatesShape
  <2>2. EditShape'
    <3>1. PICK t \in Templates : edit' = [edit EXCEPT ![c] = Request("current", t, {})]
      BY <1>11 DEF BeginPublish, Newest
    <3>2. {} \in SUBSET Items /\ "current" \in Aimed
      BY DEF Aimed
    <3> QED
      BY <3>1, <3>2, <1>4
  <2> QED
    BY <1>1, <2>1, <2>2
<1>12. CASE ReadCurrent(c)
  <2>1. edit[c] \in EditReqs
    BY <1>12 DEF ReadCurrent, EditShape, Idle
  <2>2. EditShape'
    BY <1>12, <2>1 DEF ReadCurrent, EditShape, EditReqs, Aimed
  <2>3. TemplatesShape'
    BY <1>12 DEF ReadCurrent, TemplatesShape
  <2> QED
    BY <1>1, <2>2, <2>3
<1>13. CASE ReadMax(c)
  <2>1. edit[c] \in EditReqs
    BY <1>13 DEF ReadMax, EditShape, Idle
  <2>2. PICK v \in {0} \cup {templates[t].version : t \in Templates} :
          edit' = [edit EXCEPT ![c].pc = "promote", ![c].version = v + 1]
    BY <1>13 DEF ReadMax
  <2>3. v + 1 \in Nat
    BY HighestIsNat
  <2>4. EditShape'
    BY <1>13, <2>1, <2>2, <2>3 DEF ReadMax, EditShape, EditReqs, Aimed
  <2>5. TemplatesShape'
    BY <1>13 DEF ReadMax, TemplatesShape
  <2> QED
    BY <1>1, <2>4, <2>5
<1>14. CASE Promote(c)
  <2>1. edit[c] \in EditReqs /\ edit[c].version \in Nat
    BY <1>14 DEF Promote, EditShape, Idle, EditReqs
  <2>2. TemplatesShape'
    <3>1. ASSUME NEW u \in Templates, NEW v \in Nat, NEW st \in TemplateStatuses
          PROVE  /\ templates[u] \in TemplateRows
                 /\ [templates[u] EXCEPT !.status = st] \in TemplateRows
                 /\ [templates[u] EXCEPT !.status = st, !.version = v] \in TemplateRows
      BY DEF TemplatesShape, TemplateRows
    <3>2. {"PUBLISHED", "ARCHIVED"} \subseteq TemplateStatuses
      BY DEF TemplateStatuses
    <3>3. Promoted(edit[c].target, edit[c].outgoing, edit[c].version)
            \in [Templates -> TemplateRows]
      BY <2>1, <3>1, <3>2 DEF Promoted
    <3> QED
      BY <1>14, <3>3 DEF Promote, TemplatesShape
  <2> QED
    BY <1>14, <1>1, <1>2, <2>2 DEF Promote, Ends
<1>15. CASE BeginDiscard(c)
  <2>1. TemplatesShape'
    BY <1>15 DEF BeginDiscard, TemplatesShape
  <2>2. EditShape'
    <3>1. PICK t \in Templates : edit' = [edit EXCEPT ![c] = Request("count", t, {})]
      BY <1>15 DEF BeginDiscard, Newest
    <3>2. {} \in SUBSET Items /\ "count" \in Aimed
      BY DEF Aimed
    <3> QED
      BY <3>1, <3>2, <1>4
  <2> QED
    BY <1>1, <2>1, <2>2
<1>16. CASE CountSigned(c)
  <2>1. edit[c] \in EditReqs
    BY <1>16 DEF CountSigned, EditShape, Idle
  <2>2. EditShape'
    BY <1>16, <1>2, <2>1 DEF CountSigned, Ends, EditShape, EditReqs, Aimed
  <2>3. TemplatesShape'
    BY <1>16 DEF CountSigned, TemplatesShape
  <2> QED
    BY <1>1, <2>2, <2>3
<1>17. CASE Discard(c)
  <2>1. TemplatesShape'
    BY <1>17 DEF Discard, TemplatesShape, TemplateRows, TemplateStatuses
  <2> QED
    BY <1>17, <1>1, <1>2, <2>1 DEF Discard, Ends
<1>18. CASE EditLost(c)
  BY <1>18, <1>1, <1>2 DEF EditLost, Ends, TemplatesShape
<1> QED
  BY <1>5, <1>6, <1>7, <1>8, <1>9, <1>10, <1>11, <1>12, <1>13, <1>14, <1>15, <1>16, <1>17,
     <1>18 DEF EditStep

LEMMA EditMovesStatus ==
  ASSUME Shape, NEW c \in Edits, EditStep(c)
  PROVE  StatusMoves /\ UNCHANGED <<evaluations, rating>>
<1> USE DEF Shape
<1>1. UNCHANGED <<evaluations, rating>>
  BY DEF EditStep, BeginSave, ReadSource, ReadNumber, CreateDraft, StoreDraft, AnswerSave,
         BeginPublish, ReadCurrent, ReadMax, Promote, BeginDiscard, CountSigned, Discard,
         EditLost
<1>2. CASE templates' = templates
  BY <1>1, <1>2 DEF StatusMoves
<1>3. CASE CreateDraft(c)
  <2>1. CASE \E t \in Templates : \E row \in [status : {"DRAFT"}, version : {edit[c].version},
                                              items : {edit[c].items}] :
               templates[t].status = "ABSENT" /\ templates' = [templates EXCEPT ![t] = row]
    BY <1>1, <2>1 DEF StatusMoves, TemplatesShape
  <2> QED
    BY <1>2, <1>3, <2>1 DEF CreateDraft
<1>4. CASE StoreDraft(c)
  BY <1>4 DEF StoreDraft, StatusMoves, TemplatesShape, TemplateRows
<1>5. CASE Promote(c)
  <2> DEFINE req == edit[c]
  <2>1. req.target \in Templates
    BY <1>5 DEF Promote, EditShape, Aimed
  <2>2. CASE /\ Exists(req.target)
             /\ req.outgoing # NoTemplate => Exists(req.outgoing)
             /\ VersionFree(req.version, req.target)
    <3>1. templates' = Promoted(req.target, req.outgoing, req.version)
      BY <1>5, <2>2 DEF Promote
    <3>2. NoTemplate \notin Templates
      BY SheetAssumption
    <3>3. ASSUME NEW t \in Templates
          PROVE  IF t = req.target THEN templates'[t].status = "PUBLISHED"
                 ELSE IF t = req.outgoing THEN templates'[t].status = "ARCHIVED"
                 ELSE templates'[t].status = templates[t].status
      BY <3>1, <2>1 DEF Promoted, TemplatesShape, TemplateRows
    <3>4. ASSUME NEW t \in Templates, t = req.target \/ t = req.outgoing
          PROVE  templates[t].status # "DELETED"
      BY <2>2, <3>2, <3>4 DEF Exists
    <3> QED
      BY <1>1, <3>3, <3>4 DEF StatusMoves
  <2>3. CASE ~(/\ Exists(req.target)
               /\ req.outgoing # NoTemplate => Exists(req.outgoing)
               /\ VersionFree(req.version, req.target))
    BY <1>2, <1>5, <2>3 DEF Promote
  <2> QED
    BY <2>2, <2>3
<1>6. CASE Discard(c)
  BY <1>6, <1>2 DEF Discard, Deletable, Exists, StatusMoves, TemplatesShape, TemplateRows
<1> QED
  BY <1>1, <1>2, <1>3, <1>4, <1>5, <1>6
     DEF EditStep, BeginSave, ReadSource, ReadNumber, AnswerSave,
         BeginPublish, ReadCurrent, ReadMax, BeginDiscard, CountSigned, EditLost

-----------------------------------------------------------------------------
LEMMA EditKeeps ==
  ASSUME KeptInv, NEW c \in Edits, EditStep(c)
  PROVE  KeptInv'
<1>1. Shape'
  BY EditKeepsShape DEF KeptInv
<1>2. StatusMoves /\ UNCHANGED <<evaluations, rating>>
  BY EditMovesStatus DEF KeptInv
<1>3. SheetKept'
  <2> SUFFICES ASSUME NEW e \in Evaluations, Signed(e)'
               PROVE  templates'[evaluations'[e].template].status \in {"PUBLISHED", "ARCHIVED"}
    BY DEF SheetKept
  <2>1. Signed(e) /\ evaluations'[e].template = evaluations[e].template
    BY <1>2 DEF Signed
  <2>2. evaluations[e].template \in Templates
    BY <2>1 DEF KeptInv, Shape, EvaluationsShape, RowShape, Signed, Absent, Removed
  <2> QED
    BY <1>2, <2>1, <2>2 DEF KeptInv, SheetKept, StatusMoves, Unused
<1>4. RatedSheetIssued'
  <2> SUFFICES ASSUME NEW r \in Ratings, rating[r].pc = "insert"
               PROVE  templates'[rating[r].template].status \in {"PUBLISHED", "ARCHIVED", "DELETED"}
    BY <1>2 DEF RatedSheetIssued
  <2>1. rating[r].template \in Templates
    BY DEF KeptInv, Shape, RatingShape, RatingReqs, Idle
  <2> QED
    BY <1>2, <2>1 DEF KeptInv, RatedSheetIssued, StatusMoves
<1> QED
  BY <1>1, <1>3, <1>4 DEF KeptInv

\* The scores that a request may carry.
LEMMA ScoresTyped ==
  ASSUME NEW keys \in SUBSET Items, NEW s \in [keys -> Marks]
  PROVE  s \in Scores
BY DEF Scores, Marks

LEMMA RatingKeeps ==
  ASSUME KeptInv, NEW r \in Ratings, RatingStep(r)
  PROVE  KeptInv'
<1> USE DEF KeptInv, Shape
<1>1. UNCHANGED <<templates, edit>>
  BY DEF RatingStep, BeginRating, InsertRating, BeginRevision, Rewrite, RatingLost
<1>2. TemplatesShape' /\ EditShape'
  BY <1>1 DEF TemplatesShape, EditShape
<1>3. ASSUME UNCHANGED evaluations
      PROVE  EvaluationsShape' /\ SheetKept'
  BY <1>1, <1>3 DEF EvaluationsShape, SheetKept, Signed
<1>4. ASSUME RatingEnds(r)
      PROVE  RatingShape' /\ RatedSheetIssued'
  <2>1. RatingShape'
    BY <1>4 DEF RatingEnds, RatingShape
  <2>2. RatedSheetIssued'
    BY <1>1, <1>4 DEF RatingEnds, RatingShape, RatedSheetIssued, Idle
  <2> QED
    BY <2>1, <2>2
<1>5. CASE BeginRating(r)
  <2>1. PICK t \in Newest("PUBLISHED") : \E s \in [templates[t].items -> Marks] :
          rating' = [rating EXCEPT ![r] = [pc |-> "insert", template |-> t, scores |-> s]]
    BY <1>5 DEF BeginRating
  <2>2. PICK s \in [templates[t].items -> Marks] :
          rating' = [rating EXCEPT ![r] = [pc |-> "insert", template |-> t, scores |-> s]]
    BY <2>1
  <2>3. t \in Templates /\ templates[t].status = "PUBLISHED" /\ templates[t].items \in SUBSET Items
    BY DEF Newest, TemplatesShape, TemplateRows
  <2>4. s \in Scores
    BY <2>3, ScoresTyped
  <2>5. RatingShape'
    BY <2>2, <2>3, <2>4 DEF RatingShape, RatingReqs
  <2>6. RatedSheetIssued'
    BY <1>1, <2>2, <2>3 DEF RatedSheetIssued, RatingShape
  <2> QED
    BY <1>2, <1>3, <1>5, <2>5, <2>6 DEF BeginRating
<1>6. CASE InsertRating(r)
  <2>1. CASE UNCHANGED evaluations
    BY <1>2, <1>3, <1>4, <1>6, <2>1 DEF InsertRating
  <2>2. ASSUME NEW e \in Evaluations, Exists(rating[r].template),
               evaluations' = [evaluations EXCEPT ![e] =
                  [state |-> "written", template |-> rating[r].template,
                   scores |-> rating[r].scores, total |-> TotalRating(rating[r].scores),
                   max |-> MaxTotalRating(DOMAIN rating[r].scores)]]
        PROVE  EvaluationsShape' /\ SheetKept'
    <3>1. rating[r].template \in Templates
      BY <1>6 DEF InsertRating, RatingShape, RatingReqs, Idle
    <3>2. templates[rating[r].template].status \in {"PUBLISHED", "ARCHIVED"}
      BY <1>6, <2>2 DEF InsertRating, RatedSheetIssued, Exists
    <3>3. \A f \in Evaluations : f # e => evaluations'[f] = evaluations[f]
      BY <2>2 DEF EvaluationsShape
    <3>4. /\ evaluations'[e].state = "written"
          /\ evaluations'[e].template = rating[r].template
          /\ RowShape(evaluations'[e])
      BY <2>2, <3>1 DEF EvaluationsShape, RowShape
    <3>5. evaluations' = [f \in Evaluations |-> evaluations'[f]]
      BY <2>2 DEF EvaluationsShape
    <3>6. EvaluationsShape'
      BY <3>3, <3>4, <3>5 DEF EvaluationsShape
    <3>7. SheetKept'
      BY <1>1, <3>2, <3>3, <3>4 DEF SheetKept, Signed
    <3> QED
      BY <3>6, <3>7
  <2> QED
    BY <1>2, <1>4, <1>6, <2>1, <2>2 DEF InsertRating
<1>7. CASE \E e \in Evaluations : BeginRevision(r, e)
  <2>1. PICK e \in Evaluations : BeginRevision(r, e)
    BY <1>7
  <2>2. PICK s \in [SheetOf(e) -> Marks] :
          rating' = [rating EXCEPT ![r] = [pc |-> "rewrite", evaluation |-> e, scores |-> s]]
    BY <2>1 DEF BeginRevision
  <2>3. SheetOf(e) \in SUBSET Items
    BY <2>1 DEF BeginRevision, SheetOf, Signed, EvaluationsShape, RowShape, Absent, Removed,
                TemplatesShape, TemplateRows
  <2>4. s \in Scores
    BY <2>3, ScoresTyped
  <2>5. RatingShape'
    BY <2>2, <2>4 DEF RatingShape, RatingReqs
  <2>6. RatedSheetIssued'
    BY <1>1, <2>2 DEF RatedSheetIssued, RatingShape
  <2> QED
    BY <1>2, <1>3, <2>1, <2>5, <2>6 DEF BeginRevision
<1>8. CASE Rewrite(r)
  <2> DEFINE e == rating[r].evaluation
  <2>1. CASE UNCHANGED evaluations
    BY <1>2, <1>3, <1>4, <1>8, <2>1 DEF Rewrite
  <2>2. CASE Signed(e)
    <3>1. e \in Evaluations
      BY <1>8 DEF Rewrite, RatingShape, RatingReqs, Idle
    <3>2. evaluations' = [evaluations EXCEPT ![e].scores = rating[r].scores,
                                             ![e].total = TotalRating(rating[r].scores)]
      BY <1>8, <2>2 DEF Rewrite
    <3>3. RowShape(evaluations[e])
      BY <2>2, <3>1 DEF EvaluationsShape, Signed, Absent, Removed
    <3>4. \A f \in Evaluations : f # e => evaluations'[f] = evaluations[f]
      BY <3>2 DEF EvaluationsShape
    <3>5. /\ RowShape(evaluations'[e])
          /\ evaluations'[e].template = evaluations[e].template
      BY <3>1, <3>2, <3>3 DEF EvaluationsShape, RowShape
    <3>6. evaluations' = [f \in Evaluations |-> evaluations'[f]]
      BY <3>2 DEF EvaluationsShape
    <3>7. EvaluationsShape'
      BY <3>4, <3>5, <3>6 DEF EvaluationsShape
    <3>8. SheetKept'
      BY <1>1, <2>2, <3>4, <3>5 DEF SheetKept, Signed
    <3> QED
      BY <1>2, <1>4, <1>8, <3>7, <3>8 DEF Rewrite
  <2> QED
    BY <1>8, <2>1, <2>2 DEF Rewrite
<1>9. CASE RatingLost(r)
  BY <1>2, <1>3, <1>4, <1>9 DEF RatingLost
<1> QED
  BY <1>5, <1>6, <1>7, <1>8, <1>9 DEF RatingStep

LEMMA RemoveKeeps ==
  ASSUME KeptInv, NEW e \in Evaluations, Remove(e)
  PROVE  KeptInv'
<1> USE DEF KeptInv, Shape
<1>1. TemplatesShape' /\ EditShape' /\ RatingShape' /\ RatedSheetIssued'
  BY DEF Remove, TemplatesShape, EditShape, RatingShape, RatedSheetIssued
<1>2. EvaluationsShape'
  BY DEF Remove, EvaluationsShape, RowShape
<1>3. SheetKept'
  BY DEF Remove, SheetKept, Signed, EvaluationsShape, Removed
<1> QED
  BY <1>1, <1>2, <1>3

LEMMA InitKept == Init => KeptInv
<1> SUFFICES ASSUME Init PROVE KeptInv
  OBVIOUS
<1>1. SheetKept
  BY DEF Init, SheetKept, Signed, Absent
<1>2. RatedSheetIssued
  BY DEF Init, RatedSheetIssued, Idle
<1> QED
  BY <1>1, <1>2, InitShape DEF KeptInv

LEMMA NextKept == KeptInv /\ [Next]_vars => KeptInv'
<1> SUFFICES ASSUME KeptInv, [Next]_vars PROVE KeptInv'
  OBVIOUS
<1>1. CASE UNCHANGED vars
  BY <1>1 DEF vars, KeptInv, Shape, TemplatesShape, EditShape, EvaluationsShape, RatingShape,
              SheetKept, Signed, RatedSheetIssued
<1>2. CASE Next
  BY <1>2, EditKeeps, RatingKeeps, RemoveKeeps DEF Next, Step
<1> QED
  BY <1>1, <1>2

\* Whatever coordinators and supervisors send at once, the sheet that an
\* evaluation was signed on exists and is no draft (discardDraft, and the
\* foreign key of Evaluation.templateId).
THEOREM SheetsAreKept == Spec => []SheetKept
<1>1. KeptInv => SheetKept
  BY DEF KeptInv
<1> QED
  BY InitKept, NextKept, <1>1, PTL DEF Spec

-----------------------------------------------------------------------------
\* What holds while no two saves meet and no request is overtaken.

\* What a request has read is still so, but for what the requests beside it do:
\* a discard may have deleted the draft, a publication may have promoted it, and
\* then under the very number that this one would give it.
Live(c) == templates[edit[c].target].status # "DELETED"

SaveReadsHold(c) ==
  /\ edit[c].pc \in {"store"} \cup Discarding =>
       templates[edit[c].target].status \in {"DRAFT", "DELETED"}
  /\ edit[c].pc \in {"source", "number", "create"} =>
       \A t \in Templates : templates[t].status # "DRAFT"

PublishReadsHold(c) ==
  /\ edit[c].pc \in Publishing =>
       templates[edit[c].target].status \in {"DRAFT", "PUBLISHED", "DELETED"}
  /\ edit[c].pc \in Publishing /\ Live(c) =>
       /\ \A t \in Templates : templates[t].status = "DRAFT" => t = edit[c].target
       /\ templates[edit[c].target].status = "PUBLISHED" =>
            IsHighest(templates[edit[c].target].version - 1, Others(edit[c].target))
  /\ edit[c].pc \in {"max", "promote"} /\ Live(c) =>
       \A t \in Templates : templates[t].status = "PUBLISHED" =>
         t = edit[c].outgoing \/ t = edit[c].target
  /\ edit[c].pc = "promote" => edit[c].version \in Nat \ {0}
  /\ edit[c].pc = "promote" /\ Live(c) =>
       IsHighest(edit[c].version - 1, Others(edit[c].target))

ReadsHold(c) == SaveReadsHold(c) /\ PublishReadsHold(c)

\* No two saves, and no request that is overtaken.
Calm == OneSave /\ \A c \in Edits : ~Overtaken(c)

PageInv == Shape /\ AtMostOneOfEach /\ Calm /\ \A c \in Edits : ReadsHold(c)

\* The body of CalmImmutable.
IssuedStay == \A t \in Templates : Immutable(t)

\* Of at most one draft, the newest is the draft.
LEMMA NewestIsTheOne ==
  ASSUME TemplatesShape, AtMostOneOfEach
  PROVE  Newest("DRAFT") = {t \in Templates : templates[t].status = "DRAFT"}
<1>1. ASSUME NEW t \in Templates, NEW u \in Templates,
             templates[t].status = "DRAFT", templates[u].status = "DRAFT"
      PROVE  templates[u].version <= templates[t].version
  BY <1>1 DEF AtMostOneOfEach, TemplatesShape, TemplateRows
<1> QED
  BY <1>1 DEF Newest

\* Two highest versions of the same rows are one.
LEMMA HighestUnique ==
  ASSUME TemplatesShape, NEW rows \in SUBSET Templates, NEW v \in Nat, NEW w \in Nat,
         IsHighest(v, rows), IsHighest(w, rows)
  PROVE  v = w
<1>1. \A t \in rows : templates[t].version \in Nat
  BY DEF TemplatesShape, TemplateRows
<1> QED
  BY <1>1 DEF IsHighest

\* A request is no other's.
LEMMA OthersWait ==
  ASSUME EditShape, NEW c \in Edits, EditStep(c)
  PROVE  \A d \in Edits : d # c => edit'[d] = edit[d]
BY DEF EditShape, EditStep, BeginSave, ReadSource, ReadNumber, CreateDraft, StoreDraft,
       AnswerSave, BeginPublish, ReadCurrent, ReadMax, Promote, BeginDiscard, CountSigned,
       Discard, EditLost, Ends

\* The steps that leave the templates alone.
LEMMA ReaderPage ==
  ASSUME PageInv, NEW c \in Edits, EditStep(c), UNCHANGED templates
  PROVE  IssuedStay /\ AtMostOneOfEach' /\ \A d \in Edits : ReadsHold(d)'
<1> USE DEF PageInv, Shape, Saving, Publishing, Discarding
<1>1. IssuedStay /\ AtMostOneOfEach'
  BY DEF IssuedStay, Immutable, AtMostOneOfEach
<1>2. ASSUME NEW d \in Edits, d # c
      PROVE  ReadsHold(d)'
  BY <1>2, OthersWait
     DEF ReadsHold, SaveReadsHold, PublishReadsHold, Live, IsHighest, Others, Exists
<1>3. ASSUME edit' = [edit EXCEPT ![c] = Idle]
      PROVE  ReadsHold(c)'
  BY <1>3 DEF EditShape, ReadsHold, SaveReadsHold, PublishReadsHold, Live, Idle
<1>4. ASSUME NEW pc \in {"store", "count"}, NEW t \in Newest("DRAFT"), NEW s,
             edit' = [edit EXCEPT ![c] = Request(pc, t, s)]
      PROVE  ReadsHold(c)'
  BY <1>4 DEF EditShape, ReadsHold, SaveReadsHold, PublishReadsHold, Live, Request, Newest
<1>5. CASE BeginSave(c)
  <2>1. CASE /\ Newest("DRAFT") = {}
             /\ edit' = [edit EXCEPT ![c] = Request("source", NoTemplate, {})]
    <3>1. \A t \in Templates : templates[t].status # "DRAFT"
      BY <2>1, NewestIsTheOne
    <3> QED
      BY <1>1, <1>2, <2>1, <3>1
         DEF EditShape, ReadsHold, SaveReadsHold, PublishReadsHold, Live, Request
  <2>2. CASE \E t \in Newest("DRAFT") : \E s \in Sheets(templates[t].items) :
               edit' = [edit EXCEPT ![c] = Request("store", t, s)]
    BY <1>1, <1>2, <1>4, <2>2
  <2> QED
    BY <1>5, <2>1, <2>2 DEF BeginSave
<1>6. CASE ReadSource(c)
  BY <1>1, <1>2, <1>6
     DEF ReadSource, EditShape, ReadsHold, SaveReadsHold, PublishReadsHold, Live, Request
<1>7. CASE ReadNumber(c)
  <2>1. edit[c] \in EditReqs
    BY <1>7 DEF ReadNumber, EditShape, Idle
  <2> QED
    BY <1>1, <1>2, <1>7, <2>1
       DEF ReadNumber, EditShape, EditReqs, ReadsHold, SaveReadsHold, PublishReadsHold, Live
<1>8. CASE BeginPublish(c)
  <2>1. PICK t \in Newest("DRAFT") : edit' = [edit EXCEPT ![c] = Request("current", t, {})]
    BY <1>8 DEF BeginPublish
  <2>2. /\ t \in Templates /\ templates[t].status = "DRAFT"
        /\ \A u \in Templates : templates[u].status = "DRAFT" => u = t
    BY <2>1, NewestIsTheOne DEF AtMostOneOfEach
  <2>3. edit'[c].pc = "current" /\ edit'[c].target = t
    BY <2>1 DEF EditShape, Request
  <2>4. ReadsHold(c)'
    BY <2>2, <2>3 DEF ReadsHold, SaveReadsHold, PublishReadsHold, Live
  <2> QED
    BY <1>1, <1>2, <2>4
<1>9. CASE ReadCurrent(c)
  <2>1. edit[c] \in EditReqs /\ edit[c].pc = "current"
    BY <1>9 DEF ReadCurrent, EditShape, Idle
  <2>2. edit'[c].pc = "max" /\ edit'[c].target = edit[c].target
    BY <1>9, <2>1 DEF ReadCurrent, EditShape, EditReqs
  <2>3. \A t \in Templates : templates[t].status = "PUBLISHED" => t = edit'[c].outgoing
    <3>1. CASE \E t \in Templates :
                 /\ templates[t].status = "PUBLISHED"
                 /\ edit' = [edit EXCEPT ![c].pc = "max", ![c].outgoing = t]
      BY <2>1, <3>1 DEF EditShape, EditReqs, AtMostOneOfEach
    <3>2. CASE \A t \in Templates : templates[t].status # "PUBLISHED"
      BY <3>2
    <3> QED
      BY <1>9, <3>1, <3>2 DEF ReadCurrent
  <2>4. ReadsHold(c)'
    BY <2>1, <2>2, <2>3
       DEF ReadsHold, SaveReadsHold, PublishReadsHold, Live, IsHighest, Others, Exists
  <2> QED
    BY <1>1, <1>2, <2>4
<1>10. CASE ReadMax(c)
  <2>1. edit[c] \in EditReqs /\ edit[c].pc = "max"
    BY <1>10 DEF ReadMax, EditShape, Idle
  <2>2. PICK v \in {0} \cup {templates[t].version : t \in Templates} :
          /\ IsHighest(v, Others(edit[c].target))
          /\ edit' = [edit EXCEPT ![c].pc = "promote", ![c].version = v + 1]
    BY <1>10 DEF ReadMax
  <2>3. v \in Nat
    BY HighestIsNat
  <2>4. /\ edit'[c].pc = "promote" /\ edit'[c].target = edit[c].target
        /\ edit'[c].outgoing = edit[c].outgoing /\ edit'[c].version = v + 1
    BY <2>1, <2>2 DEF EditShape, EditReqs
  <2>5. edit'[c].version \in Nat \ {0} /\ edit'[c].version - 1 = v
    BY <2>3, <2>4
  <2>6. ReadsHold(c)'
    BY <2>1, <2>2, <2>4, <2>5
       DEF ReadsHold, SaveReadsHold, PublishReadsHold, Live, IsHighest, Others, Exists
  <2> QED
    BY <1>1, <1>2, <2>6
<1>11. CASE BeginDiscard(c)
  <2>1. \E t \in Newest("DRAFT") : edit' = [edit EXCEPT ![c] = Request("count", t, {})]
    BY <1>11 DEF BeginDiscard
  <2> QED
    BY <1>1, <1>2, <1>4, <2>1
<1>12. CASE CountSigned(c)
  <2>1. edit[c] \in EditReqs /\ edit[c].pc = "count"
    BY <1>12 DEF CountSigned, EditShape, Idle
  <2>2. CASE edit' = [edit EXCEPT ![c].pc = "discard"]
    BY <1>1, <1>2, <2>1, <2>2
       DEF EditShape, EditReqs, ReadsHold, SaveReadsHold, PublishReadsHold, Live
  <2> QED
    BY <1>1, <1>2, <1>3, <1>12, <2>2 DEF CountSigned, Ends
<1>13. CASE \/ CreateDraft(c) \/ StoreDraft(c) \/ AnswerSave(c)
            \/ Promote(c) \/ Discard(c) \/ EditLost(c)
  <2>1. CASE edit' = [edit EXCEPT ![c] = Idle]
    BY <1>1, <1>2, <1>3, <2>1
  <2>2. CASE edit[c] \in EditReqs /\ edit' = [edit EXCEPT ![c].pc = "answer"]
    BY <1>1, <1>2, <2>2
       DEF EditShape, EditReqs, ReadsHold, SaveReadsHold, PublishReadsHold, Live
  <2> QED
    BY <1>13, <2>1, <2>2 DEF CreateDraft, StoreDraft, AnswerSave, Promote, Discard, EditLost,
                             Ends, EditShape, Idle
<1> QED
  BY <1>5, <1>6, <1>7, <1>8, <1>9, <1>10, <1>11, <1>12, <1>13 DEF EditStep

\* A save makes or fills the draft.
LEMMA SaverPage ==
  ASSUME PageInv, Calm', NEW c \in Edits, CreateDraft(c) \/ StoreDraft(c)
  PROVE  IssuedStay /\ AtMostOneOfEach' /\ \A d \in Edits : ReadsHold(d)'
<1> USE DEF PageInv, Shape, Saving, Publishing, Discarding
<1>1. EditStep(c)
  BY DEF EditStep
<1>2. CASE UNCHANGED templates
  BY <1>1, <1>2, ReaderPage
<1>3. edit[c] \in EditReqs /\ edit[c].pc \in {"create", "store"}
  BY DEF CreateDraft, StoreDraft, EditShape, Idle
<1>4. edit'[c].pc \in {"answer", "idle"}
  BY <1>3 DEF CreateDraft, StoreDraft, Ends, EditShape, EditReqs, Idle
<1>5. ReadsHold(c)'
  BY <1>4 DEF ReadsHold, SaveReadsHold, PublishReadsHold
<1>6. CASE CreateDraft(c) /\ ~UNCHANGED templates
  <2>1. PICK t \in Templates :
          /\ templates[t].status = "ABSENT"
          /\ templates' = [templates EXCEPT ![t] =
               [status |-> "DRAFT", version |-> edit[c].version, items |-> edit[c].items]]
    BY <1>6 DEF CreateDraft
  <2>2. /\ templates'[t].status = "DRAFT"
        /\ \A u \in Templates : u # t => templates'[u] = templates[u]
    BY <2>1 DEF TemplatesShape
  <2>3. edit[c].pc = "create" /\ \A u \in Templates : templates[u].status # "DRAFT"
    BY <1>6 DEF CreateDraft, ReadsHold, SaveReadsHold
  <2>4. IssuedStay /\ AtMostOneOfEach'
    BY <2>1, <2>2, <2>3 DEF IssuedStay, Immutable, AtMostOneOfEach
  <2>5. ASSUME NEW d \in Edits, d # c
        PROVE  ReadsHold(d)'
    <3>1. edit'[d] = edit[d] /\ edit[d].pc \notin Saving
      BY <1>1, <2>3, <2>5, OthersWait DEF Calm, OneSave
    <3>2. edit[d].pc \in Discarding \cup Publishing =>
            edit[d].target \in Templates /\ edit[d].target # t
      BY <2>1 DEF EditShape, Aimed, ReadsHold, SaveReadsHold, PublishReadsHold
    <3>3. SaveReadsHold(d)'
      BY <2>2, <3>1, <3>2 DEF ReadsHold, SaveReadsHold
\* A publication of a sheet that is published would be overtaken by this draft.
    <3>4. ASSUME edit[d].pc \in Publishing PROVE ~Live(d)
      <4>1. templates[edit[d].target].status \in {"PUBLISHED", "DELETED"}
        BY <2>3, <3>2, <3>4 DEF ReadsHold, PublishReadsHold
      <4>2. t \in Newest("DRAFT")'
        BY <2>2, <2>3, <2>1, <1>3 DEF Newest, TemplatesShape, EditReqs
      <4>3. ~Overtaken(d)'
        BY DEF Calm
      <4> QED
        BY <2>2, <3>1, <3>2, <3>4, <4>1, <4>2, <4>3 DEF Overtaken, Live
    <3>5. PublishReadsHold(d)'
      BY <2>2, <3>1, <3>2, <3>4 DEF ReadsHold, PublishReadsHold, Live
    <3> QED
      BY <3>3, <3>5 DEF ReadsHold
  <2> QED
    BY <1>5, <2>4, <2>5
<1>7. CASE StoreDraft(c) /\ ~UNCHANGED templates
  <2> DEFINE t == edit[c].target
  <2>1. Exists(t) /\ templates' = [templates EXCEPT ![t].items = edit[c].items]
    BY <1>7 DEF StoreDraft
  <2>2. t \in Templates /\ templates[t].status = "DRAFT"
    BY <1>7, <2>1 DEF StoreDraft, EditShape, Aimed, ReadsHold, SaveReadsHold, Exists
  <2>3. \A u \in Templates : /\ templates'[u].status = templates[u].status
                             /\ templates'[u].version = templates[u].version
                             /\ u # t => templates'[u] = templates[u]
    BY <2>1 DEF TemplatesShape, TemplateRows
  <2>4. IssuedStay /\ AtMostOneOfEach'
    BY <2>2, <2>3 DEF IssuedStay, Immutable, AtMostOneOfEach
  <2>5. ASSUME NEW d \in Edits, d # c
        PROVE  ReadsHold(d)'
    <3>1. edit'[d] = edit[d]
      BY <1>1, <2>5, OthersWait
    <3>2. edit[d].pc \in Aimed => edit[d].target \in Templates
      BY DEF EditShape
    <3>3. SaveReadsHold(d)'
      BY <2>3, <3>1, <3>2 DEF Aimed, ReadsHold, SaveReadsHold
    <3>4. PublishReadsHold(d)'
      BY <2>3, <3>1, <3>2 DEF Aimed, ReadsHold, PublishReadsHold, Live, IsHighest, Exists, Others
    <3> QED
      BY <3>3, <3>4 DEF ReadsHold
  <2> QED
    BY <1>5, <2>4, <2>5
<1> QED
  BY <1>2, <1>6, <1>7

\* A publication, beside saves and discards that it does not overtake.
LEMMA PublisherPage ==
  ASSUME PageInv, Calm', NEW c \in Edits, Promote(c), ~UNCHANGED templates
  PROVE  IssuedStay /\ AtMostOneOfEach' /\ \A d \in Edits : ReadsHold(d)'
<1> USE DEF PageInv, Shape, Saving, Publishing, Discarding
<1>0. PICK t, old, v : t = edit[c].target /\ old = edit[c].outgoing /\ v = edit[c].version
  OBVIOUS
<1> USE <1>0
<1>1. EditStep(c)
  BY DEF EditStep
<1>3. /\ edit[c].pc = "promote" /\ t \in Templates
      /\ templates[t].status \in {"DRAFT", "PUBLISHED"}
      /\ v \in Nat \ {0} /\ IsHighest(v - 1, Others(t))
  BY DEF Promote, Exists, EditShape, Aimed, ReadsHold, PublishReadsHold, Live
<1>4. \A u \in Templates : templates[u].status = "DRAFT" => u = t
  BY <1>3 DEF ReadsHold, PublishReadsHold, Live
<1>5. \A u \in Templates : templates[u].status = "PUBLISHED" => u = old \/ u = t
  BY <1>3 DEF ReadsHold, PublishReadsHold, Live
\* Promoted already, it keeps its number.
<1>6. templates[t].status = "PUBLISHED" => templates[t].version = v
  <2> SUFFICES ASSUME templates[t].status = "PUBLISHED" PROVE templates[t].version = v
    OBVIOUS
  <2>1. IsHighest(templates[t].version - 1, Others(t))
    BY <1>3 DEF ReadsHold, PublishReadsHold, Live
  <2>2. templates[t].version \in Nat
    BY <1>3 DEF TemplatesShape, TemplateRows
  <2>3. templates[t].version - 1 \in Nat
    BY <2>1, <2>2 DEF IsHighest, Others, TemplatesShape, TemplateRows
  <2>4. Others(t) \in SUBSET Templates
    BY DEF Others
  <2>5. templates[t].version - 1 = v - 1
    BY <1>3, <2>1, <2>3, <2>4, HighestUnique
  <2> QED
    BY <1>3, <2>2, <2>5
<1>11. templates' = Promoted(t, old, v) /\ (old # NoTemplate => Exists(old))
  BY DEF Promote
<1>12. /\ templates'[t].status = "PUBLISHED"
      /\ templates'[t].version = v
      /\ templates'[t].items = templates[t].items
  BY <1>3, <1>11 DEF Promoted, TemplatesShape, TemplateRows
<1>13. ASSUME NEW u \in Templates, u # t
      PROVE  /\ templates'[u].items = templates[u].items
             /\ templates'[u].version = templates[u].version
             /\ u = old => templates'[u].status = "ARCHIVED"
             /\ u # old => templates'[u].status = templates[u].status
  BY <1>11, <1>13 DEF Promoted, TemplatesShape, TemplateRows
<1>14. IssuedStay
  BY <1>3, <1>6, <1>12, <1>13 DEF IssuedStay, Immutable
<1>15. AtMostOneOfEach'
  BY <1>4, <1>5, <1>12, <1>13 DEF AtMostOneOfEach
<1>16. ASSUME NEW u \in Templates, u # t
       PROVE  /\ Exists(u)' <=> Exists(u)
              /\ templates[u].status = "DELETED" => templates'[u].status = "DELETED"
  <2>1. NoTemplate \notin Templates
    BY SheetAssumption
  <2> QED
    BY <1>11, <1>13, <1>16, <2>1 DEF Exists
<1>17. IsHighest(v - 1, Others(t))'
  BY <1>3, <1>13, <1>16 DEF IsHighest, Others
<1>18. \A u \in Templates : templates'[u].status = "DRAFT" => templates[u].status = "DRAFT"
  BY <1>12, <1>13
<1>19. ReadsHold(c)'
  BY DEF Promote, Ends, EditShape, Idle, ReadsHold, SaveReadsHold, PublishReadsHold
<1>20. ASSUME NEW d \in Edits, d # c
       PROVE  SaveReadsHold(d)'
  <2>1. edit'[d] = edit[d]
    BY <1>1, <1>20, OthersWait
  <2>2. ASSUME edit[d].pc \in {"store"} \cup Discarding
        PROVE  templates'[edit[d].target].status \in {"DRAFT", "DELETED"}
    <3> DEFINE w == edit[d].target
    <3>1. w \in Templates /\ templates[w].status \in {"DRAFT", "DELETED"}
      BY <2>2 DEF EditShape, Aimed, ReadsHold, SaveReadsHold
    <3>2. templates'[w].status \in {"PUBLISHED", "ARCHIVED", templates[w].status}
      BY <1>12, <1>13, <3>1
    <3>3. templates'[w].status \notin {"PUBLISHED", "ARCHIVED"}
      <4>1. ~Overtaken(d)'
        BY DEF Calm
      <4> QED
        BY <2>1, <2>2, <4>1 DEF Overtaken
    <3> QED
      BY <3>1, <3>2, <3>3
  <2>3. ASSUME edit[d].pc \in {"source", "number", "create"}
        PROVE  \A u \in Templates : templates'[u].status # "DRAFT"
    BY <1>18, <2>3 DEF ReadsHold, SaveReadsHold
  <2> QED
    BY <2>1, <2>2, <2>3 DEF SaveReadsHold
<1>21. ASSUME NEW d \in Edits, d # c
       PROVE  PublishReadsHold(d)'
  <2> DEFINE w == edit[d].target
  <2>1. edit'[d] = edit[d]
    BY <1>1, <1>21, OthersWait
  <2>2. CASE edit[d].pc \notin Publishing
    BY <2>1, <2>2 DEF PublishReadsHold
  <2>3. CASE edit[d].pc \in Publishing /\ ~Live(d)
    <3>1. w \in Templates /\ templates[w].status = "DELETED" /\ w # t
      BY <1>3, <2>3 DEF EditShape, Aimed, Live
    <3>2. templates'[w].status = "DELETED"
      BY <1>16, <3>1
    <3> QED
      BY <2>1, <2>3, <3>2 DEF ReadsHold, PublishReadsHold, Live
\* Two publications are of one draft.
  <2>4. CASE edit[d].pc \in Publishing /\ Live(d)
    <3>1. w = t
      <4>1. /\ w \in Templates
            /\ templates[w].status \in {"DRAFT", "PUBLISHED"}
            /\ \A u \in Templates : templates[u].status = "DRAFT" => u = w
        BY <2>4 DEF EditShape, Aimed, ReadsHold, PublishReadsHold, Live
      <4> QED
        BY <1>3, <1>4, <4>1 DEF AtMostOneOfEach
    <3>2. IsHighest(templates[t].version - 1, Others(t))'
      BY <1>3, <1>12, <1>17
    <3>3. \A u \in Templates : templates'[u].status = "DRAFT" => u = t
      BY <1>4, <1>18
    <3>4. \A u \in Templates : templates'[u].status = "PUBLISHED" => u = t
      BY <1>5, <1>13
    <3>5. CASE edit[d].pc = "promote"
      <4>1. /\ edit[d].version \in Nat \ {0}
            /\ IsHighest(edit[d].version - 1, Others(t))
        BY <2>4, <3>1, <3>5 DEF ReadsHold, PublishReadsHold
      <4>2. Others(t) \in SUBSET Templates
        BY DEF Others
      <4>3. edit[d].version - 1 = v - 1
        BY <1>3, <4>1, <4>2, HighestUnique
      <4>4. edit[d].version = v
        BY <1>3, <4>1, <4>3
      <4> QED
        BY <1>12, <1>17, <2>1, <3>1, <3>2, <3>3, <3>4, <3>5, <4>1, <4>4
           DEF PublishReadsHold
    <3>6. CASE edit[d].pc # "promote"
      BY <1>12, <2>1, <3>1, <3>2, <3>3, <3>4, <3>6 DEF PublishReadsHold
    <3> QED
      BY <3>5, <3>6
  <2> QED
    BY <2>2, <2>3, <2>4
<1> QED
  BY <1>14, <1>15, <1>19, <1>20, <1>21 DEF ReadsHold

\* A discard deletes the draft, whatever is at work beside it.
LEMMA DiscarderPage ==
  ASSUME PageInv, NEW c \in Edits, Discard(c)
  PROVE  IssuedStay /\ AtMostOneOfEach' /\ \A d \in Edits : ReadsHold(d)'
<1> USE DEF PageInv, Shape, Saving, Publishing, Discarding
<1> DEFINE t == edit[c].target
<1>1. EditStep(c)
  BY DEF EditStep
<1>2. CASE UNCHANGED templates
  BY <1>1, <1>2, ReaderPage
<1>3. /\ edit[c].pc = "discard" /\ t \in Templates
      /\ templates[t].status \in {"DRAFT", "DELETED"}
  BY DEF Discard, EditShape, Aimed, ReadsHold, SaveReadsHold
<1>4. CASE ~UNCHANGED templates
  <2>1. templates' = [templates EXCEPT ![t] = [status |-> "DELETED", version |-> 0, items |-> {}]]
    BY <1>4 DEF Discard
  <2>2. /\ templates'[t].status = "DELETED"
        /\ \A u \in Templates : u # t => templates'[u] = templates[u]
    BY <1>3, <2>1 DEF TemplatesShape
  <2>3. IssuedStay /\ AtMostOneOfEach'
    BY <1>3, <2>2 DEF IssuedStay, Immutable, AtMostOneOfEach
  <2>4. ASSUME NEW d \in Edits
        PROVE  ReadsHold(d)'
    <3>1. CASE d = c
      BY <3>1 DEF Discard, Ends, EditShape, Idle, ReadsHold, SaveReadsHold, PublishReadsHold
    <3>2. CASE d # c
      <4>1. edit'[d] = edit[d]
        BY <1>1, <3>2, OthersWait
      <4>2. SaveReadsHold(d)'
        BY <2>2, <4>1 DEF SaveReadsHold, ReadsHold, EditShape, Aimed
      <4>3. ASSUME edit[d].pc \in Publishing
            PROVE  templates'[edit[d].target].status = "DELETED"
        <5>1. templates[t].status = "DRAFT"
          BY <1>3, <1>4 DEF Discard, Deletable, Exists
        <5> QED
          BY <1>3, <2>2, <4>3, <5>1 DEF EditShape, Aimed, ReadsHold, PublishReadsHold, Live
      <4>4. PublishReadsHold(d)'
        BY <4>1, <4>3 DEF ReadsHold, PublishReadsHold, Live
      <4> QED
        BY <4>2, <4>4 DEF ReadsHold
    <3> QED
      BY <3>1, <3>2
  <2> QED
    BY <2>3, <2>4
<1> QED
  BY <1>2, <1>4

LEMMA NextPage ==
  ASSUME KeptInv, PageInv, Step, Shape', Calm'
  PROVE  PageInv' /\ IssuedStay
<1>1. CASE UNCHANGED <<templates, edit>>
  BY <1>1 DEF PageInv, IssuedStay, Immutable, AtMostOneOfEach, ReadsHold, SaveReadsHold,
              PublishReadsHold, Live, IsHighest, Others, Exists
<1>2. ASSUME NEW c \in Edits, EditStep(c)
      PROVE  PageInv' /\ IssuedStay
  <2>1. IssuedStay /\ AtMostOneOfEach' /\ \A d \in Edits : ReadsHold(d)'
    <3>1. CASE UNCHANGED templates
      BY <1>2, <3>1, ReaderPage
    <3>2. CASE CreateDraft(c) \/ StoreDraft(c)
      BY <3>2, SaverPage
    <3>3. CASE Promote(c) /\ ~UNCHANGED templates
      BY <3>3, PublisherPage
    <3>4. CASE Discard(c)
      BY <3>4, DiscarderPage
    <3> QED
      BY <1>2, <3>1, <3>2, <3>3, <3>4
         DEF EditStep, BeginSave, ReadSource, ReadNumber, AnswerSave, BeginPublish, ReadCurrent,
             ReadMax, BeginDiscard, CountSigned, EditLost
  <2> QED
    BY <2>1 DEF PageInv
<1>3. ASSUME NEW r \in Ratings, RatingStep(r)
      PROVE  UNCHANGED <<templates, edit>>
  BY <1>3 DEF RatingStep, BeginRating, InsertRating, BeginRevision, Rewrite, RatingLost
<1>4. ASSUME NEW e \in Evaluations, Remove(e)
      PROVE  UNCHANGED <<templates, edit>>
  BY <1>4 DEF Remove
<1> QED
  BY <1>1, <1>2, <1>3, <1>4 DEF Step

LEMMA InitPage == Init => PageInv
<1> SUFFICES ASSUME Init PROVE PageInv
  OBVIOUS
<1>1. AtMostOneOfEach
  BY DEF Init, AtMostOneOfEach
<1>2. Calm /\ \A c \in Edits : ReadsHold(c)
  BY DEF Init, Calm, OneSave, Overtaken, ReadsHold, SaveReadsHold, PublishReadsHold, Idle,
         Saving, Publishing, Discarding
<1> QED
  BY <1>1, <1>2, InitShape DEF PageInv

\* No request goes for a published sheet by itself: a calm step leaves all calm.
LEMMA CalmStays ==
  ASSUME Shape, Calm, Step, CalmStep
  PROVE  Calm'
<1>1. SUFFICES ASSUME NEW d \in Edits, edit'[d] # edit[d] PROVE ~Overtaken(d)'
  BY DEF Calm, CalmStep
<1>2. PICK c \in Edits : EditStep(c)
  BY <1>1 DEF Step, RatingStep, BeginRating, InsertRating, BeginRevision, Rewrite, RatingLost,
              Remove
<1>3. c = d
  BY <1>1, <1>2, OthersWait DEF Shape
<1>4. /\ ~Overtaken(d) /\ edit \in [Edits -> EditReqs \cup {Idle}]
      /\ edit[d].pc # "idle" => edit[d] \in EditReqs
  BY DEF Calm, Shape, EditShape, Idle
<1>5. CASE BeginSave(d) \/ BeginPublish(d) \/ BeginDiscard(d)
  BY <1>5 DEF BeginSave, BeginPublish, BeginDiscard, Shape, EditShape, Request, Overtaken,
              Publishing, Discarding
<1>6. CASE ReadSource(d)
  BY <1>6 DEF ReadSource, Shape, EditShape, Request, Overtaken, Publishing, Discarding
<1>7. CASE ReadNumber(d) \/ CreateDraft(d) \/ StoreDraft(d)
  <2>1. edit'[d].pc \in {"create", "answer", "idle"}
    BY <1>4, <1>7 DEF ReadNumber, CreateDraft, StoreDraft, Ends, Idle, EditReqs
  <2> QED
    BY <2>1 DEF Overtaken, Publishing, Discarding
<1>8. CASE ReadCurrent(d) \/ ReadMax(d)
  <2>1. /\ edit'[d].target = edit[d].target /\ UNCHANGED templates
        /\ edit[d].pc \in Publishing /\ edit'[d].pc \in Publishing
    BY <1>4, <1>8 DEF ReadCurrent, ReadMax, EditReqs, Publishing
  <2> QED
    BY <1>4, <2>1 DEF Overtaken, Newest, Publishing, Discarding
<1>9. CASE CountSigned(d)
  <2>1. /\ UNCHANGED templates
        /\ \/ edit'[d].pc = "idle"
           \/ edit[d].pc = "count" /\ edit'[d].pc = "discard" /\ edit'[d].target = edit[d].target
    BY <1>4, <1>9 DEF CountSigned, Ends, Idle, EditReqs
  <2> QED
    BY <1>4, <2>1 DEF Overtaken, Publishing, Discarding
<1>10. CASE AnswerSave(d) \/ Promote(d) \/ Discard(d) \/ EditLost(d)
  BY <1>4, <1>10 DEF AnswerSave, Promote, Discard, EditLost, Ends, Idle, Overtaken,
                     Publishing, Discarding
<1> QED
  BY <1>2, <1>3, <1>5, <1>6, <1>7, <1>8, <1>9, <1>10 DEF EditStep

\* PageInv for as long as all steps were calm.
CalmInv == KeptInv /\ (calm => PageInv)

LEMMA InitCalm == Init => CalmInv
BY InitKept, InitPage DEF CalmInv

LEMMA NextCalm ==
  ASSUME CalmInv, [Next]_vars
  PROVE  CalmInv' /\ (calm' => IssuedStay)
<1>1. KeptInv'
  BY NextKept DEF CalmInv
<1>2. CASE UNCHANGED vars
  <2>1. PageInv => PageInv'
    BY <1>2 DEF vars, PageInv, Shape, TemplatesShape, EditShape, EvaluationsShape, RatingShape,
                AtMostOneOfEach, Calm, OneSave, Overtaken, Newest, ReadsHold, SaveReadsHold,
                PublishReadsHold, Live, IsHighest, Others, Exists
  <2>2. UNCHANGED <<calm, templates>>
    BY <1>2 DEF vars
  <2> QED
    BY <1>1, <2>1, <2>2 DEF CalmInv, IssuedStay, Immutable
<1>3. CASE Next
  <2>1. Step /\ calm' = (calm /\ CalmStep)
    BY <1>3 DEF Next
  <2>2. calm' => PageInv' /\ IssuedStay
    <3>1. Shape'
      BY <1>1 DEF KeptInv
    <3>2. PageInv /\ CalmStep => Calm'
      BY <2>1, CalmStays DEF PageInv
    <3> QED
      BY <2>1, <3>1, <3>2, NextPage DEF CalmInv
  <2> QED
    BY <1>1, <2>2 DEF CalmInv
<1> QED
  BY <1>2, <1>3

\* Until two saves meet or a request is overtaken, there is never a second draft
\* or a second published sheet, however many requests save, publish and discard
\* at once (the first invariant of EvaluationTemplateService).
THEOREM OneOfEach == Spec => []CalmOneOfEach
<1>1. CalmInv => CalmOneOfEach
  BY DEF CalmInv, PageInv, CalmOneOfEach
<1>2. CalmInv /\ [Next]_vars => CalmInv'
  BY NextCalm
<1> QED
  BY InitCalm, <1>1, <1>2, PTL DEF Spec

\* A version that was published keeps its items and its number and can only be
\* archived, whatever saves, publications and discards run beside each other,
\* unless two saves met or a request was overtaken (the second invariant of
\* EvaluationTemplateService).
THEOREM VersionsStay == Spec => CalmImmutable
<1>1. CalmInv /\ [Next]_vars => CalmInv'
  BY NextCalm
<1>2. CalmInv /\ [Next]_vars => [calm' => IssuedStay]_vars
  BY NextCalm
<1>3. Spec => [][calm' => IssuedStay]_vars
  BY InitCalm, <1>1, <1>2, PTL DEF Spec
<1> QED
  BY <1>3 DEF CalmImmutable, IssuedStay

-----------------------------------------------------------------------------
\* The refinement of SheetHistory.  A history has one current version and it is
\* the last one, so the rows must say the same: a sheet is always published, no
\* version that was ever published is above it or shares its number, and no sheet
\* is empty, nor one that a save is about to store.

OneCurrent == \E p \in Templates : templates[p].status = "PUBLISHED"

CurrentIsLast ==
  \A p, t \in Issued :
    templates[p].status = "PUBLISHED" => templates[t].version <= templates[p].version

VersionsApart ==
  \A t, u \in Issued : templates[t].version = templates[u].version => t = u

ItemsThere ==
  /\ \A t \in Templates : Exists(t) => templates[t].items # {}
  /\ \A c \in Edits : edit[c].pc \in {"number", "create", "store"} => edit[c].items # {}

HistoryInv == OneCurrent /\ CurrentIsLast /\ VersionsApart /\ ItemsThere

\* The history that the rows stand for, as History has it.
SheetsNow ==
  [v \in Versions |-> UNION {templates[t].items : t \in
                        {u \in Issued : templates[u].version = v}}]

CurrentNow ==
  IF \E t \in Issued : templates[t].status = "PUBLISHED"
  THEN CHOOSE v \in Versions :
         \E t \in Issued : templates[t].status = "PUBLISHED" /\ templates[t].version = v
  ELSE 0

SignedNow ==
  [e \in Evaluations |-> IF Signed(e) THEN templates[evaluations[e].template].version ELSE 0]

HistoryVars == <<SheetsNow, CurrentNow, SignedNow>>

\* A step that leaves the history of the templates as it was.
SameIssued ==
  \A t \in Templates :
    /\ templates'[t].status \in {"PUBLISHED", "ARCHIVED"} <=>
         templates[t].status \in {"PUBLISHED", "ARCHIVED"}
    /\ templates[t].status \in {"PUBLISHED", "ARCHIVED"} =>
         /\ templates'[t].status = templates[t].status
         /\ templates'[t].version = templates[t].version
         /\ templates'[t].items = templates[t].items

\* A step that publishes t after p.
Succeeds(t, p) ==
  /\ t \in Templates /\ templates[t].status = "DRAFT" /\ templates[t].items # {}
  /\ p \in Templates /\ templates[p].status = "PUBLISHED"
  /\ templates'[t].status = "PUBLISHED"
  /\ templates'[t].version = templates[p].version + 1
  /\ templates'[t].items = templates[t].items
  /\ templates'[p].status = "ARCHIVED"
  /\ templates'[p].version = templates[p].version
  /\ templates'[p].items = templates[p].items
  /\ \A u \in Templates : u # t /\ u # p => templates'[u] = templates[u]

\* The current version is that of the published row.
CurrentIsPublished ==
  \A p \in Templates :
    AtMostOneOfEach /\ templates[p].status = "PUBLISHED" => CurrentNow = templates[p].version

LEMMA CurrentIs == CurrentIsPublished
<1> SUFFICES ASSUME AtMostOneOfEach, NEW p \in Templates, templates[p].status = "PUBLISHED"
             PROVE  CurrentNow = templates[p].version
  BY DEF CurrentIsPublished
<1>1. p \in Issued /\ templates[p].version \in Versions
  BY DEF Issued, Versions
<1>2. \A t \in Issued : templates[t].status = "PUBLISHED" => t = p
  BY DEF AtMostOneOfEach, Issued
<1>3. \A v \in Versions :
        (\E t \in Issued : templates[t].status = "PUBLISHED" /\ templates[t].version = v)
          <=> v = templates[p].version
  BY <1>1, <1>2
<1>4. CurrentNow = CHOOSE v \in Versions :
        \E t \in Issued : templates[t].status = "PUBLISHED" /\ templates[t].version = v
  BY <1>1 DEF CurrentNow
<1> QED
  BY <1>1, <1>3, <1>4

LEMMA NextCurrentIs == CurrentIsPublished'
  BY CurrentIs, PTL

LEMMA SameIssuedSameHistory ==
  ASSUME AtMostOneOfEach, AtMostOneOfEach', OneCurrent, SameIssued
  PROVE  Issued' = Issued /\ Versions' = Versions /\ UNCHANGED <<SheetsNow, CurrentNow>>
<1>1. Issued' = Issued
  BY DEF SameIssued, Issued
<1>2. \A t \in Issued : /\ templates'[t].status = templates[t].status
                        /\ templates'[t].version = templates[t].version
                        /\ templates'[t].items = templates[t].items
  BY DEF SameIssued, Issued
<1>3. Versions' = Versions
  BY <1>1, <1>2 DEF Versions
<1>4. SheetsNow' = SheetsNow
  <2>1. ASSUME NEW v \in Versions
        PROVE  {templates'[t].items : t \in {u \in Issued : templates'[u].version = v}}
                 = {templates[t].items : t \in {u \in Issued : templates[u].version = v}}
    BY <1>2
  <2> QED
    BY <1>1, <1>3, <2>1 DEF SheetsNow
<1>5. CurrentNow' = CurrentNow
  BY CurrentIs, NextCurrentIs DEF CurrentIsPublished, OneCurrent, SameIssued
<1> QED
  BY <1>1, <1>3, <1>4, <1>5

\* No step but a publication of the draft changes the history of the templates.
LEMMA EditorsSameIssued ==
  ASSUME KeptInv, PageInv, Calm', NEW c \in Edits, EditStep(c)
  PROVE  \/ SameIssued
         \/ /\ Promote(c) /\ ~UNCHANGED templates
            /\ templates[edit[c].target].status = "DRAFT"
<1> USE DEF PageInv, Shape
<1>1. CASE UNCHANGED templates
  BY <1>1 DEF SameIssued
<1>2. CASE CreateDraft(c) /\ ~UNCHANGED templates
  <2>1. PICK t \in Templates :
          /\ templates[t].status = "ABSENT"
          /\ templates' = [templates EXCEPT ![t] =
               [status |-> "DRAFT", version |-> edit[c].version, items |-> edit[c].items]]
    BY <1>2 DEF CreateDraft
  <2>2. /\ templates'[t].status = "DRAFT"
        /\ \A u \in Templates : u # t => templates'[u] = templates[u]
    BY <2>1 DEF TemplatesShape
  <2> QED
    BY <2>1, <2>2 DEF SameIssued
<1>3. CASE StoreDraft(c) /\ ~UNCHANGED templates
  <2> DEFINE t == edit[c].target
  <2>1. Exists(t) /\ templates' = [templates EXCEPT ![t].items = edit[c].items]
    BY <1>3 DEF StoreDraft
  <2>2. t \in Templates /\ templates[t].status = "DRAFT"
    BY <1>3, <2>1 DEF StoreDraft, EditShape, Aimed, ReadsHold, SaveReadsHold, Exists
  <2>3. /\ templates'[t].status = "DRAFT"
        /\ \A u \in Templates : u # t => templates'[u] = templates[u]
    BY <2>1, <2>2 DEF TemplatesShape, TemplateRows
  <2> QED
    BY <2>2, <2>3 DEF SameIssued
<1>4. CASE Discard(c) /\ ~UNCHANGED templates
  <2> DEFINE t == edit[c].target
  <2>1. templates' = [templates EXCEPT ![t] = [status |-> "DELETED", version |-> 0, items |-> {}]]
    BY <1>4 DEF Discard
  <2>2. t \in Templates /\ templates[t].status \in {"DRAFT", "DELETED"}
    BY <1>4 DEF Discard, EditShape, Aimed, Discarding, ReadsHold, SaveReadsHold
  <2>3. /\ templates'[t].status = "DELETED"
        /\ \A u \in Templates : u # t => templates'[u] = templates[u]
    BY <2>1, <2>2 DEF TemplatesShape
  <2> QED
    BY <2>2, <2>3 DEF SameIssued
\* The second publication of one draft finds it published under this number, and
\* the outgoing sheet archived.
<1>5. CASE /\ Promote(c) /\ ~UNCHANGED templates
           /\ templates[edit[c].target].status = "PUBLISHED"
  <2> DEFINE t   == edit[c].target
             old == edit[c].outgoing
  <2>1. templates' = Promoted(t, old, edit[c].version) /\ (old # NoTemplate => Exists(old))
    BY <1>5 DEF Promote
  <2>2. t \in Templates /\ \A u \in Templates : templates[u].status = "DRAFT" => u = t
    BY <1>5 DEF Promote, EditShape, Aimed, ReadsHold, PublishReadsHold, Publishing, Live
  <2>3. IssuedStay
    BY <1>5, PublisherPage DEF PageInv
  <2>4. templates'[t].status = "PUBLISHED"
    BY <2>1, <2>2 DEF Promoted, TemplatesShape, TemplateRows
  <2>5. ASSUME NEW u \in Templates, u # t
        PROVE  templates'[u].status = templates[u].status
    <3>1. CASE u = old
      <4>1. templates[u].status \in TemplateStatuses \ {"ABSENT", "DELETED", "DRAFT", "PUBLISHED"}
        <5>1. Exists(u)
          BY <2>1, <3>1, SheetAssumption
        <5> QED
          BY <1>5, <2>2, <2>5, <5>1
             DEF Exists, AtMostOneOfEach, TemplatesShape, TemplateRows
      <4>2. templates[u].status = "ARCHIVED"
        BY <4>1 DEF TemplateStatuses
      <4> QED
        BY <2>1, <2>5, <3>1, <4>2 DEF Promoted, TemplatesShape, TemplateRows
    <3>2. CASE u # old
      BY <2>1, <2>5, <3>2 DEF Promoted
    <3> QED
      BY <3>1, <3>2
  <2> QED
    BY <1>5, <2>2, <2>3, <2>4, <2>5 DEF SameIssued, IssuedStay, Immutable
<1>6. Promote(c) /\ ~UNCHANGED templates =>
        templates[edit[c].target].status \in {"DRAFT", "PUBLISHED"}
  BY DEF Promote, Exists, ReadsHold, PublishReadsHold, Publishing, Live
<1> QED
  BY <1>1, <1>2, <1>3, <1>4, <1>5, <1>6
     DEF EditStep, BeginSave, ReadSource, ReadNumber, AnswerSave, BeginPublish, ReadCurrent,
         ReadMax, BeginDiscard, CountSigned, EditLost

\* A publication of the draft archives the sheet that was current and takes the
\* number after its own.
LEMMA PublicationSucceeds ==
  ASSUME KeptInv, PageInv, HistoryInv, NEW c \in Edits,
         Promote(c), ~UNCHANGED templates, templates[edit[c].target].status = "DRAFT"
  PROVE  \E t, p \in Templates : Succeeds(t, p)
<1> USE DEF PageInv, Shape
<1>0. PICK t, old, v : t = edit[c].target /\ old = edit[c].outgoing /\ v = edit[c].version
  OBVIOUS
<1> USE <1>0
<1>1. /\ t \in Templates /\ templates[t].status = "DRAFT"
      /\ v \in Nat \ {0} /\ IsHighest(v - 1, Others(t))
      /\ \A u \in Templates : templates[u].status = "DRAFT" => u = t
      /\ \A u \in Templates : templates[u].status = "PUBLISHED" => u = old \/ u = t
  BY DEF Promote, EditShape, Aimed, ReadsHold, PublishReadsHold, Publishing, Live
<1>2. PICK p \in Templates : templates[p].status = "PUBLISHED"
  BY DEF HistoryInv, OneCurrent
<1>3. p # t /\ p = old
  BY <1>1, <1>2
<1>4. templates' = Promoted(t, old, v)
  BY DEF Promote
<1>5. templates[t].items # {}
  BY <1>1 DEF HistoryInv, ItemsThere, Exists
<1>6. \A u \in Templates : templates[u].version \in Nat
  BY DEF TemplatesShape, TemplateRows
<1>7. p \in Others(t) /\ Exists(p)
  BY <1>2, <1>3 DEF Others, Exists
<1>8. ASSUME NEW u \in Others(t), Exists(u)
      PROVE  templates[u].version <= templates[p].version
  <2>1. u \in Issued
    BY <1>1, <1>8 DEF Exists, Others, Issued, TemplatesShape, TemplateRows, TemplateStatuses
  <2> QED
    BY <1>2, <2>1 DEF HistoryInv, CurrentIsLast, Issued
<1>9. v = templates[p].version + 1
  <2>1. templates[p].version <= v - 1
    BY <1>1, <1>7 DEF IsHighest
  <2>2. v - 1 = 0 \/ \E u \in Others(t) : Exists(u) /\ templates[u].version = v - 1
    BY <1>1 DEF IsHighest
  <2>3. templates[p].version >= v - 1
    BY <1>2, <1>6, <1>8, <2>2
  <2> QED
    BY <1>1, <1>2, <1>6, <2>1, <2>3
<1>10. /\ templates'[t].status = "PUBLISHED" /\ templates'[t].version = v
       /\ templates'[t].items = templates[t].items
  BY <1>1, <1>4 DEF Promoted, TemplatesShape, TemplateRows
<1>11. /\ templates'[p].status = "ARCHIVED" /\ templates'[p].version = templates[p].version
       /\ templates'[p].items = templates[p].items
  BY <1>2, <1>3, <1>4 DEF Promoted, TemplatesShape, TemplateRows
<1>12. \A u \in Templates : u # t /\ u # p => templates'[u] = templates[u]
  BY <1>3, <1>4 DEF Promoted
<1>13. Succeeds(t, p)
  BY <1>1, <1>2, <1>5, <1>9, <1>10, <1>11, <1>12 DEF Succeeds
<1> QED
  BY <1>1, <1>2, <1>13

\* A save stores no empty sheet: the keys it keeps or mints are at least one.
LEMMA ItemsStay ==
  ASSUME Shape, ItemsThere, NEW c \in Edits, EditStep(c)
  PROVE  ItemsThere'
<1> USE DEF Shape
<1>1. \A d \in Edits : d # c => edit'[d] = edit[d]
  BY DEF EditStep, BeginSave, ReadSource, ReadNumber, CreateDraft, StoreDraft, AnswerSave,
         BeginPublish, ReadCurrent, ReadMax, Promote, BeginDiscard, CountSigned, Discard,
         EditLost, Ends, EditShape
<1> DEFINE Full(d) == edit[d].pc \in {"number", "create", "store"} => edit[d].items # {}
<1>2. ASSUME Full(c)', \A t \in Templates : Exists(t)' => templates'[t].items # {}
      PROVE  ItemsThere'
  BY <1>1, <1>2 DEF ItemsThere
<1>3. CASE UNCHANGED templates /\ Full(c)'
  BY <1>2, <1>3 DEF ItemsThere, Exists
<1>4. ASSUME edit' = [edit EXCEPT ![c] = Idle] PROVE Full(c)'
  BY <1>4 DEF EditShape, Idle
<1>5. ASSUME NEW pc, NEW t, NEW s, edit' = [edit EXCEPT ![c] = Request(pc, t, s)],
             pc \in {"number", "store"} => s # {},
             pc # "create"
      PROVE  Full(c)'
  BY <1>5 DEF EditShape, Request
<1>6. ASSUME edit[c] \in EditReqs, edit'[c].items = edit[c].items,
             edit'[c].pc \in {"number", "create", "store"} =>
               edit[c].pc \in {"number", "create", "store"}
      PROVE  Full(c)'
  BY <1>6 DEF ItemsThere
<1>7. CASE BeginSave(c)
  BY <1>3, <1>5, <1>7 DEF BeginSave, Sheets
<1>8. CASE ReadSource(c)
  BY <1>3, <1>5, <1>8 DEF ReadSource, Sheets
<1>9. CASE ReadNumber(c)
  <2>1. edit[c] \in EditReqs /\ edit[c].pc = "number"
    BY <1>9 DEF ReadNumber, EditShape, Idle
  <2>2. edit'[c].pc = "create" /\ edit'[c].items = edit[c].items
    BY <1>9, <2>1 DEF ReadNumber, EditShape, EditReqs
  <2> QED
    BY <1>3, <1>6, <1>9, <2>1, <2>2 DEF ReadNumber
<1>10. CASE CreateDraft(c)
  <2>1. edit[c] \in EditReqs /\ edit[c].pc = "create" /\ edit[c].items # {}
    BY <1>10 DEF CreateDraft, EditShape, Idle, ItemsThere
  <2>2. CASE UNCHANGED templates /\ Ends(c)
    BY <1>3, <1>4, <2>2 DEF Ends
  <2>3. CASE /\ \E t \in Templates : templates' = [templates EXCEPT ![t] =
                  [status |-> "DRAFT", version |-> edit[c].version, items |-> edit[c].items]]
             /\ edit' = [edit EXCEPT ![c].pc = "answer"]
    <3>1. Full(c)'
      BY <2>1, <2>3 DEF EditShape, EditReqs
    <3>2. \A t \in Templates : Exists(t)' => templates'[t].items # {}
      BY <2>1, <2>3 DEF TemplatesShape, ItemsThere, Exists
    <3> QED
      BY <1>2, <3>1, <3>2
  <2> QED
    BY <1>10, <2>2, <2>3 DEF CreateDraft
<1>11. CASE StoreDraft(c)
  <2>1. /\ edit[c] \in EditReqs /\ edit[c].pc = "store" /\ edit[c].items # {}
        /\ edit[c].target \in Templates
    BY <1>11 DEF StoreDraft, EditShape, Aimed, Idle, ItemsThere
  <2>2. CASE UNCHANGED templates /\ Ends(c)
    BY <1>3, <1>4, <2>2 DEF Ends
  <2>3. CASE /\ templates' = [templates EXCEPT ![edit[c].target].items = edit[c].items]
             /\ edit' = [edit EXCEPT ![c].pc = "answer"]
    <3>1. Full(c)'
      BY <2>1, <2>3 DEF EditShape, EditReqs
    <3>2. \A t \in Templates : Exists(t)' => templates'[t].items # {}
      BY <2>1, <2>3 DEF TemplatesShape, TemplateRows, ItemsThere, Exists
    <3> QED
      BY <1>2, <3>1, <3>2
  <2> QED
    BY <1>11, <2>2, <2>3 DEF StoreDraft
<1>12. CASE BeginPublish(c)
  <2>1. PICK t \in Templates : edit' = [edit EXCEPT ![c] = Request("current", t, {})]
    BY <1>12 DEF BeginPublish, Newest
  <2>2. edit'[c].pc = "current"
    BY <2>1 DEF EditShape, Request
  <2> QED
    BY <1>3, <1>12, <2>2 DEF BeginPublish
<1>13. CASE ReadCurrent(c)
  <2>1. edit[c] \in EditReqs
    BY <1>13 DEF ReadCurrent, EditShape, Idle
  <2>2. edit'[c].pc = "max"
    BY <1>13, <2>1 DEF ReadCurrent, EditShape, EditReqs
  <2> QED
    BY <1>3, <1>13, <2>2 DEF ReadCurrent
<1>14. CASE ReadMax(c)
  <2>1. edit[c] \in EditReqs
    BY <1>14 DEF ReadMax, EditShape, Idle
  <2>2. edit'[c].pc = "promote"
    BY <1>14, <2>1 DEF ReadMax, EditShape, EditReqs
  <2> QED
    BY <1>3, <1>14, <2>2 DEF ReadMax
<1>15. CASE Promote(c)
  <2>1. \A t \in Templates : /\ templates'[t].items = templates[t].items
                             /\ Exists(t)' => Exists(t)
    <3>1. CASE UNCHANGED templates
      BY <3>1 DEF Exists
    <3>2. CASE /\ templates' = Promoted(edit[c].target, edit[c].outgoing, edit[c].version)
               /\ Exists(edit[c].target)
               /\ edit[c].outgoing # NoTemplate => Exists(edit[c].outgoing)
      BY <3>2, SheetAssumption DEF Promoted, TemplatesShape, TemplateRows, Exists
    <3> QED
      BY <1>15, <3>1, <3>2 DEF Promote
  <2>2. Full(c)'
    BY <1>4, <1>15 DEF Promote, Ends
  <2> QED
    BY <1>2, <2>1, <2>2 DEF ItemsThere
<1>16. CASE BeginDiscard(c)
  BY <1>3, <1>5, <1>16 DEF BeginDiscard
<1>17. CASE CountSigned(c)
  <2>1. edit[c] \in EditReqs
    BY <1>17 DEF CountSigned, EditShape, Idle
  <2>2. CASE edit' = [edit EXCEPT ![c].pc = "discard"]
    BY <1>3, <1>17, <2>1, <2>2 DEF CountSigned, EditShape, EditReqs
  <2> QED
    BY <1>3, <1>4, <1>17, <2>2 DEF CountSigned, Ends
<1>18. CASE Discard(c)
  <2>1. Full(c)'
    BY <1>4, <1>18 DEF Discard, Ends
  <2>2. \A t \in Templates : Exists(t)' => templates'[t] = templates[t]
    BY <1>18 DEF Discard, TemplatesShape, Exists
  <2> QED
    BY <1>2, <2>1, <2>2 DEF ItemsThere, Exists
<1>19. CASE AnswerSave(c) \/ EditLost(c)
  BY <1>3, <1>4, <1>19 DEF AnswerSave, EditLost, Ends
<1> HIDE DEF Full
<1> QED
  BY <1>7, <1>8, <1>9, <1>10, <1>11, <1>12, <1>13, <1>14, <1>15, <1>16, <1>17, <1>18, <1>19
     DEF EditStep

\* A step of the templates keeps the invariant and is a publication or a stutter
\* of the history.
LEMMA SameIssuedKeeps ==
  ASSUME PageInv, PageInv', HistoryInv, ItemsThere', SameIssued
  PROVE  HistoryInv'
<1>1. \A t \in Issued : /\ templates'[t].status = templates[t].status
                        /\ templates'[t].version = templates[t].version
  BY DEF SameIssued, Issued
<1>2. Issued' = Issued
  BY DEF SameIssued, Issued
<1>3. OneCurrent'
  BY DEF HistoryInv, OneCurrent, SameIssued
<1>4. CurrentIsLast' /\ VersionsApart'
  BY <1>1, <1>2 DEF HistoryInv, CurrentIsLast, VersionsApart
<1> QED
  BY <1>3, <1>4 DEF HistoryInv

\* What a publication does to the history.
LEMMA SuccessorPublishes ==
  ASSUME Shape, AtMostOneOfEach, AtMostOneOfEach', HistoryInv, ItemsThere',
         NEW t \in Templates, NEW p \in Templates, Succeeds(t, p)
  PROVE  /\ HistoryInv'
         /\ CurrentNow' = CurrentNow + 1
         /\ SheetsNow' = [v \in DOMAIN SheetsNow \cup {CurrentNow + 1} |->
              IF v = CurrentNow + 1 THEN templates[t].items ELSE SheetsNow[v]]
<1> DEFINE n == templates[p].version
<1>1. p \in Issued /\ t \notin Issued /\ p # t /\ n \in Nat
  BY DEF Succeeds, Issued, Shape, TemplatesShape, TemplateRows
<1>2. Issued' = Issued \cup {t}
  BY DEF Succeeds, Issued
<1>3. \A u \in Issued : /\ templates'[u].version = templates[u].version
                        /\ templates'[u].items = templates[u].items
                        /\ templates[u].version \in Nat
                        /\ templates[u].version <= n
  BY <1>1 DEF Succeeds, Issued, HistoryInv, CurrentIsLast, Shape, TemplatesShape, TemplateRows
<1>4. /\ templates'[t].version = n + 1 /\ templates'[t].items = templates[t].items
      /\ templates'[t].status = "PUBLISHED"
  BY DEF Succeeds
<1>5. HistoryInv'
  <2>1. OneCurrent'
    BY <1>4 DEF OneCurrent
  <2>2. \A u \in Templates : templates'[u].status = "PUBLISHED" => u = t
    BY <1>4 DEF AtMostOneOfEach
  <2>3. \A u \in Issued' : templates'[u].version <= n + 1
    BY <1>1, <1>2, <1>3, <1>4
  <2>4. CurrentIsLast'
    BY <1>4, <2>2, <2>3 DEF CurrentIsLast, Issued
  <2>5. \A u \in Issued : templates'[u].version # n + 1
    BY <1>1, <1>3
  <2>6. \A u, w \in Issued : templates'[u].version = templates'[w].version => u = w
    BY <1>3 DEF HistoryInv, VersionsApart
  <2>7. VersionsApart'
    BY <1>2, <1>4, <2>5, <2>6 DEF VersionsApart
  <2> QED
    BY <2>1, <2>4, <2>7 DEF HistoryInv
<1>6. CurrentNow = n /\ CurrentNow' = n + 1
  BY <1>4, CurrentIs, NextCurrentIs DEF CurrentIsPublished, Succeeds
<1>7. Versions' = Versions \cup {n + 1} /\ n + 1 \notin Versions
  <2>1. \A u \in Issued : templates[u].version # n + 1
    BY <1>1, <1>3
  <2> QED
    BY <1>2, <1>3, <1>4, <2>1 DEF Versions
<1>8. ASSUME NEW v \in Versions
      PROVE  {templates'[u].items : u \in {w \in Issued' : templates'[w].version = v}}
               = {templates[u].items : u \in {w \in Issued : templates[w].version = v}}
  <2>1. {w \in Issued' : templates'[w].version = v} = {w \in Issued : templates[w].version = v}
    BY <1>2, <1>3, <1>4, <1>7
  <2> QED
    BY <1>3, <2>1
<1>9. UNION {templates'[u].items : u \in {w \in Issued' : templates'[w].version = n + 1}}
        = templates[t].items
  <2>1. \A u \in Issued : templates'[u].version # n + 1
    BY <1>1, <1>3
  <2>2. {w \in Issued' : templates'[w].version = n + 1} = {t}
    BY <1>2, <1>4, <2>1
  <2>3. {templates'[u].items : u \in {t}} = {templates[t].items}
    BY <1>4
  <2>4. UNION {templates[t].items} = templates[t].items
    OBVIOUS
  <2> QED
    BY <2>2, <2>3, <2>4
<1>10. SheetsNow' = [v \in Versions \cup {n + 1} |->
         IF v = n + 1 THEN templates[t].items ELSE SheetsNow[v]]
  <2>1. SheetsNow' = [v \in Versions \cup {n + 1} |-> UNION {templates'[u].items : u \in
                        {w \in Issued' : templates'[w].version = v}}]
    BY <1>7 DEF SheetsNow
  <2>2. \A v \in Versions : SheetsNow[v] = UNION {templates[u].items : u \in
                        {w \in Issued : templates[w].version = v}}
    BY DEF SheetsNow
  <2>3. ASSUME NEW v \in Versions \cup {n + 1}
        PROVE  UNION {templates'[u].items : u \in {w \in Issued' : templates'[w].version = v}}
                 = IF v = n + 1 THEN templates[t].items ELSE SheetsNow[v]
    <3>1. CASE v = n + 1
      BY <1>9, <3>1
    <3>2. CASE v # n + 1
      BY <1>8, <2>2, <2>3, <3>2
    <3> QED
      BY <3>1, <3>2
  <2> QED
    BY <2>1, <2>3
<1>11. DOMAIN SheetsNow = Versions
  BY DEF SheetsNow
<1> HIDE DEF n
<1> QED
  BY <1>5, <1>6, <1>10, <1>11

\* Editors leave every evaluation on the version it was signed on.
LEMMA IssuedStaySigned ==
  ASSUME SheetKept, IssuedStay, UNCHANGED evaluations, EvaluationsShape
  PROVE  UNCHANGED SignedNow
<1>1. ASSUME NEW e \in Evaluations, Signed(e)
      PROVE  templates'[evaluations[e].template].version
               = templates[evaluations[e].template].version
  <2>1. evaluations[e].template \in Templates
    BY <1>1 DEF EvaluationsShape, RowShape, Signed, Absent, Removed
  <2> QED
    BY <1>1, <2>1 DEF SheetKept, IssuedStay, Immutable
<1> QED
  BY <1>1 DEF SignedNow, Signed

LEMMA EditorsRefine ==
  ASSUME KeptInv, PageInv, PageInv', IssuedStay, HistoryInv,
         NEW c \in Edits, EditStep(c)
  PROVE  HistoryInv' /\ (History!Next \/ UNCHANGED HistoryVars)
<1>1. ItemsThere'
  BY ItemsStay DEF KeptInv, HistoryInv
<1>2. SignedNow' = SignedNow
  <2>1. UNCHANGED evaluations
    BY DEF EditStep, BeginSave, ReadSource, ReadNumber, CreateDraft, StoreDraft, AnswerSave,
           BeginPublish, ReadCurrent, ReadMax, Promote, BeginDiscard, CountSigned, Discard,
           EditLost
  <2> QED
    BY <2>1, IssuedStaySigned DEF KeptInv, Shape
<1>3. CASE SameIssued
  <2>1. HistoryInv'
    BY <1>1, <1>3, SameIssuedKeeps
  <2>2. UNCHANGED <<SheetsNow, CurrentNow>>
    BY <1>3, SameIssuedSameHistory DEF PageInv, HistoryInv
  <2> QED
    BY <1>2, <2>1, <2>2 DEF HistoryVars
<1>4. CASE /\ Promote(c) /\ ~UNCHANGED templates
           /\ templates[edit[c].target].status = "DRAFT"
  <2>1. PICK t \in Templates, p \in Templates : Succeeds(t, p)
    BY <1>4, PublicationSucceeds DEF PageInv
  <2>2. /\ HistoryInv'
        /\ CurrentNow' = CurrentNow + 1
        /\ SheetsNow' = [v \in DOMAIN SheetsNow \cup {CurrentNow + 1} |->
             IF v = CurrentNow + 1 THEN templates[t].items ELSE SheetsNow[v]]
    BY <1>1, <2>1, SuccessorPublishes DEF PageInv
  <2>3. templates[t].items \in (SUBSET Items) \ {{}}
    BY <2>1 DEF Succeeds, KeptInv, Shape, TemplatesShape, TemplateRows
  <2>4. History!Publish
    BY <1>2, <2>2, <2>3 DEF History!Publish, SheetsNow, CurrentNow, SignedNow
  <2> QED
    BY <2>2, <2>4 DEF History!Next
<1> QED
  BY <1>3, <1>4, EditorsSameIssued DEF PageInv

LEMMA RatersRefine ==
  ASSUME KeptInv, KeptInv', HistoryInv,
         (\E r \in Ratings : RatingStep(r)) \/ (\E e \in Evaluations : Remove(e))
  PROVE  HistoryInv' /\ (History!Next \/ UNCHANGED HistoryVars)
<1>1. UNCHANGED <<templates, edit>>
  BY DEF RatingStep, BeginRating, InsertRating, BeginRevision, Rewrite, RatingLost, Remove
<1>2. HistoryInv'
  BY <1>1 DEF HistoryInv, OneCurrent, CurrentIsLast, VersionsApart, ItemsThere, Issued, Exists
<1>3. UNCHANGED <<SheetsNow, CurrentNow>>
  BY <1>1 DEF SheetsNow, CurrentNow, Versions, Issued
<1>4. ASSUME \A e \in Evaluations :
               /\ Signed(e)' <=> Signed(e)
               /\ Signed(e) => evaluations'[e].template = evaluations[e].template
      PROVE  UNCHANGED HistoryVars
  BY <1>1, <1>3, <1>4 DEF HistoryVars, SignedNow
<1>5. ASSUME NEW r \in Ratings, InsertRating(r), ~UNCHANGED evaluations
      PROVE  History!Next
  <2>1. PICK e \in Evaluations :
          /\ evaluations[e] = Absent
          /\ evaluations' = [evaluations EXCEPT ![e] =
               [state |-> "written", template |-> rating[r].template,
                scores |-> rating[r].scores, total |-> TotalRating(rating[r].scores),
                max |-> MaxTotalRating(DOMAIN rating[r].scores)]]
    BY <1>5 DEF InsertRating
  <2>2. /\ evaluations'[e].state = "written"
        /\ \A f \in Evaluations : f # e => evaluations'[f] = evaluations[f]
    BY <2>1 DEF KeptInv, Shape, EvaluationsShape
  <2> DEFINE v == templates[evaluations'[e].template].version
  <2>3. v \in Versions
    <3>1. RowShape(evaluations[e])'
      BY <2>2 DEF KeptInv, Shape, EvaluationsShape, Absent, Removed
    <3>2. evaluations'[e].template \in Templates
      BY <3>1 DEF RowShape
    <3>3. templates'[evaluations'[e].template].status \in {"PUBLISHED", "ARCHIVED"}
      BY <2>2 DEF KeptInv, SheetKept, Signed
    <3> QED
      BY <1>1, <3>2, <3>3 DEF Versions, Issued
  <2>4. SignedNow[e] = 0
    BY <2>1 DEF SignedNow, Signed, Absent
  <2>5. SignedNow' = [SignedNow EXCEPT ![e] = v]
    BY <1>1, <2>2 DEF SignedNow, Signed
  <2>6. DOMAIN SheetsNow = Versions
    BY DEF SheetsNow
  <2>7. \E w \in DOMAIN SheetsNow : SignedNow' = [SignedNow EXCEPT ![e] = w]
    BY <2>3, <2>5, <2>6
  <2>8. History!Sign(e)
    BY <1>3, <2>4, <2>7 DEF History!Sign, SheetsNow, CurrentNow, SignedNow
  <2> QED
    BY <2>8 DEF History!Next
<1>6. ASSUME NEW r \in Ratings, Rewrite(r)
      PROVE  UNCHANGED HistoryVars
  <2> DEFINE e == rating[r].evaluation
  <2>1. CASE UNCHANGED evaluations
    BY <1>4, <2>1 DEF Signed
  <2>2. CASE /\ Signed(e)
             /\ evaluations' = [evaluations EXCEPT ![e].scores = rating[r].scores,
                                                   ![e].total = TotalRating(rating[r].scores)]
    <3>1. e \in Evaluations
      BY <1>6 DEF Rewrite, KeptInv, Shape, RatingShape, RatingReqs, Idle
    <3>2. RowShape(evaluations[e])
      BY <2>2, <3>1 DEF KeptInv, Shape, EvaluationsShape, Signed, Absent, Removed
    <3>3. /\ \A f \in Evaluations : f # e => evaluations'[f] = evaluations[f]
          /\ evaluations'[e].state = evaluations[e].state
          /\ evaluations'[e].template = evaluations[e].template
      BY <2>2, <3>1, <3>2 DEF KeptInv, Shape, EvaluationsShape, RowShape
    <3> HIDE DEF e
    <3> QED
      BY <1>4, <3>1, <3>3 DEF Signed
  <2> QED
    BY <1>6, <2>1, <2>2 DEF Rewrite
<1>7. ASSUME NEW e \in Evaluations, Remove(e)
      PROVE  History!Next
  <2>1. SignedNow' = [SignedNow EXCEPT ![e] = 0]
    BY <1>1, <1>7 DEF Remove, SignedNow, Signed, Removed, KeptInv, Shape, EvaluationsShape
  <2>2. History!Withdraw(e)
    BY <1>3, <2>1 DEF History!Withdraw, SheetsNow, CurrentNow, SignedNow
  <2> QED
    BY <2>2 DEF History!Next
<1>8. ASSUME UNCHANGED evaluations
      PROVE  UNCHANGED HistoryVars
  BY <1>4, <1>8 DEF Signed
<1> QED
  BY <1>2, <1>5, <1>6, <1>7, <1>8 DEF RatingStep, BeginRating, BeginRevision, RatingLost

\* HistoryInv for as long as all steps were calm.
CalmHistoryInv == CalmInv /\ (calm => HistoryInv)

LEMMA NextRefines ==
  ASSUME CalmHistoryInv, [Next]_vars
  PROVE  /\ CalmHistoryInv'
         /\ calm' => History!Next \/ UNCHANGED HistoryVars
<1>1. CalmInv' /\ (calm' => IssuedStay)
  BY NextCalm DEF CalmHistoryInv
<1>2. CASE UNCHANGED vars
  <2>1. HistoryInv => HistoryInv'
    BY <1>2 DEF vars, HistoryInv, OneCurrent, CurrentIsLast, VersionsApart, ItemsThere, Issued,
                Exists
  <2>2. UNCHANGED <<HistoryVars, calm>>
    BY <1>2 DEF vars, HistoryVars, SheetsNow, CurrentNow, SignedNow, Versions, Issued, Signed
  <2> QED
    BY <1>1, <2>1, <2>2 DEF CalmHistoryInv
<1>3. CASE Next
  <2>1. Step /\ calm' = (calm /\ CalmStep)
    BY <1>3 DEF Next
  <2>2. ASSUME calm' PROVE HistoryInv' /\ (History!Next \/ UNCHANGED HistoryVars)
    <3>1. calm /\ KeptInv /\ PageInv /\ HistoryInv /\ KeptInv' /\ PageInv' /\ IssuedStay
      BY <1>1, <2>1, <2>2 DEF CalmHistoryInv, CalmInv
    <3> QED
      BY <2>1, <3>1, EditorsRefine, RatersRefine DEF Step
  <2> QED
    BY <1>1, <2>2 DEF CalmHistoryInv
<1> QED
  BY <1>2, <1>3

LEMMA InitHistory == Init => HistoryInv /\ History!Init
<1> SUFFICES ASSUME Init PROVE HistoryInv /\ History!Init
  OBVIOUS
<1>1. PICK t \in Templates, first \in (SUBSET Items) \ {{}} :
        templates = [u \in Templates |->
          IF u = t THEN [status |-> "PUBLISHED", version |-> 1, items |-> first]
          ELSE [status |-> "ABSENT", version |-> 0, items |-> {}]]
  BY DEF Init
<1>2. /\ templates[t].status = "PUBLISHED" /\ templates[t].version = 1
      /\ templates[t].items = first
      /\ \A u \in Templates : u # t => templates[u].status = "ABSENT"
  BY <1>1
<1>3. Issued = {t}
  BY <1>2 DEF Issued
<1>4. HistoryInv
  <2>1. OneCurrent
    BY <1>2 DEF OneCurrent
  <2>2. CurrentIsLast /\ VersionsApart
    BY <1>2, <1>3 DEF CurrentIsLast, VersionsApart
  <2>3. ItemsThere
    BY <1>2 DEF Init, Idle, ItemsThere, Exists
  <2> QED
    BY <2>1, <2>2, <2>3 DEF HistoryInv
<1>5. Versions = {1}
  BY <1>2, <1>3 DEF Versions
<1>6. SheetsNow = [v \in {1} |-> first]
  <2>1. {u \in Issued : templates[u].version = 1} = {t}
    BY <1>2, <1>3
  <2>2. UNION {templates[u].items : u \in {t}} = first
    BY <1>2
  <2> QED
    BY <1>5, <2>1, <2>2 DEF SheetsNow
<1>7. CurrentNow = 1
  BY <1>2, CurrentIs, InitPage DEF CurrentIsPublished, PageInv
<1>8. SignedNow = [e \in Evaluations |-> 0]
  BY DEF Init, SignedNow, Signed, Absent
<1> QED
  BY <1>4, <1>6, <1>7, <1>8 DEF History!Init, SheetsNow, CurrentNow, SignedNow

\* Until two saves meet or a request is overtaken, the rows and the handlers
\* implement a history of versions that only grows: a publication takes the number
\* after the current version and brings one sheet, never an empty one, and every
\* evaluation stays on the version it was signed on (publishDraft,
\* createEvaluation, updateEvaluation).
THEOREM SheetsRefineHistory == Spec => RefinesHistory
<1>1. Init => CalmHistoryInv /\ History!Init
  BY InitCalm, InitHistory DEF CalmHistoryInv
<1>2. CalmHistoryInv /\ [Next]_vars => CalmHistoryInv'
  BY NextRefines
<1>3. CalmHistoryInv /\ [Next]_vars =>
        [calm' => History!Next \/ UNCHANGED History!historyVars]_vars
  BY NextRefines DEF HistoryVars, History!historyVars, SheetsNow, CurrentNow, SignedNow
<1> QED
  BY <1>1, <1>2, <1>3, PTL DEF Spec, RefinesHistory

-----------------------------------------------------------------------------
\* Sums over finite sets, as AttendanceProofs has them: each module can extend
\* only the proofs of its own component.

\* A set of numbers with 0 and every successor has them all.
LEMMA AllNumbers ==
  ASSUME NEW N \in SUBSET Nat, 0 \in N, \A n \in N : n + 1 \in N
  PROVE  N = Nat
<1>1. SUFFICES ASSUME Nat \ N # {} PROVE FALSE
  OBVIOUS
<1>2. PICK n \in Nat \ N : \A m \in Nat \ N : <<m, n>> \notin OpToRel(<, Nat)
  <2>1. Nat \ N \subseteq Nat
    OBVIOUS
  <2> QED
    BY <1>1, <2>1, NatLessThanWellFounded, WFMin
<1>3. n - 1 \in Nat /\ n - 1 < n /\ (n - 1) + 1 = n
  OBVIOUS
<1>4. n - 1 \notin N
  BY <1>3
<1> QED
  BY <1>2, <1>3, <1>4 DEF OpToRel

\* A family of subsets of a finite set has them all, if it has each set from which
\* every removal leads into the family.
LEMMA AllSubsets ==
  ASSUME NEW S, IsFiniteSet(S), NEW F \in SUBSET SUBSET S,
         \A T \in SUBSET S : (\A x \in T : T \ {x} \in F) => T \in F
  PROVE  F = SUBSET S
<1> DEFINE N == {n \in Nat : \A T \in SUBSET S : Cardinality(T) = n => T \in F}
<1>1. \A T \in SUBSET S : IsFiniteSet(T) /\ Cardinality(T) \in Nat
  BY FS_Subset, FS_CardinalityType
<1>2. 0 \in N
  <2>1. ASSUME NEW T \in SUBSET S, Cardinality(T) = 0 PROVE T \in F
    BY <1>1, <2>1, FS_EmptySet
  <2> QED
    BY <2>1
<1>3. ASSUME NEW n \in N PROVE n + 1 \in N
  <2>1. ASSUME NEW T \in SUBSET S, Cardinality(T) = n + 1 PROVE T \in F
    <3>1. ASSUME NEW x \in T PROVE T \ {x} \in F
      <4>1. Cardinality(T \ {x}) = n /\ T \ {x} \in SUBSET S
        BY <1>1, <2>1, FS_RemoveElement
      <4> QED
        BY <4>1
    <3> QED
      BY <3>1
  <2> QED
    BY <2>1
<1>4. N = Nat
  <2> HIDE DEF N
  <2>1. N \in SUBSET Nat
    BY DEF N
  <2> QED
    BY <1>2, <1>3, <2>1, AllNumbers
<1> QED
  BY <1>1, <1>4

\* What a sum adds up, in the order of its choices.
Some(s) == CHOOSE x \in s : TRUE

Adder(f) ==
  CHOOSE g : g = [s \in SUBSET DOMAIN f |->
                    IF s = {} THEN 0 ELSE f[Some(s)] + g[s \ {Some(s)}]]

IntegersOn(f, S) == IsFiniteSet(S) /\ f \in [S -> Int]

LEMMA SumIsAdder ==
  ASSUME NEW f PROVE SumFunction(f) = Adder(f)[DOMAIN f]
BY DEF SumFunction, SumFunctionOnSet, FoldFunctionOnSet, MapThenFoldSet, Adder, Some

LEMMA AdderAdds ==
  ASSUME NEW S, NEW f, IntegersOn(f, S)
  PROVE  /\ \A s \in SUBSET S : Adder(f)[s] \in Int
         /\ Adder(f)[{}] = 0
         /\ \A s \in SUBSET S : s # {} =>
              /\ Some(s) \in s
              /\ Adder(f)[s] = f[Some(s)] + Adder(f)[s \ {Some(s)}]
<1> DEFINE D(n) == {s \in SUBSET S : Cardinality(s) <= n}
           rhs(g, s) == IF s = {} THEN 0 ELSE f[Some(s)] + g[s \ {Some(s)}]
           Sums(n) == {g \in [D(n) -> Int] : \A s \in D(n) : g[s] = rhs(g, s)}
<1>1. DOMAIN f = S /\ (\A x \in S : f[x] \in Int) /\ IsFiniteSet(S)
  BY DEF IntegersOn
<1>2. \A s \in SUBSET S : IsFiniteSet(s) /\ Cardinality(s) \in Nat
  BY <1>1, FS_Subset, FS_CardinalityType
<1>3. \A s \in SUBSET S : s # {} => Some(s) \in s
  BY DEF Some
<1>4. ASSUME NEW n \in Nat, NEW s \in D(n + 1), s # {}
      PROVE  s \ {Some(s)} \in D(n)
  <2>1. Cardinality(s \ {Some(s)}) = Cardinality(s) - 1
    BY <1>2, <1>3, <1>4, FS_RemoveElement
  <2> QED
    BY <1>2, <1>4, <2>1
<1>5. Sums(0) # {}
  <2>1. D(0) = {{}}
    <3>1. ASSUME NEW s \in SUBSET S, Cardinality(s) <= 0 PROVE s = {}
      BY <1>2, <3>1, FS_EmptySet
    <3>2. Cardinality({}) = 0
      BY FS_EmptySet
    <3> QED
      BY <3>1, <3>2
  <2>2. [s \in D(0) |-> 0] \in Sums(0)
    BY <2>1
  <2> QED
    BY <2>2
<1>6. ASSUME NEW n \in Nat, Sums(n) # {} PROVE Sums(n + 1) # {}
  <2>1. PICK g : g \in [D(n) -> Int] /\ \A s \in D(n) : g[s] = rhs(g, s)
    BY <1>6
  <2> DEFINE h == [s \in D(n + 1) |-> rhs(g, s)]
  <2>2. \A s \in D(n) : h[s] = g[s] /\ s \in D(n + 1)
    BY <1>2, <1>6, <2>1
  <2>3. ASSUME NEW s \in D(n + 1)
        PROVE  h[s] \in Int /\ h[s] = rhs(h, s)
    <3>1. CASE s = {}
      BY <3>1
    <3>2. CASE s # {}
      <4>1. s \ {Some(s)} \in D(n) /\ f[Some(s)] \in Int
        BY <1>1, <1>3, <1>4, <1>6, <3>2
      <4>2. h[s] = f[Some(s)] + g[s \ {Some(s)}]
        BY <3>2
      <4>3. h[s \ {Some(s)}] = g[s \ {Some(s)}] /\ g[s \ {Some(s)}] \in Int
        BY <2>1, <2>2, <4>1
      <4> HIDE DEF h, D
      <4> QED
        BY <3>2, <4>1, <4>2, <4>3
    <3> QED
      BY <3>1, <3>2
  <2>4. h \in Sums(n + 1)
    <3>1. h = [s \in D(n + 1) |-> h[s]]
      OBVIOUS
    <3> HIDE DEF h, D
    <3> QED
      BY <2>3, <3>1
  <2> QED
    BY <2>4
<1>7. \A n \in Nat : Sums(n) # {}
  <2> HIDE DEF Sums
  <2> DEFINE N == {n \in Nat : Sums(n) # {}}
  <2>1. N \in SUBSET Nat /\ 0 \in N /\ \A n \in N : n + 1 \in N
    BY <1>5, <1>6
  <2>2. N = Nat
    <3> HIDE DEF N
    <3> QED
      BY <2>1, AllNumbers
  <2> QED
    BY <2>2
<1>8. D(Cardinality(S)) = SUBSET S
  BY <1>1, <1>2, FS_Subset
<1>9. PICK g : g \in [SUBSET S -> Int] /\ \A s \in SUBSET S : g[s] = rhs(g, s)
  <2>1. Sums(Cardinality(S)) # {}
    BY <1>2, <1>7
  <2> HIDE DEF D
  <2>2. PICK g : g \in [D(Cardinality(S)) -> Int]
                 /\ \A s \in D(Cardinality(S)) : g[s] = rhs(g, s)
    BY <2>1
  <2> QED
    BY <1>8, <2>2
<1>10. \E h : h = [s \in SUBSET S |-> rhs(h, s)]
  BY <1>9
<1>11. Adder(f) = [s \in SUBSET S |-> rhs(Adder(f), s)]
  BY <1>1, <1>10 DEF Adder
<1>12. \A s \in SUBSET S : Adder(f)[s] = rhs(Adder(f), s)
  BY <1>11
<1> DEFINE F == {s \in SUBSET S : Adder(f)[s] \in Int}
<1>13. ASSUME NEW s \in SUBSET S, \A x \in s : s \ {x} \in F PROVE s \in F
  <2>1. CASE s = {}
    <3>1. Adder(f)[s] = 0
      BY <1>12, <2>1
    <3> QED
      BY <3>1
  <2>2. CASE s # {}
    <3>1. Adder(f)[s] = f[Some(s)] + Adder(f)[s \ {Some(s)}]
      BY <1>12, <2>2
    <3>2. f[Some(s)] \in Int /\ Adder(f)[s \ {Some(s)}] \in Int
      BY <1>1, <1>3, <1>13, <2>2
    <3>3. Adder(f)[s] \in Int
      BY <3>1, <3>2
    <3> QED
      BY <3>3
  <2> QED
    BY <2>1, <2>2
<1>14. F = SUBSET S
  <2> HIDE DEF F
  <2>1. F \in SUBSET SUBSET S
    BY DEF F
  <2> QED
    BY <1>1, <1>13, <2>1, AllSubsets
<1>15. \A s \in SUBSET S : Adder(f)[s] \in Int
  BY <1>14
<1> QED
  BY <1>3, <1>12, <1>15

\* Sums are integers, and compare as their terms do.
LEMMA SumsCompare ==
  ASSUME NEW S, NEW f, NEW g, IntegersOn(f, S), IntegersOn(g, S), \A x \in S : f[x] <= g[x]
  PROVE  /\ SumFunction(f) \in Int /\ SumFunction(g) \in Int
         /\ SumFunction(f) <= SumFunction(g)
<1> DEFINE F == {T \in SUBSET S : Adder(f)[T] <= Adder(g)[T]}
<1> DEFINE Adds(h) == \A T \in SUBSET S :
             /\ Adder(h)[T] \in Int
             /\ T # {} => Some(T) \in T /\ Adder(h)[T] = h[Some(T)] + Adder(h)[T \ {Some(T)}]
<1>0. Adds(f) /\ Adds(g)
  <2>1. ASSUME NEW h, IntegersOn(h, S) PROVE Adds(h)
    <3>1. /\ \A T \in SUBSET S : Adder(h)[T] \in Int
          /\ \A T \in SUBSET S : T # {} =>
               /\ Some(T) \in T
               /\ Adder(h)[T] = h[Some(T)] + Adder(h)[T \ {Some(T)}]
      BY <2>1, AdderAdds
    <3> QED
      BY <3>1
  <2> HIDE DEF Adds
  <2> QED
    BY <2>1
<1>1. ASSUME NEW T \in SUBSET S, \A x \in T : T \ {x} \in F
      PROVE  T \in F
  <2>1. CASE T = {}
    <3>1. Adder(f)[T] = 0 /\ Adder(g)[T] = 0
      BY <2>1, AdderAdds
    <3> QED
      BY <3>1
  <2>2. CASE T # {}
    <3> DEFINE x == Some(T)
    <3>1. x \in T /\ Adder(f)[T] = f[x] + Adder(f)[T \ {x}]
      BY <1>0, <2>2
    <3>2. Adder(g)[T] = g[x] + Adder(g)[T \ {x}]
      BY <1>0, <2>2
    <3> HIDE DEF x
    <3>3. /\ Adder(f)[T \ {x}] \in Int /\ Adder(g)[T \ {x}] \in Int
          /\ f[x] \in Int /\ g[x] \in Int
      BY <1>0, <3>1 DEF IntegersOn
    <3>4. f[x] <= g[x] /\ Adder(f)[T \ {x}] <= Adder(g)[T \ {x}]
      BY <1>1, <3>1
    <3>5. Adder(f)[T] <= Adder(g)[T]
      BY <3>1, <3>2, <3>3, <3>4
    <3> QED
      BY <3>5
  <2> QED
    BY <2>1, <2>2
<1>2. F = SUBSET S
  <2> HIDE DEF F
  <2>1. F \in SUBSET SUBSET S
    BY DEF F
  <2> QED
    BY <1>1, <2>1, AllSubsets DEF IntegersOn
<1>3. SumFunction(f) = Adder(f)[S] /\ SumFunction(g) = Adder(g)[S]
  BY SumIsAdder DEF IntegersOn
<1>4. Adder(f)[S] \in Int /\ Adder(g)[S] \in Int
  BY AdderAdds
<1> QED
  BY <1>2, <1>3, <1>4

\* A total is an integer and no more than the maximum.
LEMMA TotalsCompare ==
  ASSUME NEW scores \in Scores
  PROVE  /\ TotalRating(scores) \in Int /\ MaxTotalRating(DOMAIN scores) \in Int
         /\ TotalRating(scores) <= MaxTotalRating(DOMAIN scores)
<1> DEFINE top == [i \in DOMAIN scores |-> MaxScore]
<1>1. PICK keys \in SUBSET Items : scores \in [keys -> 1 .. MaxScore]
  BY DEF Scores
<1>2. IsFiniteSet(keys) /\ DOMAIN scores = keys /\ MaxScore \in Nat
  BY <1>1, SheetAssumption, FS_Subset
<1>3. IntegersOn(scores, keys) /\ IntegersOn(top, keys)
  BY <1>1, <1>2 DEF IntegersOn
<1>4. \A i \in keys : scores[i] <= top[i]
  BY <1>1, <1>2
<1>5. TotalRating(scores) = SumFunction(scores)
      /\ MaxTotalRating(DOMAIN scores) = SumFunction(top)
  BY DEF TotalRating, MaxTotalRating
<1> HIDE DEF top
<1> QED
  BY <1>3, <1>4, <1>5, SumsCompare

-----------------------------------------------------------------------------
\* Types.  What KeptInv leaves out are the scores and the sums of the rows.

RowTyped(row) == row.scores \in Scores /\ row.total \in Int /\ row.max \in Int

RowsTyped == \A e \in Evaluations : Signed(e) => RowTyped(evaluations[e])

\* What the raters' steps do to the row of an evaluation.
LEMMA RaterWrites ==
  ASSUME KeptInv, NEW r \in Ratings, RatingStep(r), NEW e \in Evaluations,
         evaluations'[e] # evaluations[e]
  PROVE  \/ /\ rating[r].pc = "insert" /\ evaluations[e] = Absent
            /\ rating[r].template \in Templates /\ rating[r].scores \in Scores
            /\ Signed(e)'
            /\ evaluations'[e].template = rating[r].template
            /\ evaluations'[e].scores = rating[r].scores
            /\ evaluations'[e].total = TotalRating(rating[r].scores)
            /\ evaluations'[e].max = MaxTotalRating(DOMAIN rating[r].scores)
         \/ /\ rating[r].pc = "rewrite" /\ rating[r].evaluation = e
            /\ Signed(e) /\ Signed(e)' /\ rating[r].scores \in Scores
            /\ evaluations'[e].template = evaluations[e].template
            /\ evaluations'[e].scores = rating[r].scores
            /\ evaluations'[e].total = TotalRating(rating[r].scores)
            /\ evaluations'[e].max = evaluations[e].max
<1> USE DEF KeptInv, Shape
<1>1. CASE InsertRating(r)
  <2>1. rating[r].template \in Templates /\ rating[r].scores \in Scores
    BY <1>1 DEF InsertRating, RatingShape, RatingReqs, Idle
  <2>2. PICK f \in Evaluations :
          /\ evaluations[f] = Absent
          /\ evaluations' = [evaluations EXCEPT ![f] =
               [state |-> "written", template |-> rating[r].template,
                scores |-> rating[r].scores, total |-> TotalRating(rating[r].scores),
                max |-> MaxTotalRating(DOMAIN rating[r].scores)]]
    BY <1>1 DEF InsertRating
  <2>3. f = e
    BY <2>2 DEF EvaluationsShape
  <2> QED
    BY <1>1, <2>1, <2>2, <2>3 DEF InsertRating, EvaluationsShape, Signed
<1>2. CASE Rewrite(r)
  <2> DEFINE f == rating[r].evaluation
  <2>1. f \in Evaluations /\ rating[r].scores \in Scores /\ rating[r].pc = "rewrite"
    BY <1>2 DEF Rewrite, RatingShape, RatingReqs, Idle
  <2>2. /\ Signed(f)
        /\ evaluations' = [evaluations EXCEPT ![f].scores = rating[r].scores,
                                              ![f].total = TotalRating(rating[r].scores)]
    BY <1>2 DEF Rewrite
  <2> HIDE DEF f
  <2>3. f = e
    BY <2>2 DEF EvaluationsShape
  <2>4. RowShape(evaluations[e])
    BY <2>1, <2>2, <2>3 DEF EvaluationsShape, Signed, Absent, Removed
  <2> QED
    BY <2>1, <2>2, <2>3, <2>4 DEF f, EvaluationsShape, RowShape, Signed
<1>3. CASE \/ BeginRating(r)
           \/ \E f \in Evaluations : BeginRevision(r, f)
           \/ RatingLost(r)
  BY <1>3 DEF BeginRating, BeginRevision, RatingLost
<1> QED
  BY <1>1, <1>2, <1>3 DEF RatingStep

LEMMA NextTyped == KeptInv /\ RowsTyped /\ [Next]_vars => RowsTyped'
<1> SUFFICES ASSUME KeptInv, RowsTyped, [Next]_vars, NEW e \in Evaluations, Signed(e)'
             PROVE  RowTyped(evaluations[e])'
  BY DEF RowsTyped
<1>1. CASE evaluations'[e] = evaluations[e]
  BY <1>1 DEF RowsTyped, RowTyped, Signed
<1>2. ASSUME NEW r \in Ratings, RatingStep(r), evaluations'[e] # evaluations[e]
      PROVE  RowTyped(evaluations[e])'
  <2>1. CASE rating[r].pc = "insert"
    BY <1>2, <2>1, RaterWrites, TotalsCompare DEF RowTyped
  <2>2. CASE rating[r].pc = "rewrite"
    BY <1>2, <2>2, RaterWrites, TotalsCompare DEF RowTyped, RowsTyped
  <2> QED
    BY <1>2, <2>1, <2>2, RaterWrites
<1>3. ASSUME NEW f \in Evaluations, Remove(f)
      PROVE  RowTyped(evaluations[e])'
  BY <1>1, <1>3 DEF Remove, Removed, Signed, KeptInv, Shape, EvaluationsShape
<1>4. CASE UNCHANGED evaluations
  BY <1>1, <1>4
<1> QED
  BY <1>2, <1>3, <1>4, <1>1
  DEF Next, Step, EditStep, BeginSave, ReadSource, ReadNumber, CreateDraft, StoreDraft,
      AnswerSave, BeginPublish, ReadCurrent, ReadMax, Promote, BeginDiscard, CountSigned, Discard, EditLost,
      vars

\* Every row and request is what it should be, the totals among them, whatever the
\* editors do at once.
THEOREM TypeCorrect == Spec => []TypeOK
<1>1. Init => KeptInv /\ RowsTyped /\ calm \in BOOLEAN
  BY InitKept DEF Init, RowsTyped, Signed, Absent
<1>2. KeptInv /\ RowsTyped /\ [Next]_vars => KeptInv' /\ RowsTyped'
  BY NextKept, NextTyped
<1>3. (calm \in BOOLEAN) /\ [Next]_vars => (calm \in BOOLEAN)'
  <2>1. Next => calm' \in BOOLEAN
    BY DEF Next
  <2>2. UNCHANGED vars => UNCHANGED calm
    BY DEF vars
  <2> QED
    BY <2>1, <2>2
<1>4. KeptInv /\ RowsTyped /\ calm \in BOOLEAN => TypeOK
  <2> SUFFICES ASSUME KeptInv, RowsTyped, calm \in BOOLEAN PROVE TypeOK
    OBVIOUS
  <2>1. ASSUME NEW e \in Evaluations
        PROVE  evaluations[e] \in Written \cup {Absent, Removed}
    BY DEF KeptInv, Shape, EvaluationsShape, RowShape, RowsTyped, RowTyped, Signed, Written
  <2>2. evaluations \in [Evaluations -> Written \cup {Absent, Removed}]
    BY <2>1 DEF KeptInv, Shape, EvaluationsShape
  <2> QED
    BY <2>2 DEF TypeOK, KeptInv, Shape, TemplatesShape, EditShape, RatingShape
<1> QED
  BY <1>1, <1>2, <1>3, <1>4, PTL DEF Spec

-----------------------------------------------------------------------------
\* The scores of an evaluation.

\* The scores on their way are for the items of a version that stays as it is: the
\* one that was published when they were asked for, or the one signed on.  The id
\* of a removed evaluation is not used again.
RatedOn ==
  \A r \in Ratings :
    /\ rating[r].pc = "insert" =>
         /\ templates[rating[r].template].status \in {"PUBLISHED", "ARCHIVED"}
         /\ DOMAIN rating[r].scores = templates[rating[r].template].items
    /\ rating[r].pc = "rewrite" =>
         /\ evaluations[rating[r].evaluation] # Absent
         /\ Signed(rating[r].evaluation) =>
              DOMAIN rating[r].scores = SheetOf(rating[r].evaluation)

RowFits(e) ==
  LET row == evaluations[e]
  IN  /\ row.scores \in Scores
      /\ DOMAIN row.scores = templates[row.template].items
      /\ row.total = TotalRating(row.scores)
      /\ row.max = MaxTotalRating(DOMAIN row.scores)

RowsFit == \A e \in Evaluations : Signed(e) => RowFits(e)

\* The template of a signed evaluation.
LEMMA SignedTemplate ==
  ASSUME KeptInv, NEW e \in Evaluations, Signed(e)
  PROVE  /\ evaluations[e].template \in Templates
         /\ templates[evaluations[e].template].status \in {"PUBLISHED", "ARCHIVED"}
<1>1. evaluations[e].template \in Templates
  BY DEF KeptInv, Shape, EvaluationsShape, RowShape, Signed, Absent, Removed
<1> QED
  BY <1>1 DEF KeptInv, SheetKept

LEMMA EditorsFit ==
  ASSUME KeptInv, IssuedStay, UNCHANGED <<evaluations, rating>>, RatedOn, RowsFit
  PROVE  RatedOn' /\ RowsFit'
<1>1. ASSUME NEW e \in Evaluations, Signed(e)
      PROVE  SheetOf(e)' = SheetOf(e)
  BY <1>1, SignedTemplate DEF IssuedStay, Immutable, SheetOf
<1>2. ASSUME NEW r \in Ratings, rating[r].pc = "insert"
      PROVE  /\ templates'[rating[r].template].status \in {"PUBLISHED", "ARCHIVED"}
             /\ templates'[rating[r].template].items = templates[rating[r].template].items
  <2>1. rating[r].template \in Templates
    BY <1>2 DEF KeptInv, Shape, RatingShape, RatingReqs, Idle
  <2> QED
    BY <1>2, <2>1 DEF RatedOn, IssuedStay, Immutable
<1>3. ASSUME NEW r \in Ratings, rating[r].pc = "rewrite"
      PROVE  rating[r].evaluation \in Evaluations
  BY <1>3 DEF KeptInv, Shape, RatingShape, RatingReqs, Idle
<1>4. RatedOn'
  BY <1>1, <1>2, <1>3 DEF RatedOn, Signed
<1>5. RowsFit'
  BY <1>1 DEF RowsFit, RowFits, Signed, SheetOf
<1> QED
  BY <1>4, <1>5

LEMMA RatersFit ==
  ASSUME KeptInv, NEW r \in Ratings, RatingStep(r), RatedOn, RowsFit
  PROVE  RatedOn' /\ RowsFit'
<1>1. templates' = templates
  BY DEF RatingStep, BeginRating, InsertRating, BeginRevision, Rewrite, RatingLost
<1>2. ASSUME NEW e \in Evaluations, Signed(e)' PROVE RowFits(e)'
  <2>1. CASE evaluations'[e] = evaluations[e]
    BY <1>1, <1>2, <2>1 DEF RowsFit, RowFits, Signed
  <2>2. CASE evaluations'[e] # evaluations[e] /\ rating[r].pc = "insert"
    BY <1>1, <2>2, RaterWrites DEF RatedOn, RowFits
  <2>3. CASE evaluations'[e] # evaluations[e] /\ rating[r].pc = "rewrite"
    BY <1>1, <2>3, RaterWrites DEF RatedOn, RowsFit, RowFits, SheetOf
  <2> QED
    BY <2>1, <2>2, <2>3, RaterWrites
<1>3. ASSUME NEW e \in Evaluations
      PROVE  /\ evaluations[e] # Absent => evaluations'[e] # Absent
             /\ evaluations[e] # Absent /\ Signed(e)' =>
                  Signed(e) /\ evaluations'[e].template = evaluations[e].template
  BY RaterWrites DEF Signed, Absent
\* The other requests are as they were; this one has ended or has begun.
<1>4. ASSUME NEW q \in Ratings, rating'[q] = rating[q]
      PROVE  /\ rating'[q].pc = "insert" =>
                  /\ templates'[rating'[q].template].status \in {"PUBLISHED", "ARCHIVED"}
                  /\ DOMAIN rating'[q].scores = templates'[rating'[q].template].items
             /\ rating'[q].pc = "rewrite" =>
                  /\ evaluations'[rating'[q].evaluation] # Absent
                  /\ Signed(rating[q].evaluation)' =>
                       DOMAIN rating'[q].scores
                         = templates'[evaluations'[rating'[q].evaluation].template].items
  <2>1. rating[q].pc = "rewrite" => rating[q].evaluation \in Evaluations
    BY DEF KeptInv, Shape, RatingShape, RatingReqs, Idle
  <2> QED
    BY <1>1, <1>3, <1>4, <2>1 DEF RatedOn, SheetOf
<1>5. \A q \in Ratings : q # r => rating'[q] = rating[q]
  BY DEF RatingStep, BeginRating, InsertRating, BeginRevision, Rewrite, RatingLost, RatingEnds,
         KeptInv, Shape, RatingShape
<1>6. CASE rating'[r] = Idle
  BY <1>4, <1>5, <1>6, <1>2 DEF RatedOn, RowsFit, SheetOf, Idle
<1>7. CASE BeginRating(r)
  <2>1. PICK t \in Newest("PUBLISHED") : \E s \in [templates[t].items -> Marks] :
          rating'[r] = [pc |-> "insert", template |-> t, scores |-> s]
    BY <1>7 DEF BeginRating, KeptInv, Shape, RatingShape
  <2>2. PICK s \in [templates[t].items -> Marks] :
          rating'[r] = [pc |-> "insert", template |-> t, scores |-> s]
    BY <2>1
  <2>3. templates[t].status = "PUBLISHED" /\ DOMAIN s = templates[t].items
    BY DEF Newest
  <2> QED
    BY <1>1, <1>2, <1>4, <1>5, <2>2, <2>3 DEF RatedOn, RowsFit, SheetOf
<1>8. ASSUME NEW e \in Evaluations, BeginRevision(r, e)
      PROVE  RatedOn' /\ RowsFit'
  <2>1. PICK s \in [SheetOf(e) -> Marks] :
          rating'[r] = [pc |-> "rewrite", evaluation |-> e, scores |-> s]
    BY <1>8 DEF BeginRevision, KeptInv, Shape, RatingShape
  <2>2. evaluations' = evaluations /\ evaluations[e] # Absent /\ DOMAIN s = SheetOf(e)
    BY <1>8, <2>1 DEF BeginRevision, Signed, Absent
  <2> QED
    BY <1>1, <1>2, <1>4, <1>5, <2>1, <2>2 DEF RatedOn, RowsFit, SheetOf
<1>9. ASSUME InsertRating(r) \/ Rewrite(r) \/ RatingLost(r) PROVE rating'[r] = Idle
  BY <1>9 DEF InsertRating, Rewrite, RatingLost, RatingEnds, KeptInv, Shape, RatingShape
<1> QED
  BY <1>6, <1>7, <1>8, <1>9 DEF RatingStep

LEMMA NextFits ==
  ASSUME KeptInv, IssuedStay, RatedOn, RowsFit, [Next]_vars
  PROVE  RatedOn' /\ RowsFit'
<1>1. CASE UNCHANGED <<evaluations, rating>>
  BY <1>1, EditorsFit
<1>2. ASSUME NEW c \in Edits, EditStep(c) PROVE UNCHANGED <<evaluations, rating>>
  BY <1>2 DEF EditStep, BeginSave, ReadSource, ReadNumber, CreateDraft, StoreDraft, AnswerSave,
              BeginPublish, ReadCurrent, ReadMax, Promote, BeginDiscard, CountSigned, Discard,
              EditLost
<1>3. ASSUME NEW e \in Evaluations, Remove(e) PROVE RatedOn' /\ RowsFit'
  <2>1. /\ evaluations'[e] = Removed /\ UNCHANGED <<templates, rating>>
        /\ \A f \in Evaluations : f # e => evaluations'[f] = evaluations[f]
    BY <1>3 DEF Remove, KeptInv, Shape, EvaluationsShape
  <2>2. ~Signed(e)' /\ evaluations'[e] # Absent
    BY <2>1 DEF Signed, Removed, Absent
  <2>3. \A r \in Ratings : rating[r].pc = "rewrite" => rating[r].evaluation \in Evaluations
    BY DEF KeptInv, Shape, RatingShape, RatingReqs, Idle
  <2>4. RatedOn'
    BY <2>1, <2>2, <2>3 DEF RatedOn, SheetOf, Signed
  <2>5. RowsFit'
    BY <2>1, <2>2 DEF RowsFit, RowFits, Signed
  <2> QED
    BY <2>4, <2>5
<1> QED
  BY <1>1, <1>2, <1>3, RatersFit DEF Next, Step, vars

CalmFitInv == CalmInv /\ (calm => RatedOn /\ RowsFit)

\* Every evaluation is scored on exactly the items of the version it was signed on,
\* and its total is their sum and within the maximum of that version, whichever
\* supervisors write and edit and whatever the editors send at once, until two
\* saves meet or a request is overtaken (createEvaluation, updateEvaluation).
THEOREM ScoresFit == Spec => []RatingsFit
<1>1. Init => CalmFitInv
  <2>1. Init => RatedOn /\ RowsFit
    BY DEF Init, RatedOn, RowsFit, Signed, Absent, Idle
  <2> QED
    BY <2>1, InitCalm DEF CalmFitInv
<1>2. CalmFitInv /\ [Next]_vars => CalmFitInv'
  <2> SUFFICES ASSUME CalmFitInv, [Next]_vars PROVE CalmFitInv'
    OBVIOUS
  <2>1. CalmInv' /\ (calm' => IssuedStay)
    BY NextCalm DEF CalmFitInv
  <2>2. calm' => calm
    BY DEF Next, vars
  <2>3. calm' => RatedOn' /\ RowsFit'
    BY <2>1, <2>2, NextFits DEF CalmFitInv, CalmInv
  <2> QED
    BY <2>1, <2>3 DEF CalmFitInv
<1>3. CalmFitInv => RatingsFit
  BY TotalsCompare DEF CalmFitInv, RowsFit, RowFits, RatingsFit
<1> QED
  BY <1>1, <1>2, <1>3, PTL DEF Spec

=============================================================================

-------------------------- MODULE EvaluationSheet ---------------------------
(***************************************************************************)
(* The school's evaluation sheet as versioned templates, edited by the     *)
(* coordinators' requests, and the evaluations that supervisors write on   *)
(* it (evaluation-template.service.ts, supervisor.service.ts).             *)
(*                                                                         *)
(* templates and evaluations are the committed rows; edit and rating are   *)
(* the handlers in flight with what they have read.  The writes of one     *)
(* transaction take effect together, at its commit: where two transactions *)
(* write the same row the second waits for the first, or is aborted, and   *)
(* an abort is always possible here.  A sheet is the set of its item keys: *)
(* sections, wording and order are left out.                               *)
(***************************************************************************)
EXTENDS Integers, FiniteSets, Functions

CONSTANTS
  Templates,       \* ids a template row may get; an id is used once
  Items,           \* item keys: those that will ever be minted
  Evaluations,     \* ids an evaluation row may get
  Edits,           \* requests to the coordinator's sheet editor
  Ratings,         \* requests that write an evaluation
  NoTemplate,      \* no template
  MaxScore         \* top of the scale, 5 in the code

ASSUME SheetAssumption ==
  /\ Templates # {}
  /\ NoTemplate \notin Templates
  /\ IsFiniteSet(Items)
  /\ MaxScore \in Nat \ {0}

VARIABLES
  templates,     \* EvaluationTemplate rows with their items
  evaluations,   \* Evaluation rows with their scores
  edit,          \* the coordinators' requests
  rating,        \* the supervisors' requests
  calm           \* whether every step so far was a CalmStep (history)

vars == <<templates, evaluations, edit, rating, calm>>

\* ABSENT is an id that no row has yet, DELETED one that a row had.
TemplateStatuses == {"ABSENT", "DRAFT", "PUBLISHED", "ARCHIVED", "DELETED"}

TemplateRows == [status : TemplateStatuses, version : Nat, items : SUBSET Items]

Scores == UNION {[keys -> 1 .. MaxScore] : keys \in SUBSET Items}

Absent == [state |-> "absent"]
Removed == [state |-> "removed"]
Written == [state : {"written"}, template : Templates, scores : Scores,
            total : Int, max : Int]

Idle == [pc |-> "idle"]

\* Where a save, a publication or a discard is.
Saving == {"source", "number", "create", "store", "answer"}
Publishing == {"current", "max", "promote"}
Discarding == {"count", "discard"}

\* The template it read, the items it will store, the version and the outgoing
\* template it has read.
EditReqs == [pc : Saving \cup Publishing \cup Discarding,
             target : Templates \cup {NoTemplate}, items : SUBSET Items,
             version : Nat, outgoing : Templates \cup {NoTemplate}]

RatingReqs == [pc : {"insert"}, template : Templates, scores : Scores]
                \cup [pc : {"rewrite"}, evaluation : Evaluations, scores : Scores]

Exists(t) == templates[t].status \notin {"ABSENT", "DELETED"}

Signed(e) == evaluations[e].state = "written"

TypeOK ==
  /\ templates \in [Templates -> TemplateRows]
  /\ evaluations \in [Evaluations -> Written \cup {Absent, Removed}]
  /\ edit \in [Edits -> EditReqs \cup {Idle}]
  /\ rating \in [Ratings -> RatingReqs \cup {Idle}]
  /\ calm \in BOOLEAN

\* The migration that made the tables published version 1.
Init ==
  /\ \E t \in Templates, first \in (SUBSET Items) \ {{}} :
       templates = [u \in Templates |->
         IF u = t THEN [status |-> "PUBLISHED", version |-> 1, items |-> first]
         ELSE [status |-> "ABSENT", version |-> 0, items |-> {}]]
  /\ evaluations = [e \in Evaluations |-> Absent]
  /\ edit = [c \in Edits |-> Idle]
  /\ rating = [r \in Ratings |-> Idle]
  /\ calm = TRUE

-----------------------------------------------------------------------------
\* findByStatus: the newest row of a status; a set of at most one.
Newest(status) ==
  {t \in Templates : /\ templates[t].status = status
                     /\ \A u \in Templates : templates[u].status = status =>
                          templates[u].version <= templates[t].version}

\* The highest version of a set of rows, as the transaction reads it.
IsHighest(v, rows) ==
  /\ \A t \in rows : Exists(t) => templates[t].version <= v
  /\ \/ v = 0
     \/ \E t \in rows : Exists(t) /\ templates[t].version = v

\* The unique index on version.
VersionFree(v, t) == \A u \in Templates \ {t} : Exists(u) => templates[u].version # v

\* A key is minted with random bytes, so it is like no other.
Fresh(i) ==
  /\ \A t \in Templates : i \notin templates[t].items
  /\ \A c \in Edits : edit[c] # Idle => i \notin edit[c].items
  /\ \A e \in Evaluations : Signed(e) => i \notin DOMAIN evaluations[e].scores

\* resolveDraft: any keys of the source, each once, and new ones.
Sheets(known) == {s \in SUBSET Items : s # {} /\ \A i \in s : i \in known \/ Fresh(i)}

Request(pc, target, items) ==
  [pc |-> pc, target |-> target, items |-> items, version |-> 0, outgoing |-> NoTemplate]

Ends(c) == edit' = [edit EXCEPT ![c] = Idle]

-----------------------------------------------------------------------------
\* replaceDraft.

\* With a draft its keys are the known ones, and assertMutable sees this read.
BeginSave(c) ==
  /\ edit[c] = Idle
  /\ \/ /\ Newest("DRAFT") = {}
        /\ edit' = [edit EXCEPT ![c] = Request("source", NoTemplate, {})]
     \/ \E t \in Newest("DRAFT") : \E s \in Sheets(templates[t].items) :
          /\ templates[t].status = "DRAFT"
          /\ edit' = [edit EXCEPT ![c] = Request("store", t, s)]
  /\ UNCHANGED <<templates, evaluations, rating>>

\* Without one, those of the published sheet.
BrokenReadSource(c) ==   \* edits the published row in place
  /\ edit[c].pc = "source"
  /\ \E t \in Newest("PUBLISHED") : \E s \in Sheets(templates[t].items) :
       edit' = [edit EXCEPT ![c] = Request("store", t, s)]
  /\ UNCHANGED <<templates, evaluations, rating>>

ReadSource(c) ==
  /\ edit[c].pc = "source"
  /\ \E s \in Sheets(UNION {templates[t].items : t \in Newest("PUBLISHED")}) :
       edit' = [edit EXCEPT ![c] = Request("number", NoTemplate, s)]
  /\ UNCHANGED <<templates, evaluations, rating>>

\* The transaction that creates the draft reads the highest version ...
ReadNumber(c) ==
  /\ edit[c].pc = "number"
  /\ \E v \in {0} \cup {templates[t].version : t \in Templates} :
       /\ IsHighest(v, Templates)
       /\ edit' = [edit EXCEPT ![c].pc = "create", ![c].version = v + 1]
  /\ UNCHANGED <<templates, evaluations, rating>>

\* ... and inserts the row with its items, unless the version was taken.
CreateDraft(c) ==
  /\ edit[c].pc = "create"
  /\ \/ /\ VersionFree(edit[c].version, NoTemplate)
        /\ \E t \in Templates :
             /\ templates[t].status = "ABSENT"
             /\ templates' = [templates EXCEPT ![t] =
                  [status |-> "DRAFT", version |-> edit[c].version, items |-> edit[c].items]]
        /\ edit' = [edit EXCEPT ![c].pc = "answer"]
     \/ /\ ~VersionFree(edit[c].version, NoTemplate)
        /\ Ends(c)
        /\ UNCHANGED templates
  /\ UNCHANGED <<evaluations, rating>>

\* Replace the items of the row that was read, whatever its status is by now.
StoreDraft(c) ==
  /\ edit[c].pc = "store"
  /\ IF Exists(edit[c].target)
     THEN /\ templates' = [templates EXCEPT ![edit[c].target].items = edit[c].items]
          /\ edit' = [edit EXCEPT ![c].pc = "answer"]
     ELSE Ends(c) /\ UNCHANGED templates
  /\ UNCHANGED <<evaluations, rating>>

\* Read the draft again for the answer.
AnswerSave(c) ==
  /\ edit[c].pc = "answer"
  /\ Ends(c)
  /\ UNCHANGED <<templates, evaluations, rating>>

-----------------------------------------------------------------------------
\* publishDraft.

BeginPublish(c) ==
  /\ edit[c] = Idle
  /\ \E t \in Newest("DRAFT") :
       /\ templates[t].status = "DRAFT"
       /\ templates[t].items # {}
       /\ edit' = [edit EXCEPT ![c] = Request("current", t, {})]
  /\ UNCHANGED <<templates, evaluations, rating>>

\* The version that is to be archived: any published one.
ReadCurrent(c) ==
  /\ edit[c].pc = "current"
  /\ \/ \E t \in Templates :
          /\ templates[t].status = "PUBLISHED"
          /\ edit' = [edit EXCEPT ![c].pc = "max", ![c].outgoing = t]
     \/ /\ \A t \in Templates : templates[t].status # "PUBLISHED"
        /\ edit' = [edit EXCEPT ![c].pc = "max"]
  /\ UNCHANGED <<templates, evaluations, rating>>

BrokenOthers(t) == Templates   \* counts the draft's provisional number
Others(t) == Templates \ {t}

\* The highest version of the other templates.
ReadMax(c) ==
  /\ edit[c].pc = "max"
  /\ \E v \in {0} \cup {templates[t].version : t \in Templates} :
       /\ IsHighest(v, Others(edit[c].target))
       /\ edit' = [edit EXCEPT ![c].pc = "promote", ![c].version = v + 1]
  /\ UNCHANGED <<templates, evaluations, rating>>

BrokenPromoted(t, old, v) == [templates EXCEPT ![t].status = "PUBLISHED", ![t].version = v]

BrokenArchived(t, old, v) ==   \* drops the outgoing version
  [u \in Templates |->
     CASE u = t -> [templates[u] EXCEPT !.status = "PUBLISHED", !.version = v]
       [] u = old /\ u # t -> [status |-> "DELETED", version |-> 0, items |-> {}]
       [] OTHER -> templates[u]]

\* First the outgoing row is archived, then the draft promoted.
Promoted(t, old, v) ==
  [u \in Templates |->
     CASE u = t -> [templates[u] EXCEPT !.status = "PUBLISHED", !.version = v]
       [] u = old /\ u # t -> [templates[u] EXCEPT !.status = "ARCHIVED"]
       [] OTHER -> templates[u]]

\* Both rows must still be there and the version free, or the update fails.
Promote(c) ==
  /\ edit[c].pc = "promote"
  /\ IF /\ Exists(edit[c].target)
        /\ edit[c].outgoing # NoTemplate => Exists(edit[c].outgoing)
        /\ VersionFree(edit[c].version, edit[c].target)
     THEN templates' = Promoted(edit[c].target, edit[c].outgoing, edit[c].version)
     ELSE UNCHANGED templates
  /\ Ends(c)
  /\ UNCHANGED <<evaluations, rating>>

-----------------------------------------------------------------------------
\* discardDraft.

BeginDiscard(c) ==
  /\ edit[c] = Idle
  /\ \E t \in Newest("DRAFT") :
       /\ templates[t].status = "DRAFT"
       /\ edit' = [edit EXCEPT ![c] = Request("count", t, {})]
  /\ UNCHANGED <<templates, evaluations, rating>>

Unused(t) == \A e \in Evaluations : Signed(e) => evaluations[e].template # t

CountSigned(c) ==
  /\ edit[c].pc = "count"
  /\ IF Unused(edit[c].target)
     THEN edit' = [edit EXCEPT ![c].pc = "discard"]
     ELSE Ends(c)
  /\ UNCHANGED <<templates, evaluations, rating>>

\* The delete fails on a row that is gone or, by the foreign key of
\* Evaluation.templateId (onDelete: Restrict), on one with evaluations.
Deletable(t) == Exists(t) /\ Unused(t)

Discard(c) ==
  /\ edit[c].pc = "discard"
  /\ templates' = IF Deletable(edit[c].target)
                  THEN [templates EXCEPT ![edit[c].target] =
                          [status |-> "DELETED", version |-> 0, items |-> {}]]
                  ELSE templates
  /\ Ends(c)
  /\ UNCHANGED <<evaluations, rating>>

\* A crash, a timeout or a lost connection: the transaction rolls back.
EditLost(c) ==
  /\ edit[c] # Idle
  /\ Ends(c)
  /\ UNCHANGED <<templates, evaluations, rating>>

-----------------------------------------------------------------------------
\* Evaluations.  Who may write one (a COMPLETED student of the supervisor's
\* establishment, an author's own sheet) is settled before these steps.

RatingEnds(r) == rating' = [rating EXCEPT ![r] = Idle]

Marks == 1 .. MaxScore

\* createEvaluation: scores for exactly the items of the published sheet.
BeginRating(r) ==
  /\ rating[r] = Idle
  /\ \E t \in Newest("PUBLISHED") : \E s \in [templates[t].items -> Marks] :
       rating' = [rating EXCEPT ![r] = [pc |-> "insert", template |-> t, scores |-> s]]
  /\ UNCHANGED <<templates, evaluations, edit>>

TotalRating(scores) == SumFunction(scores)

MaxTotalRating(items) == SumFunction([i \in items |-> MaxScore])

\* The row must find its template (foreign key).  The maximum is that of the
\* sheet the scores were given on, and is frozen with it.
InsertRating(r) ==
  /\ rating[r].pc = "insert"
  /\ \/ /\ Exists(rating[r].template)
        /\ \E e \in Evaluations :
             /\ evaluations[e] = Absent
             /\ evaluations' = [evaluations EXCEPT ![e] =
                  [state |-> "written", template |-> rating[r].template,
                   scores |-> rating[r].scores, total |-> TotalRating(rating[r].scores),
                   max |-> MaxTotalRating(DOMAIN rating[r].scores)]]
     \/ /\ ~Exists(rating[r].template)
        /\ UNCHANGED evaluations
  /\ RatingEnds(r)
  /\ UNCHANGED <<templates, edit>>

\* The sheet that an edit of an evaluation is validated against.
BrokenSheetOf(e) ==   \* the current version instead of the signed one
  UNION {templates[t].items : t \in Newest("PUBLISHED")}
SheetOf(e) == templates[evaluations[e].template].items

\* updateEvaluation: scores for exactly the items of the version it was signed on.
BeginRevision(r, e) ==
  /\ rating[r] = Idle
  /\ Signed(e)
  /\ \E s \in [SheetOf(e) -> Marks] :
       rating' = [rating EXCEPT ![r] = [pc |-> "rewrite", evaluation |-> e, scores |-> s]]
  /\ UNCHANGED <<templates, evaluations, edit>>

\* All scores are replaced and the total with them; the maximum is not.
Rewrite(r) ==
  /\ rating[r].pc = "rewrite"
  /\ LET e == rating[r].evaluation
     IN  evaluations' = IF Signed(e)
                        THEN [evaluations EXCEPT ![e].scores = rating[r].scores,
                                                 ![e].total = TotalRating(rating[r].scores)]
                        ELSE evaluations
  /\ RatingEnds(r)
  /\ UNCHANGED <<templates, edit>>

\* removeEvaluation.
Remove(e) ==
  /\ Signed(e)
  /\ evaluations' = [evaluations EXCEPT ![e] = Removed]
  /\ UNCHANGED <<templates, edit, rating>>

RatingLost(r) ==
  /\ rating[r] # Idle
  /\ RatingEnds(r)
  /\ UNCHANGED <<templates, evaluations, edit>>

EditStep(c) ==
  \/ BeginSave(c) \/ ReadSource(c) \/ ReadNumber(c) \/ CreateDraft(c) \/ StoreDraft(c)
  \/ AnswerSave(c)
  \/ BeginPublish(c) \/ ReadCurrent(c) \/ ReadMax(c) \/ Promote(c)
  \/ BeginDiscard(c) \/ CountSigned(c) \/ Discard(c)
  \/ EditLost(c)

RatingStep(r) ==
  \/ BeginRating(r) \/ InsertRating(r)
  \/ \E e \in Evaluations : BeginRevision(r, e)
  \/ Rewrite(r)
  \/ RatingLost(r)

Step ==
  \/ \E c \in Edits : EditStep(c)
  \/ \E r \in Ratings : RatingStep(r)
  \/ \E e \in Evaluations : Remove(e)

-----------------------------------------------------------------------------
\* Nothing on the server keeps two requests of the sheet editor apart.  The page
\* sends one save at a time; everything else may meet, also from one page: a
\* confirmation closes on Escape while its request runs and can be clicked twice.

OneSave == \A c, d \in Edits : edit[c].pc \in Saving /\ edit[d].pc \in Saving => c = d

\* What a request has read as a draft is published; a publication only suffers once
\* there is another draft, or the sheet is archived again.
Overtaken(c) ==
  LET row == templates[edit[c].target]
  IN  \/ edit[c].pc \in {"store"} \cup Discarding /\ row.status \in {"PUBLISHED", "ARCHIVED"}
      \/ /\ edit[c].pc \in Publishing
         /\ \/ row.status = "ARCHIVED"
            \/ row.status = "PUBLISHED" /\ Newest("DRAFT") # {}

\* No request is overtaken by the step of another: one that itself goes for a
\* published sheet is no excuse.
CalmStep ==
  /\ OneSave'
  /\ \A c \in Edits : edit'[c] = edit[c] /\ ~Overtaken(c) => ~Overtaken(c)'

Next == Step /\ calm' = (calm /\ CalmStep)

Spec == Init /\ [][Next]_vars

-----------------------------------------------------------------------------
\* Properties.

\* One sheet is current and one may be in the making (schema.prisma,
\* EvaluationTemplate; the first invariant of EvaluationTemplateService).
AtMostOneOfEach ==
  \A t, u \in Templates :
    templates[t].status \in {"DRAFT", "PUBLISHED"} /\ templates[u].status = templates[t].status
      => t = u

\* So it is until two saves meet or a request is overtaken, however many editors
\* save, publish and discard in whatever order otherwise.
CalmOneOfEach == calm => AtMostOneOfEach

\* A published version keeps its items and its number, and can only be archived.
Immutable(t) ==
  templates[t].status \in {"PUBLISHED", "ARCHIVED"} =>
    /\ templates'[t].items = templates[t].items
    /\ templates'[t].version = templates[t].version
    /\ templates'[t].status \in {templates[t].status, "ARCHIVED"}

\* Nothing but an overtaken request, or one that met another save, breaks the
\* second invariant of EvaluationTemplateService: saves and discards beside a
\* publication, double clicks and editors on other pages do not.
CalmImmutable == [][calm' => \A t \in Templates : Immutable(t)]_vars

\* An evaluation is scored on exactly the items of the version it was signed on,
\* its total is their sum and cannot exceed the frozen maximum, which is that of
\* the version (createEvaluation, updateEvaluation), until a save is overtaken.
RatingsFit ==
  \A e \in Evaluations : calm /\ Signed(e) =>
    LET row == evaluations[e]
    IN  /\ DOMAIN row.scores = templates[row.template].items
        /\ row.total = TotalRating(row.scores)
        /\ row.max = MaxTotalRating(templates[row.template].items)
        /\ row.total <= row.max

\* The sheet of an evaluation exists and is no draft, however many editors and
\* supervisors work at once (discardDraft, onDelete: Restrict).
SheetKept ==
  \A e \in Evaluations :
    Signed(e) => templates[evaluations[e].template].status \in {"PUBLISHED", "ARCHIVED"}

\* The history that the rows stand for.
Issued == {t \in Templates : templates[t].status \in {"PUBLISHED", "ARCHIVED"}}

Versions == {templates[t].version : t \in Issued}

History == INSTANCE SheetHistory WITH
  sheets  <- [v \in Versions |-> UNION {templates[t].items : t \in
                                   {u \in Issued : templates[u].version = v}}],
  current <- IF \E t \in Issued : templates[t].status = "PUBLISHED"
             THEN CHOOSE v \in Versions :
                    \E t \in Issued : templates[t].status = "PUBLISHED" /\ templates[t].version = v
             ELSE 0,
  signed  <- [e \in Evaluations |->
                IF Signed(e) THEN templates[evaluations[e].template].version ELSE 0]

\* The rows and handlers implement a history of versions that only grows, until
\* two saves meet or a request is overtaken.
RefinesHistory ==
  /\ History!Init
  /\ [][calm' => History!Next \/ UNCHANGED History!historyVars]_vars

=============================================================================

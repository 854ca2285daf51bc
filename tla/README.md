# OJT Monitoring System: a TLA+ verification project

The repository is a web application for on-the-job training: students punch
their attendance, the supervisor of their establishment approves or declines
each punch, and a school coordinator manages students, supervisors,
establishments, documents, evaluation forms and reports.  The server is NestJS
(`src/app/server`), the client Next.js (`src/app/client`), the data live in
PostgreSQL through Prisma and in a Supabase object store.  `src/SYSTEM-FLOW.md`
describes the flows; the repository has one smoke test
(`src/app/server/test/app.e2e-spec.ts`), so nothing tests two requests at once.

Every handler is an async function.  Between two awaits any other request may
run, in the same process or in another one, and the database runs at READ
COMMITTED, so a row that was read may be stale when it is used.  Nothing in the
server is kept in memory between requests: all shared state is the database,
the object store and the clock.  That is the shape of every module of the
server: the committed rows are variables, a request is a record with a step
label and the values its handler holds in local variables, and each awaited
statement is one action.  On the client the shared state is localStorage and a
cookie, the caches of RTK Query and React state; there a step is an event
handler, an effect, or the arrival of an answer.

## 1. Inventory

| component | code (`src/app/server/src` unless named) | state | operations | hard behaviour | what makes it correct |
|---|---|---|---|---|---|
| Punch rules and hours | `common/attendance-hours.ts` | none | `punchAvailability`, hours, day status, last approved day | boundaries, rounding, declines in any order | a day stays in order without comparing clocks; figures agree |
| Live attendance and decisions | `student/student.service.ts`, `supervisor/supervisor.service.ts` | Attendance, AttendancePunch, Student.status | `punch`, `updateTodayRemarks`, `approvePunch`, `declinePunch`, `setStudentStatus` | stale student row, double taps, re-punch against decision, two approvals at once, timeouts, midnight | decisions are final; the crossing approval completes, and only it |
| Documents and object storage | `student/student.service.ts`, `common/storage.ts` | Document, stored objects | upload, replace, delete, download | four steps over two stores, crashes, concurrent replacements, deletion of the student | a row never points at a missing object; nothing is left behind |
| Evaluation templates | `evaluation-template/*` | EvaluationTemplate and its categories and criteria | save, publish, discard | races on the draft | one DRAFT, one PUBLISHED, a published version never changes |
| Evaluations and scoring | `supervisor/supervisor.service.ts`, `common/evaluation-scoring.ts` | Evaluation, EvaluationScore | create, update, remove | template published meanwhile | scores belong to the version signed; totals agree |
| Student records | `coordinator/coordinator.service.ts`, `common/courses.ts`, client `use-students.ts` | Student, User.name, the edit dialog | create, `updateStudent`, remove | lost updates, two rows without a transaction, old dialogs | hours follow the course; the names agree |
| Establishments | `establishment/*`, client `use-establishment.ts` | Establishment, Supervisor, the address form | create, update, add supervisor, remove | duplicate names, stale keys, React effects against answers | told apart by name and branch; one supervisor each; an address is one address |
| Accounts and mail | `common/accounts.ts`, `common/credentials.ts`, `mail/*` | User | create, resend credentials | username races, slow mail, two resends | unique usernames; the mail holds the stored password |
| Authentication and session | `auth/*`, client `lib/auth.ts`, `lib/api/baseQuery.ts`, `proxy.ts` | tokens, localStorage, role cookie | login, change password, logout, guards, routing | late answers of an old session, expiry, two tabs | nobody trapped, nobody put out or forced for another's sake |
| Messaging | `messages/*`, client `use-messaging.ts`, `messagesApi.ts` | Conversation, participants, messages, cached thread | find or create, send, read a page, count unread | concurrent first messages, polls against older pages | one conversation per pair; no hole; read means shown |
| Cascading deletes | `common/cascade-delete.ts` | all tables | remove student, supervisor, establishment | deletes against writes | nothing left behind |
| Reports | dashboards, oversight, DTR | none | read only | month windows, calendar days | the pages agree |
| Rendering, controllers, seeds | `common/*-pdf.ts`, `*.controller.ts`, `prisma/` | none | | | |

`PROJECT.json` lists each with its status and, under `hazards`, what is hard to
test in it and which property covers it.

## 2. Modules

| module | models | kind |
|---|---|---|
| `PunchRules` | the pure rules and hour figures of `attendance-hours.ts` | operators |
| `Attendance` | punches, remarks, decisions, completion and hand edits of one student | state machine |
| `TimeCard` | what attendance promises: a card of stamps and decisions | abstract specification |
| `Oversight` | what the reports say of the rows of `Attendance` | operators on its state |
| `SheetHistory` | what the evaluation sheet promises: versions that only grow | abstract specification |
| `EvaluationSheet` | the coordinators' draft, publication and discard, and evaluations on the versions | state machine |
| `DocumentShelf` | what a student's documents promise: a shelf of files that open | abstract specification |
| `Documents` | uploads, deletes and the deletion of the student over rows and objects | state machine |
| `Registry` | what the directory promises: keys and posts that single operations change | abstract specification |
| `Directory` | establishments and their supervisors | state machine |
| `StudentRecord` | a student's record and the dialogs it is edited from | state machine |
| `Accounts` | usernames, passwords, mails, what a token opens | state machine |
| `Messaging` | conversations and the page that shows one | state machine |
| `AddressForm` | the address form, its effects and its answers | state machine |
| `Session` | token, stored user and cookie, the proxy, requests of tabs and their answers | state machine |
| `MC*` | the instances: symmetry, labels, places | model checking |
| `*Proofs` | theorems about the module of that name; `AttendanceProofs` also about `Oversight`, `DirectoryProofs` also about `AddressForm` | proofs |

`Oversight` extends `Attendance`, so `MCAttendance` checks both together;
`RefinesTimeCard`, `RefinesHistory`, `RefinesShelf` and `RefinesRegistry`
instantiate the abstract specifications.
The other modules share no row that both would write, but for deletions: that
of a student is in `Documents` (rows and objects), `StudentRecord` (the row)
and `Messaging` (the memberships), that of an establishment in `Directory` (its
supervisors) and `StudentRecord` (its students).  `Accounts` keeps which
password opens what on the server, `Session` what the client does with the
token; a login of `Session` may therefore come with the flag or without it.

Operators named `Broken...` are the slips of the code that each property is
tried against; nothing uses them.

### Attendance and Oversight

One student is enough: two students share no row that a handler here writes.

| variable | code |
|---|---|
| `clock` | `new Date()`, in ticks; `DayOf` is the Manila calendar day |
| `student` | the Student row: status, establishment, required hours, start date |
| `dayRows` | Attendance rows, unique by day, with their remark |
| `punches` | AttendancePunch rows, unique by day and kind (`NONE` where absent) |
| `req`, `dec` | the handlers in flight: where they are and what they have read |
| `lock` | who holds the Student row `FOR UPDATE` |

| action | code |
|---|---|
| `BeginPunch`, `GetOrCreateDay`, `ReadPunches`, `StampPunch`, `WritePunch` | `punch`, await by await; the write is a compare-and-set on DECLINED or an insert that the unique index may refuse |
| `BeginRemark`, `GetOrCreateDay`, `WriteRemark` | `updateTodayRemarks` |
| `BeginDecision`, `LockStudent`, `ReadHours`, `DecidePunch`, `CheckCompletion`, `Commit` | `decidePunch`: ownership check, then the transaction; its writes are seen by others at `Commit` |
| `BeginStatus`, `WriteStatus` | `setStudentStatus` |
| `EditStudent` | `updateStudent` of the coordinator, as far as attendance can tell |
| `RequestLost`, `DecisionLost` | a lost connection, a crash, a transaction timeout (rollback) |
| `Tick` | time passes, so a handler may meet midnight |

Locks: an update of the Student row and the key lock that an insert of an
Attendance row takes on it wait for `FOR UPDATE`; an update of a punch row waits
for an uncommitted update of the same row (`RowLocked`).  A decision that waits
re-reads the row when it gets it, so its compare-and-set is evaluated then.

Abstractions: a tick is a fixed part of an hour (`TicksPerCent` to a hundredth,
the unit that `roundHours` rounds to); the supervisor of an establishment is
named by the establishment; `decidedAt` and the decline reason are left out,
because nothing reads them back.  `Reached` is `>=` written as the negation of
`<`, so that the proof about completion needs no fact about sums.

`Oversight` computes the coordinator's oversight (`PresentDays`, `TotalDays`
over `WindowStart .. WindowEnd`, with or without a month), the days of a DTR and
their hours from the committed rows as one read finds them.  A student without
a start date, whose window the code replaces, is left out.

`TimeCard` has no handlers, no lock and no rows of the day.  Its `card` is
`punches`, its `hours` the total that the code computes of them, `status` and
`required` those of the student.  `RefinesTimeCard` maps a `WritePunch` that
writes to `Punch`, `Commit` to `Decide`, the hand edits to `Edit`, and every
other step to a stutter.  The promise is in what those single moments may read:
a stamp was taken, and its rules were checked, some awaits before it is written,
and still it is the last on the card and in the order of its day; a decision
finds its punch PENDING at the commit; and the crossing is judged by the hours
and the requirement of that moment, though both were read earlier.  `TimeCard`
does not say what a punch is worth, only that no step but an approval moves the
hours, and that one never lowers them.  `liveness` checks it on one day, where
two decisions race; that a punch read before midnight and stamped after it still
fits is left to the theorem.

### EvaluationSheet and SheetHistory

| variable | code |
|---|---|
| `templates` | EvaluationTemplate rows: status, version, and the keys of their items |
| `evaluations` | Evaluation rows with their EvaluationScore rows, total and maximum |
| `edit` | the coordinators' handlers in flight: step, target, items, version, outgoing template |
| `rating` | the supervisors' handlers in flight: the template or evaluation they read, and the scores |

| action | code |
|---|---|
| `BeginSave`, `ReadSource` | `replaceDraft`: find the draft, else the published sheet; `resolveDraft` |
| `StoreDraft`, or `ReadNumber` and `CreateDraft`; `AnswerSave` | its transaction on the row that was read, or on a new row; the read for the answer |
| `BeginPublish`, `ReadCurrent`, `ReadMax`, `Promote` | `publishDraft`: find the draft; in the transaction read the published row and the highest version, then write |
| `BeginDiscard`, `CountSigned`, `Discard` | `discardDraft` |
| `BeginRating`, `InsertRating` | `createEvaluation` from its read of the published sheet on |
| `BeginRevision`, `Rewrite` | `updateEvaluation` |
| `Remove` | `removeEvaluation` |
| `EditLost`, `RatingLost` | a crash, a timeout, an aborted transaction |

The writes of a transaction take effect together, at its commit.  Two
transactions that write one row are serialised by its lock: `StoreDraft`
updates the template row before its items, so a second save waits and then
replaces what the first stored, and `Discard` either finds the new sections and
is aborted by their foreign key or deletes first and aborts the save.  The reads
of a transaction are actions of their own, because READ COMMITTED lets them grow
stale.  A nested read of a template with its items is taken as one read.

Abstractions: a sheet is the set of its item keys; sections, wording and printed
order are left out.  A minted key is new (three random bytes; a collision is not
modelled).  Authorship, the COMPLETED gate and the snapshotted header of an
evaluation come before `BeginRating` and are left to a composition with
`Attendance`.

Nothing on the server keeps two requests of the editor apart, and the model
does not either: requests save, publish and discard in any order beside each
other, from one page (`use-evaluation-template.ts`, `DraftSheetEditor.tsx`: only
the save button is held, and only while a save runs; a confirmation closes on
Escape while its request runs, and can be clicked twice) or from several.  What
that breaks is named by `CalmStep`: two saves at once (`OneSave`), or a request
that another one overtakes, which means that the draft it has read is published
before it writes (`Overtaken`).  A request that goes for a published sheet by its
own step is not excused.  The history variable `calm` says whether all steps so
far were calm; every property but `SheetKept` is stated while it is TRUE.  A save
or a discard beside a publication, and a second publication of the same draft,
are in those behaviours as long as the one that comes last finds its draft a
draft or gone.

`SheetHistory` keeps `sheets` (item sets by version), `current` and `signed`.
`RefinesHistory` maps, while `calm` holds, `sheets` to the rows that are
PUBLISHED or ARCHIVED by
their version, `current` to the version of the published row, and `signed` to
the version of each evaluation's template.  Only `Promote` maps to `Publish`;
every other step of an editor is a stutter, a promise that fails as soon as a
draft shows in the history, a number is skipped, or an old sheet moves.

### Documents and DocumentShelf

| variable | code |
|---|---|
| `student` | the status of the Student row, or GONE |
| `documents` | Document rows by id, unique by requirement |
| `objects` | the paths of the store: not used yet, STORED, GONE |
| `request` | handlers in flight, with the paths and rows they have read |
| `faults` | how many things have gone wrong |

| action | code |
|---|---|
| `UploadStep` | `uploadDocument`: read the row, store the object, upsert the row, delete the previous object, or the new one in the catch |
| `DeleteStep` | `deleteDocument`: read the row, delete it, delete the object |
| `RemoveStep` | `removeStudent` and the bulk delete with their recheck of the status, `deleteStudentCascade`, and the sweep of the listed objects after the commit |
| `EditStatus` | a status set by hand meanwhile |
| `RequestLost` | a crash between two steps |

A fault is a crash, a store or a database that refuses, or a reply of the
database that is lost after its commit.  `DocumentShelf` sees none of the steps:
its shelf holds what can be opened, a destroyed file never comes back, and only
a file that is off the shelf may be destroyed.

### Directory

`establishments` are rows with name, branch and the two key columns under the
unique index, `supervisors` the establishment of each Supervisor row, `request`
the handlers.  `BeginCreate`, `RecheckName`, `Insert` are `create`; `BeginHire`,
`RecheckVacancy`, `Hire` are `addSupervisor`; `BeginUpdate`, `CheckAvailable`,
`Rewrite` are `update`, where a field left out of the form keeps its column but
goes into the keys as it was read; `BeginRemove`, `ListSupervisors`, `Raze` are
`remove`, with the foreign key that aborts it; `RemoveSupervisor` is the
coordinator's.  A label is what was typed and the key it normalises to.

`Registry` keeps the key of each open establishment, the post of each
supervisor, and who is gone.  `RefinesRegistry` maps `Insert`, `Hire`, `Rewrite`,
`Raze` and `RemoveSupervisor` to `Open`, `Appoint`, `Rename`, `Close` and
`Dismiss`; the reads before them are stutters.  So no write may rest on what a
handler has read: a second hire that found no supervisor, an update of a row
that is gone, or a deletion that listed too few supervisors must be refused by
the index or the foreign key at that moment.

### StudentRecord

`student` is the Student row, `account` User.name, `living` the establishments,
`page` the dialogs, `faults` the lost requests.  `OpenDialog`, `CloseDialog` and
`Submit` are `handleEdit`, `closeDialog` and `handleSubmit` of `use-students.ts`
(the form is always sent whole); `Submit` is also the server's read;
`WriteName` and `WriteRecord` are the two writes of `updateStudent`, in no
transaction; `Enroll` is `createStudent`, `Raze` the deletion of an
establishment, `Remove` that of the student.  Year level and hours go together,
as in `courses.ts`.

### Accounts

`users` are rows with username, password, must-change flag and mail status,
`inbox` the password in the last mail that arrived, `tokens` what each user's
sessions may do, `request` the handlers; `chose` and `proved` are history.
`BeginCreate`, `PickName`, `CreateAccount`, `Refuse` are `issueNewAccount` with
`createWithGeneratedUsername`; `BeginReissue`, `StorePassword` are
`reissuePassword`; `Mail`, `WriteStatus` are `deliverCredentials`; `Login`,
`BeginChange`, `Change` are those of `AuthService`.  All creations want the same
base name, the case that races.  Log mode, where no mail is sent, is left out.

### Messaging

| variable | code |
|---|---|
| `conversation` | Conversation and ConversationParticipant rows: the members and their `lastReadAt` |
| `messages`, `sending` | Message rows that others can read; those stamped and not inserted yet |
| `clock`, `reached` | the instant of the last stamp; the newest stamp that was ever readable (history) |
| `creating`, `removing` | handlers of `findOrCreateConversation`, and of a deletion |
| `fetch`, `cursor`, `list` | RTK Query's entry of a thread: its request, the `before` it was last asked for with, the merged list |
| `page`, `seen` | `useMessaging`'s state; what ever was in a list (history) |

| action | code |
|---|---|
| `FindConversation`, `CreateConversation` | `findOrCreateConversation`: the look-up, and the insert with its foreign keys |
| `Send`, `Insert` | `sendMessage`: the check and the stamp `now()`, and the row that becomes readable |
| `ReadPage`, `MarkRead` | `getMessages`: the page, of those before the cursor if there is one; `lastReadAt` |
| `BeginRemove`, `Remove` | `deleteMessagingFootprint` in the transaction of its user's deletion |
| `SelectConversation`, `LeaveMessages`, `LoadOlder`, `Growth` | the hook's handlers |
| `Poll`, `Merge`, `FetchLost`, `GiveUp`, `Expire` | the cache's: a repeated request, its answer, its failure, the end of the entry |

All pages of a thread share one cache entry (`serializeQueryArgs`,
`messagesApi.ts:92`).  RTK Query keeps one request for an entry at a time, keeps
the arguments of the last one there, repeats them in every poll and in the
refetch after a send (`Ask`, `Poll`), and drops an entry that nobody shows after
a while (`Expire`); its source is not in the repository, so these are external in
the map.  So after a click on "Load older" every poll has the cursor of that
page until the thread is opened anew (`forceRefetch`), and `list` gets nothing
from those polls while `MarkRead` goes on.

Time is counted in instants, and `Ms` gives the millisecond of each, which is
all that `createdAt` keeps: cursors, marks and the order of a page compare
milliseconds, and a page that ends inside one has any of its messages.  A
message is in `sending` between its stamp and its commit, so it may become
readable after messages with a later stamp, or never.  A row that refers to a
user whose deletion is under way makes that deletion fail (`Affects`), at once
here and at the deletion's end in the code.

### AddressForm

`stored` and `listed` are the address columns and the page's copy of them,
`dialog` the form (names and picks), `options` what each select offers, `ran`
what the effects last saw and `isPopulatingRef`, `call` the mutation in flight.
`RunEffects` is one pass of the four effects; `OpenEdit` is `handleEdit`,
`Pick` a select, `Submit`, `Answered`, `Refuse` the submission, `Refresh` the
refetched list.  The address list is an external package, here a tree of places.

No select is required, and a name that is empty is not sent.  `Written` leaves
such a column as it was, on the server; `halved` is a history variable with the
rows that a request wrote with a name left out that the row had, or one left out
above a name that was given (`Halves`).  Rows from before the run have an
address of `Before`, whose last names may be missing.

### Session

| variable | code |
|---|---|
| `tokens`, `issued`, `live` | what each JWT says, how many there are, which have not expired |
| `store` | localStorage: token and user with the flag, shared by the tabs |
| `cookie` | the role cookie, by the token it was set with |
| `tab` | of each tab: page, where it is going and whether by a load, a query and a form in flight with the token they carry |

| action | code |
|---|---|
| `Hop` | one request of a page through `proxy.ts`, a redirect or the page |
| `Visit` | an address typed, a reload |
| `Query`, `QueryAnswered` | a poll with the token of that moment; `baseQueryWithAuth`: 401 ends the session, 403 PASSWORD_CHANGE_REQUIRED marks it |
| `SubmitLogin`, `ServeLogin`, `LoginAnswered` | `handleSubmit` of the login page, `AuthService.login`, `persistSession` and `router.push` |
| `SubmitChange`, `ServeChange`, `ChangeAnswered` | the dialog's `handleSubmit`, `changePassword`, `persistSession` and the reload of a forced one |
| `FormRefused`, `FormFails` | a 401; any other error |
| `Logout` | `handleLogout` of the Sidebar |
| `ExpireToken`, `ExpireCookie` | `expiresIn`, `Max-Age` |

Passwords are right or wrong, a role has one page, a tab one query and one form
in flight.  A page that is pushed keeps its requests, one that is loaded drops
them.  That a cookie does not die before its token is an assumption, the guard
of `ExpireCookie`, and is checked nowhere: it is set after the token was issued,
for 24 hours (`SESSION_MAX_AGE_SECONDS`, `lib/auth.ts:56`), and the token lasts
one day (`expiresIn`, `auth.module.ts:17`).  The model lets it live on for any
time after that.

## 3. Runs

| run | bounds | shows |
|---|---|---|
| `serial` | one day of three ticks, one punch and one decision at a time, all kinds | order of a day (`SequentialSessions`), `HoursFitTheDay` |
| `twodays` | two days of two ticks that are two months, a punch may cross midnight, a start date that moves | `PendingPromise`; `PercentageFits`; the pages of the roles agree (`MonthsAddUp`) |
| `liveness` | a punch and two decisions, a hand edit, half-hundredth ticks, fairness | `AutoCompletion`, `RefinesTimeCard`, `RequestsEnd` |
| `sheet` | three templates, two items, one evaluation, two requests of editors and one of a supervisor, scale 1 to 2 | `CalmOneOfEach`, `CalmImmutable`, `SheetKept`, `RatingsFit`, `RefinesHistory` |
| `shelf` | two requirements, two row ids, three paths, two requests, one fault | `NeverDangling`, `NothingLeftBehind`, `TurnsLeaveNoOrphans`, `RefinesShelf` |
| `directory` | two establishments, two supervisors, two requests, one name typed two ways, with and without a branch | `LabelsStayApart`, `RefinesRegistry` |
| `records` | two pages, two courses and an old one, one establishment, two names, one lost request | `PlacedAlive`, `TurnsKeepHours`, `TurnsKeepNames`, `ShownIsStored` |
| `accounts` | two accounts, two requests, two attempts, three passwords, one lost request | `NamesApart`, `RefusedOnlyAfter`, `PlainOnlyAfterChange`, `TurnsMailTrue`, `TurnsChangeProved` |
| `messages` | a student with two messages and a supervisor with one, who watches; one thread, one creation at a time, four instants of which two share a millisecond, pages of one | `OlderPageApart`, `TurnsOnePerPair`, `TurnsReadWasShown`, `TurnsNoHole`, `TurnsNothingHidden` |
| `address` | two establishments alike, one older address with a province and no city, two submissions, two chains of places whose cities share a name | `AddressNests`, `SentIsShown` |
| `session` | two tabs of which one is used, two roles, two tokens, fairness | `LoginReached`, `ChangeAsked`, `TurnsForcedRight`, `TurnsSessionSteady` |
| `mistyped` | one tab, one user | the finding below |

*Properties of the form `[]P => []Q`* (their names begin with `Turns`, and
`LabelsStayApart`) say what holds in every behaviour whose schedule is calm in
the sense of P: requests that take turns, a poll that keeps up, no request that
outlives its session.  (In `sheet` the history variable `calm` does the same step
by step, so that its step properties may depend on it.)  P is about requests in
flight and the order in which their writes are seen, never about what Q says of
the rows, and the model does not enforce it: the racing behaviours are in the
same instance.  Section *Known disagreements* says what the races do.

*Why the bounds are enough.*  The rules of a day look at four punches and three
statuses; `serial` lets every punch be declined and repeated any number of times
within three ticks, so each kind can be stamped before, with or after each other.
The races of decisions are between pairs: two approvals of the two halves of a
session, or an approval and an edit.  A sum over days needs two of them, and a
month of one day makes two days two months.  `MaxClock` bounds only the clock:
it stops, and every other action goes on.  Three templates are the archived, the
published and the draft one; two items let a sheet gain, lose and keep an item.
Three paths let an object be replaced while another upload is on its way.  Two
establishments and one name typed two ways are one collision; a third could
only collide with one of them.  Three messages over pages of one give a newest
page, an older one and a message that comes in between, late, or in the
millisecond of another; one watcher is enough because a list belongs to its
browser.  With one creation at a time `messages` checks `TurnsOnePerPair`
against deletions only, and its second conversation is never used; the theorem
has any number of creations.  In `address` two chains whose cities have one name
are what lets a look-up by name find the wrong place, and the older address
without a city what leaves the select of the city as it was.  In `sheet` two
editors' requests are what a save and a publication, or two publications, take;
a third could only overtake one of them.  In `session` the
second tab moves and polls but has no user, which is how late answers of an old
token come about; the theorems cover any number of tabs that are used.
The liveness properties and those of the form `[]P => []Q` forbid symmetry; only
`sheet` and `address` declare it.

`CHECK_DEADLOCK FALSE` stands where the system may stop: ids, passwords,
messages, submissions or tokens run out, or the student is gone.

*Fairness.*  `FairSpec` of `Attendance` asks strong fairness of each handler's
own steps: the event loop resumes a handler whose awaited statement has
answered, and PostgreSQL serves the waiters of a row lock in turn, so a step
that is enabled again and again is taken.  `FairSpec` of `Session` asks it of
the tabs in use only: pages arrive (weak), and polls are sent and answered
(strong, since somebody may reload for ever): a tab polls while it has the
focus.  Nothing is asked of the arrival of requests, of the clock, of edits, of
losses or of what users do.

### Finding

- `mistyped` (a bug of the code): a wrong current password in the forced dialog
  ends the session.  The dialog promises Log out "as the only other way out"
  (`ChangePasswordDialog.tsx:17-19`); `changePassword` answers 401
  (`auth.service.ts:150-153`), and `baseQueryWithAuth` (`baseQuery.ts:55-69`)
  takes every 401 but that of the login for a dead session.

### Known disagreements

Met while modelling; most are the behaviours that a premise above excludes.

Attendance:

- A refused punch leaves the row of its day (`student.service.ts:193`), which
  `totalLogs` and `presentToday` count, against the comment at `:156`.
- Two punches in flight (two tabs) break the order of a day that
  `attendance-hours.ts:219` promises; `OnePunchAtATime` is the client's rule.
- After a declined PM In its PM Out still stands, and a morning punch may be
  stamped later (`attendance-hours.ts:246`).  No hours are counted twice.
- A punch whose handler has read the student row is recorded after the row says
  COMPLETED (`student.service.ts:187`); its day and its time are two readings of
  the clock (`:210`).
- The coordinator's count of pending punches includes those of COMPLETED
  students, which no supervisor's page shows.  Both dashboards start their week
  on the UTC day (`coordinator.service.ts:1229`, `supervisor.service.ts:1057`),
  against `dates.ts:9-11`.

Documents and deletions:

- The catch of an upload takes a lost reply of the upsert for a refusal and
  deletes the new object (`student.service.ts:394`), so that the row points at
  nothing, against `:359-361`.  `NeverDangling` holds without lost replies.
- The bulk delete checks the status again without a lock
  (`coordinator.service.ts:1155-1163`).
- A DTR in the ZIP is blank if the student is deleted between its two queries.

Evaluations:

- Two saves at once leave two drafts (`evaluation-template.service.ts:209`), and
  two publications that then take one each leave two published sheets.
- A save that a publication overtakes rewrites the items of the published version
  (`:221`), against `:73-83`; evaluations signed on it in between keep scores for
  items that it no longer has, and their maximum.  A discard that is overtaken
  deletes a published version that nobody has signed on.  One page can do both:
  the confirmation of a publication closes on Escape while it runs, and Save and
  Discard are not held by it; nor is Publish by a save that runs without changes.
- The modal that edits an old evaluation drafts it on the current sheet's items
  (`use-evaluations.ts:209`), while the server validates it on its own version.
- What is typed into the sheet editor during a save or refetch is overwritten.

Records and accounts:

- Two edits at once leave the hours of another course (`courses.ts:4-5`), and an
  old dialog sets a completed student ACTIVE again (`use-students.ts:129`).
- Of two resends at once the last mail need not hold the stored password, and a
  mail given up after 25 s may still land (`accounts.ts:276`).

Messaging:

- Two first messages at once make two conversations
  (`messages.service.ts:245-282`), and two deletions at once leave one empty
  (`cascade-delete.ts:38`).
- After one click on Load older every poll, and the refetch after a message of
  one's own, repeats its cursor until the thread is left: it brings nothing new
  and marks the thread as read, against "polled every 3s, no `before`"
  (`messagesApi.ts:84-85`).  The badge then says nothing of what came in meanwhile.
  What such a poll brings is in the list already or, after a message that came
  in late, new, against "Always strictly older" (`:97`).
- Once the message of the cursor is deleted with its sender, each of those polls
  is a 400 (`messages.service.ts:303`).
- A message between the page and the mark, or one stamped before the mark and
  inserted after it, counts as read unseen (`messages.service.ts:318`).
- Of messages in one millisecond at the edge of a page some are never shown,
  because the next page is strictly older (`lt`, `:313`); nor is a message that
  comes in late below what the list begins or a full page ends with.
- Before the first older page the button shows only for a list of exactly one page
  (`use-messaging.ts:94`): a message that comes in hides it.
- A click on Load older that crosses a poll or a change of thread hides the
  button (`use-messaging.ts:92-120`); a late answer to a sent message empties
  the draft of the thread opened meanwhile.

Address form:

- An address picked by half is stored with what the row had below, because an
  empty name is sent as `undefined` (`use-establishment.ts:266`): a new region with
  the old province, city and barangay.  The next dialog restores the mix, and
  picks in it go on from there; `AddressNests` and `SentIsShown` leave such rows
  out (`halved`), and say that no other row mixes.
- `handleEdit` leaves `selectedMunicipality` as it was when the row has no province.
- Picking the same region again clears the names below while their selects keep
  showing a place; an answer to a create that lands on an open edit dialog
  leaves `isPopulatingRef` set.

Session:

- A late 401 of an old token clears the session that has begun meanwhile; a late
  answer to a password change stores its session over a logout or another login;
  a late 403 of the old token forces the dialog on a user who has just changed.
- A logout keeps the document and with it the cached data, which the next user
  of the same role sees first (`Sidebar.tsx:54-64`).

## 4. Proofs

Every theorem holds for all values of the constants under the assumptions that
the module states on them; the premises that are added are named here.

`AttendanceProofs`:

- `TypeCorrect`: `Spec => []TypeOK`.
- `DecisionsAreFinal`: `Spec => DecisionsFinal`, also with many punches in flight
  (the runs check it as a part of `RefinesTimeCard`).  `TypeOK` is not enough: between
  its update and its commit a decision must still hold a PENDING punch that no
  other decision holds.  `RowsHeld` says so, and `NextRowsHeld` preserves it.
- `SessionsAreSequential`: `Spec => []SequentialSessions` when `OnePunchAtATime`
  holds.  `StampsInOrder` strengthens it: the one punch in flight is not before
  any standing punch, and the rules it was admitted by still hold or have been
  made weaker by a decline (`MayPunchOrder`).
- `AutoCompletionHolds`: `Spec => AutoCompletion`.  `LockHeld` says that an
  approval holds the student row from its first read to its commit; `ReadsStand`
  says that what it has read still holds.  No fact about sums is needed here:
  `HoursOfApproved` shows that the total depends on the approved punches alone,
  so a step that keeps those keeps the hours.
- `HoursFit`: `Spec => []HoursFitTheDay` when `OnePunchAtATime` holds.  The order
  of the day (`StampsInOrder`) is all it takes: the two sessions of the day do not
  overlap, and the approved ticks are a sum over them.
- `PromiseKept`: `Spec => []PendingPromise`, of every well-typed state.  A day
  whose waiting punches are approved has the ticks that it has now and those the
  pending figure counts (`TotalOfSums`); `RoundsTogether` bounds what rounding two
  figures instead of one can lose.
- `PagesAgree`: `Spec => []MonthsAddUp`, for months of any length.  `TypeOK` is
  not enough, since a punch on a day to come would be in a month and not in the
  window: `DaysReached` says that the day of a punch, and that of a request in
  flight, is not after today.  `MonthOfDay` gives each day its one month,
  `TotalOfUnion` and `FiguresAddUp` add the months up.
- `PercentagesFit`: `Spec => []PercentageFits`, from `TypeCorrect`: the days of
  presence are a subset of an interval of integers, which has `TotalDays` members
  or none.

- `AttendanceRefinesTimeCard`: `Spec => RefinesTimeCard` when `OnePunchAtATime`
  holds.  Its invariant `CardInv` puts the others together and adds `LastStamp`:
  a punch about to be written has the latest time of the card.  `WriteIsPunch`,
  `CommitIsDecision` and `StepOfCard` map the steps.  The hours need facts about
  figures, not only about which punches are approved: they are numbers
  (`HoursAreNat`), and an approval never lowers them (`ApprovalsAdd`, from
  `TotalGrows` over the days and `RoundsGrow` for the rounding).

The sums of the code are folds of the community modules over a set.  The
library's induction theorems take a predicate as a parameter, which the provers
cannot instantiate; sets take its place.  `AllNumbers` (a set of numbers with 0 and every
successor has them all: its complement would have a least member) and
`AllSubsets` (likewise for the subsets of a finite set) are the inductions,
`AdderAdds` shows by the first that the fold adds a member at a time, `TotalAdds`,
`TotalOfUnion` and, for scores, `SumsCompare` follow by the second.  The section
stands in `AttendanceProofs` and again in `EvaluationSheetProofs`, since each extends
its own component.

`EvaluationSheetProofs`:

- `SheetsAreKept`: `Spec => []SheetKept`, with any number of editors at once.
  `RatedSheetIssued` strengthens it: a sheet that is being filled in has been
  published, so it may be deleted before the evaluation is inserted but never
  becomes a draft.  `StatusMoves` sums up what an editor's step can do.
- `OneOfEach` and `VersionsStay`: `Spec => []CalmOneOfEach` and `Spec =>
  CalmImmutable`, for any number of requests.  `ReadsHold` says that what a request
  has read is still so, but for what those beside it may do in a calm behaviour:
  a discard may have deleted the draft under a save or a publication, and a second
  publication of the same draft finds it promoted already, under the number that
  it computes itself (`HighestUnique`).  `CalmStays` says that no request is
  overtaken but by another's step, and `CalmInv` is preserved by every step, with
  `calm` and without.
- `SheetsRefineHistory`: `Spec => RefinesHistory`.
  `HistoryInv` is what makes the mapping to versions well defined, and it is
  preserved only with `ReadsHold`: one sheet is current, no number is higher than
  its own, numbers tell published sheets apart, and no sheet is empty, nor one
  that a save is about to store.
- `ScoresFit`: `Spec => []RatingsFit`, with any number of editors and
  supervisors.  `RatedOn` says that a request in flight carries scores for exactly
  the items of the version it is for, which is published or archived by then;
  `RowsFit` that a row has the sums of its scores.  The maximum bounds the total
  score by score (`TotalsCompare`).
- `TypeCorrect`: `Shape`, which the others rest on, is `TypeOK` without the type
  of the totals; `RowsTyped` adds it, from the lemmas about sums.  It is why
  `SheetAssumption` has that the item keys are finitely many: a run of the
  program mints no more.

`DocumentsProofs`: `TypeCorrect`; `RowsOpen` (`NeverDangling`), `NothingStays`
(`NothingLeftBehind`) and `DocumentsRefineShelf` (`RefinesShelf`) when "reply"
is not among the faults, with any number of handlers and of other faults.
`ShelfSound` is their invariant: an object that a handler will delete is not on
the shelf or is about to leave it, and a path that an upload has stored is its
own until the row points at it.  `TurnsClean` (`TurnsLeaveNoOrphans`) holds with
every kind of fault among `Faults`, since its premise is that none has happened:
`Tidy` says that what the one request at work has read is still so
(`ReadsStill`), and that an object off the shelf is one that this request will
put there or delete (`Owes`).

`DirectoryProofs`: `TypeCorrect`; `SupervisorsPlaced` and `SupervisorAlone` from
`Staffed`, that supervisors are at distinct living establishments (the run checks
both as a part of `RefinesRegistry`);
`LabelsToldApart` (`LabelsStayApart`) from `Told`: while updates that leave a
field out take turns, the keys of a row are those of its label, also in the
update that is under way.  `DirectoryRefinesRegistry` is `Spec => RefinesRegistry`,
with no premise: of `Staffed` it takes that a supervisor's establishment exists,
so that a new one has nobody yet, and the rest is what the index and the foreign
key ask at the commit.

`DirectoryProofs` on `AddressForm` (it extends both modules, which share no name):
`FormTypeCorrect`; `AddressesNest` (`AddressNests`) and `SentAreShown`
(`SentIsShown`).  The last two have a premise on the address list, `NamesApart`:
it has no two regions, no two provinces, and in a province no two
cities of one name, because `handleEdit` looks places up by name; two barangays
of a city may share theirs.  Nothing is assumed of what users pick.  `Faithful`
is the invariant: the effects are about to
clear only selects that have no name to send (`Emptied`), a select offers what
is inside of the pick above it, of this render or the last (`Offered`), and two
names in a row belong to a place and the one around it; then what is written and
listed of a row that is not `halved` is the address of a place (`RowsNest`), which
is what the look-up of `OpenEdit` needs in turn.

`StudentRecordProofs`: `TypeCorrect`, which needs `FormsOffered` (a course in
flight is known); `StudentPlaced`; `HoursFollowCourse` (`TurnsKeepHours`), by
an invariant that what the one edit
in flight has read of the course still stands; `NamesStayAgreed`
(`TurnsKeepNames`), by one that between the two writes the account has the
name that the record will get.

`AccountsProofs`: `TypeCorrect`, where a free number for a username exists by
the pigeonhole principle; `NamesStayApart`, since whoever creates a name picked
it among the names that were there, and the index refuses the rest;
`PlainIsChosen` (`ChosenOK`: a plain token, a row without the flag and a change
in flight all stem from a password of the user's own); `ChangesProved`
(`ProvedOK`) and `MailStaysTrue` (`MailOK`: between its three steps a delivery
holds the password that is stored); `RefusalsAreLast` (`RefusedOnlyAfter`) from
`RefusalOK`, that a creation has seen a newcomer for every pick it has lost.

`MessagingProofs`, for any numbers of users, threads and messages and pages of
any length.  `MessagingAssumption` has that the users are finitely many (a pair
is a set of two), `AbsentAssumption` that `Absent` is no record.

- `TypeCorrect`: `Spec => []TypeOK`; that members and senders exist depends on the
  cascade of a deletion.
- `OlderPagesAreApart`: `Spec => []OlderPageApart`, with no premise.  `Older`: while
  an older page is under way its cursor is an oldest message of the list, the list
  has not grown since the click, and what was read lies before the cursor.  A poll
  that repeats a cursor is not such a page; it may overlap the list.
- `OnePerPairInTurns`: `Spec => TurnsOnePerPair`.  `Turns` adds that a creation
  runs only for two who share no thread (`Missing`) and that a deletion in flight
  has listed exactly the threads that it empties (`EmptiedKnown`); both are broken
  as soon as two of them run at once.
- `TurnsLeaveNoHole`: `Spec => TurnsNoHole`, that is, while the newest page keeps
  up (`KeepsUp`) and messages are readable in the order of their stamps
  (`~Belated`), the list skips no millisecond.  A list without a hole is not
  enough, since a page that is on its way could open one: `HolesClosed` says it of
  the list and of the list with that page.  `Reached` ties what a list or page
  holds to the newest stamp that was readable, so that a message that comes in
  later is not between two of them.
- `TurnsHideNothing`: `Spec => TurnsNothingHidden`, while clicks are not `Crossed` and
  nothing is `Belated`, from `Whole` (an older page that is not full has all there
  is before its cursor) and `Hidden`.
- `ReadWasOnTheScreen`: `Spec => TurnsReadWasShown`, while nothing is `Overtaken` (a
  message between page and mark, or newer than the list when a poll with a cursor
  reads), `Covered` (on its way below somebody's mark) or lost.  `Shown` follows a
  message from the page that was read (`ReadAt`) over the mark (`MarkedAt`) to the
  screen; its part `KeptAt` is what deletions could break: a list may hold times of
  messages that went with their sender, but only when the reader is the only one
  left (`Senders`, `EmptiedAlone`).

`SessionProofs`: `TypeCorrect`, `SessionStays` (`TurnsSessionSteady`) and
`ForcedStaysRight` (`TurnsForcedRight`), for any
number of tabs, users and tokens.  `Inv` strengthens the types: a token in use
has been issued and names the stored user; a good token has its cookie; the
answer to a change is a session of the same user (`FormOK`); and a change that
was typed right is refused only for a token that has expired.  The last clause
is what `SessionStays` needs: with `Calm` the refused form carries the stored
token, so that a good session is not the one that ends.

*Only model-checked*: liveness (`RequestsEnd`, `LoginReached`, `ChangeAsked`),
which the prover cannot do; `ShownIsStored`, whose premise that nothing was stale
would leave a proof no more than the identity of what the dialog and the server
compute, while the run also shows that the two are computed of the same reads; and
the finding's `OnlyWaysOut`, which fails.  Every other property of the runs is
stated by a theorem; so is the `TypeOK` of every
component, which no run repeats.

## 5. Plan

Done: the modules above, in the order punches, sheets, documents, directory,
records, accounts, messaging, address form, oversight, session; then the card
and the register as abstract specifications, with the proofs that attendance and
the directory implement them.  Left, in order:

1. The COMPLETED gate and the training dates of an evaluation, as a composition
   of `EvaluationSheet` with `Attendance`.
2. The sheet editor's page (`use-evaluation-template.ts`) with saves in flight.
3. Facts about the operators of `PunchRules` alone, for any order of the kinds.
4. An abstract specification of the session and of the thread's list, with a
   proof that `Session` and `Messaging` implement them.

### Not modelled

- PDF and ZIP rendering, the weekly trend, rankings and counts of the
  dashboards: they keep no state, and beyond `Oversight` nothing relates their
  figures to each other.
- Controllers and DTO validation: they bound the inputs that the modelled
  actions take from small sets.
- Seeds and migrations; the schema's unique indexes and foreign keys are in the
  module that relies on them.
- The client's other forms, lists and filters, and the markup of all pages.
  They are most of the repository's lines and hold no state that two steps could
  dispute, which is why the modelled lines are a small part of the whole.
- Log mode of the mail, a student without a start date, industry, street, zip
  code and status of an establishment, and what a supervisor's own data says.

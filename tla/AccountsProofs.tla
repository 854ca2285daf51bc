--------------------------- MODULE AccountsProofs ---------------------------
(***************************************************************************)
(* Theorems about Accounts for every value of its constants: any number of *)
(* users, of handlers at once, of attempts and of lost requests.           *)
(***************************************************************************)
EXTENDS Accounts, FiniteSetTheorems, WellFoundedInduction, TLAPS

-----------------------------------------------------------------------------
\* The free name: there is one, since users are fewer than numbers.

LEMMA LeastNumber ==
  ASSUME NEW S \in SUBSET Nat, S # {}
  PROVE  \E n \in S : \A k \in S : ~(k < n)
<1>1. PICK n \in S : \A k \in S : <<k, n>> \notin OpToRel(<, Nat)
  BY NatLessThanWellFounded, WFMin
<1>2. \A k \in S : k < n => <<k, n>> \in OpToRel(<, Nat)
  BY DEF OpToRel
<1> QED
  BY <1>1, <1>2

LEMMA UsersFinite == Cardinality(Users) \in Nat
BY AccountsAssumption, FS_CardinalityType

LEMMA SomeNumberFree ==
  ASSUME TypeOK
  PROVE  \E n \in 1 .. Cardinality(Users) + 1 : n \notin Taken
<1> DEFINE N == Cardinality(Users)
           owner == [n \in 1 .. N + 1 |-> CHOOSE u \in Existing : users[u].name.number = n]
<1> SUFFICES ASSUME \A n \in 1 .. N + 1 : n \in Taken PROVE FALSE
  OBVIOUS
<1>1. N \in Nat
  BY UsersFinite
<1>2. \A n \in 1 .. N + 1 : owner[n] \in Existing /\ users[owner[n]].name.number = n
  BY DEF Taken
<1>3. owner \in [1 .. N + 1 -> Users]
  BY <1>2 DEF Existing
<1>4. IsFiniteSet(1 .. N + 1) /\ Cardinality(1 .. N + 1) = N + 1
  BY <1>1, FS_Interval
<1>5. Cardinality(Users) < Cardinality(1 .. N + 1)
  BY <1>1, <1>4
<1>6. IsFiniteSet(Users)
  BY AccountsAssumption
<1> HIDE DEF owner, N
<1>7. \E m, n \in 1 .. N + 1 : m # n /\ owner[m] = owner[n]
  BY <1>3, <1>4, <1>5, <1>6, FS_PigeonHole
<1> QED
  BY <1>2, <1>7

LEMMA NextFreeIsFree ==
  ASSUME TypeOK
  PROVE  NextFree \in 1 .. Cardinality(Users) + 1 /\ NextFree \notin Taken
<1> DEFINE N == Cardinality(Users)
           S == {n \in 1 .. N + 1 : n \notin Taken}
<1>1. N \in Nat
  BY UsersFinite
<1>2. S \in SUBSET Nat /\ S # {}
  BY <1>1, SomeNumberFree
<1>3. PICK n \in S : \A k \in S : ~(k < n)
  BY <1>2, LeastNumber
<1>4. \A k \in 1 .. n - 1 : k \in Taken
  BY <1>1, <1>3
<1> QED
  BY <1>3, <1>4 DEF NextFree

-----------------------------------------------------------------------------
\* Type correctness.

\* What a handler holds at each of its steps.
LEMMA HandlerTypes ==
  ASSUME TypeOK, NEW r \in Requests
  PROVE  /\ request[r].pc \in {"pick", "create", "refused"} => request[r] \in Creations
         /\ request[r].pc \in {"store", "mail", "status"} => request[r] \in Deliveries
         /\ request[r].pc = "change" => request[r] \in Changes
BY DEF TypeOK, Creations, Deliveries, Changes, Idle

\* Users are never deleted: who is at work on an account finds it.
Targeted == \A r \in Requests, u \in Users : At(r, u) => Exists(u)

\* A picked number is one that a name has.
Numbered == \A r \in Requests :
  request[r].pc = "create" => request[r].number \in 1 .. Cardinality(Users) + 1

AccountsOK == TypeOK /\ Targeted /\ Numbered

LEMMA NewUserIsNew == Existing # Users => NewUser \in Users /\ ~Exists(NewUser)
BY DEF NewUser, Existing

LEMMA InitAccountsOK == Init => AccountsOK
<1> SUFFICES ASSUME Init PROVE AccountsOK
  OBVIOUS
<1>1. Cardinality(Users) \in Nat
  BY UsersFinite
<1>2. OldRow \in Rows
  BY <1>1, AccountsAssumption DEF OldRow, Rows, Usernames, Own, Passwords
<1>3. PICK old \in {{}, {CHOOSE u \in Users : TRUE}} :
        /\ users = [u \in Users |-> IF u \in old THEN OldRow ELSE Absent]
        /\ chose = old /\ proved = old
  BY DEF Init
<1>4. users \in [Users -> Rows \cup {Absent}]
  BY <1>2, <1>3
<1>5. 0 \in 0 .. MaxIssued /\ 0 \in 0 .. MaxFaults
  BY AccountsAssumption
<1>6. old \subseteq Users
  <2>1. (CHOOSE u \in Users : TRUE) \in Users
    BY AccountsAssumption
  <2> QED
    BY <2>1
<1>7. TypeOK
  BY <1>3, <1>4, <1>5, <1>6 DEF Init, TypeOK
<1>8. Targeted
  BY DEF Init, Targeted, At, Idle
<1>9. Numbered
  BY DEF Init, Numbered, Idle
<1> QED
  BY <1>7, <1>8, <1>9 DEF AccountsOK

\* The steps of a handler, one by one.
Step(r) ==
  \/ BeginCreate(r) \/ PickName(r) \/ CreateAccount(r) \/ Refuse(r)
  \/ \E u \in Users : BeginReissue(r, u)
  \/ StorePassword(r) \/ Mail(r) \/ WriteStatus(r)
  \/ Change(r) \/ \E u \in Users, current \in Passwords : BeginChange(r, u, current)
  \/ RequestLost(r)

LEMMA Steps ==
  [Next]_vars => \/ \E r \in Requests : Step(r)
                 \/ \E u \in Users : Login(u)
                 \/ UNCHANGED vars
BY DEF Next, IssueStep, ChangeStep, Step

\* A handler leaves the others alone.
LEMMA StepAlone ==
  ASSUME TypeOK, NEW r \in Requests, Step(r)
  PROVE  \A q \in Requests \ {r} : request'[q] = request[q]
BY DEF TypeOK, Step, BeginCreate, PickName, CreateAccount, Refuse, BeginReissue, StorePassword,
       Mail, WriteStatus, Change, BeginChange, RequestLost, Begins, Continues, Ends


\* Rows are never deleted and are written as rows.
RowsStay ==
  /\ users' \in [Users -> Rows \cup {Absent}]
  /\ \A u \in Users : Exists(u) => Exists(u)'

LEMMA RowWritten ==
  ASSUME TypeOK, NEW u \in Users, NEW row \in Rows, users' = [users EXCEPT ![u] = row]
  PROVE  RowsStay
BY AbsentAssumption DEF TypeOK, RowsStay, Exists

LEMMA RowsKept == ASSUME TypeOK, UNCHANGED users PROVE RowsStay
BY DEF TypeOK, RowsStay, Exists

\* The steps that write a row.
LEMMA CreatedIsRow ==
  ASSUME AccountsOK, NEW r \in Requests, request[r].pc = "create"
  PROVE  Created(r) \in Rows
<1>1. request[r].password \in Passwords
  BY HandlerTypes DEF Creations, AccountsOK
<1>2. request[r].number \in 1 .. Cardinality(Users) + 1
  BY DEF AccountsOK, Numbered
<1> QED
  BY <1>1, <1>2 DEF Created, Rows, Usernames

LEMMA ReissuedIsRow ==
  ASSUME NEW row \in Rows, NEW p \in Passwords
  PROVE  Reissued(row, p) \in Rows
BY DEF Reissued, Rows

LEMMA OutcomeIsRow ==
  ASSUME NEW row \in Rows, NEW outcome \in {"none", "sent", "failed"}
  PROVE  [row EXCEPT !.mail = outcome] \in Rows
BY DEF Rows

LEMMA ChangedIsRow ==
  ASSUME NEW row \in Rows
  PROVE  [row EXCEPT !.password = Own, !.mustChange = FALSE] \in Rows
<1>1. Own \in Passwords
  BY AccountsAssumption DEF Own, Passwords
<1> QED
  BY <1>1 DEF Rows

\* Whoever is at work on an account finds a row.
LEMMA RowFound ==
  ASSUME AccountsOK, NEW r \in Requests, NEW u \in Users, At(r, u)
  PROVE  users[u] \in Rows
BY DEF AccountsOK, TypeOK, Targeted, Exists

LEMMA UserOfHandler ==
  ASSUME TypeOK, NEW r \in Requests, request[r].pc \in {"store", "mail", "status", "change"}
  PROVE  request[r].user \in Users /\ At(r, request[r].user)
BY HandlerTypes DEF Deliveries, Changes, At

LEMMA StepKeepsRows ==
  ASSUME AccountsOK, NEW r \in Requests, Step(r)
  PROVE  RowsStay
<1> USE DEF AccountsOK
<1>1. CASE CreateAccount(r)
  <2>1. CASE UNCHANGED users
    BY <2>1, RowsKept
  <2>2. CASE /\ Existing # Users
             /\ users' = [users EXCEPT ![NewUser] = Created(r)]
             /\ request[r].pc = "create"
    <3>1. Created(r) \in Rows
      BY <2>2, CreatedIsRow
    <3>2. NewUser \in Users
      BY <2>2, NewUserIsNew
    <3> QED
      BY <2>2, <3>1, <3>2, RowWritten
  <2> QED
    BY <1>1, <2>1, <2>2 DEF CreateAccount
<1>2. CASE StorePassword(r)
  <2>1. request[r].user \in Users /\ At(r, request[r].user)
    BY <1>2, UserOfHandler DEF StorePassword
  <2>2. request[r].password \in Passwords
    BY <1>2, HandlerTypes DEF StorePassword, Deliveries
  <2>3. Reissued(users[request[r].user], request[r].password) \in Rows
    BY <2>1, <2>2, RowFound, ReissuedIsRow
  <2>4. users' = [users EXCEPT ![request[r].user]
                    = Reissued(users[request[r].user], request[r].password)]
    BY <1>2 DEF StorePassword
  <2> QED
    BY <2>1, <2>3, <2>4, RowWritten
<1>3. CASE WriteStatus(r)
  <2>1. request[r].user \in Users /\ At(r, request[r].user)
    BY <1>3, UserOfHandler DEF WriteStatus
  <2>2. request[r].outcome \in {"none", "sent", "failed"}
    BY <1>3, HandlerTypes DEF WriteStatus, Deliveries
  <2> DEFINE row == [users[request[r].user] EXCEPT !.mail = request[r].outcome]
  <2>3. row \in Rows
    BY <2>1, <2>2, RowFound, OutcomeIsRow
  <2>4. users' = [users EXCEPT ![request[r].user] = row]
    BY <1>3 DEF WriteStatus
  <2> HIDE DEF row
  <2> QED
    BY <2>1, <2>3, <2>4, RowWritten
<1>4. CASE Change(r)
  <2>1. request[r].user \in Users /\ At(r, request[r].user)
    BY <1>4, UserOfHandler DEF Change
  <2> DEFINE row == [users[request[r].user] EXCEPT !.password = Own, !.mustChange = FALSE]
  <2>2. row \in Rows
    BY <2>1, RowFound, ChangedIsRow
  <2>3. users' = [users EXCEPT ![request[r].user] = row]
    BY <1>4 DEF Change
  <2> HIDE DEF row
  <2> QED
    BY <2>1, <2>2, <2>3, RowWritten
<1> QED
  BY <1>1, <1>2, <1>3, <1>4, RowsKept
     DEF Step, BeginCreate, PickName, Refuse, BeginReissue, Mail, BeginChange, RequestLost

\* What a handler holds after its step.
Handlers == {Idle} \cup Creations \cup Deliveries \cup Changes

LEMMA Holds ==
  ASSUME TypeOK, NEW r \in Requests, NEW held \in Handlers,
         request' = [request EXCEPT ![r] = held]
  PROVE  request' \in [Requests -> Handlers] /\ request'[r] = held
BY DEF TypeOK, Handlers

StepHolds(r) ==
  /\ request' \in [Requests -> Handlers]
  /\ request'[r].pc = "create" => request'[r].number \in 1 .. Cardinality(Users) + 1

LEMMA BeginCreateHolds ==
  ASSUME AccountsOK, NEW r \in Requests, BeginCreate(r)
  PROVE  StepHolds(r) /\ issued' \in 0 .. MaxIssued
<1> DEFINE held == [pc |-> "pick", number |-> 0, password |-> issued + 1,
                    attempt |-> 1, since |-> Existing]
<1>1. issued \in 0 .. MaxIssued /\ issued < MaxIssued /\ issued' = issued + 1
  BY DEF AccountsOK, TypeOK, BeginCreate, Generates
<1>2. issued + 1 \in Passwords /\ issued' \in 0 .. MaxIssued
  BY <1>1, AccountsAssumption DEF Passwords
<1>3. 0 \in 0 .. Cardinality(Users) + 1 /\ 1 \in 1 .. Attempts /\ Existing \subseteq Users
  BY UsersFinite, AccountsAssumption DEF Existing
<1>4. held \in Creations
  BY <1>2, <1>3 DEF Creations
<1>5. held \in Handlers /\ held.pc # "create"
  BY <1>4 DEF Handlers
<1>6. request' = [request EXCEPT ![r] = held]
  BY DEF BeginCreate, Begins
<1> HIDE DEF held
<1>7. request' \in [Requests -> Handlers] /\ request'[r] = held
  BY <1>5, <1>6, Holds DEF AccountsOK
<1> QED
  BY <1>2, <1>5, <1>7 DEF StepHolds

LEMMA HeldBy == ASSUME AccountsOK PROVE request \in [Requests -> Handlers]
BY DEF AccountsOK, TypeOK, Handlers

LEMMA PickNameHolds ==
  ASSUME AccountsOK, NEW r \in Requests, PickName(r)
  PROVE  StepHolds(r)
<1> DEFINE held == [request[r] EXCEPT !.pc = "create", !.number = NextFree]
<1>1. NextFree \in 1 .. Cardinality(Users) + 1 /\ NextFree \in 0 .. Cardinality(Users) + 1
  BY NextFreeIsFree, UsersFinite DEF AccountsOK
<1>2. request[r] \in Creations
  BY HandlerTypes DEF AccountsOK, PickName
<1>3. held \in Creations /\ held.number = NextFree
  BY <1>1, <1>2 DEF Creations
<1>4. request' = [request EXCEPT ![r] = held]
  BY HeldBy DEF PickName
<1> HIDE DEF held
<1>5. request' \in [Requests -> Handlers] /\ request'[r] = held
  BY <1>3, <1>4, Holds DEF AccountsOK, Handlers
<1> QED
  BY <1>1, <1>3, <1>5 DEF StepHolds

LEMMA CreateAccountHolds ==
  ASSUME AccountsOK, NEW r \in Requests, CreateAccount(r)
  PROVE  StepHolds(r)
<1>1. request[r] \in Creations /\ request \in [Requests -> Handlers]
  BY HandlerTypes, HeldBy DEF AccountsOK, CreateAccount
<1>2. CASE request' = [request EXCEPT ![r].pc = "pick", ![r].attempt = @ + 1] /\ MayRetry(r)
  <2> DEFINE held == [request[r] EXCEPT !.pc = "pick", !.attempt = request[r].attempt + 1]
  <2>1. request[r].attempt + 1 \in 1 .. Attempts
    BY <1>1, <1>2, AccountsAssumption DEF Creations, MayRetry
  <2>2. held \in Creations /\ held.pc = "pick"
    BY <1>1, <2>1 DEF Creations
  <2>3. request' = [request EXCEPT ![r] = held]
    BY <1>1, <1>2
  <2> HIDE DEF held
  <2> QED
    BY <2>2, <2>3, Holds DEF AccountsOK, Handlers, StepHolds
<1>3. CASE Continues(r, "refused")
  <2> DEFINE held == [request[r] EXCEPT !.pc = "refused"]
  <2>1. held \in Creations /\ held.pc = "refused"
    BY <1>1 DEF Creations
  <2>2. request' = [request EXCEPT ![r] = held]
    BY <1>1, <1>3 DEF Continues
  <2> HIDE DEF held
  <2> QED
    BY <2>1, <2>2, Holds DEF AccountsOK, Handlers, StepHolds
<1>4. CASE /\ Existing # Users
           /\ request' = [request EXCEPT
                ![r] = [pc |-> "mail", user |-> NewUser, password |-> @.password,
                        outcome |-> "none"]]
  <2> DEFINE held == [pc |-> "mail", user |-> NewUser, password |-> request[r].password,
                      outcome |-> "none"]
  <2>1. NewUser \in Users /\ request[r].password \in Passwords
    BY <1>1, <1>4, NewUserIsNew DEF Creations
  <2>2. held \in Deliveries /\ held.pc = "mail"
    BY <2>1 DEF Deliveries
  <2>3. request' = [request EXCEPT ![r] = held]
    BY <1>4
  <2> HIDE DEF held
  <2> QED
    BY <2>2, <2>3, Holds DEF AccountsOK, Handlers, StepHolds
<1> QED
  BY <1>2, <1>3, <1>4 DEF CreateAccount

LEMMA BeginReissueHolds ==
  ASSUME AccountsOK, NEW r \in Requests, NEW u \in Users, BeginReissue(r, u)
  PROVE  StepHolds(r) /\ issued' \in 0 .. MaxIssued
<1> DEFINE held == [pc |-> "store", user |-> u, password |-> issued + 1, outcome |-> "none"]
<1>1. issued \in 0 .. MaxIssued /\ issued < MaxIssued /\ issued' = issued + 1
  BY DEF AccountsOK, TypeOK, BeginReissue, Generates
<1>2. issued + 1 \in Passwords /\ issued' \in 0 .. MaxIssued
  BY <1>1, AccountsAssumption DEF Passwords
<1>3. held \in Deliveries /\ held.pc = "store"
  BY <1>2 DEF Deliveries
<1>4. request' = [request EXCEPT ![r] = held]
  BY DEF BeginReissue, Begins
<1> HIDE DEF held
<1> QED
  BY <1>2, <1>3, <1>4, Holds DEF AccountsOK, Handlers, StepHolds

\* A delivery goes on, one step after the other.
LEMMA DeliveryHolds ==
  ASSUME AccountsOK, NEW r \in Requests, StorePassword(r) \/ Mail(r)
  PROVE  StepHolds(r)
<1>1. request[r] \in Deliveries /\ request \in [Requests -> Handlers]
  BY HandlerTypes, HeldBy DEF AccountsOK, StorePassword, Mail
<1>2. PICK pc \in {"mail", "status"}, outcome \in {"none", "sent", "failed"} :
        request' = [request EXCEPT ![r].pc = pc, ![r].outcome = outcome]
  <2>1. CASE StorePassword(r)
    <3>1. request[r].outcome \in {"none", "sent", "failed"}
      BY <1>1 DEF Deliveries
    <3>2. [request EXCEPT ![r].pc = "mail"]
            = [request EXCEPT ![r].pc = "mail", ![r].outcome = request[r].outcome]
      BY <1>1 DEF Deliveries
    <3> QED
      BY <2>1, <3>1, <3>2 DEF StorePassword, Continues
  <2>2. CASE Mail(r)
    BY <2>2 DEF Mail
  <2> QED
    BY <2>1, <2>2
<1> DEFINE held == [request[r] EXCEPT !.pc = pc, !.outcome = outcome]
<1>3. held \in Deliveries /\ held.pc # "create"
  BY <1>1 DEF Deliveries
<1>4. request' = [request EXCEPT ![r] = held]
  BY <1>1, <1>2
<1> HIDE DEF held
<1> QED
  BY <1>3, <1>4, Holds DEF AccountsOK, Handlers, StepHolds

LEMMA EndHolds ==
  ASSUME AccountsOK, NEW r \in Requests, Ends(r)
  PROVE  StepHolds(r)
<1>1. Idle \in Handlers /\ Idle.pc # "create"
  BY DEF Handlers, Idle
<1> QED
  BY <1>1, Holds DEF AccountsOK, StepHolds, Ends

LEMMA BeginChangeHolds ==
  ASSUME AccountsOK, NEW r \in Requests, NEW u \in Users, NEW current \in Passwords,
         BeginChange(r, u, current)
  PROVE  StepHolds(r)
<1> DEFINE held == [pc |-> "change", user |-> u, current |-> current]
<1>1. held \in Changes /\ held.pc # "create"
  BY DEF Changes
<1>2. request' = [request EXCEPT ![r] = held]
  BY DEF BeginChange, Begins
<1> HIDE DEF held
<1> QED
  BY <1>1, <1>2, Holds DEF AccountsOK, Handlers, StepHolds

LEMMA StepTypes ==
  ASSUME AccountsOK, NEW r \in Requests, Step(r)
  PROVE  TypeOK' /\ StepHolds(r)
<1>1. RowsStay
  BY StepKeepsRows
<1>2. StepHolds(r) /\ issued' \in 0 .. MaxIssued
  <2>1. issued \in 0 .. MaxIssued
    BY DEF AccountsOK, TypeOK
  <2>2. CASE BeginCreate(r)
    BY <2>2, BeginCreateHolds
  <2>3. CASE PickName(r)
    BY <2>1, <2>3, PickNameHolds DEF PickName
  <2>4. CASE CreateAccount(r)
    BY <2>1, <2>4, CreateAccountHolds DEF CreateAccount
  <2>5. CASE \E u \in Users : BeginReissue(r, u)
    BY <2>5, BeginReissueHolds
  <2>6. CASE StorePassword(r) \/ Mail(r)
    BY <2>1, <2>6, DeliveryHolds DEF StorePassword, Mail
  <2>7. CASE \E u \in Users, current \in Passwords : BeginChange(r, u, current)
    BY <2>1, <2>7, BeginChangeHolds DEF BeginChange
  <2>8. CASE Refuse(r) \/ WriteStatus(r) \/ Change(r) \/ RequestLost(r)
    BY <2>1, <2>8, EndHolds DEF Refuse, WriteStatus, Change, RequestLost
  <2> QED
    BY <2>2, <2>3, <2>4, <2>5, <2>6, <2>7, <2>8 DEF Step
<1>3. request' \in [Requests -> {Idle} \cup Creations \cup Deliveries \cup Changes]
  BY <1>2 DEF StepHolds, Handlers
<1>4. inbox' \in [Users -> Passwords \cup {Nothing}]
  <2>1. inbox \in [Users -> Passwords \cup {Nothing}]
    BY DEF AccountsOK, TypeOK
  <2>2. CASE Mail(r)
    <3>1. request[r].password \in Passwords
      BY <2>2, HandlerTypes DEF AccountsOK, Mail, Deliveries
    <3> QED
      BY <2>1, <2>2, <3>1 DEF Mail
  <2> QED
    BY <2>1, <2>2 DEF Step, BeginCreate, PickName, CreateAccount, Refuse, BeginReissue,
       StorePassword, WriteStatus, Change, BeginChange, RequestLost
<1>5. tokens' \in [Users -> SUBSET {"plain", "mustChange"}]
  <2>1. tokens \in [Users -> SUBSET {"plain", "mustChange"}]
    BY DEF AccountsOK, TypeOK
  <2>2. CASE Change(r)
    <3> DEFINE u == request[r].user
               row == [users[u] EXCEPT !.password = Own, !.mustChange = FALSE]
    <3>1. tokens' = [tokens EXCEPT ![u] = @ \cup {Session(row)}]
      BY <2>2 DEF Change
    <3>2. Session(row) \in {"plain", "mustChange"}
      BY DEF Session
    <3> HIDE DEF row, u
    <3> QED
      BY <2>1, <3>1, <3>2
  <2> QED
    BY <2>1, <2>2 DEF Step, BeginCreate, PickName, CreateAccount, Refuse, BeginReissue,
       StorePassword, WriteStatus, Mail, BeginChange, RequestLost
<1>6. faults' \in 0 .. MaxFaults
  <2>1. faults \in 0 .. MaxFaults
    BY DEF AccountsOK, TypeOK
  <2>2. CASE RequestLost(r)
    BY <2>1, <2>2, AccountsAssumption DEF RequestLost
  <2> QED
    BY <2>1, <2>2 DEF Step, BeginCreate, PickName, CreateAccount, Refuse, BeginReissue,
       StorePassword, WriteStatus, Mail, BeginChange, Change
<1>7. chose' \subseteq Users /\ proved' \subseteq Users
  <2>1. chose \subseteq Users /\ proved \subseteq Users
    BY DEF AccountsOK, TypeOK
  <2>2. CASE Change(r)
    <3>1. request[r].user \in Users
      BY <2>2, UserOfHandler DEF AccountsOK, Change
    <3> QED
      BY <2>1, <2>2, <3>1 DEF Change
  <2> QED
    BY <2>1, <2>2 DEF Step, BeginCreate, PickName, CreateAccount, Refuse, BeginReissue,
       StorePassword, WriteStatus, Mail, BeginChange, RequestLost
<1> QED
  BY <1>1, <1>2, <1>3, <1>4, <1>5, <1>6, <1>7 DEF TypeOK, RowsStay

\* Who a handler is at work on after its step.
LEMMA StepTarget ==
  ASSUME AccountsOK, NEW r \in Requests, Step(r), NEW u \in Users, At(r, u)'
  PROVE  \/ At(r, u)
         \/ Exists(u) /\ (BeginReissue(r, u) \/ \E current \in Passwords : BeginChange(r, u, current))
         \/ CreateAccount(r) /\ ~Exists(u) /\ users' = [users EXCEPT ![u] = Created(r)]
<1>0. request \in [Requests -> Handlers] /\ request'[r].user = u
  BY HeldBy DEF At
<1>a. request'[r].pc \in {"store", "mail", "status", "change"}
  BY DEF At
<1>1. CASE BeginCreate(r)
  BY <1>0, <1>a, <1>1 DEF BeginCreate, Begins
<1>2. CASE PickName(r)
  <2>1. request[r] \in Creations
    BY <1>2, HandlerTypes DEF AccountsOK, PickName
  <2>2. request'[r].pc = "create"
    BY <1>0, <1>2, <2>1 DEF PickName, Creations
  <2> QED
    BY <1>a, <2>2
<1>3. CASE CreateAccount(r)
  <2>1. request[r] \in Creations
    BY <1>3, HandlerTypes DEF AccountsOK, CreateAccount
  <2>2. CASE Clash(request[r].number)
    <3>1. request'[r].pc \in {"pick", "refused"}
      BY <1>0, <1>3, <2>1, <2>2 DEF CreateAccount, Continues, Creations
    <3> QED
      BY <1>a, <3>1
  <2>3. CASE ~Clash(request[r].number)
    <3>1. /\ Existing # Users
          /\ users' = [users EXCEPT ![NewUser] = Created(r)]
          /\ request' = [request EXCEPT
               ![r] = [pc |-> "mail", user |-> NewUser, password |-> @.password,
                       outcome |-> "none"]]
      BY <1>3, <2>3 DEF CreateAccount
    <3>2. u = NewUser
      BY <1>0, <3>1
    <3> QED
      BY <1>3, <3>1, <3>2, NewUserIsNew
  <2> QED
    BY <2>2, <2>3
<1>4. CASE Refuse(r) \/ WriteStatus(r) \/ Change(r) \/ RequestLost(r)
  BY <1>0, <1>a, <1>4 DEF Refuse, WriteStatus, Change, RequestLost, Ends, Idle
<1>5. CASE \E v \in Users : BeginReissue(r, v)
  BY <1>0, <1>5 DEF BeginReissue, Begins
<1>6. CASE StorePassword(r) \/ Mail(r)
  <2>1. request[r] \in Deliveries /\ request[r].pc \in {"store", "mail"}
    BY <1>6, HandlerTypes DEF AccountsOK, StorePassword, Mail
  <2>2. request'[r].user = request[r].user
    BY <1>0, <1>6, <2>1 DEF StorePassword, Mail, Continues, Deliveries
  <2> QED
    BY <1>0, <2>1, <2>2 DEF At
<1>7. CASE \E v \in Users, current \in Passwords : BeginChange(r, v, current)
  <2>1. PICK v \in Users, current \in Passwords : BeginChange(r, v, current)
    BY <1>7
  <2>2. request'[r].user = v
    BY <1>0, <2>1 DEF BeginChange, Begins
  <2> QED
    BY <1>0, <2>1, <2>2 DEF BeginChange
<1> QED
  BY <1>1, <1>2, <1>3, <1>4, <1>5, <1>6, <1>7 DEF Step

LEMMA StepAccountsOK ==
  ASSUME AccountsOK, NEW r \in Requests, Step(r)
  PROVE  AccountsOK'
<1>1. TypeOK' /\ StepHolds(r) /\ RowsStay
  BY StepTypes, StepKeepsRows
<1>2. \A q \in Requests \ {r} : request'[q] = request[q]
  BY StepAlone DEF AccountsOK
<1>3. Targeted'
  <2> SUFFICES ASSUME NEW q \in Requests, NEW u \in Users, At(q, u)' PROVE Exists(u)'
    BY DEF Targeted
  <2>1. CASE At(q, u)
    BY <1>1, <2>1 DEF AccountsOK, Targeted, RowsStay
  <2>2. CASE ~At(q, u)
    <3>1. q = r
      BY <1>2, <2>2 DEF At
    <3>2. CASE Exists(u)
      BY <1>1, <3>2 DEF RowsStay
    <3>3. CASE CreateAccount(r) /\ users' = [users EXCEPT ![u] = Created(r)]
      <4>1. users'[u] = Created(r)
        BY <3>3 DEF AccountsOK, TypeOK
      <4>2. Created(r) # Absent
        BY <3>3, CreatedIsRow, AbsentAssumption DEF CreateAccount
      <4> QED
        BY <4>1, <4>2 DEF Exists
    <3> QED
      BY <2>2, <3>1, <3>2, <3>3, StepTarget
  <2> QED
    BY <2>1, <2>2
<1>4. Numbered'
  BY <1>1, <1>2 DEF AccountsOK, Numbered, StepHolds
<1> QED
  BY <1>1, <1>3, <1>4 DEF AccountsOK

LEMMA NextAccountsOK == AccountsOK /\ [Next]_vars => AccountsOK'
<1> SUFFICES ASSUME AccountsOK, [Next]_vars PROVE AccountsOK'
  OBVIOUS
<1>1. CASE \E r \in Requests : Step(r)
  BY <1>1, StepAccountsOK
<1>2. CASE \E u \in Users : Login(u)
  <2>1. PICK u \in Users : Login(u)
    BY <1>2
  <2>2. tokens' \in [Users -> SUBSET {"plain", "mustChange"}]
    BY <2>1 DEF AccountsOK, TypeOK, Login, Session
  <2> QED
    BY <2>1, <2>2 DEF AccountsOK, TypeOK, Targeted, Numbered, At, Exists, Login
<1>3. CASE UNCHANGED vars
  BY <1>3 DEF vars, AccountsOK, TypeOK, Targeted, Numbered, At, Exists
<1> QED
  BY <1>1, <1>2, <1>3, Steps

LEMMA AlwaysAccountsOK == Spec => []AccountsOK
BY InitAccountsOK, NextAccountsOK, PTL DEF Spec

\* Every variable stays in its type: a handler that goes on with a creation, a
\* delivery or a change holds what that work needs (accounts.ts).
THEOREM TypeCorrect == Spec => []TypeOK
<1>1. AccountsOK => TypeOK
  BY DEF AccountsOK
<1> QED
  BY <1>1, AlwaysAccountsOK, PTL

-----------------------------------------------------------------------------
\* What a step does to a row.

Confirmed(row) == [row EXCEPT !.password = Own, !.mustChange = FALSE]

RowStep(r, u) ==
  \/ users'[u] = users[u]
  \/ /\ CreateAccount(r) /\ u = NewUser /\ ~Exists(u) /\ ~Clash(request[r].number)
     /\ users'[u] = Created(r)
  \/ /\ StorePassword(r) /\ At(r, u)
     /\ users'[u] = Reissued(users[u], request[r].password)
  \/ /\ WriteStatus(r) /\ At(r, u)
     /\ users'[u] = [users[u] EXCEPT !.mail = request[r].outcome]
  \/ /\ Change(r) /\ At(r, u)
     /\ users'[u] = Confirmed(users[u])

LEMMA RowSteps ==
  ASSUME AccountsOK, NEW r \in Requests, Step(r), NEW u \in Users
  PROVE  RowStep(r, u)
<1>0. DOMAIN users = Users
  BY DEF AccountsOK, TypeOK
<1>1. CASE CreateAccount(r)
  BY <1>0, <1>1, NewUserIsNew DEF CreateAccount, RowStep
<1>2. CASE StorePassword(r)
  <2>1. request[r].user \in Users /\ At(r, request[r].user)
    BY <1>2, UserOfHandler DEF AccountsOK, StorePassword
  <2> QED
    BY <1>0, <1>2, <2>1 DEF StorePassword, RowStep
<1>3. CASE WriteStatus(r)
  <2>1. request[r].user \in Users /\ At(r, request[r].user)
    BY <1>3, UserOfHandler DEF AccountsOK, WriteStatus
  <2>2. users' = [users EXCEPT ![request[r].user]
                    = [users[request[r].user] EXCEPT !.mail = request[r].outcome]]
    BY <1>3 DEF WriteStatus
  <2>3. CASE u = request[r].user
    <3>1. users'[u] = [users[u] EXCEPT !.mail = request[r].outcome]
      BY <1>0, <2>1, <2>2, <2>3
    <3> QED
      BY <1>3, <2>1, <2>3, <3>1 DEF RowStep
  <2>4. CASE u # request[r].user
    BY <1>0, <2>2, <2>4 DEF RowStep
  <2> QED
    BY <2>3, <2>4
<1>4. CASE Change(r)
  <2>1. request[r].user \in Users /\ At(r, request[r].user)
    BY <1>4, UserOfHandler DEF AccountsOK, Change
  <2>2. users' = [users EXCEPT ![request[r].user] = Confirmed(users[request[r].user])]
    BY <1>4 DEF Change, Confirmed
  <2> QED
    BY <1>0, <1>4, <2>1, <2>2 DEF RowStep
<1> QED
  BY <1>1, <1>2, <1>3, <1>4
     DEF Step, BeginCreate, PickName, Refuse, BeginReissue, Mail, BeginChange, RequestLost, RowStep

\* The fields of the rows it writes.
LEMMA RowFields ==
  ASSUME AccountsOK, NEW r \in Requests, Step(r), NEW u \in Users, Exists(u)
  PROVE  /\ users'[u].name = users[u].name
         /\ StorePassword(r) /\ At(r, u) /\ users'[u] # users[u]
              => /\ users'[u].password = request[r].password /\ users'[u].mustChange
                 /\ users'[u].mail = users[u].mail
         /\ WriteStatus(r) /\ At(r, u) /\ users'[u] # users[u]
              => /\ users'[u].password = users[u].password
                 /\ users'[u].mustChange = users[u].mustChange
                 /\ users'[u].mail = request[r].outcome
         /\ Change(r) /\ At(r, u) /\ users'[u] # users[u]
              => /\ users'[u].password = Own /\ ~users'[u].mustChange
                 /\ users'[u].mail = users[u].mail
<1> DEFINE row == users[u]
<1>1. row \in Rows
  BY DEF AccountsOK, TypeOK, Exists
<1>2. RowStep(r, u)
  BY RowSteps
<1>3. CASE UNCHANGED users[u]
  BY <1>3
<1>4. CASE StorePassword(r) /\ users'[u] = Reissued(row, request[r].password)
  BY <1>1, <1>4 DEF Rows, Reissued, StorePassword, WriteStatus, Change
<1>5. CASE WriteStatus(r) /\ users'[u] = [row EXCEPT !.mail = request[r].outcome]
  BY <1>1, <1>5 DEF Rows, StorePassword, WriteStatus, Change
<1>6. CASE Change(r) /\ users'[u] = Confirmed(row)
  BY <1>1, <1>6 DEF Rows, Confirmed, StorePassword, WriteStatus, Change
<1> QED
  BY <1>2, <1>3, <1>4, <1>5, <1>6 DEF RowStep

LEMMA CreatedFields ==
  ASSUME NEW r
  PROVE  /\ Created(r).name.number = request[r].number /\ ~Created(r).name.cased
         /\ Created(r).password = request[r].password
         /\ Created(r).mustChange /\ Created(r).mail = "none"
BY DEF Created

-----------------------------------------------------------------------------
\* Names.

\* A number that was picked is not that of an old name in other letters, which
\* the index would let through.
Picked == \A r \in Requests, u \in Existing :
  request[r].pc = "create" /\ users[u].name.cased => users[u].name.number # request[r].number

NamesOK == AccountsOK /\ NamesApart /\ Picked

LEMMA InitNamesOK == Init => NamesOK
<1> SUFFICES ASSUME Init PROVE NamesOK
  OBVIOUS
<1>1. \A u, v \in Existing : u = v
  BY DEF Init, Existing, Exists
<1> QED
  BY <1>1, InitAccountsOK DEF NamesOK, NamesApart, Picked, Init, Idle

\* A number is in a request at "create" since before, or was free when it was picked.
LEMMA StepPicks ==
  ASSUME AccountsOK, NEW r \in Requests, Step(r), request'[r].pc = "create"
  PROVE  PickName(r) /\ request'[r].number = NextFree /\ UNCHANGED users
<1>0. request \in [Requests -> Handlers]
  BY HeldBy
<1>1. CASE PickName(r)
  <2>1. request[r] \in Creations
    BY <1>1, HandlerTypes DEF AccountsOK, PickName
  <2>2. request'[r].number = NextFree
    BY <1>0, <1>1, <2>1 DEF PickName, Creations
  <2> QED
    BY <1>1, <2>2 DEF PickName
<1>2. CASE CreateAccount(r)
  <2>1. request[r] \in Creations
    BY <1>2, HandlerTypes DEF AccountsOK, CreateAccount
  <2> QED
    BY <1>0, <1>2, <2>1 DEF CreateAccount, Continues, Creations
<1>3. CASE StorePassword(r) \/ Mail(r)
  <2>1. request[r] \in Deliveries
    BY <1>3, HandlerTypes DEF AccountsOK, StorePassword, Mail
  <2> QED
    BY <1>0, <1>3, <2>1 DEF StorePassword, Mail, Continues, Deliveries
<1> QED
  BY <1>0, <1>1, <1>2, <1>3
     DEF Step, BeginCreate, Refuse, BeginReissue, WriteStatus, Change, BeginChange, RequestLost,
         Begins, Ends, Idle

LEMMA StepNamesOK ==
  ASSUME NamesOK, NEW r \in Requests, Step(r)
  PROVE  NamesOK'
<1> USE DEF NamesOK
<1>1. AccountsOK'
  BY StepAccountsOK
<1>2. \A u \in Users : Exists(u) => users'[u].name = users[u].name
  BY RowFields
<1>3. \A u \in Users : Exists(u)' /\ ~Exists(u) =>
        /\ u = NewUser /\ request[r].pc = "create" /\ ~Clash(request[r].number)
        /\ users'[u].name.number = request[r].number /\ ~users'[u].name.cased
  <2> SUFFICES ASSUME NEW u \in Users, Exists(u)', ~Exists(u)
               PROVE  /\ u = NewUser /\ request[r].pc = "create" /\ ~Clash(request[r].number)
                      /\ users'[u].name.number = request[r].number /\ ~users'[u].name.cased
    OBVIOUS
  <2>1. CreateAccount(r) /\ u = NewUser /\ ~Clash(request[r].number) /\ users'[u] = Created(r)
    BY RowSteps DEF RowStep, Exists, AccountsOK, Targeted
  <2> QED
    BY <2>1, CreatedFields DEF CreateAccount
<1>4. \A u \in Users, v \in Users :
        /\ Exists(u)' /\ ~Exists(u) /\ Exists(v)
        => users'[u].name.number # users'[v].name.number
  <2> SUFFICES ASSUME NEW u \in Users, NEW v \in Users, Exists(u)', ~Exists(u), Exists(v),
                      users'[u].name.number = users'[v].name.number
               PROVE  FALSE
    OBVIOUS
  <2>1. /\ request[r].pc = "create" /\ ~Clash(request[r].number)
        /\ users[v].name.number = request[r].number
    BY <1>2, <1>3
  <2>2. users[v].name \in Usernames
    BY DEF AccountsOK, TypeOK, Exists, Rows
  <2>3. CASE users[v].name.cased
    BY <2>1, <2>3 DEF Picked, Existing
  <2>4. CASE ~users[v].name.cased
    <3>1. users[v].name = [number |-> request[r].number, cased |-> FALSE]
      BY <2>1, <2>2, <2>4 DEF Usernames
    <3> QED
      BY <2>1, <3>1 DEF Clash, Existing
  <2> QED
    BY <2>3, <2>4
<1>5. NamesApart'
  <2> SUFFICES ASSUME NEW u \in Users, NEW v \in Users, Exists(u)', Exists(v)',
                      users'[u].name.number = users'[v].name.number
               PROVE  u = v
    BY DEF NamesApart, Existing
  <2>1. CASE Exists(u) /\ Exists(v)
    BY <1>2, <2>1 DEF NamesApart, Existing
  <2>2. CASE ~Exists(u) /\ ~Exists(v)
    BY <1>3, <2>2
  <2> QED
    BY <1>4, <2>1, <2>2
<1>6. Picked'
  <2> SUFFICES ASSUME NEW q \in Requests, NEW u \in Users, Exists(u)',
                      request'[q].pc = "create", users'[u].name.cased
               PROVE  users'[u].name.number # request'[q].number
    BY DEF Picked, Existing
  <2>1. Exists(u) /\ users'[u].name = users[u].name
    BY <1>2, <1>3
  <2>2. CASE q = r
    <3>1. request'[q].number = NextFree
      BY <2>2, StepPicks
    <3>2. NextFree \notin Taken
      BY NextFreeIsFree DEF AccountsOK
    <3> QED
      BY <2>1, <3>1, <3>2 DEF Taken, Existing
  <2>3. CASE q # r
    BY <2>1, <2>3, StepAlone DEF Picked, Existing, AccountsOK
  <2> QED
    BY <2>2, <2>3
<1> QED
  BY <1>1, <1>5, <1>6

LEMMA NextNamesOK == NamesOK /\ [Next]_vars => NamesOK'
<1> SUFFICES ASSUME NamesOK, [Next]_vars PROVE NamesOK'
  OBVIOUS
<1>1. CASE \E r \in Requests : Step(r)
  BY <1>1, StepNamesOK
<1>2. CASE UNCHANGED <<users, request>>
  BY <1>2, NextAccountsOK DEF NamesOK, NamesApart, Picked, Existing, Exists
<1> QED
  BY <1>1, <1>2, Steps DEF Login, vars

\* What is typed at the login names one account at most, whatever the letters,
\* however many creations race: the pick minds old names in other letters, the
\* unique index the new ones (nextFreeUsername, createWithGeneratedUsername).
THEOREM NamesStayApart == Spec => []NamesApart
<1>1. Spec => []NamesOK
  BY InitNamesOK, NextNamesOK, PTL DEF Spec
<1>2. NamesOK => NamesApart
  BY DEF NamesOK
<1> QED
  BY <1>1, <1>2, PTL

-----------------------------------------------------------------------------
\* Refusals.

Creating(r) == request[r].pc \in {"pick", "create", "refused"}

\* The accounts that came in since a creation began.
Newcomers(r) == Existing \ request[r].since

\* How many of its picks were lost to somebody else by now.
Rounds(r) ==
  IF request[r].pc = "refused" \/ (request[r].pc = "create" /\ request[r].number \in Taken)
  THEN request[r].attempt ELSE request[r].attempt - 1

\* Every lost pick has its newcomer, and a refusal comes after the last attempt.
RefusalOK ==
  /\ AccountsOK
  /\ \A r \in Requests : Creating(r) =>
       /\ request[r].since \subseteq Existing
       /\ Cardinality(Newcomers(r)) >= Rounds(r)
       /\ request[r].pc = "refused" => ~MayRetry(r)

LEMMA InitRefusalOK == Init => RefusalOK
BY InitAccountsOK DEF RefusalOK, Creating, Init, Idle

LEMMA CreatorHolds ==
  ASSUME TypeOK, NEW r \in Requests, Creating(r)
  PROVE  /\ request[r] \in Creations
         /\ request[r].attempt \in Nat /\ Rounds(r) \in Int
<1>1. request[r] \in Creations
  BY HandlerTypes DEF Creating
<1>2. request[r].attempt \in 1 .. Attempts
  BY <1>1 DEF Creations
<1> QED
  BY <1>1, <1>2, AccountsAssumption DEF Rounds

\* Accounts only come, and one more makes one more newcomer.
LEMMA NewcomersCount ==
  ASSUME NEW S \in SUBSET Users, NEW T \in SUBSET Users, S \subseteq T,
         NEW since \in SUBSET S
  PROVE  /\ Cardinality(S \ since) \in Nat /\ Cardinality(T \ since) \in Nat
         /\ Cardinality(S \ since) <= Cardinality(T \ since)
         /\ S # T => Cardinality(S \ since) < Cardinality(T \ since)
<1>1. IsFiniteSet(T \ since)
  BY AccountsAssumption, FS_Subset
<1>2. S \ since \in SUBSET (T \ since)
  OBVIOUS
<1>3. IsFiniteSet(S \ since) /\ Cardinality(S \ since) <= Cardinality(T \ since)
  BY <1>1, <1>2, FS_Subset
<1>4. Cardinality(S \ since) \in Nat /\ Cardinality(T \ since) \in Nat
  BY <1>1, <1>3, FS_CardinalityType
<1>5. Cardinality(S \ since) = Cardinality(T \ since) => S \ since = T \ since
  BY <1>1, <1>2, FS_Subset
<1>6. S \ since = T \ since => S = T
  OBVIOUS
<1> QED
  BY <1>3, <1>4, <1>5, <1>6

\* The creations of the others: a number that they take has come with an account.
LEMMA OthersRefusalOK ==
  ASSUME RefusalOK, NEW r \in Requests, Step(r), NEW q \in Requests \ {r}, Creating(q)'
  PROVE  /\ (request[q].since \subseteq Existing)'
         /\ (Cardinality(Newcomers(q)) >= Rounds(q))'
         /\ (request[q].pc = "refused" => ~MayRetry(q))'
<1> USE DEF RefusalOK
<1>1. request'[q] = request[q]
  BY StepAlone DEF AccountsOK
<1>2. Creating(q)
  BY <1>1 DEF Creating
<1>3. Existing \subseteq Existing' /\ Existing' \in SUBSET Users
  BY StepKeepsRows DEF RowsStay, Existing
<1>4. \A u \in Existing : users'[u].name = users[u].name
  BY RowFields DEF Existing
<1>5. request[q].since \in SUBSET Existing /\ Existing \in SUBSET Users
  BY <1>2 DEF Existing
<1>6. /\ Cardinality(Newcomers(q)) \in Nat /\ Cardinality(Newcomers(q)') \in Nat
      /\ Cardinality(Newcomers(q)) <= Cardinality(Newcomers(q)')
      /\ Existing # Existing' => Cardinality(Newcomers(q)) < Cardinality(Newcomers(q)')
  BY <1>1, <1>3, <1>5, NewcomersCount DEF Newcomers
<1>7. request[q].attempt \in Nat /\ Rounds(q) \in Int
  BY <1>2, CreatorHolds DEF AccountsOK
<1>8. CASE Existing = Existing'
  <2>1. Taken' = Taken
    BY <1>4, <1>8 DEF Taken
  <2>2. Rounds(q)' = Rounds(q)
    BY <1>1, <2>1 DEF Rounds
  <2> QED
    BY <1>1, <1>2, <1>3, <1>6, <1>7, <2>2 DEF MayRetry
<1>9. CASE Existing # Existing'
  <2>1. Rounds(q)' <= Rounds(q) + 1
    BY <1>1, <1>7 DEF Rounds
  <2>2. Rounds(q)' \in Int
    BY <1>1, <1>7 DEF Rounds
  <2> QED
    BY <1>1, <1>2, <1>3, <1>6, <1>7, <1>9, <2>1, <2>2 DEF MayRetry
<1> QED
  BY <1>8, <1>9

\* The creation that takes the step: only a clash, which is a lost pick, makes it
\* try again or give up.
LEMMA OwnRefusalOK ==
  ASSUME RefusalOK, NEW r \in Requests, Step(r), Creating(r)'
  PROVE  /\ (request[r].since \subseteq Existing)'
         /\ (Cardinality(Newcomers(r)) >= Rounds(r))'
         /\ (request[r].pc = "refused" => ~MayRetry(r))'
<1> USE DEF RefusalOK
<1>0. request \in [Requests -> Handlers]
  BY HeldBy
<1>1. CASE BeginCreate(r)
  <2>1. request'[r] = [pc |-> "pick", number |-> 0, password |-> issued + 1,
                       attempt |-> 1, since |-> Existing]
    BY <1>0, <1>1 DEF BeginCreate, Begins
  <2>2. Existing' = Existing
    BY <1>1 DEF BeginCreate, Existing, Exists
  <2>3. Newcomers(r)' = {}
    BY <2>1, <2>2 DEF Newcomers
  <2>4. Cardinality({}) = 0
    BY FS_EmptySet
  <2> QED
    BY <2>1, <2>2, <2>3, <2>4 DEF Rounds
<1>2. CASE PickName(r)
  <2>1. request[r] \in Creations /\ request[r].attempt \in Nat /\ Creating(r)
    BY <1>2, CreatorHolds DEF AccountsOK, PickName, Creating
  <2>2. request'[r] = [request[r] EXCEPT !.pc = "create", !.number = NextFree]
    BY <1>0, <1>2 DEF PickName
  <2>3. /\ request'[r].pc = "create" /\ request'[r].number = NextFree
        /\ request'[r].attempt = request[r].attempt /\ request'[r].since = request[r].since
    BY <2>1, <2>2 DEF Creations
  <2>4. Existing' = Existing /\ Taken' = Taken
    BY <1>2 DEF PickName, Existing, Exists, Taken
  <2>5. NextFree \notin Taken
    BY NextFreeIsFree DEF AccountsOK
  <2>6. Rounds(r)' = Rounds(r)
    BY <1>2, <2>3, <2>4, <2>5 DEF Rounds, PickName
  <2>7. Newcomers(r)' = Newcomers(r)
    BY <2>3, <2>4 DEF Newcomers
  <2> QED
    BY <2>1, <2>3, <2>4, <2>6, <2>7
<1>3. CASE CreateAccount(r)
  <2>1. request[r] \in Creations /\ request[r].attempt \in Nat /\ Creating(r)
    BY <1>3, CreatorHolds DEF AccountsOK, CreateAccount, Creating
  <2>2. Clash(request[r].number) /\ UNCHANGED users
    BY <1>0, <1>3 DEF CreateAccount, Creating
  <2>3. request[r].number \in Taken
    BY <2>2 DEF Clash, Taken
  <2>4. Cardinality(Newcomers(r)) >= request[r].attempt
    BY <1>3, <2>1, <2>3 DEF Rounds, CreateAccount
  <2>5. Existing' = Existing
    BY <2>2 DEF Existing, Exists
  <2>6. CASE MayRetry(r)
    <3>1. request'[r] = [request[r] EXCEPT !.pc = "pick", !.attempt = @ + 1]
      BY <1>0, <1>3, <2>2, <2>6 DEF CreateAccount
    <3>2. /\ request'[r].pc = "pick" /\ request'[r].since = request[r].since
          /\ request'[r].attempt = request[r].attempt + 1
      BY <2>1, <3>1 DEF Creations
    <3>3. Newcomers(r)' = Newcomers(r) /\ Rounds(r)' = request[r].attempt
      BY <2>1, <2>5, <3>2 DEF Newcomers, Rounds
    <3> QED
      BY <2>1, <2>4, <2>5, <3>2, <3>3
  <2>7. CASE ~MayRetry(r)
    <3>1. request'[r] = [request[r] EXCEPT !.pc = "refused"]
      BY <1>0, <1>3, <2>2, <2>7 DEF CreateAccount, Continues
    <3>2. /\ request'[r].pc = "refused" /\ request'[r].since = request[r].since
          /\ request'[r].attempt = request[r].attempt
      BY <2>1, <3>1 DEF Creations
    <3>3. Newcomers(r)' = Newcomers(r) /\ Rounds(r)' = request[r].attempt
      BY <2>5, <3>2 DEF Newcomers, Rounds
    <3> QED
      BY <2>1, <2>4, <2>5, <2>7, <3>2, <3>3 DEF MayRetry
  <2> QED
    BY <2>6, <2>7
<1>4. CASE StorePassword(r) \/ Mail(r)
  <2>1. request[r] \in Deliveries
    BY <1>4, HandlerTypes DEF AccountsOK, StorePassword, Mail
  <2> QED
    BY <1>0, <1>4, <2>1 DEF StorePassword, Mail, Continues, Deliveries, Creating
<1> QED
  BY <1>0, <1>1, <1>2, <1>3, <1>4
     DEF Step, Refuse, BeginReissue, WriteStatus, Change, BeginChange, RequestLost,
         Begins, Ends, Idle, Creating

LEMMA NextRefusalOK == RefusalOK /\ [Next]_vars => RefusalOK'
<1> SUFFICES ASSUME RefusalOK, [Next]_vars PROVE RefusalOK'
  OBVIOUS
<1>1. AccountsOK'
  BY NextAccountsOK DEF RefusalOK
<1>2. ASSUME NEW r \in Requests, Step(r) PROVE RefusalOK'
  BY <1>1, <1>2, OwnRefusalOK, OthersRefusalOK DEF RefusalOK
<1>3. CASE UNCHANGED <<users, request>>
  BY <1>1, <1>3
     DEF RefusalOK, Creating, Newcomers, Rounds, MayRetry, Taken, Existing, Exists
<1> QED
  BY <1>2, <1>3, Steps DEF Login, vars

\* A creation is refused for its username only after it has lost as many picks
\* as it has attempts, each to another account that was created under it
\* (createWithGeneratedUsername).
THEOREM RefusalsAreLast == Spec => []RefusedOnlyAfter
<1>1. Spec => []RefusalOK
  BY InitRefusalOK, NextRefusalOK, PTL DEF Spec
<1>2. ASSUME RefusalOK PROVE RefusedOnlyAfter
  <2> SUFFICES ASSUME NEW r \in Requests, request[r].pc = "refused"
               PROVE  Cardinality(Newcomers(r)) >= Attempts
    BY DEF RefusedOnlyAfter, Newcomers
  <2>1. Creating(r) /\ Rounds(r) = request[r].attempt /\ ~MayRetry(r)
    BY <1>2 DEF RefusalOK, Creating, Rounds
  <2>2. request[r].attempt = Attempts
    <3>1. request[r] \in Creations
      BY <1>2, <2>1, CreatorHolds DEF RefusalOK, AccountsOK
    <3>2. request[r].attempt \in 1 .. Attempts
      BY <3>1 DEF Creations
    <3> QED
      BY <2>1, <3>2, AccountsAssumption DEF MayRetry
  <2> QED
    BY <1>2, <2>1, <2>2 DEF RefusalOK
<1> QED
  BY <1>1, <1>2, PTL

-----------------------------------------------------------------------------
\* Sessions.

\* Whoever need not change the password has chosen one, and so has whoever
\* holds a plain session.
ChosenOK ==
  /\ AccountsOK
  /\ \A u \in Existing : ~users[u].mustChange => u \in chose
  /\ PlainOnlyAfterChange

LEMMA InitChosenOK == Init => ChosenOK
<1> SUFFICES ASSUME Init PROVE ChosenOK
  OBVIOUS
<1>1. \A u \in Existing : u \in chose
  BY DEF Init, Existing, Exists
<1> QED
  BY <1>1, InitAccountsOK DEF ChosenOK, PlainOnlyAfterChange, Init

LEMMA NextChosenOK == ChosenOK /\ [Next]_vars => ChosenOK'
<1> SUFFICES ASSUME ChosenOK, [Next]_vars PROVE ChosenOK'
  OBVIOUS
<1>0. AccountsOK /\ AccountsOK'
  BY NextAccountsOK DEF ChosenOK
<1>1. CASE \E r \in Requests : Step(r)
  <2>1. PICK r \in Requests : Step(r)
    BY <1>1
  <2>2. chose \subseteq chose'
    BY <2>1 DEF Step, BeginCreate, PickName, CreateAccount, Refuse, BeginReissue, StorePassword,
       Mail, WriteStatus, Change, BeginChange, RequestLost
  <2>3. \A u \in Existing' : ~users'[u].mustChange => u \in chose'
    <3> SUFFICES ASSUME NEW u \in Users, Exists(u)', ~users'[u].mustChange
                 PROVE  u \in chose'
      BY DEF Existing
    <3>1. RowStep(r, u)
      BY <1>0, <2>1, RowSteps
    <3>2. CASE users'[u] = users[u]
      BY <2>2, <3>2 DEF ChosenOK, Existing, Exists
    <3>3. CASE users'[u] = Created(r)
      BY <3>3, CreatedFields
    <3>4. CASE At(r, u) /\ users'[u] # users[u]
      <4>1. Exists(u)
        BY <1>0, <3>4 DEF AccountsOK, Targeted
      <4>2. CASE StorePassword(r)
        BY <1>0, <2>1, <3>4, <4>1, <4>2, RowFields
      <4>3. CASE WriteStatus(r)
        BY <1>0, <2>1, <2>2, <3>4, <4>1, <4>3, RowFields DEF ChosenOK, Existing
      <4>4. CASE Change(r)
        BY <3>4, <4>4 DEF Change, At
      <4> QED
        BY <3>1, <3>4, <4>1, <4>2, <4>3, <4>4 DEF RowStep
    <3> QED
      BY <3>1, <3>2, <3>3, <3>4 DEF RowStep
  <2>4. PlainOnlyAfterChange'
    <3>1. CASE Change(r)
      <4>1. request[r].user \in chose'
        BY <3>1 DEF Change
      <4>2. \A u \in Users : u # request[r].user => tokens'[u] = tokens[u]
        BY <1>0, <3>1 DEF Change, AccountsOK, TypeOK
      <4> QED
        BY <2>2, <4>1, <4>2 DEF ChosenOK, PlainOnlyAfterChange
    <3>2. CASE UNCHANGED tokens
      BY <2>2, <3>2 DEF ChosenOK, PlainOnlyAfterChange
    <3> QED
      BY <2>1, <3>1, <3>2 DEF Step, BeginCreate, PickName, CreateAccount, Refuse, BeginReissue,
         StorePassword, Mail, WriteStatus, BeginChange, RequestLost
  <2> QED
    BY <1>0, <2>3, <2>4 DEF ChosenOK
<1>2. CASE \E u \in Users : Login(u)
  <2>1. PICK u \in Users : Login(u)
    BY <1>2
  <2>2. tokens' = [tokens EXCEPT ![u] = @ \cup {Session(users[u])}] /\ u \in Existing
    BY <2>1 DEF Login, Existing
  <2>3. Session(users[u]) = "plain" => u \in chose
    BY <2>2 DEF Session, ChosenOK
  <2>4. PlainOnlyAfterChange'
    BY <1>0, <2>1, <2>2, <2>3 DEF PlainOnlyAfterChange, ChosenOK, AccountsOK, TypeOK, Login
  <2> QED
    BY <1>0, <2>1, <2>4 DEF ChosenOK, Login, Existing, Exists
<1>3. CASE UNCHANGED vars
  BY <1>0, <1>3 DEF vars, ChosenOK, PlainOnlyAfterChange, Existing, Exists
<1> QED
  BY <1>1, <1>2, <1>3, Steps

\* A session that guards let through belongs to a user who has chosen a
\* password, whatever resends, changes and crashes lie between (RolesGuard).
THEOREM PlainIsChosen == Spec => []PlainOnlyAfterChange
<1>1. Spec => []ChosenOK
  BY InitChosenOK, NextChosenOK, PTL DEF Spec
<1>2. ChosenOK => PlainOnlyAfterChange
  BY DEF ChosenOK
<1> QED
  BY <1>1, <1>2, PTL

-----------------------------------------------------------------------------
\* A change that takes its turn.

\* What a change compared is still what is stored, and whoever need not change
\* the password any more has proved to know it.
ProvedOK ==
  /\ AccountsOK
  /\ \A u \in Existing : ~users[u].mustChange => u \in proved
  /\ \A r \in Requests : request[r].pc = "change" =>
       request[r].current = users[request[r].user].password

LEMMA InitProvedOK == Init => ProvedOK
<1> SUFFICES ASSUME Init PROVE ProvedOK
  OBVIOUS
<1>1. \A u \in Existing : u \in proved
  BY DEF Init, Existing, Exists
<1> QED
  BY <1>1, InitAccountsOK DEF ProvedOK, Init, Idle

\* Who is at "change" after a step was there before it, or has just compared.
LEMMA StepCompares ==
  ASSUME AccountsOK, NEW r \in Requests, Step(r), request'[r].pc = "change"
  PROVE  /\ request'[r].current = users[request'[r].user].password
         /\ UNCHANGED users
<1>0. request \in [Requests -> Handlers]
  BY HeldBy
<1>1. CASE CreateAccount(r) \/ PickName(r)
  <2>1. request[r] \in Creations
    BY <1>1, HandlerTypes DEF AccountsOK, CreateAccount, PickName
  <2> QED
    BY <1>0, <1>1, <2>1 DEF CreateAccount, PickName, Continues, Creations
<1>2. CASE StorePassword(r) \/ Mail(r)
  <2>1. request[r] \in Deliveries
    BY <1>2, HandlerTypes DEF AccountsOK, StorePassword, Mail
  <2> QED
    BY <1>0, <1>2, <2>1 DEF StorePassword, Mail, Continues, Deliveries
<1>3. CASE \E u \in Users, current \in Passwords : BeginChange(r, u, current)
  BY <1>0, <1>3 DEF BeginChange, Begins, Knows
<1> QED
  BY <1>0, <1>1, <1>2, <1>3
     DEF Step, BeginCreate, Refuse, BeginReissue, WriteStatus, Change, RequestLost,
         Begins, Ends, Idle

LEMMA StepProvedOK ==
  ASSUME ProvedOK, TakeTurns, NEW r \in Requests, Step(r)
  PROVE  ProvedOK'
<1>0. AccountsOK /\ AccountsOK'
  BY StepAccountsOK DEF ProvedOK
<1>1. \A u \in Existing' : ~users'[u].mustChange => u \in proved'
  <2> SUFFICES ASSUME NEW u \in Users, Exists(u)', ~users'[u].mustChange
               PROVE  u \in proved'
    BY DEF Existing
  <2>1. RowStep(r, u)
    BY <1>0, RowSteps
  <2>2. CASE StorePassword(r)
    <3>1. u # request[r].user
      BY <1>0, <2>2, UserOfHandler, RowFound, HandlerTypes
         DEF AccountsOK, TypeOK, StorePassword, Reissued, Rows
    <3>2. Exists(u) /\ ~users[u].mustChange
      BY <1>0, <2>2, <3>1 DEF StorePassword, AccountsOK, TypeOK, Exists
    <3> QED
      BY <2>2, <3>1, <3>2 DEF ProvedOK, StorePassword, Existing
  <2>3. CASE Change(r)
    <3>1. request[r].current = users[request[r].user].password
      BY <2>3 DEF ProvedOK, Change
    <3>2. CASE u = request[r].user
      BY <2>3, <3>1, <3>2 DEF Change
    <3>3. CASE u # request[r].user
      <4>1. Exists(u) /\ ~users[u].mustChange
        BY <1>0, <2>3, <3>3 DEF Change, AccountsOK, TypeOK, Exists
      <4> QED
        BY <2>3, <4>1 DEF ProvedOK, Change, Existing
    <3> QED
      BY <3>2, <3>3
  <2>4. CASE ~StorePassword(r) /\ ~Change(r)
    <3>1. proved' = proved
      BY <2>4 DEF Step, BeginCreate, PickName, CreateAccount, Refuse, BeginReissue, Mail,
         WriteStatus, BeginChange, RequestLost
    <3>2. CASE users'[u] = users[u]
      BY <3>1, <3>2 DEF ProvedOK, Existing, Exists
    <3>3. CASE users'[u] = Created(r)
      BY <3>3, CreatedFields
    <3>4. CASE WriteStatus(r) /\ At(r, u) /\ users'[u] # users[u]
      <4>1. Exists(u)
        BY <1>0, <3>4 DEF AccountsOK, Targeted
      <4> QED
        BY <1>0, <3>1, <3>4, <4>1, RowFields DEF ProvedOK, Existing
    <3> QED
      BY <2>1, <2>4, <3>2, <3>3, <3>4 DEF RowStep
  <2> QED
    BY <2>2, <2>3, <2>4
<1>2. ASSUME NEW q \in Requests, request'[q].pc = "change"
      PROVE  request'[q].current = users'[request'[q].user].password
  <2>1. CASE q = r
    BY <1>0, <1>2, <2>1, StepCompares
  <2>2. CASE q # r
    <3>1. request'[q] = request[q] /\ request[q].pc = "change"
      BY <1>0, <1>2, <2>2, StepAlone DEF AccountsOK
    <3> DEFINE u == request[q].user
    <3>2. u \in Users /\ At(q, u) /\ ~At(r, u)
      BY <1>0, <2>2, <3>1, UserOfHandler DEF AccountsOK, TakeTurns
    <3>3. Exists(u)
      BY <1>0, <3>2 DEF AccountsOK, Targeted
    <3> HIDE DEF u
    <3>4. users'[u] = users[u]
      BY <1>0, <3>2, <3>3, RowSteps DEF RowStep
    <3> QED
      BY <3>1, <3>4 DEF u, ProvedOK
  <2> QED
    BY <2>1, <2>2
<1> QED
  BY <1>0, <1>1, <1>2 DEF ProvedOK

LEMMA NextProvedOK == ProvedOK /\ TakeTurns /\ [Next]_vars => ProvedOK'
<1> SUFFICES ASSUME ProvedOK, TakeTurns, [Next]_vars PROVE ProvedOK'
  OBVIOUS
<1>1. CASE \E r \in Requests : Step(r)
  BY <1>1, StepProvedOK
<1>2. CASE UNCHANGED <<users, request, proved>>
  BY <1>2, NextAccountsOK DEF ProvedOK, Existing, Exists
<1> QED
  BY <1>1, <1>2, Steps DEF Login, vars

\* After a resend only somebody who knows the new password ends the forced
\* change, for any number of requests that take turns (changePassword).
THEOREM ChangesProved == Spec => TurnsChangeProved
<1> DEFINE Told == \A u \in Existing : ~users[u].mustChange => u \in proved
<1>1. ProvedOK => Told
  BY DEF ProvedOK
<1> HIDE DEF Told
<1>2. Spec => ([]TakeTurns => []Told)
  BY <1>1, InitProvedOK, NextProvedOK, PTL DEF Spec
<1> QED
  BY <1>2 DEF Told, TurnsChangeProved

-----------------------------------------------------------------------------
\* Mail.

\* The requests whose password is stored and whose mail is not settled.
Delivering(r, u) == At(r, u) /\ request[r].pc \in {"mail", "status"}

\* What is being delivered is what is stored, and whoever is not being served
\* has the truth in the mail.
MailOK ==
  /\ AccountsOK
  /\ \A r \in Requests, u \in Users : Delivering(r, u) =>
       /\ request[r].password = users[u].password
       /\ request[r].pc = "status" /\ request[r].outcome = "sent" => inbox[u] = users[u].password
  /\ \A u \in Existing :
       users[u].mail = "sent" /\ users[u].mustChange /\ (\A r \in Requests : ~Delivering(r, u))
       => inbox[u] = users[u].password

LEMMA InitMailOK == Init => MailOK
<1> SUFFICES ASSUME Init PROVE MailOK
  OBVIOUS
<1>1. \A u \in Existing : users[u].mail = "none"
  BY DEF Init, Existing, Exists, OldRow
<1> QED
  BY <1>1, InitAccountsOK DEF MailOK, Delivering, At, Init, Idle

\* A step other than its own neither touches an account that is being served
\* nor its mail.
LEMMA ServedAlone ==
  ASSUME AccountsOK, TakeTurns, NEW r \in Requests, Step(r),
         NEW q \in Requests \ {r}, NEW u \in Users, At(q, u)
  PROVE  users'[u] = users[u] /\ inbox'[u] = inbox[u]
<1>1. ~At(r, u) /\ Exists(u)
  BY DEF TakeTurns, AccountsOK, Targeted
<1>2. users'[u] = users[u]
  BY <1>1, RowSteps DEF RowStep
<1>3. inbox'[u] = inbox[u]
  <2>1. CASE Mail(r)
    <3>1. u # request[r].user
      BY <1>1, <2>1 DEF Mail, At
    <3> QED
      BY <2>1, <3>1 DEF Mail, AccountsOK, TypeOK
  <2> QED
    BY <2>1 DEF Step, BeginCreate, PickName, CreateAccount, Refuse, BeginReissue, StorePassword,
       WriteStatus, Change, BeginChange, RequestLost
<1> QED
  BY <1>2, <1>3

\* A handler delivers after its step what is stored by then.
LEMMA OwnDelivery ==
  ASSUME MailOK, NEW r \in Requests, Step(r), NEW u \in Users, Delivering(r, u)'
  PROVE  /\ request'[r].password = users'[u].password
         /\ request'[r].pc = "status" /\ request'[r].outcome = "sent"
              => inbox'[u] = users'[u].password
<1>0. request \in [Requests -> Handlers] /\ AccountsOK
  BY HeldBy DEF MailOK
<1>a. request'[r].pc \in {"mail", "status"} /\ request'[r].user = u
  BY DEF Delivering, At
<1>1. CASE PickName(r)
  <2>1. request[r] \in Creations
    BY <1>0, <1>1, HandlerTypes DEF AccountsOK, PickName
  <2> QED
    BY <1>0, <1>a, <1>1, <2>1 DEF PickName, Creations
<1>2. CASE CreateAccount(r)
  <2>1. request[r] \in Creations
    BY <1>0, <1>2, HandlerTypes DEF AccountsOK, CreateAccount
  <2>2. CASE Clash(request[r].number)
    BY <1>0, <1>a, <1>2, <2>1, <2>2 DEF CreateAccount, Continues, Creations
  <2>3. CASE ~Clash(request[r].number)
    <3>1. /\ Existing # Users
          /\ users' = [users EXCEPT ![NewUser] = Created(r)]
          /\ request' = [request EXCEPT
               ![r] = [pc |-> "mail", user |-> NewUser, password |-> @.password,
                       outcome |-> "none"]]
      BY <1>2, <2>3 DEF CreateAccount
    <3>2. u = NewUser /\ request'[r].password = request[r].password /\ request'[r].pc = "mail"
      BY <1>0, <1>a, <3>1
    <3>3. users'[u] = Created(r)
      BY <1>0, <3>1, <3>2 DEF AccountsOK, TypeOK
    <3> QED
      BY <3>2, <3>3, CreatedFields
  <2> QED
    BY <2>2, <2>3
<1>3. CASE StorePassword(r)
  <2>1. request[r] \in Deliveries /\ request[r].pc = "store"
    BY <1>0, <1>3, HandlerTypes DEF AccountsOK, StorePassword
  <2>2. /\ request'[r].user = request[r].user /\ request'[r].password = request[r].password
        /\ request'[r].pc = "mail"
    BY <1>0, <1>3, <2>1 DEF StorePassword, Continues, Deliveries
  <2>3. users'[u] = Reissued(users[u], request[r].password)
    BY <1>0, <1>a, <1>3, <2>2 DEF StorePassword, AccountsOK, TypeOK
  <2>4. users[u] \in Rows
    BY <1>0, <1>a, <2>1, <2>2, RowFound DEF At
  <2>5. users'[u].password = request[r].password
    BY <2>3, <2>4 DEF Reissued, Rows
  <2> QED
    BY <2>2, <2>5
<1>4. CASE Mail(r)
  <2>1. request[r] \in Deliveries /\ request[r].pc = "mail"
    BY <1>0, <1>4, HandlerTypes DEF AccountsOK, Mail
  <2>2. PICK outcome \in {"sent", "failed"} :
          /\ \/ inbox' = [inbox EXCEPT ![request[r].user] = request[r].password]
             \/ outcome = "failed" /\ UNCHANGED inbox
          /\ request' = [request EXCEPT ![r].pc = "status", ![r].outcome = outcome]
    BY <1>4 DEF Mail
  <2>3. /\ request'[r].user = request[r].user /\ request'[r].password = request[r].password
        /\ request'[r].outcome = outcome
    BY <1>0, <2>1, <2>2 DEF Deliveries
  <2>4. Delivering(r, u) /\ users' = users
    BY <1>a, <1>4, <2>1, <2>3 DEF Delivering, At, Mail
  <2>5. request[r].password = users[u].password
    BY <2>4 DEF MailOK
  <2>6. outcome = "sent" => inbox'[u] = request[r].password
    BY <1>0, <1>a, <2>2, <2>3 DEF AccountsOK, TypeOK
  <2> QED
    BY <2>3, <2>4, <2>5, <2>6
<1> QED
  BY <1>0, <1>a, <1>1, <1>2, <1>3, <1>4
     DEF Step, BeginCreate, Refuse, BeginReissue, WriteStatus, Change, BeginChange, RequestLost,
         Begins, Ends, Idle

LEMMA StepMailOK ==
  ASSUME MailOK, TakeTurns, NEW r \in Requests, Step(r), ~RequestLost(r)
  PROVE  MailOK'
<1>0. AccountsOK /\ AccountsOK' /\ request \in [Requests -> Handlers]
  BY StepAccountsOK, HeldBy DEF MailOK
<1>1. ASSUME NEW q \in Requests, NEW u \in Users, Delivering(q, u)'
      PROVE  /\ request'[q].password = users'[u].password
             /\ request'[q].pc = "status" /\ request'[q].outcome = "sent"
                  => inbox'[u] = users'[u].password
  <2>1. CASE q = r
    BY <1>1, <2>1, OwnDelivery
  <2>2. CASE q # r
    <3>1. request'[q] = request[q] /\ Delivering(q, u)
      BY <1>0, <1>1, <2>2, StepAlone DEF AccountsOK, Delivering, At
    <3>2. users'[u] = users[u] /\ inbox'[u] = inbox[u]
      BY <1>0, <2>2, <3>1, ServedAlone DEF Delivering
    <3> QED
      BY <3>1, <3>2 DEF MailOK
  <2> QED
    BY <2>1, <2>2
<1>2. ASSUME NEW u \in Users, Exists(u)', users'[u].mail = "sent", users'[u].mustChange,
             \A q \in Requests : ~Delivering(q, u)'
      PROVE  inbox'[u] = users'[u].password
  <2>1. \A q \in Requests \ {r} : ~Delivering(q, u)
    BY <1>0, <1>2, StepAlone DEF AccountsOK, Delivering, At
  <2>2. CASE WriteStatus(r) /\ request[r].user = u
    <3>1. Delivering(r, u) /\ request[r].pc = "status" /\ inbox' = inbox
      BY <2>2 DEF WriteStatus, Delivering, At
    <3>2. users' = [users EXCEPT ![u] = [users[u] EXCEPT !.mail = request[r].outcome]]
      BY <2>2 DEF WriteStatus
    <3>3. users[u] \in Rows
      BY <1>0, <3>1, RowFound DEF Delivering
    <3>4. users'[u] = [users[u] EXCEPT !.mail = request[r].outcome]
      BY <1>0, <3>2 DEF AccountsOK, TypeOK
    <3>5. users'[u].mail = request[r].outcome /\ users'[u].password = users[u].password
      BY <3>3, <3>4 DEF Rows
    <3> QED
      BY <1>2, <3>1, <3>5 DEF MailOK
  <2>3. CASE ~(WriteStatus(r) /\ request[r].user = u)
    <3>1. ~Delivering(r, u)
      <4>1. CASE Mail(r)
        <5>1. request[r] \in Deliveries
          BY <1>0, <4>1, HandlerTypes DEF AccountsOK, Mail
        <5>2. request'[r].pc = "status" /\ request'[r].user = request[r].user
          BY <1>0, <4>1, <5>1 DEF Mail, Deliveries
        <5> QED
          BY <1>2, <5>2 DEF Delivering, At
      <4>2. CASE request[r].pc \notin {"mail", "status"}
        BY <4>2 DEF Delivering
      <4>3. CASE WriteStatus(r)
        BY <2>3, <4>3 DEF Delivering, At
      <4> QED
        BY <4>1, <4>2, <4>3 DEF Step, BeginCreate, PickName, CreateAccount, Refuse, BeginReissue,
           StorePassword, Change, BeginChange, Begins, Busy, Idle
    <3>2. inbox'[u] = inbox[u]
      <4>1. CASE Mail(r)
        <5>1. request[r].user # u
          BY <3>1, <4>1 DEF Mail, Delivering, At
        <5> QED
          BY <1>0, <4>1, <5>1 DEF Mail, AccountsOK, TypeOK
      <4> QED
        BY <4>1 DEF Step, BeginCreate, PickName, CreateAccount, Refuse, BeginReissue,
           StorePassword, WriteStatus, Change, BeginChange, RequestLost
    <3>3. users'[u] = users[u]
      <4>1. RowStep(r, u)
        BY <1>0, RowSteps
      <4>2. ~(users'[u] = Created(r))
        BY <1>2, CreatedFields
      <4>3. ~(StorePassword(r) /\ At(r, u))
        <5> SUFFICES ASSUME StorePassword(r), At(r, u) PROVE FALSE
          OBVIOUS
        <5>1. request[r] \in Deliveries
          BY <1>0, HandlerTypes DEF AccountsOK, StorePassword
        <5>2. request'[r].pc = "mail" /\ request'[r].user = request[r].user
          BY <1>0, <5>1 DEF StorePassword, Continues, Deliveries
        <5> QED
          BY <1>2, <5>2 DEF Delivering, At
      <4>4. Change(r) /\ At(r, u) => users'[u] = users[u]
        BY <1>0, <1>2, RowFields DEF AccountsOK, Targeted
      <4> QED
        BY <2>3, <4>1, <4>2, <4>3, <4>4 DEF RowStep, At
    <3> QED
      BY <1>2, <2>1, <3>1, <3>2, <3>3 DEF MailOK, Existing, Exists
  <2> QED
    BY <2>2, <2>3
<1> QED
  BY <1>0, <1>1, <1>2 DEF MailOK, Existing

LEMMA NextMailOK == MailOK /\ TakeTurns /\ (faults = 0)' /\ [Next]_vars => MailOK'
<1> SUFFICES ASSUME MailOK, TakeTurns, faults' = 0, [Next]_vars PROVE MailOK'
  OBVIOUS
<1>0. AccountsOK /\ AccountsOK' /\ faults \in 0 .. MaxFaults
  BY NextAccountsOK DEF MailOK, AccountsOK, TypeOK
<1>1. CASE \E r \in Requests : Step(r)
  <2>1. PICK r \in Requests : Step(r)
    BY <1>1
  <2>2. ~RequestLost(r)
    BY <1>0, AccountsAssumption DEF RequestLost
  <2> QED
    BY <2>1, <2>2, StepMailOK
<1>2. CASE UNCHANGED <<users, request, inbox>>
  BY <1>0, <1>2 DEF MailOK, Existing, Exists, Delivering, At
<1> QED
  BY <1>1, <1>2, Steps DEF Login, vars

\* "What was emailed always matches what is stored", for any number of requests
\* that take turns on an account and none of which is lost (reissuePassword,
\* deliverCredentials).
THEOREM MailStaysTrue == Spec => TurnsMailTrue
<1>1. MailOK => MailTrue
  BY DEF MailOK, MailTrue, Delivering
<1>2. Spec => ([](TakeTurns /\ faults = 0) => []MailOK)
  BY InitMailOK, NextMailOK, PTL DEF Spec
<1> QED
  BY <1>1, <1>2, PTL DEF TurnsMailTrue
=============================================================================

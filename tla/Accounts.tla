------------------------------ MODULE Accounts ------------------------------
(***************************************************************************)
(* Logins: the generated username and password of a new account            *)
(* (accounts.ts, credentials.ts), their delivery by mail, the coordinator's *)
(* resend, the user's own change of password and the sessions that guards  *)
(* let through (auth.service.ts, jwt.strategy.ts, roles.guard.ts).         *)
(*                                                                         *)
(* All creations here want the same base name, and every other reason to   *)
(* refuse one (a taken email or student number) is a refusal that is not   *)
(* retried.  Passwords are numbered: Own was typed by its user, the others *)
(* are generated, each once.                                               *)
(* Mail goes out by SMTP; in log mode nothing is sent and nothing recorded. *)
(***************************************************************************)
EXTENDS Integers, FiniteSets

CONSTANTS
  Users,       \* ids
  Requests,    \* handlers in flight
  Attempts,    \* USERNAME_RACE_ATTEMPTS
  MaxIssued,   \* generated passwords; bounds the runs
  MaxFaults,   \* lost requests; bounds the runs
  Absent       \* no row

ASSUME AccountsAssumption ==
  /\ Attempts \in Nat \ {0}
  /\ MaxIssued \in Nat
  /\ MaxFaults \in Nat
  /\ IsFiniteSet(Users) /\ Users # {}

VARIABLES
  users,     \* rows, or Absent
  inbox,     \* the password in the last mail that reached the user, or Nothing
  tokens,    \* the kinds of sessions a user holds; they are not revoked
  request,
  issued,    \* how many passwords were generated
  faults,
  chose,     \* who has ever typed a password of his own (history)
  proved     \* whose password was set by one who knew the last one (history)

vars == <<users, inbox, tokens, request, issued, faults, chose, proved>>

Own == 0
Nothing == -1
Passwords == 0 .. MaxIssued

\* base, base2, base3, ...: the number after the base, and whether the name was
\* typed in other letters than lower case, as only an old one may be.
Usernames == [number : 1 .. Cardinality(Users) + 1, cased : BOOLEAN]

Rows == [name : Usernames, password : Passwords, mustChange : BOOLEAN,
         mail : {"none", "sent", "failed"}]

ASSUME AbsentAssumption == Absent \notin Rows

Exists(u) == users[u] # Absent
Existing == {u \in Users : Exists(u)}

Idle == [pc |-> "idle"]
Busy(r) == request[r] # Idle

\* What a handler holds between two awaits: a creation, the delivery of a
\* password, or a change of one.
Creations == [pc : {"pick", "create", "refused"}, number : 0 .. Cardinality(Users) + 1,
              password : Passwords, attempt : 1 .. Attempts, since : SUBSET Users]

Deliveries == [pc : {"store", "mail", "status"}, user : Users, password : Passwords,
               outcome : {"none", "sent", "failed"}]

Changes == [pc : {"change"}, user : Users, current : Passwords]

TypeOK ==
  /\ users \in [Users -> Rows \cup {Absent}]
  /\ inbox \in [Users -> Passwords \cup {Nothing}]
  /\ tokens \in [Users -> SUBSET {"plain", "mustChange"}]
  /\ request \in [Requests -> {Idle} \cup Creations \cup Deliveries \cup Changes]
  /\ issued \in 0 .. MaxIssued
  /\ faults \in 0 .. MaxFaults
  /\ chose \subseteq Users
  /\ proved \subseteq Users

\* An account from before generated usernames may be there, with a password of
\* its own and a name that was typed.
OldRow == [name |-> [number |-> 1, cased |-> TRUE], password |-> Own,
           mustChange |-> FALSE, mail |-> "none"]

Init ==
  /\ \E old \in {{}, {CHOOSE u \in Users : TRUE}} :
       /\ users = [u \in Users |-> IF u \in old THEN OldRow ELSE Absent]
       /\ chose = old
       /\ proved = old
  /\ inbox = [u \in Users |-> Nothing]
  /\ tokens = [u \in Users |-> {}]
  /\ request = [r \in Requests |-> Idle]
  /\ issued = 0
  /\ faults = 0

-----------------------------------------------------------------------------
Begins(r, req) == ~Busy(r) /\ request' = [request EXCEPT ![r] = req]
Continues(r, pc) == request' = [request EXCEPT ![r].pc = pc]
Ends(r) == request' = [request EXCEPT ![r] = Idle]

\* generatePassword: each is new.
Generates == issued < MaxIssued /\ issued' = issued + 1

-----------------------------------------------------------------------------
\* issueNewAccount and createWithGeneratedUsername.

BeginCreate(r) ==
  /\ Generates
  /\ Begins(r, [pc |-> "pick", number |-> 0, password |-> issued + 1,
                attempt |-> 1, since |-> Existing])
  /\ UNCHANGED <<users, inbox, tokens, faults, chose, proved>>

BrokenTaken == {users[u].name.number : u \in {v \in Existing : ~users[v].name.cased}}
\* findTakenUsernames: whatever letters they were typed in.
Taken == {users[u].name.number : u \in Existing}

\* nextFreeUsername.
NextFree == CHOOSE n \in 1 .. Cardinality(Users) + 1 :
              n \notin Taken /\ \A k \in 1 .. n - 1 : k \in Taken

PickName(r) ==
  /\ request[r].pc = "pick"
  /\ request' = [request EXCEPT ![r].pc = "create", ![r].number = NextFree]
  /\ UNCHANGED <<users, inbox, tokens, issued, faults, chose, proved>>

\* The unique index on User.username, which tells letters apart.
Clash(n) == \E u \in Existing : users[u].name = [number |-> n, cased |-> FALSE]

Created(r) == [name |-> [number |-> request[r].number, cased |-> FALSE],
               password |-> request[r].password, mustChange |-> TRUE, mail |-> "none"]

\* A new id: which one does not matter.
NewUser == CHOOSE u \in Users : ~Exists(u)

BrokenMayRetry(r) == request[r].attempt + 1 < Attempts   \* one attempt too few
\* A lost race is tried again, so often.
MayRetry(r) == request[r].attempt < Attempts

CreateAccount(r) ==
  /\ request[r].pc = "create"
  /\ IF Clash(request[r].number)
     THEN /\ IF MayRetry(r)
             THEN request' = [request EXCEPT ![r].pc = "pick", ![r].attempt = @ + 1]
             ELSE Continues(r, "refused")
          /\ UNCHANGED users
     ELSE /\ Existing # Users
          /\ users' = [users EXCEPT ![NewUser] = Created(r)]
          /\ request' = [request EXCEPT
               ![r] = [pc |-> "mail", user |-> NewUser, password |-> @.password,
                       outcome |-> "none"]]
  /\ UNCHANGED <<inbox, tokens, issued, faults, chose, proved>>

\* The error that is thrown in the end: a name that was taken again, or any
\* other clash at once.
Refuse(r) ==
  /\ request[r].pc \in {"create", "refused"}
  /\ Ends(r)
  /\ UNCHANGED <<users, inbox, tokens, issued, faults, chose, proved>>

-----------------------------------------------------------------------------
\* reissuePassword: save, then send.

BeginReissue(r, u) ==
  /\ Exists(u)
  /\ Generates
  /\ Begins(r, [pc |-> "store", user |-> u, password |-> issued + 1, outcome |-> "none"])
  /\ UNCHANGED <<users, inbox, tokens, faults, chose, proved>>

BrokenReissued(row, p) == row   \* mails a password that it does not save
Reissued(row, p) == [row EXCEPT !.password = p, !.mustChange = TRUE]

StorePassword(r) ==
  /\ request[r].pc = "store"
  /\ users' = [users EXCEPT ![request[r].user] = Reissued(@, request[r].password)]
  /\ proved' = proved \ {request[r].user}
  /\ Continues(r, "mail")
  /\ UNCHANGED <<inbox, tokens, issued, faults, chose>>

\* sendCredentials: a mail that is given up may have been delivered.
Mail(r) ==
  /\ request[r].pc = "mail"
  /\ \E outcome \in {"sent", "failed"} :
       /\ \/ inbox' = [inbox EXCEPT ![request[r].user] = request[r].password]
          \/ outcome = "failed" /\ UNCHANGED inbox
       /\ request' = [request EXCEPT ![r].pc = "status", ![r].outcome = outcome]
  /\ UNCHANGED <<users, tokens, issued, faults, chose, proved>>

\* deliverCredentials records how it went.
WriteStatus(r) ==
  /\ request[r].pc = "status"
  /\ users' = [users EXCEPT ![request[r].user].mail = request[r].outcome]
  /\ Ends(r)
  /\ UNCHANGED <<inbox, tokens, issued, faults, chose, proved>>

-----------------------------------------------------------------------------
BrokenSession(row) == "plain"   \* leaves the flag out of the token
\* session: the token says whether the password must be changed.
Session(row) == IF row.mustChange THEN "mustChange" ELSE "plain"

Login(u) ==
  /\ Exists(u)
  /\ tokens' = [tokens EXCEPT ![u] = @ \cup {Session(users[u])}]
  /\ UNCHANGED <<users, inbox, request, issued, faults, chose, proved>>

BrokenKnows(u, current) == TRUE   \* asks for no password
Knows(u, current) == current = users[u].password

\* changePassword, open to any session: the row is read and compared ...
BeginChange(r, u, current) ==
  /\ Exists(u)
  /\ tokens[u] # {}
  /\ Knows(u, current)
  /\ users[u].password # Own
  /\ Begins(r, [pc |-> "change", user |-> u, current |-> current])
  /\ UNCHANGED <<users, inbox, tokens, issued, faults, chose, proved>>

\* ... and written whatever it says by now; the answer is a new session.
Change(r) ==
  /\ request[r].pc = "change"
  /\ LET u == request[r].user
         row == [users[u] EXCEPT !.password = Own, !.mustChange = FALSE]
     IN  /\ users' = [users EXCEPT ![u] = row]
         /\ tokens' = [tokens EXCEPT ![u] = @ \cup {Session(row)}]
         /\ chose' = chose \cup {u}
         /\ proved' = IF request[r].current = users[u].password
                      THEN proved \cup {u} ELSE proved
  /\ Ends(r)
  /\ UNCHANGED <<inbox, issued, faults>>

\* A crash or a lost connection.
RequestLost(r) ==
  /\ Busy(r)
  /\ faults < MaxFaults
  /\ faults' = faults + 1
  /\ Ends(r)
  /\ UNCHANGED <<users, inbox, tokens, issued, chose, proved>>

IssueStep(r) ==
  \/ BeginCreate(r) \/ PickName(r) \/ CreateAccount(r) \/ Refuse(r)
  \/ \E u \in Users : BeginReissue(r, u)
  \/ StorePassword(r) \/ Mail(r) \/ WriteStatus(r)

ChangeStep(r) == Change(r) \/ \E u \in Users, current \in Passwords : BeginChange(r, u, current)

Next ==
  \/ \E r \in Requests : IssueStep(r) \/ ChangeStep(r) \/ RequestLost(r)
  \/ \E u \in Users : Login(u)

Spec == Init /\ [][Next]_vars

-----------------------------------------------------------------------------
\* Properties.

\* What is typed at the login names one account at most, in whatever letters:
\* the index does not see that, so the pick has to (nextFreeUsername,
\* findByIdentifier).
NamesApart ==
  \A u, v \in Existing : users[u].name.number = users[v].name.number => u = v

\* A creation is refused for its username only after as many others as it has
\* attempts were created under it (createWithGeneratedUsername).
RefusedOnlyAfter ==
  \A r \in Requests :
    request[r].pc = "refused" => Cardinality(Existing \ request[r].since) >= Attempts

\* The handlers that are at work on one account.
At(r, u) == request[r].pc \in {"store", "mail", "status", "change"} /\ request[r].user = u

TakeTurns == \A u \in Users, r, s \in Requests : At(r, u) /\ At(s, u) => r = s

\* A row that says the login was sent, and that waits for its first sign-in,
\* holds the password that is in the mail.
MailTrue ==
  \A u \in Existing :
    users[u].mail = "sent" /\ users[u].mustChange /\ (\A r \in Requests : ~At(r, u))
    => inbox[u] = users[u].password

\* "What was emailed always matches what is stored" (reissuePassword) as long as
\* the requests on an account take turns and none is lost.
TurnsMailTrue == [](TakeTurns /\ faults = 0) => []MailTrue

\* After a resend only somebody who has been told the new password can end the
\* forced change, if requests take turns (changePassword compares, then writes).
TurnsChangeProved ==
  []TakeTurns => [](\A u \in Existing : ~users[u].mustChange => u \in proved)

\* A session that guards let through belongs to a user who has chosen a
\* password: a temporary one opens nothing but the change (RolesGuard, session).
PlainOnlyAfterChange == \A u \in Users : "plain" \in tokens[u] => u \in chose

=============================================================================

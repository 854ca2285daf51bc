------------------------------ MODULE Session -------------------------------
(***************************************************************************)
(* The session of one browser: the token and the user in localStorage and  *)
(* the role cookie, which all tabs share (lib/auth.ts), the proxy that     *)
(* routes by the cookie (proxy.ts), the queries and forms of each tab with *)
(* their answers (baseQuery.ts, login/page.tsx, ChangePasswordDialog.tsx,  *)
(* Sidebar.tsx), and what the server makes of a token (jwt.strategy.ts,    *)
(* roles.guard.ts, auth.service.ts).                                       *)
(*                                                                         *)
(* Tokens are numbered as they are issued; 0 is none.  Passwords are only  *)
(* right or wrong, and an account may have to change its password or not   *)
(* at any login: Accounts has the rest.  A role has one page, so ?next= is *)
(* left out.  A tab has one query and one form in flight: the queries of a *)
(* page differ in what they show, not in what they do to the session.      *)
(***************************************************************************)
EXTENDS Integers

CONSTANTS
  Tabs,
  Used,        \* the tabs that their user works in; others are open beside them
  Students, Supervisors, Coordinators,   \* the users
  MaxTokens,   \* tokens issued; bounds the runs
  NoOne        \* no user

Users == Students \cup Supervisors \cup Coordinators

ASSUME SessionAssumption ==
  /\ MaxTokens \in Nat
  /\ Used \subseteq Tabs
  /\ NoOne \notin Users

VARIABLES
  tokens,    \* what each token says
  issued,    \* how many there are
  live,      \* the tokens that have not expired
  store,     \* localStorage: token and user
  cookie,    \* the token that the role cookie was set with, or 0
  tab        \* page, navigation and requests of each tab

vars == <<tokens, issued, live, store, cookie, tab>>

Tokens == 1 .. MaxTokens

Roles == {"/student", "/supervisor", "/coordinator"}
Pages == Roles \cup {"/login"}
Nowhere == "nowhere"
Destinations == Pages \cup {"/"}

\* ROLE_PREFIX
RoleOf(u) == CASE u \in Students -> "/student"
               [] u \in Supervisors -> "/supervisor"
               [] OTHER -> "/coordinator"

NoSession == [token |-> 0, user |-> NoOne, mustChange |-> FALSE]

NoQuery == -1
NoForm == [kind |-> "none"]

\* token is the one in the header; fresh the one in the answer.
Forms == [kind : {"login", "change"}, state : {"sent", "answered", "refused"},
          user : Users \cup {NoOne}, token : 0 .. MaxTokens, fresh : 0 .. MaxTokens,
          forced : BOOLEAN, right : BOOLEAN]

TabStates == [page : Pages, going : Destinations \cup {Nowhere}, hard : BOOLEAN,
              query : {NoQuery} \cup 0 .. MaxTokens, form : Forms \cup {NoForm}]

TypeOK ==
  /\ tokens \in [Tokens -> [user : Users \cup {NoOne}, mustChange : BOOLEAN]]
  /\ issued \in 0 .. MaxTokens
  /\ live \subseteq 1 .. issued
  /\ store \in [token : 0 .. MaxTokens, user : Users \cup {NoOne}, mustChange : BOOLEAN]
  /\ cookie \in 0 .. MaxTokens
  /\ tab \in [Tabs -> TabStates]

OpenAt(page) == [t \in Tabs |-> [page |-> page, going |-> Nowhere, hard |-> FALSE,
                                 query |-> NoQuery, form |-> NoForm]]

Blank == [user |-> NoOne, mustChange |-> FALSE]

\* Nobody is signed in, or somebody since before the stored user had the flag.
Init ==
  \/ /\ tokens = [k \in Tokens |-> Blank]
     /\ issued = 0 /\ live = {} /\ store = NoSession /\ cookie = 0
     /\ tab = OpenAt("/login")
  \/ \E u \in Users :
        /\ tokens = [k \in Tokens |-> IF k = 1 THEN [user |-> u, mustChange |-> TRUE] ELSE Blank]
        /\ MaxTokens > 0
        /\ issued = 1 /\ live = {1} /\ cookie = 1
        /\ store = [token |-> 1, user |-> u, mustChange |-> FALSE]
        /\ tab = OpenAt(RoleOf(u))

-----------------------------------------------------------------------------
\* lib/auth.ts.

BrokenPersist(k) ==   \* keeps the stored flag
  /\ store' = [store EXCEPT !.token = k, !.user = tokens[k].user]
  /\ cookie' = k
\* persistSession.
Persist(k) ==
  /\ store' = [token |-> k, user |-> tokens[k].user, mustChange |-> tokens[k].mustChange]
  /\ cookie' = k

\* clearSession.
Clear == store' = NoSession /\ cookie' = 0

BrokenMark == UNCHANGED <<store, cookie>>   \* only logs the refusal
\* markPasswordChangeRequired.
Mark ==
  /\ store' = IF store.user = NoOne THEN store ELSE [store EXCEPT !.mustChange = TRUE]
  /\ UNCHANGED cookie

-----------------------------------------------------------------------------
\* Navigation.

\* A push of the router; a load that has begun goes on.
Pushed(w, page) == IF w.hard THEN w ELSE [w EXCEPT !.going = page]

\* A load of the document.
Loaded(w, page) == [w EXCEPT !.going = page, !.hard = TRUE]

\* The home of the role in the cookie.
Home == RoleOf(tokens[cookie].user)

\* proxy.
Routed(page) ==
  IF cookie = 0 THEN "/login"
  ELSE IF page \in Roles /\ page = Home THEN page
  ELSE Home

\* One request of a page: a redirect, or the page.  A document that is replaced
\* takes its requests with it; under a push they go on.
Hop(t) ==
  /\ tab[t].going # Nowhere
  /\ LET w == tab[t]
         page == Routed(w.going)
     IN  tab' = [tab EXCEPT ![t] =
           IF page # w.going THEN [w EXCEPT !.going = page]
           ELSE [page |-> page, going |-> Nowhere, hard |-> FALSE,
                 query |-> IF w.hard THEN NoQuery ELSE w.query,
                 form |-> IF w.hard THEN NoForm ELSE w.form]]
  /\ UNCHANGED <<tokens, issued, live, store, cookie>>

\* An address is typed, or the page reloaded.
Visit(t) ==
  /\ tab[t].going = Nowhere
  /\ \E page \in {tab[t].page, "/"} :
       tab' = [tab EXCEPT ![t] = Loaded(tab[t], page)]
  /\ UNCHANGED <<tokens, issued, live, store, cookie>>

-----------------------------------------------------------------------------
\* What the server makes of a token.

BrokenAccepted(k) == k \in live /\ ~tokens[k].mustChange   \* the flag answers 401 too
\* AuthGuard('jwt'), or a 401.
Accepted(k) == k \in live

\* RolesGuard's 403 PASSWORD_CHANGE_REQUIRED, read from the token.
MustChange(k) == k \in Tokens /\ tokens[k].mustChange

\* session: a new token with the flag, which the client is told too.
Issue(u, mustChange) ==
  /\ issued < MaxTokens
  /\ issued' = issued + 1
  /\ tokens' = [tokens EXCEPT ![issued + 1] = [user |-> u, mustChange |-> mustChange]]
  /\ live' = live \cup {issued + 1}

-----------------------------------------------------------------------------
\* Queries: every page of a role polls.

Query(t) ==
  /\ tab[t].page \in Roles
  /\ tab[t].query = NoQuery
  /\ tab' = [tab EXCEPT ![t].query = store.token]
  /\ UNCHANGED <<tokens, issued, live, store, cookie>>

BrokenEndSession(t, w) ==   \* leaves the cookie and the token
  tab' = [tab EXCEPT ![t] = Loaded(w, "/login")] /\ UNCHANGED <<store, cookie>>
\* A 401 ends the session and loads the login page.
EndSession(t, w) == Clear /\ tab' = [tab EXCEPT ![t] = Loaded(w, "/login")]

\* baseQueryWithAuth; an answer of another kind changes no session.
QueryAnswered(t) ==
  /\ tab[t].query # NoQuery
  /\ LET k == tab[t].query
         w == [tab[t] EXCEPT !.query = NoQuery]
     IN  \/ ~Accepted(k) /\ EndSession(t, w)
         \/ Accepted(k) /\ MustChange(k) /\ Mark /\ tab' = [tab EXCEPT ![t] = w]
         \/ /\ Accepted(k) /\ ~MustChange(k)
            /\ tab' = [tab EXCEPT ![t] = w]
            /\ UNCHANGED <<store, cookie>>
  /\ UNCHANGED <<tokens, issued, live>>

-----------------------------------------------------------------------------
\* The two forms.

Submits(t, form) ==
  /\ tab[t].form = NoForm
  /\ tab[t].going = Nowhere
  /\ tab' = [tab EXCEPT ![t].form = form]
  /\ UNCHANGED <<tokens, issued, live, store, cookie>>

SubmitLogin(t) ==
  /\ tab[t].page = "/login"
  /\ \E u \in Users, right \in BOOLEAN :
       Submits(t, [kind |-> "login", state |-> "sent", user |-> u, token |-> store.token,
                   fresh |-> 0, forced |-> FALSE, right |-> right])

\* The dialog of the Sidebar, forced on the user while the stored flag is set.
SubmitChange(t) ==
  /\ tab[t].page \in Roles
  /\ \E right \in BOOLEAN :
       Submits(t, [kind |-> "change", state |-> "sent", user |-> NoOne, token |-> store.token,
                   fresh |-> 0, forced |-> store.mustChange, right |-> right])

Answers(t, state, fresh) ==
  tab' = [tab EXCEPT ![t].form.state = state, ![t].form.fresh = fresh]

\* AuthService.login.
ServeLogin(t) ==
  /\ tab[t].form.kind = "login" /\ tab[t].form.state = "sent"
  /\ IF tab[t].form.right
     THEN /\ \E flag \in BOOLEAN : Issue(tab[t].form.user, flag)
          /\ Answers(t, "answered", issued + 1)
     ELSE /\ Answers(t, "refused", 0)
          /\ UNCHANGED <<tokens, issued, live>>
  /\ UNCHANGED <<store, cookie>>

\* AuthService.changePassword behind AuthGuard('jwt'): a session that must
\* change its password gets here.
ServeChange(t) ==
  /\ tab[t].form.kind = "change" /\ tab[t].form.state = "sent"
  /\ IF Accepted(tab[t].form.token) /\ tab[t].form.right
     THEN LET u == tokens[tab[t].form.token].user
          IN  /\ Issue(u, FALSE)
              /\ Answers(t, "answered", issued + 1)
     ELSE /\ Answers(t, "refused", 0)
          /\ UNCHANGED <<tokens, issued, live>>
  /\ UNCHANGED <<store, cookie>>

\* handleSubmit of the login page.
LoginAnswered(t) ==
  /\ tab[t].form.kind = "login" /\ tab[t].form.state = "answered"
  /\ Persist(tab[t].form.fresh)
  /\ tab' = [tab EXCEPT ![t] =
       Pushed([tab[t] EXCEPT !.form = NoForm], RoleOf(tokens[tab[t].form.fresh].user))]
  /\ UNCHANGED <<tokens, issued, live>>

\* handleSubmit of the dialog: a forced one reloads the page.
ChangeAnswered(t) ==
  /\ tab[t].form.kind = "change" /\ tab[t].form.state = "answered"
  /\ Persist(tab[t].form.fresh)
  /\ LET w == [tab[t] EXCEPT !.form = NoForm]
     IN  tab' = [tab EXCEPT ![t] = IF tab[t].form.forced THEN Loaded(w, w.page) ELSE w]
  /\ UNCHANGED <<tokens, issued, live>>

\* A 401: the login page says so, for any other request the session is over.
FormRefused(t) ==
  /\ tab[t].form # NoForm /\ tab[t].form.state = "refused"
  /\ LET w == [tab[t] EXCEPT !.form = NoForm]
     IN  IF tab[t].form.kind = "login"
         THEN tab' = [tab EXCEPT ![t] = w] /\ UNCHANGED <<store, cookie>>
         ELSE EndSession(t, w)
  /\ UNCHANGED <<tokens, issued, live>>

\* Another error, or none arrives.
FormFails(t) ==
  /\ tab[t].form # NoForm /\ tab[t].form.state # "refused"
  /\ tab' = [tab EXCEPT ![t].form = NoForm]
  /\ UNCHANGED <<tokens, issued, live, store, cookie>>

\* handleLogout.
Logout(t) ==
  /\ tab[t].page \in Roles
  /\ tab[t].going = Nowhere
  /\ Clear
  /\ tab' = [tab EXCEPT ![t] = Pushed(tab[t], "/login")]
  /\ UNCHANGED <<tokens, issued, live>>

-----------------------------------------------------------------------------
\* Time.

\* signOptions.expiresIn.
ExpireToken ==
  /\ \E k \in live : live' = live \ {k}
  /\ UNCHANGED <<tokens, issued, store, cookie, tab>>

\* SESSION_MAX_AGE_SECONDS: as long as a token, and set after it was issued.
ExpireCookie ==
  /\ cookie # 0
  /\ cookie \notin live
  /\ cookie' = 0
  /\ UNCHANGED <<tokens, issued, live, store, tab>>

PageStep(t) == Hop(t) \/ Query(t) \/ QueryAnswered(t)

FormStep(t) ==
  \/ SubmitLogin(t) \/ ServeLogin(t) \/ LoginAnswered(t)
  \/ SubmitChange(t) \/ ServeChange(t) \/ ChangeAnswered(t)
  \/ FormRefused(t) \/ FormFails(t)

Next ==
  \/ \E t \in Tabs : PageStep(t)
  \/ \E t \in Used : FormStep(t) \/ Visit(t) \/ Logout(t)
  \/ ExpireToken \/ ExpireCookie

Spec == Init /\ [][Next]_vars

\* Pages arrive, and queries are sent and answered, also under one who reloads:
\* a tab polls whenever it has the focus (skipPollingIfUnfocused), and the tabs
\* in use have it again and again.
Fairness ==
  \A t \in Used : WF_vars(Hop(t)) /\ SF_vars(Query(t)) /\ SF_vars(QueryAnswered(t))

FairSpec == Spec /\ Fairness

-----------------------------------------------------------------------------
\* Properties.

SignedIn == store.token \in live

\* Nobody is trapped between a page whose queries are refused and a login page
\* that sends him back: once the token has expired a page in use gives way
\* to the login form (clearSession on a 401, "what breaks that cycle").
LoginReached ==
  \A t \in Used :
    tab[t].page \in Roles /\ ~SignedIn
      ~> (tab[t].page = "/login" /\ tab[t].going = Nowhere) \/ SignedIn

\* A session that the server only lets change its password shows the dialog in
\* the end, though it was stored without the flag (the 403 of baseQuery).
ChangeAsked ==
  \A k \in Tokens :
    store.token = k /\ MustChange(k) ~> store.token # k \/ store.mustChange \/ k \notin live

\* No request outlives the session it was sent in.
Calm ==
  \A t \in Tabs :
    /\ tab[t].query # NoQuery => tab[t].query = store.token
    /\ tab[t].form # NoForm => tab[t].form.token = store.token

\* The dialog is forced on nobody whose token is free to do the rest.
ForcedRight == store.mustChange => MustChange(store.token)

TurnsForcedRight == []Calm => []ForcedRight

\* A wrong current password has been typed.
Mistyped ==
  \E t \in Tabs : tab[t].form # NoForm /\ tab[t].form.kind = "change" /\ ~tab[t].form.right

\* A good session ends by a logout, and gives way to none but one of the same
\* user, or one from the login form: where requests do not outlive sessions, and
\* the current password is typed right.
TurnsSessionSteady ==
  [][Calm /\ ~Mistyped /\ SignedIn /\ store'.token # store.token =>
       IF store'.token = 0 THEN \E t \in Tabs : Logout(t)
       ELSE store'.user = store.user \/ \E t \in Tabs : LoginAnswered(t)]_vars

\* The dialog's word: "offers Log out as the only other way out".
OnlyWaysOut ==
  [][SignedIn /\ store.mustChange /\ store'.token = 0 => \E t \in Tabs : Logout(t)]_vars

=============================================================================

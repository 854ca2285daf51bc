--------------------------- MODULE SessionProofs ---------------------------
(***************************************************************************)
(* Proofs about Session: its types, the forced dialog, and who ends a     *)
(* session.                                                                *)
(***************************************************************************)
EXTENDS Session, TLAPS

\* A session that is still good has its cookie, which ExpireCookie takes from the
\* two lifetimes (a day each, auth.module.ts and lib/auth.ts).
CookieLasts == SignedIn => cookie = store.token

\* A token in use has been issued, and the stored user is the one it names.
StoreOK ==
  /\ store.token <= issued
  /\ cookie <= issued
  /\ store.token # 0 => store.user = tokens[store.token].user
  /\ CookieLasts

\* So it is in the requests of a tab: the answer to a change is a session of the
\* same user, and a change that was typed right is refused for a dead token only.
FormOK(f) ==
  f # NoForm =>
    /\ f.token <= issued /\ f.fresh <= issued
    /\ f.state = "answered" => f.fresh # 0
    /\ f.kind = "change" /\ f.state = "answered" =>
         f.token # 0 /\ tokens[f.fresh].user = tokens[f.token].user
    /\ f.kind = "change" /\ f.state = "refused" /\ f.right => f.token \notin live

TabOK(t) == tab[t].query <= issued /\ FormOK(tab[t].form)

Inv == TypeOK /\ StoreOK /\ \A t \in Tabs : TabOK(t)

-----------------------------------------------------------------------------
LEMMA TabTyped ==
  ASSUME TypeOK, NEW t \in Tabs
  PROVE  /\ tab[t] \in TabStates
         /\ tab[t].page \in Pages
         /\ tab[t].going \in Destinations \cup {Nowhere}
         /\ tab[t].hard \in BOOLEAN
         /\ tab[t].query \in {NoQuery} \cup 0 .. MaxTokens
         /\ tab[t].form \in Forms \cup {NoForm}
BY DEF TypeOK, TabStates

LEMMA FormTyped ==
  ASSUME NEW f \in Forms \cup {NoForm}, f # NoForm
  PROVE  /\ f \in Forms
         /\ f.kind \in {"login", "change"} /\ f.state \in {"sent", "answered", "refused"}
         /\ f.user \in Users \cup {NoOne}
         /\ f.token \in 0 .. MaxTokens /\ f.fresh \in 0 .. MaxTokens
         /\ f.forced \in BOOLEAN /\ f.right \in BOOLEAN
BY DEF Forms

\* A form of a kind is a form.
LEMMA KindOfForm ==
  ASSUME NEW f \in Forms \cup {NoForm}, f.kind # "none"
  PROVE  f # NoForm
BY DEF NoForm

LEMMA RoleIsPage == ASSUME NEW u PROVE RoleOf(u) \in Roles
BY DEF RoleOf, Roles

LEMMA StoreTyped ==
  ASSUME TypeOK
  PROVE  /\ store.token \in 0 .. MaxTokens /\ store.user \in Users \cup {NoOne}
         /\ store.mustChange \in BOOLEAN
         /\ store = [token |-> store.token, user |-> store.user, mustChange |-> store.mustChange]
         /\ cookie \in 0 .. MaxTokens /\ issued \in 0 .. MaxTokens
         /\ live \subseteq 1 .. issued
BY DEF TypeOK

\* A tab replaced by a sound one, while no token changes.
LEMMA TabStepOK ==
  ASSUME SessionAssumption, Inv, NEW t \in Tabs, NEW w \in TabStates,
         w.query <= issued, FormOK(w.form),
         tab' = [tab EXCEPT ![t] = w],
         UNCHANGED <<tokens, issued, live>>
  PROVE  /\ tab' \in [Tabs -> TabStates]
         /\ \A s \in Tabs : TabOK(s)'
<1>1. tab' \in [Tabs -> TabStates] /\ \A s \in Tabs : tab'[s] = IF s = t THEN w ELSE tab[s]
  BY DEF Inv, TypeOK
<1>2. \A s \in Tabs : TabOK(s)'
  BY <1>1 DEF Inv, TabOK, FormOK
<1> QED  BY <1>1, <1>2

-----------------------------------------------------------------------------
\* What the three writes of lib/auth.ts leave behind.

LEMMA PersistOK ==
  ASSUME SessionAssumption, Inv, NEW k \in 1 .. issued, Persist(k),
         UNCHANGED <<tokens, issued, live>>
  PROVE  /\ store' \in [token : 0 .. MaxTokens, user : Users \cup {NoOne}, mustChange : BOOLEAN]
         /\ cookie' \in 0 .. MaxTokens
         /\ StoreOK'
         /\ store'.user = tokens[k].user /\ store'.token = k
         /\ store'.mustChange = tokens[k].mustChange
<1>1. k \in Tokens /\ issued \in 0 .. MaxTokens /\ MaxTokens \in Nat
  BY DEF Inv, TypeOK, Tokens, SessionAssumption
<1>2. tokens[k].user \in Users \cup {NoOne} /\ tokens[k].mustChange \in BOOLEAN
  BY <1>1 DEF Inv, TypeOK
<1> QED  BY <1>1, <1>2 DEF Persist, StoreOK, CookieLasts, SignedIn

LEMMA ClearOK ==
  ASSUME SessionAssumption, Inv, Clear, UNCHANGED <<tokens, issued, live>>
  PROVE  /\ store' \in [token : 0 .. MaxTokens, user : Users \cup {NoOne}, mustChange : BOOLEAN]
         /\ cookie' \in 0 .. MaxTokens
         /\ StoreOK'
         /\ store'.token = 0 /\ store'.user = NoOne /\ ~store'.mustChange
BY StoreTyped DEF Clear, NoSession, StoreOK, CookieLasts, SignedIn, Inv, SessionAssumption

LEMMA MarkOK ==
  ASSUME SessionAssumption, Inv, Mark, UNCHANGED <<tokens, issued, live>>
  PROVE  /\ store' \in [token : 0 .. MaxTokens, user : Users \cup {NoOne}, mustChange : BOOLEAN]
         /\ cookie' = cookie
         /\ StoreOK'
         /\ store'.token = store.token /\ store'.user = store.user
<1>1. /\ store' \in [token : 0 .. MaxTokens, user : Users \cup {NoOne}, mustChange : BOOLEAN]
      /\ cookie' = cookie /\ store'.token = store.token /\ store'.user = store.user
  <2>1. store \in [token : 0 .. MaxTokens, user : Users \cup {NoOne}, mustChange : BOOLEAN]
    BY DEF Inv, TypeOK
  <2>2. CASE store.user = NoOne  BY <2>1, <2>2 DEF Mark
  <2>3. CASE store.user # NoOne  BY <2>1, <2>3 DEF Mark
  <2> QED  BY <2>2, <2>3
<1> QED  BY <1>1 DEF Inv, StoreOK, CookieLasts, SignedIn

\* A new token disturbs nothing that speaks of the old ones.
LEMMA IssueOK ==
  ASSUME SessionAssumption, Inv, NEW u \in Users \cup {NoOne}, NEW flag \in BOOLEAN,
         Issue(u, flag)
  PROVE  /\ issued' = issued + 1 /\ issued' \in 0 .. MaxTokens
         /\ tokens' \in [Tokens -> [user : Users \cup {NoOne}, mustChange : BOOLEAN]]
         /\ live' \subseteq 1 .. issued'
         /\ \A k \in 0 .. issued : k \in live' <=> k \in live
         /\ \A k \in 1 .. issued : tokens'[k] = tokens[k]
         /\ tokens'[issued + 1] = [user |-> u, mustChange |-> flag]
<1>1. issued \in 0 .. MaxTokens /\ issued < MaxTokens /\ MaxTokens \in Nat
  BY DEF Inv, TypeOK, Issue, SessionAssumption
<1>2. issued + 1 \in Tokens
  BY <1>1 DEF Tokens
<1>3. tokens \in [Tokens -> [user : Users \cup {NoOne}, mustChange : BOOLEAN]] /\ live \subseteq 1 .. issued
  BY DEF Inv, TypeOK
<1>4. tokens' \in [Tokens -> [user : Users \cup {NoOne}, mustChange : BOOLEAN]]
  BY <1>2, <1>3 DEF Issue
<1>5. \A k \in 1 .. issued : tokens'[k] = tokens[k]
  <2>1. \A k \in 1 .. issued : k \in Tokens /\ k # issued + 1
    BY <1>1 DEF Tokens
  <2> QED  BY <1>3, <2>1 DEF Issue
<1>6. tokens'[issued + 1] = [user |-> u, mustChange |-> flag]
  BY <1>2, <1>3 DEF Issue
<1>7. live' \subseteq 1 .. issued' /\ \A k \in 0 .. issued : k \in live' <=> k \in live
  BY <1>1, <1>3 DEF Issue
<1> QED  BY <1>1, <1>4, <1>5, <1>6, <1>7 DEF Issue

-----------------------------------------------------------------------------
\* The invariant.

LEMMA InitInv ==
  ASSUME SessionAssumption, Init PROVE Inv
<1>1. \A page \in Pages : /\ OpenAt(page) \in [Tabs -> TabStates]
                          /\ \A t \in Tabs : OpenAt(page)[t].query = -1
                          /\ \A t \in Tabs : OpenAt(page)[t].form = NoForm
  BY DEF OpenAt, TabStates, NoQuery
<1>2. MaxTokens \in Nat /\ Blank \in [user : Users \cup {NoOne}, mustChange : BOOLEAN]
  BY DEF SessionAssumption, Blank
<1>3. CASE /\ tokens = [k \in Tokens |-> Blank]
           /\ issued = 0 /\ live = {} /\ store = NoSession /\ cookie = 0
           /\ tab = OpenAt("/login")
  <2>1. "/login" \in Pages  BY DEF Pages
  <2>2. TypeOK  BY <1>1, <1>2, <1>3, <2>1 DEF TypeOK, NoSession
  <2>3. StoreOK  BY <1>3 DEF StoreOK, CookieLasts, SignedIn, NoSession
  <2>4. \A t \in Tabs : TabOK(t)  BY <1>1, <1>3, <2>1 DEF TabOK, FormOK
  <2> QED  BY <2>2, <2>3, <2>4 DEF Inv
<1>4. CASE \E u \in Users :
        /\ tokens = [k \in Tokens |-> IF k = 1 THEN [user |-> u, mustChange |-> TRUE] ELSE Blank]
        /\ MaxTokens > 0
        /\ issued = 1 /\ live = {1} /\ cookie = 1
        /\ store = [token |-> 1, user |-> u, mustChange |-> FALSE]
        /\ tab = OpenAt(RoleOf(u))
  <2>1. PICK u \in Users :
        /\ tokens = [k \in Tokens |-> IF k = 1 THEN [user |-> u, mustChange |-> TRUE] ELSE Blank]
        /\ MaxTokens > 0
        /\ issued = 1 /\ live = {1} /\ cookie = 1
        /\ store = [token |-> 1, user |-> u, mustChange |-> FALSE]
        /\ tab = OpenAt(RoleOf(u))
    BY <1>4
  <2>2. RoleOf(u) \in Pages  BY RoleIsPage DEF Pages
  <2>3. TypeOK  BY <1>1, <1>2, <2>1, <2>2 DEF TypeOK
  <2>4. StoreOK
    <3>1. 1 \in Tokens /\ tokens[1].user = u  BY <1>2, <2>1 DEF Tokens
    <3> QED  BY <2>1, <3>1 DEF StoreOK, CookieLasts, SignedIn
  <2>5. \A t \in Tabs : TabOK(t)  BY <1>1, <2>1, <2>2 DEF TabOK, FormOK
  <2> QED  BY <2>3, <2>4, <2>5 DEF Inv
<1> QED  BY <1>3, <1>4 DEF Init

\* A step of one tab that leaves tokens and store alone.
LEMMA PlainStep ==
  ASSUME SessionAssumption, Inv, NEW t \in Tabs, NEW w \in TabStates,
         w.query <= issued, FormOK(w.form),
         tab' = [tab EXCEPT ![t] = w],
         UNCHANGED <<tokens, issued, live, store, cookie>>
  PROVE  Inv'
<1>1. tab' \in [Tabs -> TabStates] /\ \A s \in Tabs : TabOK(s)'  BY TabStepOK
<1>2. TypeOK'  BY <1>1 DEF Inv, TypeOK
<1>3. StoreOK'  BY DEF Inv, StoreOK, CookieLasts, SignedIn
<1> QED  BY <1>1, <1>2, <1>3 DEF Inv

\* One that writes the store as well, in one of the three ways.
LEMMA StoreStep ==
  ASSUME SessionAssumption, Inv, NEW t \in Tabs, NEW w \in TabStates,
         w.query <= issued, FormOK(w.form),
         tab' = [tab EXCEPT ![t] = w],
         UNCHANGED <<tokens, issued, live>>,
         \/ \E k \in 1 .. issued : Persist(k)
         \/ Clear
         \/ Mark
  PROVE  Inv'
<1>1. tab' \in [Tabs -> TabStates] /\ \A s \in Tabs : TabOK(s)'  BY TabStepOK
<1>2. /\ store' \in [token : 0 .. MaxTokens, user : Users \cup {NoOne}, mustChange : BOOLEAN]
      /\ cookie' \in 0 .. MaxTokens
      /\ StoreOK'
  <2>1. CASE \E k \in 1 .. issued : Persist(k)  BY <2>1, PersistOK
  <2>2. CASE Clear  BY <2>2, ClearOK
  <2>3. CASE Mark  BY <2>3, MarkOK, StoreTyped DEF Inv
  <2> QED  BY <2>1, <2>2, <2>3
<1>3. TypeOK'  BY <1>1, <1>2 DEF Inv, TypeOK
<1> QED  BY <1>1, <1>2, <1>3 DEF Inv

\* Navigations keep a tab a tab.
LEMMA GoingOK ==
  ASSUME NEW w \in TabStates, NEW page \in Destinations
  PROVE  /\ Pushed(w, page) \in TabStates /\ Loaded(w, page) \in TabStates
         /\ Pushed(w, page).query = w.query /\ Pushed(w, page).form = w.form
         /\ Loaded(w, page).query = w.query /\ Loaded(w, page).form = w.form
<1>1. [w EXCEPT !.going = page] \in TabStates /\ [w EXCEPT !.going = page, !.hard = TRUE] \in TabStates
  BY DEF TabStates
<1> QED  BY <1>1 DEF Pushed, Loaded, TabStates

LEMMA NoFormOK ==
  ASSUME NEW w \in TabStates
  PROVE  /\ [w EXCEPT !.form = NoForm] \in TabStates
         /\ [w EXCEPT !.query = NoQuery] \in TabStates
         /\ [w EXCEPT !.form = NoForm].query = w.query
         /\ [w EXCEPT !.form = NoForm].form = NoForm
         /\ [w EXCEPT !.query = NoQuery].query = NoQuery
         /\ [w EXCEPT !.query = NoQuery].form = w.form
BY DEF TabStates

LEMMA HopInv ==
  ASSUME SessionAssumption, Inv, NEW t \in Tabs, Hop(t) PROVE Inv'
<1> DEFINE w == tab[t]
           page == Routed(w.going)
           arrived == [page |-> page, going |-> Nowhere, hard |-> FALSE,
                       query |-> IF w.hard THEN NoQuery ELSE w.query,
                       form |-> IF w.hard THEN NoForm ELSE w.form]
<1>1. w \in TabStates /\ w.query <= issued /\ FormOK(w.form)  BY TabTyped DEF Inv, TabOK
<1>2. page \in Pages  BY RoleIsPage DEF Routed, Home, Pages
<1>3. arrived \in TabStates /\ arrived.query <= issued /\ FormOK(arrived.form)
  <2>1. arrived \in TabStates  BY <1>1, <1>2 DEF TabStates
  <2>2. NoQuery <= issued  BY StoreTyped DEF Inv, NoQuery
  <2>3. FormOK(NoForm)  BY DEF FormOK
  <2> QED  BY <1>1, <2>1, <2>2, <2>3
<1>4. /\ [w EXCEPT !.going = page] \in TabStates
      /\ [w EXCEPT !.going = page].query = w.query /\ [w EXCEPT !.going = page].form = w.form
  BY <1>1, <1>2 DEF TabStates, Destinations
<1>5. PICK v \in {arrived, [w EXCEPT !.going = page]} : tab' = [tab EXCEPT ![t] = v]
  BY DEF Hop
<1>6. v \in TabStates /\ v.query <= issued /\ FormOK(v.form)  BY <1>1, <1>3, <1>4, <1>5
<1> HIDE DEF w, page, arrived
<1> QED  BY <1>5, <1>6, PlainStep DEF Hop

LEMMA VisitInv ==
  ASSUME SessionAssumption, Inv, NEW t \in Tabs, Visit(t) PROVE Inv'
<1>1. PICK page \in Destinations : tab' = [tab EXCEPT ![t] = Loaded(tab[t], page)]
  BY TabTyped DEF Visit, Inv, Destinations
<1>2. tab[t] \in TabStates /\ tab[t].query <= issued /\ FormOK(tab[t].form)
  BY TabTyped DEF Inv, TabOK
<1>3. /\ Loaded(tab[t], page) \in TabStates
      /\ Loaded(tab[t], page).query = tab[t].query /\ Loaded(tab[t], page).form = tab[t].form
  BY <1>2, GoingOK
<1> QED  BY <1>1, <1>2, <1>3, PlainStep DEF Visit

LEMMA QueryInv ==
  ASSUME SessionAssumption, Inv, NEW t \in Tabs, Query(t) PROVE Inv'
<1> DEFINE v == [tab[t] EXCEPT !.query = store.token]
<1>1. tab[t] \in TabStates /\ FormOK(tab[t].form)  BY TabTyped DEF Inv, TabOK
<1>2. store.token \in 0 .. MaxTokens /\ store.token <= issued
  BY StoreTyped DEF Inv, StoreOK
<1>3. v \in TabStates /\ v.query = store.token /\ v.form = tab[t].form
  BY <1>1, <1>2 DEF TabStates
<1>4. tab' = [tab EXCEPT ![t] = v]  BY DEF Query
<1> HIDE DEF v
<1> QED  BY <1>1, <1>2, <1>3, <1>4, PlainStep DEF Query

LEMMA QueryAnsweredInv ==
  ASSUME SessionAssumption, Inv, NEW t \in Tabs, QueryAnswered(t) PROVE Inv'
<1> DEFINE k == tab[t].query
           w == [tab[t] EXCEPT !.query = NoQuery]
<1>1. tab[t] \in TabStates /\ FormOK(tab[t].form)  BY TabTyped DEF Inv, TabOK
<1>2. w \in TabStates /\ w.query = NoQuery /\ w.form = tab[t].form  BY <1>1, NoFormOK
<1>3. NoQuery <= issued  BY StoreTyped DEF Inv, NoQuery
<1>4. "/login" \in Destinations  BY DEF Destinations, Pages
<1>5. /\ Loaded(w, "/login") \in TabStates
      /\ Loaded(w, "/login").query = w.query /\ Loaded(w, "/login").form = w.form
  BY <1>2, <1>4, GoingOK
<1>6. CASE EndSession(t, w)
  BY <1>1, <1>2, <1>3, <1>5, <1>6, StoreStep DEF EndSession, QueryAnswered
<1>7. CASE Mark /\ tab' = [tab EXCEPT ![t] = w]
  BY <1>1, <1>2, <1>3, <1>7, StoreStep DEF QueryAnswered
<1>8. CASE UNCHANGED <<store, cookie>> /\ tab' = [tab EXCEPT ![t] = w]
  BY <1>1, <1>2, <1>3, <1>8, PlainStep DEF QueryAnswered
<1> QED  BY <1>6, <1>7, <1>8 DEF QueryAnswered

LEMMA SubmitInv ==
  ASSUME SessionAssumption, Inv, NEW t \in Tabs, SubmitLogin(t) \/ SubmitChange(t) PROVE Inv'
<1>1. /\ store.token \in 0 .. MaxTokens /\ store.token <= issued
      /\ store.mustChange \in BOOLEAN
      /\ 0 \in 0 .. MaxTokens /\ 0 <= issued
  BY StoreTyped DEF Inv, StoreOK, SessionAssumption
<1>2. PICK f \in Forms : /\ Submits(t, f)
                         /\ f.token = store.token /\ f.fresh = 0 /\ f.state = "sent"
  <2>1. CASE SubmitLogin(t)
    <3>1. PICK u \in Users, right \in BOOLEAN :
            Submits(t, [kind |-> "login", state |-> "sent", user |-> u, token |-> store.token,
                        fresh |-> 0, forced |-> FALSE, right |-> right])
      BY <2>1 DEF SubmitLogin
    <3> DEFINE g == [kind |-> "login", state |-> "sent", user |-> u, token |-> store.token,
                     fresh |-> 0, forced |-> FALSE, right |-> right]
    <3>2. g \in Forms /\ g.token = store.token /\ g.fresh = 0 /\ g.state = "sent"
      BY <1>1 DEF Forms
    <3>3. Submits(t, g)  BY <3>1
    <3> HIDE DEF g
    <3> QED  BY <3>2, <3>3
  <2>2. CASE SubmitChange(t)
    <3>1. PICK right \in BOOLEAN :
            Submits(t, [kind |-> "change", state |-> "sent", user |-> NoOne,
                        token |-> store.token, fresh |-> 0, forced |-> store.mustChange,
                        right |-> right])
      BY <2>2 DEF SubmitChange
    <3> DEFINE g == [kind |-> "change", state |-> "sent", user |-> NoOne, token |-> store.token,
                     fresh |-> 0, forced |-> store.mustChange,
                     right |-> right]
    <3>2. g \in Forms /\ g.token = store.token /\ g.fresh = 0 /\ g.state = "sent"
      BY <1>1 DEF Forms
    <3>3. Submits(t, g)  BY <3>1
    <3> HIDE DEF g
    <3> QED  BY <3>2, <3>3
  <2> QED  BY <2>1, <2>2
<1> DEFINE v == [tab[t] EXCEPT !.form = f]
<1>3. tab[t] \in TabStates /\ tab[t].query <= issued  BY TabTyped DEF Inv, TabOK
<1>4. v \in TabStates /\ v.query = tab[t].query /\ v.form = f
  BY <1>3 DEF TabStates
<1>5. FormOK(f)  BY <1>1, <1>2 DEF FormOK
<1>6. tab' = [tab EXCEPT ![t] = v] /\ UNCHANGED <<tokens, issued, live, store, cookie>>
  BY <1>2 DEF Submits
<1> HIDE DEF v
<1> QED  BY <1>3, <1>4, <1>5, <1>6, PlainStep

\* A form that is answered: the same form with an answer in it.
LEMMA AnswerOK ==
  ASSUME SessionAssumption, Inv, NEW t \in Tabs, tab[t].form # NoForm,
         NEW state \in {"answered", "refused"}, NEW fresh \in 0 .. MaxTokens,
         Answers(t, state, fresh)
  PROVE  \E w \in TabStates :
            /\ tab' = [tab EXCEPT ![t] = w]
            /\ w.query = tab[t].query
            /\ w.form \in Forms
            /\ w.form.kind = tab[t].form.kind /\ w.form.token = tab[t].form.token
            /\ w.form.right = tab[t].form.right
            /\ w.form.state = state /\ w.form.fresh = fresh
<1> DEFINE f == tab[t].form
           g == [f EXCEPT !.state = state, !.fresh = fresh]
           w == [tab[t] EXCEPT !.form = g]
<1>1. tab[t] \in TabStates /\ f \in Forms  BY TabTyped, FormTyped DEF Inv
<1>2. /\ g \in Forms /\ g.kind = f.kind /\ g.token = f.token /\ g.right = f.right
      /\ g.state = state /\ g.fresh = fresh
  BY <1>1 DEF Forms
<1>3. w \in TabStates /\ w.query = tab[t].query /\ w.form = g
  BY <1>1, <1>2 DEF TabStates
<1>4. tab' = [tab EXCEPT ![t] = w]
  <2>1. tab \in [Tabs -> TabStates]  BY DEF Inv, TypeOK
  <2>2. tab' = [tab EXCEPT ![t] = [tab[t] EXCEPT !.form = [tab[t].form EXCEPT !.state = state, !.fresh = fresh]]]
    BY <1>1, <2>1 DEF Answers, TabStates, Forms
  <2> QED  BY <2>2
<1> HIDE DEF g, w
<1> QED  BY <1>2, <1>3, <1>4

\* The server refuses.
LEMMA RefuseStep ==
  ASSUME SessionAssumption, Inv, NEW t \in Tabs, tab[t].form # NoForm,
         Answers(t, "refused", 0),
         tab[t].form.kind = "change" /\ tab[t].form.right => tab[t].form.token \notin live,
         UNCHANGED <<tokens, issued, live, store, cookie>>
  PROVE  Inv'
<1>1. 0 \in 0 .. MaxTokens /\ 0 <= issued  BY StoreTyped DEF Inv, SessionAssumption
<1>2. PICK w \in TabStates :
            /\ tab' = [tab EXCEPT ![t] = w]
            /\ w.query = tab[t].query
            /\ w.form \in Forms
            /\ w.form.kind = tab[t].form.kind /\ w.form.token = tab[t].form.token
            /\ w.form.right = tab[t].form.right
            /\ w.form.state = "refused" /\ w.form.fresh = 0
  BY <1>1, AnswerOK
<1>3. w.query <= issued /\ FormOK(w.form)
  BY <1>1, <1>2 DEF Inv, TabOK, FormOK
<1> QED  BY <1>2, <1>3, PlainStep

\* The server issues a token: to a change, one of the same user.
LEMMA IssueStep ==
  ASSUME SessionAssumption, Inv, NEW t \in Tabs, tab[t].form # NoForm,
         NEW u \in Users \cup {NoOne}, NEW flag \in BOOLEAN,
         Issue(u, flag), Answers(t, "answered", issued + 1),
         tab[t].form.kind = "change" =>
            tab[t].form.token # 0 /\ u = tokens[tab[t].form.token].user,
         UNCHANGED <<store, cookie>>
  PROVE  Inv'
<1>1. /\ issued' = issued + 1 /\ issued' \in 0 .. MaxTokens
      /\ tokens' \in [Tokens -> [user : Users \cup {NoOne}, mustChange : BOOLEAN]]
      /\ live' \subseteq 1 .. issued'
      /\ \A k \in 0 .. issued : k \in live' <=> k \in live
      /\ \A k \in 1 .. issued : tokens'[k] = tokens[k]
      /\ tokens'[issued + 1] = [user |-> u, mustChange |-> flag]
  BY IssueOK
<1>2. issued \in 0 .. MaxTokens /\ MaxTokens \in Nat  BY StoreTyped DEF Inv, SessionAssumption
<1>3. PICK w \in TabStates :
            /\ tab' = [tab EXCEPT ![t] = w]
            /\ w.query = tab[t].query
            /\ w.form \in Forms
            /\ w.form.kind = tab[t].form.kind /\ w.form.token = tab[t].form.token
            /\ w.form.right = tab[t].form.right
            /\ w.form.state = "answered" /\ w.form.fresh = issued + 1
  <2>1. issued + 1 \in 0 .. MaxTokens  BY <1>1
  <2> QED  BY <2>1, AnswerOK
<1>4. tab' \in [Tabs -> TabStates] /\ \A s \in Tabs : tab'[s] = IF s = t THEN w ELSE tab[s]
  BY <1>3 DEF Inv, TypeOK
<1>5. TypeOK'
  BY <1>1, <1>4 DEF Inv, TypeOK
<1>6. StoreOK'
  <2>1. store.token \in 0 .. issued /\ cookie \in 0 .. issued
    BY <1>2, StoreTyped DEF Inv, StoreOK
  <2>2. store.token <= issued' /\ cookie <= issued'  BY <1>1, <1>2, <2>1
  <2>3. store.token # 0 => store.user = tokens'[store.token].user
    BY <1>1, <1>2, <2>1 DEF Inv, StoreOK
  <2>4. store.token \in live' => cookie = store.token
    BY <1>1, <2>1 DEF Inv, StoreOK, CookieLasts, SignedIn
  <2> QED  BY <2>2, <2>3, <2>4 DEF StoreOK, CookieLasts, SignedIn
<1>7. \A s \in Tabs : TabOK(s)'
  <2> SUFFICES ASSUME NEW s \in Tabs PROVE TabOK(s)'  OBVIOUS
  <2>1. tab[s].query \in {-1} \cup 0 .. MaxTokens /\ tab[s].query <= issued /\ FormOK(tab[s].form)
    BY TabTyped DEF Inv, TabOK, NoQuery
  <2>2. CASE s = t
    <3>1. tab'[s] = w  BY <1>4, <2>2
    <3>2. w.query <= issued'  BY <1>1, <1>2, <1>3, <2>1, <2>2
    <3>3. w.form.token \in 0 .. issued
      <4>1. tab[t].form.token \in 0 .. MaxTokens  BY FormTyped, TabTyped DEF Inv
      <4> QED  BY <1>2, <1>3, <2>1, <2>2, <4>1 DEF FormOK
    <3>4. FormOK(w.form)'
      <4>1. w.form.token <= issued' /\ w.form.fresh <= issued'  BY <1>1, <1>2, <1>3, <3>3
      <4>2. w.form.fresh # 0  BY <1>2, <1>3
      <4>3. w.form.kind = "change" =>
              w.form.token # 0 /\ tokens'[w.form.fresh].user = tokens'[w.form.token].user
        BY <1>1, <1>2, <1>3, <3>3
      <4> QED  BY <1>3, <4>1, <4>2, <4>3 DEF FormOK
    <3> QED  BY <3>1, <3>2, <3>4 DEF TabOK, FormOK
  <2>3. CASE s # t
    <3> DEFINE f == tab[s].form
    <3>1. tab'[s] = tab[s]  BY <1>4, <2>3
    <3>2. tab[s].query <= issued'  BY <1>1, <1>2, <2>1
    <3>3. FormOK(f)'
      <4>1. CASE f = NoForm  BY <3>1, <4>1 DEF FormOK
      <4>2. CASE f # NoForm
        <5>1. f.token \in 0 .. MaxTokens /\ f.fresh \in 0 .. MaxTokens
          BY <4>2, FormTyped, TabTyped DEF Inv
        <5>2. f.token \in 0 .. issued /\ f.fresh \in 0 .. issued
          BY <1>2, <2>1, <4>2, <5>1 DEF FormOK
        <5>3. f.token <= issued' /\ f.fresh <= issued'  BY <1>1, <1>2, <5>2
        <5>4. f.kind = "change" /\ f.state = "answered" =>
                f.token # 0 /\ tokens'[f.fresh].user = tokens'[f.token].user
          BY <1>1, <1>2, <2>1, <4>2, <5>2 DEF FormOK
        <5>5. f.kind = "change" /\ f.state = "refused" /\ f.right => f.token \notin live'
          BY <1>1, <2>1, <4>2, <5>2 DEF FormOK
        <5> QED  BY <2>1, <3>1, <4>2, <5>3, <5>4, <5>5 DEF FormOK
      <4> QED  BY <4>1, <4>2
    <3> QED  BY <3>1, <3>2, <3>3 DEF TabOK, FormOK
  <2> QED  BY <2>2, <2>3
<1> QED  BY <1>5, <1>6, <1>7 DEF Inv

LEMMA ServeLoginInv ==
  ASSUME SessionAssumption, Inv, NEW t \in Tabs, ServeLogin(t) PROVE Inv'
<1>1. tab[t].form # NoForm /\ tab[t].form.kind = "login"
  BY TabTyped, KindOfForm DEF ServeLogin, Inv
<1>2. CASE tab[t].form.right
  <2>1. PICK flag \in BOOLEAN : Issue(tab[t].form.user, flag)  BY <1>2 DEF ServeLogin
  <2>2. tab[t].form.user \in Users \cup {NoOne}  BY <1>1, FormTyped, TabTyped DEF Inv
  <2> QED  BY <1>1, <1>2, <2>1, <2>2, IssueStep DEF ServeLogin
<1>3. CASE ~tab[t].form.right
  BY <1>1, <1>3, RefuseStep DEF ServeLogin
<1> QED  BY <1>2, <1>3

LEMMA ServeChangeInv ==
  ASSUME SessionAssumption, Inv, NEW t \in Tabs, ServeChange(t) PROVE Inv'
<1> DEFINE f == tab[t].form
<1>1. f # NoForm /\ f.kind = "change" /\ f.state = "sent"
  BY TabTyped, KindOfForm DEF ServeChange, Inv
<1>2. CASE Accepted(f.token) /\ f.right
  <2>1. f.token \in 1 .. issued  BY <1>2, StoreTyped DEF Accepted, Inv
  <2>2. f.token \in Tokens /\ f.token # 0  BY <2>1, StoreTyped DEF Tokens, Inv, SessionAssumption
  <2>3. tokens[f.token].user \in Users \cup {NoOne}  BY <2>2 DEF Inv, TypeOK
  <2> QED  BY <1>1, <1>2, <2>2, <2>3, IssueStep DEF ServeChange
<1>3. CASE ~(Accepted(f.token) /\ f.right)
  BY <1>1, <1>3, RefuseStep DEF ServeChange, Accepted
<1> QED  BY <1>2, <1>3

\* A tab without its form.
LEMMA Formless ==
  ASSUME SessionAssumption, Inv, NEW t \in Tabs, NEW w, w = [tab[t] EXCEPT !.form = NoForm]
  PROVE  /\ w \in TabStates /\ w.query <= issued /\ FormOK(w.form)
         /\ \A page \in Destinations :
              /\ Pushed(w, page) \in TabStates /\ Loaded(w, page) \in TabStates
              /\ Pushed(w, page).query <= issued /\ FormOK(Pushed(w, page).form)
              /\ Loaded(w, page).query <= issued /\ FormOK(Loaded(w, page).form)
<1>1. tab[t] \in TabStates /\ tab[t].query <= issued  BY TabTyped DEF Inv, TabOK
<1>2. w \in TabStates /\ w.query <= issued /\ w.form = NoForm  BY <1>1, NoFormOK
<1>3. FormOK(NoForm)  BY DEF FormOK
<1> QED  BY <1>2, <1>3, GoingOK

\* The token in an answer has been issued.
LEMMA FreshIssued ==
  ASSUME SessionAssumption, Inv, NEW t \in Tabs, tab[t].form # NoForm,
         tab[t].form.state = "answered"
  PROVE  tab[t].form.fresh \in 1 .. issued
<1>1. tab[t].form.fresh \in 0 .. MaxTokens  BY FormTyped, TabTyped DEF Inv
<1>2. tab[t].form.fresh <= issued /\ tab[t].form.fresh # 0  BY DEF Inv, TabOK, FormOK
<1> QED  BY <1>1, <1>2, StoreTyped DEF Inv, SessionAssumption

LEMMA LoginAnsweredInv ==
  ASSUME SessionAssumption, Inv, NEW t \in Tabs, LoginAnswered(t) PROVE Inv'
<1> DEFINE k == tab[t].form.fresh
           w == [tab[t] EXCEPT !.form = NoForm]
<1>1. k \in 1 .. issued
  BY TabTyped, KindOfForm, FreshIssued DEF LoginAnswered, Inv
<1>2. RoleOf(tokens[k].user) \in Destinations  BY RoleIsPage DEF Destinations, Pages
<1>3. PICK v \in TabStates : /\ v.query <= issued /\ FormOK(v.form)
                             /\ tab' = [tab EXCEPT ![t] = v]
  <2> DEFINE v == Pushed(w, RoleOf(tokens[k].user))
  <2>1. v \in TabStates /\ v.query <= issued /\ FormOK(v.form)  BY <1>2, Formless
  <2>2. tab' = [tab EXCEPT ![t] = v]  BY DEF LoginAnswered
  <2> HIDE DEF v
  <2> QED  BY <2>1, <2>2
<1> QED  BY <1>1, <1>3, StoreStep DEF LoginAnswered

LEMMA ChangeAnsweredInv ==
  ASSUME SessionAssumption, Inv, NEW t \in Tabs, ChangeAnswered(t) PROVE Inv'
<1> DEFINE k == tab[t].form.fresh
           w == [tab[t] EXCEPT !.form = NoForm]
<1>1. k \in 1 .. issued
  BY TabTyped, KindOfForm, FreshIssued DEF ChangeAnswered, Inv
<1>2. w.page \in Destinations
  <2>1. w \in TabStates  BY Formless
  <2> QED  BY <2>1 DEF TabStates, Destinations
<1>3. PICK v \in {w, Loaded(w, w.page)} : tab' = [tab EXCEPT ![t] = v]
  BY DEF ChangeAnswered
<1>4. v \in TabStates /\ v.query <= issued /\ FormOK(v.form)  BY <1>2, <1>3, Formless
<1> HIDE DEF w
<1> QED  BY <1>1, <1>3, <1>4, StoreStep DEF ChangeAnswered

LEMMA FormRefusedInv ==
  ASSUME SessionAssumption, Inv, NEW t \in Tabs, FormRefused(t) PROVE Inv'
<1> DEFINE w == [tab[t] EXCEPT !.form = NoForm]
<1>1. "/login" \in Destinations  BY DEF Destinations, Pages
<1>2. /\ w \in TabStates /\ w.query <= issued /\ FormOK(w.form)
      /\ Loaded(w, "/login") \in TabStates
      /\ Loaded(w, "/login").query <= issued /\ FormOK(Loaded(w, "/login").form)
  BY <1>1, Formless
<1>3. CASE tab' = [tab EXCEPT ![t] = w] /\ UNCHANGED <<store, cookie>>
  BY <1>2, <1>3, PlainStep DEF FormRefused
<1>4. CASE EndSession(t, w)
  BY <1>2, <1>4, StoreStep DEF FormRefused, EndSession
<1> QED  BY <1>3, <1>4 DEF FormRefused

LEMMA FormFailsInv ==
  ASSUME SessionAssumption, Inv, NEW t \in Tabs, FormFails(t) PROVE Inv'
<1> DEFINE w == [tab[t] EXCEPT !.form = NoForm]
<1>1. w \in TabStates /\ w.query <= issued /\ FormOK(w.form)  BY Formless
<1>2. tab' = [tab EXCEPT ![t] = w]  BY DEF FormFails
<1> HIDE DEF w
<1> QED  BY <1>1, <1>2, PlainStep DEF FormFails

LEMMA LogoutInv ==
  ASSUME SessionAssumption, Inv, NEW t \in Tabs, Logout(t) PROVE Inv'
<1>1. "/login" \in Destinations  BY DEF Destinations, Pages
<1>2. tab[t] \in TabStates /\ tab[t].query <= issued /\ FormOK(tab[t].form)
  BY TabTyped DEF Inv, TabOK
<1>3. /\ Pushed(tab[t], "/login") \in TabStates
      /\ Pushed(tab[t], "/login").query = tab[t].query
      /\ Pushed(tab[t], "/login").form = tab[t].form
  BY <1>1, <1>2, GoingOK
<1> QED  BY <1>2, <1>3, StoreStep DEF Logout

LEMMA ExpireTokenInv ==
  ASSUME SessionAssumption, Inv, ExpireToken PROVE Inv'
<1>1. live' \subseteq live /\ UNCHANGED <<tokens, issued, store, cookie, tab>>
  BY DEF ExpireToken
<1>2. TypeOK'  BY <1>1 DEF Inv, TypeOK
<1>3. StoreOK'  BY <1>1 DEF Inv, StoreOK, CookieLasts, SignedIn
<1>4. \A s \in Tabs : TabOK(s)'  BY <1>1 DEF Inv, TabOK, FormOK
<1> QED  BY <1>2, <1>3, <1>4 DEF Inv

LEMMA ExpireCookieInv ==
  ASSUME SessionAssumption, Inv, ExpireCookie PROVE Inv'
<1>1. cookie \notin live /\ cookie' = 0 /\ UNCHANGED <<tokens, issued, live, store, tab>>
  BY DEF ExpireCookie
<1>2. TypeOK'  BY <1>1 DEF Inv, TypeOK, SessionAssumption
<1>3. StoreOK'  BY <1>1, StoreTyped DEF Inv, StoreOK, CookieLasts, SignedIn
<1>4. \A s \in Tabs : TabOK(s)'  BY <1>1 DEF Inv, TabOK, FormOK
<1> QED  BY <1>2, <1>3, <1>4 DEF Inv

LEMMA NextInv ==
  ASSUME SessionAssumption, Inv, [Next]_vars PROVE Inv'
<1>1. ASSUME NEW t \in Tabs, PageStep(t) PROVE Inv'
  BY <1>1, HopInv, QueryInv, QueryAnsweredInv DEF PageStep
<1>2. ASSUME NEW t \in Used, FormStep(t) PROVE Inv'
  <2>1. t \in Tabs  BY DEF SessionAssumption
  <2> QED  BY <1>2, <2>1, SubmitInv, ServeLoginInv, LoginAnsweredInv, ServeChangeInv,
              ChangeAnsweredInv, FormRefusedInv, FormFailsInv DEF FormStep
<1>3. ASSUME NEW t \in Used, Visit(t) \/ Logout(t) PROVE Inv'
  <2>1. t \in Tabs  BY DEF SessionAssumption
  <2> QED  BY <1>3, <2>1, VisitInv, LogoutInv
<1>4. CASE UNCHANGED vars
  <2>1. UNCHANGED <<tokens, issued, live, store, cookie, tab>>  BY <1>4 DEF vars
  <2> QED  BY <2>1 DEF Inv, TypeOK, StoreOK, CookieLasts, SignedIn, TabOK, FormOK
<1> QED  BY <1>1, <1>2, <1>3, <1>4, ExpireTokenInv, ExpireCookieInv DEF Next

LEMMA AlwaysInv == Spec => []Inv
<1>1. Init => Inv  BY SessionAssumption, InitInv
<1>2. Inv /\ [Next]_vars => Inv'  BY SessionAssumption, NextInv
<1> QED  BY <1>1, <1>2, PTL DEF Spec

-----------------------------------------------------------------------------
\* In every state the session has the shape it should: the stored token has been
\* issued and names the stored user, and so do the answers on their way (lib/auth.ts,
\* AuthService.session).
THEOREM TypeCorrect == Spec => []TypeOK
<1>1. Inv => TypeOK  BY DEF Inv
<1> QED  BY <1>1, AlwaysInv, PTL

-----------------------------------------------------------------------------
\* Who may end a session.

SteadyStep ==
  Calm /\ ~Mistyped /\ SignedIn /\ store'.token # store.token =>
       IF store'.token = 0 THEN \E t \in Tabs : Logout(t)
       ELSE store'.user = store.user \/ \E t \in Tabs : LoginAnswered(t)

LEMMA SignedInToken ==
  ASSUME SessionAssumption, Inv, SignedIn
  PROVE  store.token # 0 /\ store.user = tokens[store.token].user
BY StoreTyped DEF Inv, StoreOK, SignedIn

LEMMA QueryAnsweredSteady ==
  ASSUME SessionAssumption, Inv, NEW t \in Tabs, QueryAnswered(t), Calm, SignedIn
  PROVE  store'.token = store.token
<1>1. Accepted(tab[t].query)
  BY DEF Calm, SignedIn, Accepted, QueryAnswered
<1>2. CASE Mark  BY <1>2, MarkOK DEF QueryAnswered
<1>3. CASE UNCHANGED store  BY <1>3
<1> QED  BY <1>1, <1>2, <1>3 DEF QueryAnswered

LEMMA ChangeAnsweredSteady ==
  ASSUME SessionAssumption, Inv, NEW t \in Tabs, ChangeAnswered(t), Calm, SignedIn
  PROVE  store'.token # 0 /\ store'.user = store.user
<1> DEFINE f == tab[t].form
<1>1. f # NoForm /\ f.kind = "change" /\ f.state = "answered"
  BY TabTyped, KindOfForm DEF ChangeAnswered, Inv
<1>2. f.fresh \in 1 .. issued  BY <1>1, FreshIssued
<1>3. tokens[f.fresh].user = tokens[f.token].user /\ f.token = store.token
  BY <1>1 DEF Inv, TabOK, FormOK, Calm
<1>4. store'.token = f.fresh /\ store'.user = tokens[f.fresh].user
  BY <1>2, PersistOK DEF ChangeAnswered
<1> QED  BY <1>2, <1>3, <1>4, SignedInToken

LEMMA FormRefusedSteady ==
  ASSUME SessionAssumption, Inv, NEW t \in Tabs, FormRefused(t), Calm, ~Mistyped, SignedIn
  PROVE  store'.token = store.token
<1> DEFINE f == tab[t].form
<1>1. f # NoForm /\ f.state = "refused"  BY DEF FormRefused
<1>2. f.kind = "login"
  <2>1. f.kind \in {"login", "change"} /\ f.right \in BOOLEAN
    BY <1>1, FormTyped, TabTyped DEF Inv
  <2>2. f.token = store.token  BY <1>1 DEF Calm
  <2>3. CASE f.kind = "change"
    <3>1. f.right  BY <1>1, <2>1, <2>3 DEF Mistyped
    <3>2. f.token \notin live  BY <1>1, <2>3, <3>1 DEF Inv, TabOK, FormOK
    <3> QED  BY <2>2, <3>2 DEF SignedIn
  <2> QED  BY <2>1, <2>3
<1> QED  BY <1>2 DEF FormRefused

LEMMA NextSteady ==
  ASSUME SessionAssumption, Inv, [Next]_vars PROVE SteadyStep
<1> SUFFICES ASSUME Calm, ~Mistyped, SignedIn, store'.token # store.token
             PROVE  IF store'.token = 0 THEN \E t \in Tabs : Logout(t)
                    ELSE store'.user = store.user \/ \E t \in Tabs : LoginAnswered(t)
  BY DEF SteadyStep
<1>1. ASSUME NEW t \in Tabs, PageStep(t) PROVE FALSE
  BY <1>1, QueryAnsweredSteady DEF PageStep, Hop, Query
<1>2. ASSUME NEW t \in Used, FormStep(t)
      PROVE  store'.token # 0 /\ (store'.user = store.user \/ \E s \in Tabs : LoginAnswered(s))
  <2>1. t \in Tabs  BY DEF SessionAssumption
  <2>2. CASE SubmitLogin(t) \/ SubmitChange(t)
    BY <2>2 DEF SubmitLogin, SubmitChange, Submits
  <2>3. CASE ServeLogin(t) \/ ServeChange(t) \/ FormFails(t)
    BY <2>3 DEF ServeLogin, ServeChange, FormFails
  <2>4. CASE LoginAnswered(t)
    <3>1. tab[t].form.fresh \in 1 .. issued
      BY <2>1, <2>4, TabTyped, KindOfForm, FreshIssued DEF LoginAnswered, Inv
    <3>2. store'.token = tab[t].form.fresh  BY <2>4, <3>1, PersistOK DEF LoginAnswered
    <3> QED  BY <2>1, <2>4, <3>1, <3>2
  <2>5. CASE ChangeAnswered(t)  BY <2>1, <2>5, ChangeAnsweredSteady
  <2>6. CASE FormRefused(t)  BY <2>1, <2>6, FormRefusedSteady
  <2> QED  BY <1>2, <2>2, <2>3, <2>4, <2>5, <2>6 DEF FormStep
<1>3. ASSUME NEW t \in Used, Visit(t) PROVE FALSE  BY <1>3 DEF Visit
<1>4. ASSUME NEW t \in Used, Logout(t)
      PROVE  store'.token = 0 /\ \E s \in Tabs : Logout(s)
  BY <1>4 DEF SessionAssumption, Logout, Clear, NoSession
<1>5. CASE ExpireToken \/ ExpireCookie  BY <1>5 DEF ExpireToken, ExpireCookie
<1>6. CASE UNCHANGED vars  BY <1>6 DEF vars
<1> QED  BY <1>1, <1>2, <1>3, <1>4, <1>5, <1>6 DEF Next

\* A good session ends by a logout, and gives way to none but one of the same
\* user or one from the login form, where requests do not outlive sessions and
\* the current password is typed right (baseQueryWithAuth, handleSubmit,
\* handleLogout).
THEOREM SessionStays == Spec => TurnsSessionSteady
<1>1. Inv /\ [Next]_vars => [SteadyStep]_vars
  BY SessionAssumption, NextSteady
<1> QED  BY <1>1, AlwaysInv, PTL DEF Spec, TurnsSessionSteady, SteadyStep

-----------------------------------------------------------------------------
\* Whom the dialog is forced on.

\* The three writes, the second of them for a token that must change.
LEMMA StoreForcedRight ==
  ASSUME SessionAssumption, Inv, ForcedRight, UNCHANGED <<tokens, issued, live>>,
         \/ \E k \in 1 .. issued : Persist(k)
         \/ Clear
         \/ Mark /\ MustChange(store.token)
         \/ UNCHANGED store
  PROVE  ForcedRight'
<1>1. CASE \E k \in 1 .. issued : Persist(k)
  <2>1. PICK k \in 1 .. issued : Persist(k)  BY <1>1
  <2>2. k \in Tokens  BY StoreTyped DEF Tokens, Inv, SessionAssumption
  <2> QED  BY <2>1, <2>2, PersistOK DEF ForcedRight, MustChange
<1>2. CASE Clear  BY <1>2, ClearOK DEF ForcedRight
<1>3. CASE Mark /\ MustChange(store.token)  BY <1>3, MarkOK DEF ForcedRight, MustChange
<1>4. CASE UNCHANGED store  BY <1>4 DEF ForcedRight, MustChange
<1> QED  BY <1>1, <1>2, <1>3, <1>4

LEMMA IssueForcedRight ==
  ASSUME SessionAssumption, Inv, ForcedRight, NEW u \in Users \cup {NoOne},
         NEW flag \in BOOLEAN, Issue(u, flag), UNCHANGED store
  PROVE  ForcedRight'
<1>1. ASSUME store.token \in Tokens PROVE tokens'[store.token] = tokens[store.token]
  <2>1. store.token \in 1 .. issued
    BY <1>1, StoreTyped DEF Inv, StoreOK, Tokens, SessionAssumption
  <2> QED  BY <2>1, IssueOK
<1> QED  BY <1>1 DEF ForcedRight, MustChange

LEMMA NextForcedRight ==
  ASSUME SessionAssumption, Inv, Calm, ForcedRight, [Next]_vars PROVE ForcedRight'
<1>1. ASSUME NEW t \in Tabs, PageStep(t) PROVE ForcedRight'
  <2>1. CASE Hop(t) \/ Query(t)  BY <2>1, StoreForcedRight DEF Hop, Query
  <2>2. CASE QueryAnswered(t)
    <3>1. tab[t].query = store.token  BY <2>2 DEF Calm, QueryAnswered
    <3> QED  BY <2>2, <3>1, StoreForcedRight DEF QueryAnswered, EndSession
  <2> QED  BY <1>1, <2>1, <2>2 DEF PageStep
<1>2. ASSUME NEW t \in Used, FormStep(t) PROVE ForcedRight'
  <2>1. t \in Tabs  BY DEF SessionAssumption
  <2>2. CASE SubmitLogin(t) \/ SubmitChange(t) \/ FormFails(t)
    BY <2>2, StoreForcedRight DEF SubmitLogin, SubmitChange, Submits, FormFails
  <2>3. CASE ServeLogin(t)
    <3>1. tab[t].form.user \in Users \cup {NoOne}
      BY <2>1, <2>3, FormTyped, TabTyped, KindOfForm DEF Inv, ServeLogin
    <3> QED  BY <2>3, <3>1, StoreForcedRight, IssueForcedRight DEF ServeLogin
  <2>4. CASE ServeChange(t)
    <3> DEFINE k == tab[t].form.token
    <3>1. ASSUME Accepted(k) PROVE tokens[k].user \in Users \cup {NoOne}
      <4>1. k \in Tokens  BY <3>1, StoreTyped DEF Accepted, Inv, Tokens, SessionAssumption
      <4> QED  BY <4>1 DEF Inv, TypeOK
    <3> QED  BY <2>4, <3>1, StoreForcedRight, IssueForcedRight DEF ServeChange
  <2>5. CASE LoginAnswered(t) \/ ChangeAnswered(t)
    <3>1. tab[t].form.fresh \in 1 .. issued
      BY <2>1, <2>5, TabTyped, KindOfForm, FreshIssued DEF LoginAnswered, ChangeAnswered, Inv
    <3> QED  BY <2>5, <3>1, StoreForcedRight DEF LoginAnswered, ChangeAnswered
  <2>6. CASE FormRefused(t)  BY <2>6, StoreForcedRight DEF FormRefused, EndSession
  <2> QED  BY <1>2, <2>2, <2>3, <2>4, <2>5, <2>6 DEF FormStep
<1>3. ASSUME NEW t \in Used, Visit(t) \/ Logout(t) PROVE ForcedRight'
  BY <1>3, StoreForcedRight DEF Visit, Logout
<1>4. CASE ExpireToken \/ ExpireCookie
  BY <1>4 DEF ExpireToken, ExpireCookie, ForcedRight, MustChange
<1>5. CASE UNCHANGED vars  BY <1>5 DEF vars, ForcedRight, MustChange
<1> QED  BY <1>1, <1>2, <1>3, <1>4, <1>5 DEF Next

\* Where no request outlives the session it was sent in, the dialog is forced on
\* nobody whose token is free to do the rest (markPasswordChangeRequired,
\* persistSession).
THEOREM ForcedStaysRight == Spec => TurnsForcedRight
<1>1. Init => ForcedRight
  <2>1. Init => ~store.mustChange  BY DEF Init, NoSession
  <2> QED  BY <2>1 DEF ForcedRight
<1>2. Inv /\ Calm /\ ForcedRight /\ [Next]_vars => ForcedRight'
  BY SessionAssumption, NextForcedRight
<1> QED  BY <1>1, <1>2, AlwaysInv, PTL DEF Spec, TurnsForcedRight

=============================================================================

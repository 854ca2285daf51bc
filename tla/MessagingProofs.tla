-------------------------- MODULE MessagingProofs ---------------------------
(***************************************************************************)
(* Theorems about Messaging, for any number of users, watchers, threads    *)
(* and messages, any length of a page and any number of handlers at once.  *)
(***************************************************************************)
EXTENDS Messaging, FiniteSetTheorems, WellFoundedInduction, TLAPS

-----------------------------------------------------------------------------
\* Sets of times: the oldest, the newest, and a page of the newest.

LEMMA TimesAreNat ==
  /\ Sent \in SUBSET Nat /\ Time \in SUBSET Nat /\ Sent \in SUBSET Time /\ 0 \in Time
  /\ \A t \in Time : Ms[t] \in Nat
BY MessagingAssumption DEF Sent, Time

\* A later instant is not in an earlier millisecond.
LEMMA MsMonotone == \A s, t \in Time : s <= t => Ms[s] <= Ms[t]
BY MessagingAssumption

LEMMA TimesFinite ==
  ASSUME NEW S \in SUBSET Sent
  PROVE  IsFiniteSet(S) /\ Cardinality(S) \in Time /\ Cardinality(S) \in Nat
<1>1. MaxTime \in Nat
  BY MessagingAssumption
<1>2. IsFiniteSet(Sent) /\ Cardinality(Sent) = MaxTime
  BY <1>1, FS_Interval DEF Sent
<1>3. IsFiniteSet(S) /\ Cardinality(S) <= MaxTime
  BY <1>2, FS_Subset
<1>4. Cardinality(S) \in Nat
  BY <1>3, FS_CardinalityType
<1> QED
  BY <1>1, <1>3, <1>4 DEF Time

\* A set of numbers that is bounded has a greatest.
LEMMA GreatestFound ==
  ASSUME NEW S \in SUBSET Nat, S # {}, NEW bound \in Nat, \A s \in S : s <= bound
  PROVE  \E n \in S : \A s \in S : s <= n
<1> DEFINE T == {bound - s : s \in S}
<1>1. \A s \in S : s \in Nat /\ bound - s \in Nat
  BY DEF Nat
<1>2. T \in SUBSET Nat /\ T # {}
  BY <1>1
<1>3. PICK n \in T : \A k \in T : <<k, n>> \notin OpToRel(<, Nat)
  BY <1>2, NatLessThanWellFounded, WFMin
<1>4. \A k \in T : k < n => <<k, n>> \in OpToRel(<, Nat)
  BY <1>2 DEF OpToRel
<1>5. PICK s \in S : n = bound - s
  BY <1>3
<1>6. ASSUME NEW t \in S PROVE t <= s
  <2>1. bound - t \in T /\ ~(bound - t < n)
    BY <1>3, <1>4
  <2> QED
    BY <1>1, <1>5, <2>1
<1> QED
  BY <1>5, <1>6

\* Of some instants there is one in the last millisecond ...
LEMMA NewestFound ==
  ASSUME NEW S \in SUBSET Sent, S # {}
  PROVE  \E n \in S : \A s \in S : Ms[s] <= Ms[n]
<1>1. S \in SUBSET Nat /\ MaxTime \in Nat /\ \A s \in S : s <= MaxTime
  BY MessagingAssumption DEF Sent
<1>2. PICK n \in S : \A s \in S : s <= n
  BY <1>1, GreatestFound
<1> QED
  BY <1>2, MsMonotone, TimesAreNat

\* ... and one in the first.
LEMMA OldestFound ==
  ASSUME NEW S \in SUBSET Sent, S # {}
  PROVE  Oldest(S) # {} /\ Oldest(S) \subseteq S
<1>1. S \in SUBSET Nat
  BY TimesAreNat
<1>2. PICK n \in S : \A k \in S : <<k, n>> \notin OpToRel(<, Nat)
  BY <1>1, NatLessThanWellFounded, WFMin
<1>3. \A k \in S : k < n => <<k, n>> \in OpToRel(<, Nat)
  BY <1>1 DEF OpToRel
<1>4. \A k \in S : ~(k < n)
  BY <1>2, <1>3
<1>5. n \in S /\ \A k \in S : k \in Nat
  BY <1>1
<1>6. \A k \in S : n <= k
  BY <1>4, <1>5
<1>7. \A k \in S : Ms[n] <= Ms[k]
  BY <1>6, MsMonotone, TimesAreNat
<1> QED
  BY <1>7 DEF Oldest

\* A page has the newest, and all there is unless it is full.
LEMMA PageOfIs ==
  ASSUME NEW these \in SUBSET Sent, NEW S \in PagesOf(these)
  PROVE  /\ S \in SUBSET these /\ S \in SUBSET Sent
         /\ \A t \in S, s \in these \ S : Ms[s] <= Ms[t]
         /\ S # these => Cardinality(S) = Page /\ S # {}
         /\ Cardinality(S) <= Page
         /\ these # {} => \E n \in S : \A s \in these : Ms[s] <= Ms[n]
<1>1. /\ S \in SUBSET these
      /\ \A t \in S, s \in these \ S : Ms[s] <= Ms[t]
      /\ S = these \/ Cardinality(S) = Page
      /\ Cardinality(S) <= Page
  BY DEF PagesOf
<1>2. Page \in Nat \ {0} /\ (S = {} => Cardinality(S) = 0)
  BY MessagingAssumption, FS_EmptySet
<1>3. S # these => S # {}
  BY <1>1, <1>2
<1>4. ASSUME these # {} PROVE \E n \in S : \A s \in these : Ms[s] <= Ms[n]
  <2>1. S # {} /\ S \in SUBSET Sent
    BY <1>1, <1>3, <1>4
  <2>2. PICK n \in S : \A s \in S : Ms[s] <= Ms[n]
    BY <2>1, NewestFound
  <2> QED
    BY <1>1, <2>2
<1> QED
  BY <1>1, <1>3, <1>4

-----------------------------------------------------------------------------
\* Type correctness.

LEMMA MembershipTypes ==
  \A f : f \in Memberships <=> \E S \in SUBSET Users : f \in [S -> Time]
BY DEF Memberships

LEMMA AbsentApart ==
  Absent \notin Conversations /\ Absent \notin Memberships /\ Absent \notin Removals
    /\ Absent \notin Fetches
BY AbsentAssumption

LEMMA LiveTypes ==
  ASSUME TypeOK, NEW c \in Live
  PROVE  /\ c \in Conversations
         /\ Members(c) \in SUBSET Users /\ Members(c) \subseteq accounts
         /\ conversation[c] \in [Members(c) -> Time]
<1>1. c \in Conversations /\ conversation[c] \in Memberships
  BY DEF TypeOK, Live
<1>2. PICK S \in SUBSET Users : conversation[c] \in [S -> Time]
  BY <1>1, MembershipTypes
<1> QED
  BY <1>1, <1>2 DEF TypeOK, Members

\* A time that a message was sent at.
LEMMA TimesInTypes ==
  ASSUME TypeOK, NEW c
  PROVE  TimesIn(c) \in SUBSET Sent
<1>1. \A m \in messages : m.at \in Sent
  BY DEF TypeOK
<1> QED
  BY <1>1 DEF TimesIn, In

LEMMA InitTypeOK == Init => TypeOK
<1> SUFFICES ASSUME Init PROVE TypeOK
  OBVIOUS
<1>1. Live = {} /\ messages = {} /\ sending = {}
  BY DEF Init, Live
<1>2. 0 \in Time /\ 0 \in 0 .. MaxCreating
  BY MessagingAssumption, TimesAreNat
<1>3. page \in [Watchers -> Pages]
  BY DEF Init, Pages
<1> QED
  BY <1>1, <1>2, <1>3 DEF Init, TypeOK

\* What the handlers keep, and what the browsers keep.
ServerTypes ==
  /\ accounts \subseteq Users
  /\ conversation \in [Conversations -> Memberships \cup {Absent}]
  /\ \A c \in Live : Members(c) \subseteq accounts
  /\ messages \subseteq [in : Live, from : accounts, at : Sent]
  /\ sending \subseteq [in : Conversations, from : Users, at : Sent]
  /\ clock \in Time /\ reached \in Time
  /\ creating \in [Pairs -> 0 .. MaxCreating]
  /\ removing \in [Users -> Removals \cup {Absent}]

ClientTypes ==
  /\ fetch \in [Watchers -> [Watched -> Fetches \cup {Absent}]]
  /\ list \in [Watchers -> [Watched -> SUBSET Sent]]
  /\ cursor \in [Watchers -> [Watched -> Time]]
  /\ page \in [Watchers -> Pages]
  /\ seen \in [Watchers -> SUBSET Sent]

LEMMA TypesAre == TypeOK <=> ServerTypes /\ ClientTypes
BY DEF TypeOK, ServerTypes, ClientTypes

LEMMA AffectsTypes ==
  ASSUME TypeOK, NEW S, Affects(S)
  PROVE  removing' \in [Users -> Removals \cup {Absent}]
BY DEF Affects, TypeOK

LEMMA FindTypes ==
  ASSUME TypeOK, NEW u \in Users, NEW v \in Users, FindConversation(u, v)
  PROVE  ServerTypes'
<1>1. creating' \in [Pairs -> 0 .. MaxCreating]
  <2>1. creating' = [creating EXCEPT ![{u, v}] = creating[{u, v}] + 1]
        /\ creating[{u, v}] < MaxCreating
    BY DEF FindConversation
  <2>2. CASE {u, v} \in Pairs
    <3>1. creating[{u, v}] + 1 \in 0 .. MaxCreating
      BY <2>1, <2>2, MessagingAssumption DEF TypeOK
    <3> QED
      BY <2>1, <3>1 DEF TypeOK
  <2>3. CASE {u, v} \notin Pairs
    BY <2>1, <2>3 DEF TypeOK
  <2> QED
    BY <2>2, <2>3
<1> QED
  BY <1>1 DEF FindConversation, post, TypeOK, ServerTypes, Live, Members

LEMMA NewIsNew ==
  Live # Conversations => NewConversation \in Conversations /\ NewConversation \notin Live
BY DEF NewConversation, Live

\* A thread that is created is live, beside those that were.
LEMMA CreatedIsLive ==
  ASSUME TypeOK, NEW p \in Pairs, CreateConversation(p), p \subseteq accounts
  PROVE  /\ Live # Conversations
         /\ \E new \in Conversations \ Live :
              /\ Live' = Live \cup {new}
              /\ conversation'[new] = [u \in p |-> 0] /\ Members(new)' = p
         /\ \A c \in Live : conversation'[c] = conversation[c] /\ Members(c)' = Members(c)
         /\ conversation' \in [Conversations -> Memberships \cup {Absent}]
<1>1. /\ Live # Conversations
      /\ conversation' = [conversation EXCEPT ![NewConversation] = [u \in p |-> 0]]
  BY DEF CreateConversation
<1>2. PICK new \in Conversations \ Live : new = NewConversation
  BY <1>1, NewIsNew
<1>3. [u \in p |-> 0] \in Memberships
  <2>1. p \in SUBSET Users /\ 0 \in Time
    BY TimesAreNat DEF Pairs
  <2>2. [u \in p |-> 0] \in [p -> Time]
    BY <2>1
  <2> QED
    BY <2>1, <2>2, MembershipTypes
<1>4. conversation'[new] = [u \in p |-> 0]
      /\ \A c \in Conversations \ {new} : conversation'[c] = conversation[c]
  BY <1>1, <1>2 DEF TypeOK
<1>5. [u \in p |-> 0] # Absent
  BY <1>3, AbsentApart
<1>6. Live' = Live \cup {new}
  BY <1>2, <1>4, <1>5 DEF Live
<1>7. DOMAIN [u \in p |-> 0] = p
  OBVIOUS
<1>8. conversation' \in [Conversations -> Memberships \cup {Absent}]
  BY <1>1, <1>3 DEF TypeOK
<1>9. \A c \in Live : c \in Conversations \ {new}
  BY <1>2 DEF Live
<1>10. Members(new)' = p
  BY <1>4, <1>7 DEF Members
<1>11. \A c \in Live : Members(c)' = Members(c)
  BY <1>4, <1>9 DEF Members
<1> QED
  BY <1>1, <1>2, <1>4, <1>6, <1>8, <1>9, <1>10, <1>11

LEMMA CreateTypes ==
  ASSUME TypeOK, NEW p \in Pairs, CreateConversation(p)
  PROVE  ServerTypes'
<1>1. creating' \in [Pairs -> 0 .. MaxCreating]
  BY MessagingAssumption DEF CreateConversation, TypeOK
<1>2. CASE ~(p \subseteq accounts)
  BY <1>1, <1>2 DEF CreateConversation, post, TypeOK, ServerTypes, Live, Members
<1>3. CASE p \subseteq accounts
  <2>1. removing' \in [Users -> Removals \cup {Absent}]
    BY <1>3, AffectsTypes DEF CreateConversation
  <2>2. UNCHANGED <<accounts, messages, sending, clock, reached>>
    BY DEF CreateConversation, post
  <2>3. messages \subseteq [in : Live', from : accounts, at : Sent]
    BY <1>3, CreatedIsLive DEF TypeOK
  <2>4. \A c \in Live' : Members(c)' \subseteq accounts
    <3>1. PICK new \in Conversations \ Live : Live' = Live \cup {new} /\ Members(new)' = p
      BY <1>3, CreatedIsLive
    <3>2. \A c \in Live : Members(c)' = Members(c) /\ Members(c) \subseteq accounts
      BY <1>3, CreatedIsLive DEF TypeOK
    <3> QED
      BY <1>3, <3>1, <3>2
  <2>5. messages' \subseteq [in : Live', from : accounts', at : Sent]
    BY <2>2, <2>3
  <2>6. conversation' \in [Conversations -> Memberships \cup {Absent}]
    BY <1>3, CreatedIsLive
  <2> QED
    BY <1>1, <2>1, <2>2, <2>4, <2>5, <2>6 DEF TypeOK, ServerTypes
<1> QED
  BY <1>2, <1>3

\* A message is stamped later than all before it.
LEMMA SendAt ==
  ASSUME TypeOK, NEW u \in Users, NEW c \in Conversations, Send(u, c)
  PROVE  \E t \in Sent : /\ clock < t /\ clock' = t
                         /\ sending' = sending \cup {[in |-> c, from |-> u, at |-> t]}
BY DEF Send

LEMMA SendTypes ==
  ASSUME TypeOK, NEW u \in Users, NEW c \in Conversations, Send(u, c)
  PROVE  ServerTypes'
<1>1. PICK t \in Sent : /\ clock' = t
                        /\ sending' = sending \cup {[in |-> c, from |-> u, at |-> t]}
  BY SendAt
<1>2. clock' \in Time
  BY <1>1, TimesAreNat
<1>3. sending' \subseteq [in : Conversations, from : Users, at : Sent]
  BY <1>1 DEF TypeOK
<1> QED
  BY <1>2, <1>3 DEF Send, handlers, TypeOK, ServerTypes, Live, Members

LEMMA InsertTypes ==
  ASSUME TypeOK, NEW m \in sending, Insert(m)
  PROVE  ServerTypes'
<1>1. sending' \subseteq sending /\ m \in [in : Conversations, from : Users, at : Sent]
  BY DEF Insert, TypeOK
<1>2. CASE Participates(m.from, m.in)
  <2>1. removing' \in [Users -> Removals \cup {Absent}]
    BY <1>2, AffectsTypes DEF Insert
  <2>2. m.in \in Live /\ m.from \in accounts
    BY <1>2, LiveTypes DEF Participates
  <2>3. m \in [in : Live, from : accounts, at : Sent]
    BY <1>1, <2>2
  <2>4. reached' \in Time
    BY <1>1, <1>2, TimesAreNat DEF Insert, TypeOK
  <2>5. messages' \subseteq [in : Live, from : accounts, at : Sent]
    BY <1>2, <2>3 DEF Insert, TypeOK
  <2> QED
    BY <1>1, <2>1, <2>4, <2>5 DEF Insert, TypeOK, ServerTypes, Live, Members
<1>3. CASE ~Participates(m.from, m.in)
  BY <1>1, <1>3 DEF Insert, TypeOK, ServerTypes, Live, Members
<1> QED
  BY <1>2, <1>3

LEMMA BeginRemoveTypes ==
  ASSUME TypeOK, NEW u \in Users, BeginRemove(u)
  PROVE  ServerTypes'
<1>1. [emptied |-> Emptied(u)] \in Removals
  BY DEF Emptied, Live, Removals
<1> QED
  BY <1>1 DEF BeginRemove, post, TypeOK, ServerTypes, Live, Members

\* What a deletion leaves: its threads are gone, and its user from the others.
LEMMA RemovedIsGone ==
  ASSUME TypeOK, NEW u \in Users, Remove(u)
  PROVE  /\ removing[u] # Absent
         /\ accounts' = accounts \ {u}
         /\ messages' = {m \in messages : m.from # u /\ m.in \notin removing[u].emptied}
         /\ Live' = Live \ removing[u].emptied
         /\ \A c \in Live' : /\ Members(c)' = Members(c) \ {u}
                             /\ \A v \in Members(c)' : conversation'[c][v] = conversation[c][v]
         /\ conversation' \in [Conversations -> Memberships \cup {Absent}]
<1> DEFINE kept(c) == IF Participates(u, c) THEN Without(u, c) ELSE conversation[c]
           gone == removing[u].emptied
<1>1. /\ removing[u] # Absent
      /\ accounts' = accounts \ {u}
      /\ messages' = {m \in messages : m.from # u /\ m.in \notin gone}
      /\ conversation' = [c \in Conversations |-> IF c \in gone THEN Absent ELSE kept(c)]
  BY DEF Remove
<1>2. ASSUME NEW c \in Live
      PROVE  /\ kept(c) \in Memberships /\ DOMAIN kept(c) = Members(c) \ {u}
             /\ \A v \in Members(c) \ {u} : kept(c)[v] = conversation[c][v]
  <2>1. CASE Participates(u, c)
    <3>1. Without(u, c) \in [Members(c) \ {u} -> Time]
      BY LiveTypes DEF Without
    <3>2. Members(c) \ {u} \in SUBSET Users
      BY LiveTypes
    <3> QED
      BY <2>1, <3>1, <3>2, MembershipTypes DEF Without
  <2>2. CASE ~Participates(u, c)
    <3>1. Members(c) \ {u} = Members(c)
      BY <2>2 DEF Participates
    <3> QED
      BY <2>2, <3>1 DEF TypeOK, Live, Members
  <2> QED
    BY <2>1, <2>2
<1>3. ASSUME NEW c \in Conversations, c \notin Live
      PROVE  kept(c) = Absent
  BY <1>3 DEF Participates, Live
<1> HIDE DEF kept, gone
<1>4. \A c \in Conversations : kept(c) # Absent <=> c \in Live
  BY <1>2, <1>3, AbsentApart
<1>5. \A c \in Conversations : conversation'[c] = IF c \in gone THEN Absent ELSE kept(c)
  BY <1>1
<1>6. Live' = Live \ gone
  BY <1>4, <1>5 DEF Live
<1>7. \A c \in Live' : Members(c)' = Members(c) \ {u}
  BY <1>2, <1>5, <1>6 DEF Members, Live
<1>8. \A c \in Live' : \A v \in Members(c)' : conversation'[c][v] = conversation[c][v]
  BY <1>2, <1>5, <1>6, <1>7 DEF Live
<1>9. conversation' \in [Conversations -> Memberships \cup {Absent}]
  BY <1>1, <1>2, <1>3
<1> QED
  BY <1>1, <1>6, <1>7, <1>8, <1>9 DEF gone

LEMMA RemoveTypes ==
  ASSUME TypeOK, NEW u \in Users, Remove(u)
  PROVE  ServerTypes'
<1>1. /\ removing' \in [Users -> Removals \cup {Absent}]
      /\ UNCHANGED <<sending, clock, reached, creating>>
  BY DEF Remove, TypeOK
<1>2. \A c \in Live' : Members(c)' \subseteq accounts'
  BY RemovedIsGone DEF TypeOK
<1>3. messages' \subseteq [in : Live', from : accounts', at : Sent]
  <2> SUFFICES ASSUME NEW m \in messages, m.from # u, m.in \notin removing[u].emptied
               PROVE  m \in [in : Live \ removing[u].emptied, from : accounts \ {u}, at : Sent]
    BY RemovedIsGone
  <2> QED
    BY DEF TypeOK
<1> QED
  BY <1>1, <1>2, <1>3, RemovedIsGone DEF TypeOK, ServerTypes

LEMMA LostTypes ==
  ASSUME TypeOK, RequestLost
  PROVE  ServerTypes'
<1>1. creating' \in [Pairs -> 0 .. MaxCreating]
  <2>1. ASSUME NEW p \in Pairs, creating[p] > 0, creating' = [creating EXCEPT ![p] = @ - 1]
        PROVE  creating' \in [Pairs -> 0 .. MaxCreating]
    <3>1. creating[p] - 1 \in 0 .. MaxCreating
      BY <2>1, MessagingAssumption DEF TypeOK
    <3> QED
      BY <2>1, <3>1 DEF TypeOK
  <2> QED
    BY <2>1 DEF RequestLost, TypeOK
<1>2. removing' \in [Users -> Removals \cup {Absent}]
  BY DEF RequestLost, TypeOK
<1> QED
  BY <1>1, <1>2 DEF RequestLost, post, TypeOK, ServerTypes, Live, Members

LEMMA HandlerTypeOK ==
  ASSUME TypeOK, HandlerStep
  PROVE  TypeOK' /\ UNCHANGED client
<1>1. UNCHANGED client
  BY DEF HandlerStep, FindConversation, CreateConversation, Send, Insert, BeginRemove, Remove,
         RequestLost
<1>2. ClientTypes'
  BY <1>1 DEF client, ClientTypes, TypeOK
<1>3. ServerTypes'
  BY FindTypes, CreateTypes, SendTypes, InsertTypes, BeginRemoveTypes, RemoveTypes, LostTypes
  DEF HandlerStep
<1> QED
  BY <1>1, <1>2, <1>3 DEF TypeOK, ServerTypes, ClientTypes

LEMMA SetsTypes ==
  ASSUME TypeOK, NEW u \in Watchers, NEW c \in Watched, NEW f \in Fetches \cup {Absent},
         Sets(u, c, f)
  PROVE  /\ fetch' \in [Watchers -> [Watched -> Fetches \cup {Absent}]]
         /\ fetch'[u][c] = f
         /\ \A v \in Watchers, d \in Watched :
              v # u \/ d # c => fetch'[v][d] = fetch[v][d]
BY DEF Sets, TypeOK

\* A fetch under way, and a list, as they are typed.
LEMMA ThreadTypes ==
  ASSUME TypeOK, NEW u \in Watchers, NEW c \in Watched
  PROVE  /\ u \in Users /\ c \in Conversations
         /\ Fetching(u, c) => fetch[u][c] \in Fetches
         /\ list[u][c] \in SUBSET Sent /\ seen[u] \in SUBSET Sent
         /\ cursor[u][c] \in Time /\ page[u] \in Pages
BY MessagingAssumption DEF TypeOK, Fetching

LEMMA ListLength ==
  ASSUME TypeOK, NEW u \in Watchers, NEW c \in Watched
  PROVE  Cardinality(list[u][c]) \in -1 .. MaxTime
<1>1. Cardinality(list[u][c]) \in Time
  BY ThreadTypes, TimesFinite
<1> QED
  BY <1>1, MessagingAssumption DEF Time

LEMMA ServerKeeps ==
  ASSUME TypeOK, UNCHANGED <<accounts, conversation, post, handlers>>
  PROVE  ServerTypes'
BY DEF TypeOK, ServerTypes, handlers, post, Live, Members

\* A request is typed, and leaves its cursor at the entry.
LEMMA AskTypes ==
  ASSUME TypeOK, NEW u \in Watchers, NEW c \in Watched, NEW before \in Time,
         NEW older \in BOOLEAN, NEW waiting \in -1 .. MaxTime,
         Ask(u, c, before, older, waiting)
  PROVE  /\ fetch' \in [Watchers -> [Watched -> Fetches \cup {Absent}]]
         /\ cursor' \in [Watchers -> [Watched -> Time]]
         /\ fetch'[u][c] \in Fetches
         /\ fetch'[u][c].pc = "asked" /\ fetch'[u][c].before = before
         /\ fetch'[u][c].items = {} /\ fetch'[u][c].asOf = {}
         /\ fetch'[u][c].older = older /\ fetch'[u][c].waiting = waiting
         /\ cursor'[u][c] = before
         /\ \A v \in Watchers, d \in Watched :
              v # u \/ d # c => fetch'[v][d] = fetch[v][d] /\ cursor'[v][d] = cursor[v][d]
<1> DEFINE asked == [pc |-> "asked", before |-> before, items |-> {}, asOf |-> {},
                     older |-> older, waiting |-> waiting]
<1>1. asked \in Fetches
  BY DEF Fetches
<1>2. Sets(u, c, asked) /\ cursor' = [cursor EXCEPT ![u][c] = before]
  BY DEF Ask
<1>3. asked.pc = "asked" /\ asked.before = before /\ asked.items = {} /\ asked.asOf = {}
      /\ asked.older = older /\ asked.waiting = waiting
  OBVIOUS
<1> HIDE DEF asked
<1>4. /\ fetch' \in [Watchers -> [Watched -> Fetches \cup {Absent}]]
      /\ fetch'[u][c] = asked
      /\ \A v \in Watchers, d \in Watched : v # u \/ d # c => fetch'[v][d] = fetch[v][d]
  BY <1>1, <1>2, SetsTypes
<1>5. /\ cursor' \in [Watchers -> [Watched -> Time]]
      /\ cursor'[u][c] = before
      /\ \A v \in Watchers, d \in Watched : v # u \/ d # c => cursor'[v][d] = cursor[v][d]
  BY <1>2 DEF TypeOK
<1> QED
  BY <1>1, <1>3, <1>4, <1>5

\* A poll waits for no click.
LEMMA NobodyWaits == -1 \in -1 .. MaxTime
BY MessagingAssumption

LEMMA SelectTypes ==
  ASSUME TypeOK, NEW u \in Watchers, NEW c \in Watched \cup {Absent}, SelectConversation(u, c)
  PROVE  TypeOK'
<1>1. Opened(c, page[u].asked) \in Pages
  BY DEF TypeOK, Opened, Pages
<1>2. page' \in [Watchers -> Pages] /\ UNCHANGED <<list, seen>>
  BY <1>1 DEF SelectConversation, TypeOK
<1>3. /\ fetch' \in [Watchers -> [Watched -> Fetches \cup {Absent}]]
      /\ cursor' \in [Watchers -> [Watched -> Time]]
  <2>1. CASE c \in Watched /\ Ask(u, c, 0, FALSE, -1)
    BY <2>1, AskTypes, NobodyWaits, TimesAreNat
  <2>2. CASE UNCHANGED <<fetch, cursor>>
    BY <2>2 DEF TypeOK
  <2> QED
    BY <2>1, <2>2 DEF SelectConversation
<1>4. ClientTypes'
  BY <1>2, <1>3 DEF TypeOK, ClientTypes
<1>5. ServerTypes'
  BY ServerKeeps DEF SelectConversation
<1> QED
  BY <1>4, <1>5 DEF TypeOK, ServerTypes, ClientTypes

\* Leaving the page ends the waiting of its threads, and nothing else of them.
LEMMA LeaveAt ==
  ASSUME TypeOK, NEW u \in Watchers, LeaveMessages(u), NEW v \in Watchers, NEW c \in Watched
  PROVE  /\ UNCHANGED <<list, cursor, seen>>
         /\ v # u => fetch'[v][c] = fetch[v][c]
         /\ ~Fetching(u, c) => fetch'[u][c] = Absent
         /\ Fetching(u, c) => /\ fetch'[u][c] = [fetch[u][c] EXCEPT !.waiting = -1]
                              /\ fetch[u][c] \in Fetches /\ fetch'[u][c] \in Fetches
<1>1. UNCHANGED <<list, cursor, seen>>
  BY DEF LeaveMessages
<1>2. fetch' = [fetch EXCEPT ![u] =
        [d \in Watched |-> IF fetch[u][d] = Absent THEN Absent
                           ELSE [fetch[u][d] EXCEPT !.waiting = -1]]]
  BY DEF LeaveMessages
<1>3. /\ v # u => fetch'[v] = fetch[v]
      /\ fetch'[u][c] = IF fetch[u][c] = Absent THEN Absent
                        ELSE [fetch[u][c] EXCEPT !.waiting = -1]
  BY <1>2 DEF TypeOK
<1>4. Fetching(u, c) => fetch[u][c] \in Fetches
  BY ThreadTypes
<1>5. fetch[u][c] \in Fetches => [fetch[u][c] EXCEPT !.waiting = -1] \in Fetches
  BY NobodyWaits DEF Fetches
<1> QED
  BY <1>1, <1>3, <1>4, <1>5 DEF Fetching

LEMMA LeaveTypes ==
  ASSUME TypeOK, NEW u \in Watchers, LeaveMessages(u)
  PROVE  TypeOK'
<1>1. Opened(Absent, Absent) \in Pages
  BY DEF Opened, Pages
<1>2. page' \in [Watchers -> Pages] /\ UNCHANGED <<list, cursor, seen>>
  BY <1>1 DEF LeaveMessages, TypeOK
<1>3. fetch' \in [Watchers -> [Watched -> Fetches \cup {Absent}]]
  <2> DEFINE left == [c \in Watched |-> IF fetch[u][c] = Absent THEN Absent
                                        ELSE [fetch[u][c] EXCEPT !.waiting = -1]]
  <2>1. fetch' = [fetch EXCEPT ![u] = left]
    BY DEF LeaveMessages
  <2>2. ASSUME NEW c \in Watched, fetch[u][c] # Absent
        PROVE  [fetch[u][c] EXCEPT !.waiting = -1] \in Fetches
    <3>1. fetch[u][c] \in Fetches
      BY <2>2 DEF TypeOK
    <3> QED
      BY <3>1, NobodyWaits DEF Fetches
  <2>3. left \in [Watched -> Fetches \cup {Absent}]
    BY <2>2
  <2> HIDE DEF left
  <2> QED
    BY <2>1, <2>3 DEF TypeOK
<1>4. ClientTypes'
  BY <1>2, <1>3 DEF TypeOK, ClientTypes
<1>5. ServerTypes'
  BY ServerKeeps DEF LeaveMessages
<1> QED
  BY <1>4, <1>5 DEF TypeOK, ServerTypes, ClientTypes

LEMMA ExpireTypes ==
  ASSUME TypeOK, NEW u \in Watchers, NEW c \in Watched, Expire(u, c)
  PROVE  TypeOK'
<1>1. ClientTypes'
  BY TimesAreNat DEF Expire, TypeOK, ClientTypes
<1>2. ServerTypes'
  BY ServerKeeps DEF Expire
<1> QED
  BY <1>1, <1>2 DEF TypeOK, ServerTypes, ClientTypes

LEMMA PollTypes ==
  ASSUME TypeOK, NEW u \in Watchers, NEW c \in Watched, Poll(u, c)
  PROVE  TypeOK'
<1>1. cursor[u][c] \in Time /\ Ask(u, c, cursor[u][c], FALSE, -1)
  BY ThreadTypes DEF Poll
<1>2. ClientTypes'
  BY <1>1, AskTypes, NobodyWaits DEF Poll, TypeOK, ClientTypes
<1>3. ServerTypes'
  BY ServerKeeps DEF Poll
<1> QED
  BY <1>2, <1>3 DEF TypeOK, ServerTypes, ClientTypes

\* A click starts a fetch, or waits for the one under way.
LEMMA LoadOlderAt ==
  ASSUME TypeOK, NEW u \in Watchers, NEW c \in Watched, LoadOlder(u, c)
  PROVE  /\ list[u][c] # {} /\ UNCHANGED list
         /\ fetch' \in [Watchers -> [Watched -> Fetches \cup {Absent}]]
         /\ cursor' \in [Watchers -> [Watched -> Time]]
         /\ fetch'[u][c] \in Fetches
         /\ fetch'[u][c].waiting = Cardinality(list[u][c])
         /\ \/ /\ ~Fetching(u, c) /\ fetch'[u][c].pc = "asked"
               /\ fetch'[u][c].before \in Oldest(list[u][c]) /\ fetch'[u][c].older
               /\ fetch'[u][c].items = {} /\ fetch'[u][c].asOf = {}
               /\ cursor'[u][c] = fetch'[u][c].before
            \/ /\ Fetching(u, c) /\ fetch[u][c] \in Fetches
               /\ fetch'[u][c].pc = fetch[u][c].pc
               /\ fetch'[u][c].before = fetch[u][c].before
               /\ fetch'[u][c].items = fetch[u][c].items
               /\ fetch'[u][c].asOf = fetch[u][c].asOf
               /\ fetch'[u][c].older = fetch[u][c].older
               /\ cursor'[u][c] = cursor[u][c]
         /\ \A v \in Watchers, d \in Watched :
              v # u \/ d # c => fetch'[v][d] = fetch[v][d] /\ cursor'[v][d] = cursor[v][d]
<1> DEFINE before == Cardinality(list[u][c])
<1>1. before \in -1 .. MaxTime
  BY ListLength
<1> HIDE DEF before
<1>2. list[u][c] # {} /\ UNCHANGED list
  BY DEF LoadOlder
<1>3. ASSUME ~Fetching(u, c), NEW t \in Oldest(list[u][c]), Ask(u, c, t, TRUE, before)
      PROVE  /\ fetch' \in [Watchers -> [Watched -> Fetches \cup {Absent}]]
             /\ cursor' \in [Watchers -> [Watched -> Time]]
             /\ fetch'[u][c] \in Fetches /\ fetch'[u][c].waiting = before
             /\ fetch'[u][c].pc = "asked"
             /\ fetch'[u][c].before \in Oldest(list[u][c]) /\ fetch'[u][c].older
             /\ fetch'[u][c].items = {} /\ fetch'[u][c].asOf = {}
             /\ cursor'[u][c] = fetch'[u][c].before
             /\ \A v \in Watchers, d \in Watched :
                  v # u \/ d # c => fetch'[v][d] = fetch[v][d] /\ cursor'[v][d] = cursor[v][d]
  <2>1. t \in Time
    BY ThreadTypes, TimesAreNat DEF Oldest
  <2>2. PICK clicked \in BOOLEAN : clicked = TRUE
    OBVIOUS
  <2>3. Ask(u, c, t, clicked, before)
    BY <1>3, <2>2
  <2>4. /\ fetch' \in [Watchers -> [Watched -> Fetches \cup {Absent}]]
        /\ cursor' \in [Watchers -> [Watched -> Time]]
        /\ fetch'[u][c] \in Fetches /\ fetch'[u][c].waiting = before
        /\ fetch'[u][c].pc = "asked" /\ fetch'[u][c].before = t
        /\ fetch'[u][c].items = {} /\ fetch'[u][c].asOf = {}
        /\ cursor'[u][c] = t /\ fetch'[u][c].older = clicked
    BY <1>1, <2>1, <2>3, AskTypes
  <2>5. \A v \in Watchers, d \in Watched :
          v # u \/ d # c => fetch'[v][d] = fetch[v][d] /\ cursor'[v][d] = cursor[v][d]
    BY <1>1, <2>1, <2>3, AskTypes
  <2> QED
    BY <1>3, <2>2, <2>4, <2>5
<1>4. ASSUME Fetching(u, c), Sets(u, c, [fetch[u][c] EXCEPT !.waiting = before]),
             UNCHANGED cursor
      PROVE  /\ fetch' \in [Watchers -> [Watched -> Fetches \cup {Absent}]]
             /\ cursor' \in [Watchers -> [Watched -> Time]]
             /\ fetch[u][c] \in Fetches /\ fetch'[u][c] \in Fetches
             /\ fetch'[u][c] = [fetch[u][c] EXCEPT !.waiting = before]
             /\ \A v \in Watchers, d \in Watched :
                  v # u \/ d # c => fetch'[v][d] = fetch[v][d] /\ cursor'[v][d] = cursor[v][d]
  <2>1. fetch[u][c] \in Fetches
    BY <1>4, ThreadTypes
  <2>2. [fetch[u][c] EXCEPT !.waiting = before] \in Fetches
    BY <1>1, <2>1 DEF Fetches
  <2>3. cursor' \in [Watchers -> [Watched -> Time]]
    BY <1>4 DEF TypeOK
  <2> QED
    BY <1>4, <2>1, <2>2, <2>3, SetsTypes
<1>5. ASSUME fetch[u][c] \in Fetches,
             fetch'[u][c] = [fetch[u][c] EXCEPT !.waiting = before]
      PROVE  /\ fetch'[u][c].waiting = before
             /\ fetch'[u][c].pc = fetch[u][c].pc
             /\ fetch'[u][c].before = fetch[u][c].before
             /\ fetch'[u][c].items = fetch[u][c].items
             /\ fetch'[u][c].asOf = fetch[u][c].asOf
             /\ fetch'[u][c].older = fetch[u][c].older
  BY <1>5 DEF Fetches
<1>6. \/ ~Fetching(u, c) /\ \E t \in Oldest(list[u][c]) : Ask(u, c, t, TRUE, before)
      \/ /\ Fetching(u, c) /\ Sets(u, c, [fetch[u][c] EXCEPT !.waiting = before])
         /\ UNCHANGED cursor
  BY DEF LoadOlder, before
<1>7. CASE ~Fetching(u, c)
  BY <1>2, <1>3, <1>6, <1>7 DEF before
<1>8. CASE Fetching(u, c)
  BY <1>2, <1>4, <1>5, <1>6, <1>8 DEF before
<1> QED
  BY <1>7, <1>8

LEMMA LoadOlderTypes ==
  ASSUME TypeOK, NEW u \in Watchers, NEW c \in Watched, LoadOlder(u, c)
  PROVE  TypeOK'
<1>1. page' \in [Watchers -> Pages] /\ UNCHANGED <<list, seen>>
  BY DEF LoadOlder, TypeOK, Pages
<1>2. ClientTypes'
  BY <1>1, LoadOlderAt DEF TypeOK, ClientTypes
<1>3. ServerTypes'
  BY ServerKeeps DEF LoadOlder
<1> QED
  BY <1>2, <1>3 DEF TypeOK, ServerTypes, ClientTypes

\* What a page is read from.
Earlier(c, before) == {t \in TimesIn(c) : before = 0 \/ Ms[t] < Ms[before]}

LEMMA WindowTypes ==
  ASSUME TypeOK, NEW c, NEW before
  PROVE  /\ Windows(c, before) = PagesOf(Earlier(c, before))
         /\ Windows(c, before) \in SUBSET (SUBSET Sent)
         /\ Earlier(c, before) \in SUBSET Sent
<1>1. Windows(c, before) = PagesOf(Earlier(c, before))
  BY DEF Windows, Earlier
<1>2. Earlier(c, before) \in SUBSET Sent
  BY TimesInTypes DEF Earlier
<1> QED
  BY <1>1, <1>2 DEF PagesOf

LEMMA ReadPageAt ==
  ASSUME TypeOK, NEW u \in Watchers, NEW c \in Watched, ReadPage(u, c)
  PROVE  /\ Fetching(u, c) /\ fetch[u][c].pc = "asked" /\ UNCHANGED <<list, cursor>>
         /\ fetch' \in [Watchers -> [Watched -> Fetches \cup {Absent}]]
         /\ fetch[u][c] \in Fetches /\ fetch'[u][c] \in Fetches
         /\ fetch'[u][c].pc = "read"
         /\ fetch'[u][c].asOf = IF fetch[u][c].before = 0 THEN TimesIn(c) ELSE {}
         /\ fetch'[u][c].items \in PagesOf(Earlier(c, fetch[u][c].before))
         /\ fetch'[u][c].before = fetch[u][c].before
         /\ fetch'[u][c].older = fetch[u][c].older
         /\ fetch'[u][c].waiting = fetch[u][c].waiting
         /\ \A v \in Watchers, d \in Watched : v # u \/ d # c => fetch'[v][d] = fetch[v][d]
<1> DEFINE f == fetch[u][c]
           asOf == IF f.before = 0 THEN TimesIn(c) ELSE {}
<1>1. PICK items \in Windows(c, f.before) :
        Sets(u, c, [f EXCEPT !.pc = "read", !.items = items, !.asOf = asOf])
  BY DEF ReadPage
<1>2. items \in PagesOf(Earlier(c, f.before)) /\ items \in SUBSET Sent
  BY <1>1, WindowTypes
<1>3. f \in Fetches /\ Fetching(u, c) /\ f.pc = "asked" /\ UNCHANGED <<list, cursor>>
  BY ThreadTypes DEF ReadPage
<1>4. asOf \in SUBSET Sent
  BY TimesInTypes
<1> HIDE DEF f, asOf
<1> DEFINE g == [f EXCEPT !.pc = "read", !.items = items, !.asOf = asOf]
<1>5. /\ g \in Fetches /\ g.pc = "read" /\ g.asOf = asOf /\ g.items = items
      /\ g.before = f.before /\ g.older = f.older /\ g.waiting = f.waiting
  BY <1>2, <1>3, <1>4 DEF Fetches
<1> HIDE DEF g
<1>6. /\ fetch'[u][c] = g
      /\ fetch' \in [Watchers -> [Watched -> Fetches \cup {Absent}]]
      /\ \A v \in Watchers, d \in Watched : v # u \/ d # c => fetch'[v][d] = fetch[v][d]
  BY <1>1, <1>5, SetsTypes DEF g
<1> QED
  BY <1>2, <1>3, <1>5, <1>6 DEF f, asOf

LEMMA ReadPageTypes ==
  ASSUME TypeOK, NEW u \in Watchers, NEW c \in Watched, ReadPage(u, c)
  PROVE  TypeOK'
<1>1. UNCHANGED <<list, cursor, page, seen>>
  BY DEF ReadPage
<1>2. ClientTypes'
  BY <1>1, ReadPageAt DEF TypeOK, ClientTypes
<1>3. ServerTypes'
  BY ServerKeeps DEF ReadPage
<1> QED
  BY <1>2, <1>3 DEF TypeOK, ServerTypes, ClientTypes

\* Marking a thread moves the time of one member of one thread.
LEMMA MarkedIsRead ==
  ASSUME TypeOK, NEW u \in Watchers, NEW c \in Watched, MarkRead(u, c)
  PROVE  /\ c \in Live /\ u \in Members(c) /\ Live' = Live
         /\ \A d \in Live : Members(d)' = Members(d)
         /\ conversation'[c][u] = clock
         /\ \A d \in Live : \A v : v \in Members(d) /\ (d # c \/ v # u)
                               => conversation'[d][v] = conversation[d][v]
         /\ conversation' \in [Conversations -> Memberships \cup {Absent}]
<1> DEFINE marked == [conversation[c] EXCEPT ![u] = clock]
<1>1. c \in Live /\ u \in Members(c) /\ clock \in Time
  BY DEF MarkRead, Participates, TypeOK
<1>2. conversation[c] \in [Members(c) -> Time] /\ Members(c) \in SUBSET Users
  BY <1>1, LiveTypes
<1>3. marked \in [Members(c) -> Time]
  BY <1>1, <1>2
<1>4. marked \in Memberships /\ marked # Absent
  BY <1>2, <1>3, MembershipTypes, AbsentApart
<1>5. conversation' = [conversation EXCEPT ![c] = marked]
  BY DEF MarkRead
<1>6. DOMAIN marked = Members(c) /\ marked[u] = clock
      /\ \A v \in Members(c) : v # u => marked[v] = conversation[c][v]
  BY <1>1, <1>2
<1> HIDE DEF marked
<1>7. conversation' \in [Conversations -> Memberships \cup {Absent}]
      /\ conversation'[c] = marked
      /\ \A d \in Conversations : d # c => conversation'[d] = conversation[d]
  BY <1>1, <1>4, <1>5 DEF TypeOK, Live
<1>8. Live' = Live
  BY <1>1, <1>4, <1>7 DEF Live
<1>9. \A d \in Live : Members(d)' = Members(d)
  BY <1>6, <1>7 DEF Members, Live
<1> QED
  BY <1>1, <1>6, <1>7, <1>8, <1>9 DEF Live

LEMMA MarkReadTypes ==
  ASSUME TypeOK, NEW u \in Watchers, NEW c \in Watched, MarkRead(u, c)
  PROVE  TypeOK'
<1>1. [fetch[u][c] EXCEPT !.pc = "answered", !.asOf = {}] \in Fetches
  <2>1. fetch[u][c] \in Fetches
    BY ThreadTypes DEF MarkRead
  <2> QED
    BY <2>1 DEF Fetches
<1>2. ClientTypes'
  BY <1>1, SetsTypes DEF MarkRead, TypeOK, ClientTypes
<1>3. /\ Live' = Live
      /\ \A d \in Live : Members(d)' = Members(d)
      /\ conversation' \in [Conversations -> Memberships \cup {Absent}]
      /\ UNCHANGED <<accounts, messages, sending, clock, reached, creating, removing>>
  BY MarkedIsRead DEF MarkRead, handlers, post
<1>4. ServerTypes'
  BY <1>3 DEF TypeOK, ServerTypes
<1> QED
  BY <1>2, <1>4 DEF TypeOK, ServerTypes, ClientTypes

\* What comes into a list with a page, and with it into the history.
LEMMA MergedIsListed ==
  ASSUME TypeOK, NEW u \in Watchers, NEW c \in Watched, Merge(u, c)
  PROVE  /\ list'[u][c] = list[u][c] \cup fetch[u][c].items
         /\ seen'[u] = seen[u] \cup list[u][c] \cup fetch[u][c].items
         /\ \A v \in Watchers, d \in Watched :
              v # u \/ d # c => list'[v][d] = list[v][d]
         /\ \A v \in Watchers : v # u => seen'[v] = seen[v]
         /\ list' \in [Watchers -> [Watched -> SUBSET Sent]]
         /\ seen' \in [Watchers -> SUBSET Sent]
<1>1. fetch[u][c].items \in SUBSET Sent
  BY ThreadTypes DEF Merge, Fetches
<1>2. /\ list' = [list EXCEPT ![u][c] = list[u][c] \cup fetch[u][c].items]
      /\ seen' = [seen EXCEPT ![u] = @ \cup (list[u][c] \cup fetch[u][c].items)]
  BY DEF Merge
<1> QED
  BY <1>1, <1>2 DEF TypeOK

LEMMA MergeTypes ==
  ASSUME TypeOK, NEW u \in Watchers, NEW c \in Watched, Merge(u, c)
  PROVE  TypeOK'
<1>1. fetch' \in [Watchers -> [Watched -> Fetches \cup {Absent}]]
  BY SetsTypes DEF Merge
<1>2. page' \in [Watchers -> Pages]
  <2> DEFINE more == Growth(fetch[u][c].waiting,
                            Cardinality(list[u][c] \cup fetch[u][c].items)) = Page
  <2>1. page' = page \/ page' = [page EXCEPT ![u].paged = TRUE, ![u].more = more]
    BY DEF Merge
  <2>2. page \in [Watchers -> Pages] /\ more \in BOOLEAN
    BY DEF TypeOK
  <2> HIDE DEF more
  <2> QED
    BY <2>1, <2>2 DEF Pages
<1>3. ClientTypes'
  BY <1>1, <1>2, MergedIsListed DEF Merge, TypeOK, ClientTypes
<1>4. ServerTypes'
  BY ServerKeeps DEF Merge
<1> QED
  BY <1>3, <1>4 DEF TypeOK, ServerTypes, ClientTypes

LEMMA FetchLostTypes ==
  ASSUME TypeOK, NEW u \in Watchers, NEW c \in Watched, FetchLost(u, c)
  PROVE  TypeOK'
<1>1. [fetch[u][c] EXCEPT !.pc = "lost", !.items = {}] \in Fetches
  <2>1. fetch[u][c] \in Fetches
    BY ThreadTypes DEF FetchLost
  <2> QED
    BY <2>1 DEF Fetches
<1>2. ClientTypes'
  BY <1>1, SetsTypes DEF FetchLost, TypeOK, ClientTypes
<1>3. ServerTypes'
  BY ServerKeeps DEF FetchLost
<1> QED
  BY <1>2, <1>3 DEF TypeOK, ServerTypes, ClientTypes

LEMMA GiveUpTypes ==
  ASSUME TypeOK, NEW u \in Watchers, NEW c \in Watched, GiveUp(u, c)
  PROVE  TypeOK'
<1>1. ClientTypes'
  BY SetsTypes DEF GiveUp, TypeOK, ClientTypes
<1>2. ServerTypes'
  BY ServerKeeps DEF GiveUp
<1> QED
  BY <1>1, <1>2 DEF TypeOK, ServerTypes, ClientTypes

LEMMA StutterTypeOK ==
  ASSUME TypeOK, UNCHANGED vars
  PROVE  TypeOK'
<1>1. ClientTypes'
  BY DEF vars, client, TypeOK, ClientTypes
<1>2. ServerTypes'
  BY ServerKeeps DEF vars
<1> QED
  BY <1>1, <1>2 DEF TypeOK, ServerTypes, ClientTypes

LEMMA NextTypeOK == TypeOK /\ [Next]_vars => TypeOK'
<1> SUFFICES ASSUME TypeOK, [Next]_vars PROVE TypeOK'
  OBVIOUS
<1>1. CASE HandlerStep
  BY <1>1, HandlerTypeOK
<1>2. ASSUME NEW u \in Watchers, NEW c \in Watched \cup {Absent}, SelectConversation(u, c)
      PROVE  TypeOK'
  BY <1>2, SelectTypes
<1>3. ASSUME NEW u \in Watchers, NEW c \in Watched, WatchStep(u, c)
      PROVE  TypeOK'
  BY <1>3, ExpireTypes, PollTypes, LoadOlderTypes, ReadPageTypes, MarkReadTypes, MergeTypes,
     FetchLostTypes, GiveUpTypes DEF WatchStep
<1>4. ASSUME NEW u \in Watchers, LeaveMessages(u)
      PROVE  TypeOK'
  BY <1>4, LeaveTypes
<1>5. CASE UNCHANGED vars
  BY <1>5, StutterTypeOK
<1> QED
  BY <1>1, <1>2, <1>3, <1>4, <1>5 DEF Next

\* Members of a thread exist, and messages lie in threads that exist and come from
\* users that do, for any number of each (schema.prisma's relations;
\* messages.service.ts, use-messaging.ts).
THEOREM TypeCorrect == Spec => []TypeOK
<1>1. Init => TypeOK
  BY InitTypeOK
<1>2. TypeOK /\ [Next]_vars => TypeOK'
  BY NextTypeOK
<1> QED
  BY <1>1, <1>2, PTL DEF Spec

-----------------------------------------------------------------------------
-----------------------------------------------------------------------------
\* One thread of one watcher: it is left alone, or it moves and the server's
\* messages stay.

LEMMA SetsAt ==
  ASSUME TypeOK, NEW u \in Watchers, NEW c \in Watched, NEW f, Sets(u, c, f)
  PROVE  /\ fetch'[u][c] = f
         /\ \A v \in Watchers, d \in Watched :
              v # u \/ d # c => fetch'[v][d] = fetch[v][d]
BY DEF Sets, TypeOK

LEMMA MarkReadAt ==
  ASSUME TypeOK, NEW u \in Watchers, NEW c \in Watched, MarkRead(u, c)
  PROVE  /\ Fetching(u, c) /\ UNCHANGED <<list, cursor>>
         /\ fetch[u][c] \in Fetches /\ fetch'[u][c] \in Fetches
         /\ fetch[u][c].pc = "read" /\ fetch'[u][c].pc = "answered" /\ fetch'[u][c].asOf = {}
         /\ fetch'[u][c].items = fetch[u][c].items
         /\ fetch'[u][c].before = fetch[u][c].before
         /\ fetch'[u][c].older = fetch[u][c].older
         /\ fetch'[u][c].waiting = fetch[u][c].waiting
<1>1. /\ fetch'[u][c] = [fetch[u][c] EXCEPT !.pc = "answered", !.asOf = {}]
      /\ fetch[u][c] \in Fetches /\ fetch[u][c].pc = "read" /\ Fetching(u, c)
      /\ UNCHANGED <<list, cursor>>
  BY SetsAt, ThreadTypes DEF MarkRead
<1> QED
  BY <1>1 DEF Fetches

LEMMA FetchLostAt ==
  ASSUME TypeOK, NEW u \in Watchers, NEW c \in Watched, FetchLost(u, c)
  PROVE  /\ Fetching(u, c) /\ UNCHANGED <<list, cursor>>
         /\ fetch[u][c] \in Fetches /\ fetch'[u][c] \in Fetches
         /\ fetch'[u][c].pc = "lost" /\ fetch'[u][c].items = {}
         /\ fetch'[u][c].asOf = fetch[u][c].asOf
         /\ fetch'[u][c].before = fetch[u][c].before
         /\ fetch'[u][c].older = fetch[u][c].older
         /\ fetch'[u][c].waiting = fetch[u][c].waiting
<1>1. /\ fetch'[u][c] = [fetch[u][c] EXCEPT !.pc = "lost", !.items = {}]
      /\ fetch[u][c] \in Fetches /\ Fetching(u, c) /\ UNCHANGED <<list, cursor>>
  BY SetsAt, ThreadTypes DEF FetchLost
<1> QED
  BY <1>1 DEF Fetches

\* A request ends, with its page in the list or not.
LEMMA EndsAt ==
  ASSUME TypeOK, NEW u \in Watchers, NEW c \in Watched, Merge(u, c) \/ GiveUp(u, c)
  PROVE  /\ Fetching(u, c) /\ fetch[u][c] \in Fetches /\ fetch'[u][c] = Absent
         /\ UNCHANGED cursor
         /\ Merge(u, c) => fetch[u][c].pc = "answered"
         /\ GiveUp(u, c) => UNCHANGED list
BY SetsAt, ThreadTypes DEF Merge, GiveUp

\* The thread and its request are as they were ...
Idle(u, c) ==
  fetch'[u][c] = fetch[u][c] /\ list'[u][c] = list[u][c] /\ cursor'[u][c] = cursor[u][c]

\* ... or nobody waits for the request any more ...
Left(u, c) ==
  /\ list'[u][c] = list[u][c] /\ cursor'[u][c] = cursor[u][c]
  /\ ~Fetching(u, c) => fetch'[u][c] = Absent
  /\ Fetching(u, c) =>
       /\ fetch[u][c] \in Fetches /\ fetch'[u][c] \in Fetches
       /\ fetch'[u][c].pc = fetch[u][c].pc /\ fetch'[u][c].before = fetch[u][c].before
       /\ fetch'[u][c].items = fetch[u][c].items /\ fetch'[u][c].asOf = fetch[u][c].asOf
       /\ fetch'[u][c].older = fetch[u][c].older /\ fetch'[u][c].waiting = -1

\* ... or one starts that no click asked for.
Asked(u, c, before) ==
  /\ ~Fetching(u, c)
  /\ list'[u][c] = list[u][c] /\ cursor'[u][c] = before
  /\ fetch'[u][c] \in Fetches
  /\ fetch'[u][c].pc = "asked" /\ fetch'[u][c].before = before
  /\ fetch'[u][c].items = {} /\ fetch'[u][c].asOf = {}
  /\ fetch'[u][c].older = FALSE /\ fetch'[u][c].waiting = -1

LEMMA AskedAt ==
  ASSUME TypeOK, NEW u \in Watchers, NEW c \in Watched, NEW before \in Time,
         Ask(u, c, before, FALSE, -1), ~Fetching(u, c), UNCHANGED list
  PROVE  /\ Asked(u, c, before)
         /\ \A v \in Watchers, d \in Watched : v # u \/ d # c => Idle(v, d)
<1>1. PICK clicked \in BOOLEAN : clicked = FALSE
  OBVIOUS
<1>2. Ask(u, c, before, clicked, -1)
  BY <1>1
<1>3. /\ fetch'[u][c] \in Fetches
      /\ fetch'[u][c].pc = "asked" /\ fetch'[u][c].before = before
      /\ fetch'[u][c].items = {} /\ fetch'[u][c].asOf = {}
      /\ fetch'[u][c].older = clicked /\ fetch'[u][c].waiting = -1
      /\ cursor'[u][c] = before
  BY <1>2, AskTypes, NobodyWaits
<1>4. \A v \in Watchers, d \in Watched :
        v # u \/ d # c => fetch'[v][d] = fetch[v][d] /\ cursor'[v][d] = cursor[v][d]
  BY <1>2, AskTypes, NobodyWaits
<1> QED
  BY <1>1, <1>3, <1>4 DEF Asked, Idle

LEMMA PollAt ==
  ASSUME TypeOK, NEW u \in Watchers, NEW c \in Watched, Poll(u, c)
  PROVE  /\ Asked(u, c, cursor[u][c])
         /\ \A v \in Watchers, d \in Watched : v # u \/ d # c => Idle(v, d)
BY AskedAt, ThreadTypes DEF Poll

LEMMA ThreadsApart ==
  ASSUME TypeOK, NEW u \in Watchers, NEW c \in Watched, WatchStep(u, c),
         NEW v \in Watchers, NEW d \in Watched, v # u \/ d # c
  PROVE  Idle(v, d)
<1>1. CASE Expire(u, c)
  BY <1>1 DEF Expire, Idle, TypeOK
<1>2. CASE Poll(u, c)
  BY <1>2, PollAt
<1>3. CASE LoadOlder(u, c)
  BY <1>3, LoadOlderAt DEF Idle
<1>4. CASE ReadPage(u, c)
  BY <1>4, ReadPageAt DEF Idle
<1>5. CASE MarkRead(u, c)
  BY <1>5, SetsAt DEF MarkRead, Idle
<1>6. CASE Merge(u, c)
  BY <1>6, SetsAt, MergedIsListed DEF Merge, Idle
<1>7. CASE FetchLost(u, c)
  BY <1>7, SetsAt DEF FetchLost, Idle
<1>8. CASE GiveUp(u, c)
  BY <1>8, SetsAt DEF GiveUp, Idle
<1> QED
  BY <1>1, <1>2, <1>3, <1>4, <1>5, <1>6, <1>7, <1>8 DEF WatchStep

LEMMA WatchersOnlyRead ==
  ASSUME NEW u, NEW c,
         WatchStep(u, c) \/ SelectConversation(u, c) \/ LeaveMessages(u)
  PROVE  /\ UNCHANGED <<accounts, messages, sending, clock, reached, creating, removing>>
         /\ UNCHANGED conversation \/ MarkRead(u, c)
BY DEF WatchStep, Expire, Poll, LoadOlder, ReadPage, MarkRead, Merge, FetchLost, GiveUp,
       SelectConversation, LeaveMessages, handlers, post

LEMMA SelectAt ==
  ASSUME TypeOK, NEW v \in Watchers, NEW d \in Watched \cup {Absent}, SelectConversation(v, d),
         NEW u \in Watchers, NEW c \in Watched
  PROVE  Idle(u, c) \/ Asked(u, c, 0)
<1>1. UNCHANGED list
  BY DEF SelectConversation
<1>2. CASE UNCHANGED <<fetch, cursor>>
  BY <1>1, <1>2 DEF Idle
<1>3. CASE d \in Watched /\ ~Fetching(v, d) /\ Ask(v, d, 0, FALSE, -1)
  <2>1. Asked(v, d, 0) /\ (u # v \/ c # d => Idle(u, c))
    BY <1>1, <1>3, AskedAt, TimesAreNat
  <2> QED
    BY <2>1
<1> QED
  BY <1>2, <1>3 DEF SelectConversation

LEMMA LeftAt ==
  ASSUME TypeOK, NEW v \in Watchers, LeaveMessages(v), NEW u \in Watchers, NEW c \in Watched
  PROVE  Idle(u, c) \/ Left(u, c)
<1>1. CASE u # v
  BY <1>1, LeaveAt DEF Idle
<1>2. CASE u = v
  <2>1. UNCHANGED <<list, cursor>> /\ (~Fetching(u, c) => fetch'[u][c] = Absent)
    BY <1>2, LeaveAt
  <2>2. ASSUME Fetching(u, c)
        PROVE  /\ fetch'[u][c] = [fetch[u][c] EXCEPT !.waiting = -1]
               /\ fetch[u][c] \in Fetches /\ fetch'[u][c] \in Fetches
    BY <1>2, <2>2, LeaveAt
  <2>3. ASSUME fetch[u][c] \in Fetches, fetch'[u][c] = [fetch[u][c] EXCEPT !.waiting = -1]
        PROVE  /\ fetch'[u][c].pc = fetch[u][c].pc /\ fetch'[u][c].before = fetch[u][c].before
               /\ fetch'[u][c].items = fetch[u][c].items /\ fetch'[u][c].asOf = fetch[u][c].asOf
               /\ fetch'[u][c].older = fetch[u][c].older /\ fetch'[u][c].waiting = -1
    BY <2>3 DEF Fetches
  <2> QED
    BY <2>1, <2>2, <2>3 DEF Left
<1> QED
  BY <1>1, <1>2

LEMMA ThreadMoves ==
  ASSUME TypeOK, [Next]_vars, NEW u \in Watchers, NEW c \in Watched
  PROVE  \/ Idle(u, c)
         \/ /\ Asked(u, c, 0) \/ Left(u, c)
            /\ UNCHANGED <<accounts, conversation, messages, sending, clock, reached, seen>>
         \/ WatchStep(u, c)
<1>1. CASE HandlerStep
  BY <1>1, HandlerTypeOK DEF client, Idle
<1>2. ASSUME NEW v \in Watchers, NEW d \in Watched \cup {Absent}, SelectConversation(v, d)
      PROVE  \/ Idle(u, c)
             \/ /\ Asked(u, c, 0)
                /\ UNCHANGED <<accounts, conversation, messages, sending, clock, reached, seen>>
  BY <1>2, SelectAt DEF SelectConversation, post
<1>3. ASSUME NEW v \in Watchers, NEW d \in Watched, WatchStep(v, d)
      PROVE  Idle(u, c) \/ WatchStep(u, c)
  BY <1>3, ThreadsApart
<1>4. ASSUME NEW v \in Watchers, LeaveMessages(v)
      PROVE  \/ Idle(u, c)
             \/ /\ Left(u, c)
                /\ UNCHANGED <<accounts, conversation, messages, sending, clock, reached, seen>>
  BY <1>4, LeftAt DEF LeaveMessages, post
<1>5. CASE UNCHANGED vars
  BY <1>5 DEF vars, client, Idle
<1> QED
  BY <1>1, <1>2, <1>3, <1>4, <1>5 DEF Next

\* The steps that change what the server keeps: a message comes in, a thread is
\* made, a user goes, a thread is marked.
LEMMA InsertAt ==
  ASSUME TypeOK, NEW m \in sending, Insert(m), Participates(m.from, m.in)
  PROVE  /\ messages' = messages \cup {m} /\ UNCHANGED <<accounts, conversation, client>>
         /\ m.in \in Live /\ m.from \in Members(m.in) /\ m.at \in Sent /\ m.in \in Conversations
         /\ reached' = IF reached < m.at THEN m.at ELSE reached
         /\ Affects({m.from}) /\ UNCHANGED creating
BY DEF Insert, Participates, TypeOK

LEMMA ServerMoves ==
  ASSUME TypeOK, [Next]_vars
  PROVE  \/ UNCHANGED <<accounts, conversation, messages, reached>>
         \/ \E m \in sending : Insert(m) /\ Participates(m.from, m.in)
         \/ \E p \in Pairs : CreateConversation(p) /\ p \subseteq accounts
         \/ \E u \in Users : Remove(u)
         \/ \E u \in Watchers, c \in Watched : MarkRead(u, c)
<1>1. CASE HandlerStep
  <2>1. ASSUME NEW u, NEW v, FindConversation(u, v) \/ Send(u, v) \/ BeginRemove(u) \/ RequestLost
        PROVE  UNCHANGED <<accounts, conversation, messages, reached>>
    BY <2>1 DEF FindConversation, Send, BeginRemove, RequestLost, post
  <2>2. ASSUME NEW p, CreateConversation(p), ~(p \subseteq accounts)
        PROVE  UNCHANGED <<accounts, conversation, messages, reached>>
    BY <2>2 DEF CreateConversation, post
  <2>3. ASSUME NEW m, Insert(m), ~Participates(m.from, m.in)
        PROVE  UNCHANGED <<accounts, conversation, messages, reached>>
    BY <2>3 DEF Insert
  <2> QED
    BY <1>1, <2>1, <2>2, <2>3 DEF HandlerStep
<1>2. ASSUME NEW u \in Watchers, NEW c,
             SelectConversation(u, c) \/ LeaveMessages(u) \/ (WatchStep(u, c) /\ ~MarkRead(u, c))
      PROVE  UNCHANGED <<accounts, conversation, messages, reached>>
  BY <1>2, WatchersOnlyRead DEF SelectConversation, LeaveMessages
<1>3. UNCHANGED vars => UNCHANGED <<accounts, conversation, messages, reached>>
  BY DEF vars, post
<1> QED
  BY <1>1, <1>2, <1>3 DEF Next

\* What is readable afterwards was before, or was on its way.
LEMMA TimesMove ==
  ASSUME TypeOK, [Next]_vars, NEW c
  PROVE  \A t \in TimesIn(c)' : t \in TimesIn(c) \/ \E m \in sending : m.at = t
<1>1. \A m \in messages' : m \in messages \/ m \in sending
  <2>1. ASSUME NEW m \in sending, Insert(m), Participates(m.from, m.in)
        PROVE  \A n \in messages' : n \in messages \/ n \in sending
    BY <2>1, InsertAt
  <2>2. ASSUME NEW p, CreateConversation(p) PROVE messages' = messages
    BY <2>2 DEF CreateConversation, post
  <2>3. ASSUME NEW u, Remove(u) PROVE messages' \subseteq messages
    BY <2>3 DEF Remove
  <2>4. ASSUME NEW u, NEW d, MarkRead(u, d) PROVE messages' = messages
    BY <2>4 DEF MarkRead, post
  <2> QED
    BY <2>1, <2>2, <2>3, <2>4, ServerMoves
<1> QED
  BY <1>1 DEF TimesIn, In

-----------------------------------------------------------------------------
\* Older pages.

\* A cursor is a message of the list.  What is read before it is older than it; and
\* a click asks for what is before all of the list.
OlderAt(u, c) ==
  /\ cursor[u][c] # 0 => cursor[u][c] \in list[u][c]
  /\ Fetching(u, c) =>
       /\ fetch[u][c].before # 0 =>
            /\ fetch[u][c].before \in list[u][c]
            /\ \A t \in fetch[u][c].items : Ms[t] < Ms[fetch[u][c].before]
       /\ fetch[u][c].older =>
            /\ fetch[u][c].before # 0 /\ fetch[u][c].before \in Oldest(list[u][c])
            /\ fetch[u][c].waiting \in {Cardinality(list[u][c]), -1}

Older == \A u \in Watchers, c \in Watched : OlderAt(u, c)

LEMMA OlderMoves ==
  ASSUME TypeOK, NEW u \in Watchers, NEW c \in Watched, WatchStep(u, c), OlderAt(u, c)
  PROVE  OlderAt(u, c)'
<1>1. CASE Expire(u, c)
  <2>1. cursor'[u][c] = 0 /\ ~Fetching(u, c) /\ UNCHANGED fetch
    BY <1>1 DEF Expire, TypeOK
  <2> QED
    BY <2>1 DEF OlderAt, Fetching
<1>2. CASE Poll(u, c)
  BY <1>2, PollAt DEF Asked, OlderAt
<1>3. CASE LoadOlder(u, c)
  <2>1. Oldest(list[u][c]) \subseteq list[u][c] /\ 0 \notin list[u][c]
    BY ThreadTypes DEF Oldest, Sent
  <2> QED
    BY <1>3, <2>1, LoadOlderAt DEF OlderAt
<1>4. CASE ReadPage(u, c)
  <2>1. fetch'[u][c].before # 0 => \A t \in fetch'[u][c].items : Ms[t] < Ms[fetch'[u][c].before]
    BY <1>4, ReadPageAt DEF PagesOf, Earlier
  <2> QED
    BY <1>4, <2>1, ReadPageAt DEF OlderAt
<1>5. CASE MarkRead(u, c)
  BY <1>5, MarkReadAt DEF OlderAt
<1>6. CASE Merge(u, c)
  BY <1>6, EndsAt, MergedIsListed DEF OlderAt, Fetching
<1>7. CASE FetchLost(u, c)
  BY <1>7, FetchLostAt DEF OlderAt
<1>8. CASE GiveUp(u, c)
  BY <1>8, EndsAt DEF OlderAt, Fetching
<1> QED
  BY <1>1, <1>2, <1>3, <1>4, <1>5, <1>6, <1>7, <1>8 DEF WatchStep

LEMMA NextOlder == TypeOK /\ Older /\ [Next]_vars => Older'
<1> SUFFICES ASSUME TypeOK, Older, [Next]_vars, NEW u \in Watchers, NEW c \in Watched
             PROVE  OlderAt(u, c)'
  BY DEF Older
<1>1. OlderAt(u, c)
  BY DEF Older
<1>2. CASE Idle(u, c)
  BY <1>1, <1>2 DEF OlderAt, Idle, Fetching
<1>3. CASE Asked(u, c, 0)
  BY <1>1, <1>3 DEF OlderAt, Asked
<1>4. CASE Left(u, c)
  BY <1>1, <1>4 DEF OlderAt, Left, Fetching
<1>5. CASE WatchStep(u, c)
  BY <1>1, <1>5, OlderMoves
<1> QED
  BY <1>2, <1>3, <1>4, <1>5, ThreadMoves

\* However polls, with and without a cursor, clicks, lost answers and changes of the
\* thread mix, the page that a click on "Load older" asked for comes into the very
\* list that it was asked for, and has only what is older than all of it
\* ("Always strictly older than everything already cached", messagesApi.ts).
THEOREM OlderPagesAreApart == Spec => []OlderPageApart
<1>1. Init => TypeOK /\ Older
  <2>1. Init => \A u \in Watchers, c \in Watched : fetch[u][c] = Absent /\ cursor[u][c] = 0
    BY DEF Init
  <2> QED
    BY <2>1, InitTypeOK DEF Older, OlderAt, Fetching
<1>2. TypeOK /\ Older /\ [Next]_vars => TypeOK' /\ Older'
  BY NextTypeOK, NextOlder
<1>3. TypeOK /\ Older => OlderPageApart
  <2> SUFFICES ASSUME TypeOK, Older, NEW u \in Watchers, NEW c \in Watched,
                      Fetching(u, c), fetch[u][c].older
               PROVE  /\ fetch[u][c].waiting \in {Cardinality(list[u][c]), -1}
                      /\ \A t \in fetch[u][c].items, s \in list[u][c] : Ms[t] < Ms[s]
    BY DEF OlderPageApart
  <2>1. /\ OlderAt(u, c) /\ list[u][c] \in SUBSET Sent
        /\ fetch[u][c].items \in SUBSET Sent /\ fetch[u][c].before \in Time
    BY ThreadTypes DEF Older, Fetches
  <2>2. \A s \in list[u][c] : Ms[fetch[u][c].before] <= Ms[s]
    BY <2>1 DEF OlderAt, Oldest
  <2>3. \A t \in fetch[u][c].items : Ms[t] < Ms[fetch[u][c].before]
    BY <2>1 DEF OlderAt
  <2>4. \A t \in fetch[u][c].items \cup list[u][c] : Ms[t] \in Nat
    BY <2>1, TimesAreNat
  <2> QED
    BY <2>1, <2>2, <2>3, <2>4, TimesAreNat DEF OlderAt
<1> QED
  BY <1>1, <1>2, <1>3, PTL DEF Spec

-----------------------------------------------------------------------------
\* One thread for two users.

LEMMA PairsApart ==
  ASSUME NEW p \in Pairs, NEW q \in Pairs, p \subseteq q
  PROVE  p = q
<1>1. q \in SUBSET Users /\ Cardinality(p) = 2 /\ Cardinality(q) = 2
  BY DEF Pairs
<1>2. IsFiniteSet(q)
  BY <1>1, FS_Subset, MessagingAssumption
<1> QED
  BY <1>1, <1>2, FS_Subset

ThreadsStay == Live' = Live /\ \A c \in Live : Members(c)' = Members(c)

\* The steps that make, end or shrink a thread.
LEMMA MembersMove ==
  ASSUME TypeOK, [Next]_vars
  PROVE  \/ ThreadsStay
         \/ \E p \in Pairs : CreateConversation(p) /\ p \subseteq accounts
         \/ \E u \in Users : Remove(u)
<1>1. UNCHANGED conversation => ThreadsStay
  BY DEF ThreadsStay, Live, Members
<1>2. ASSUME NEW u \in Watchers, NEW c \in Watched, MarkRead(u, c)
      PROVE  ThreadsStay
  BY <1>2, MarkedIsRead DEF ThreadsStay
<1>3. ASSUME NEW m \in sending, Insert(m), Participates(m.from, m.in)
      PROVE  ThreadsStay
  BY <1>1, <1>3, InsertAt
<1> QED
  BY <1>1, <1>2, <1>3, ServerMoves

Paired == \A c \in Live : \E p \in Pairs : Members(c) \subseteq p

LEMMA NextPaired == TypeOK /\ Paired /\ [Next]_vars => Paired'
<1> SUFFICES ASSUME TypeOK, Paired, [Next]_vars PROVE Paired'
  OBVIOUS
<1>1. CASE ThreadsStay
  BY <1>1 DEF ThreadsStay, Paired
<1>2. ASSUME NEW p \in Pairs, CreateConversation(p), p \subseteq accounts
      PROVE  Paired'
  <2>1. PICK new \in Conversations \ Live : Live' = Live \cup {new} /\ Members(new)' = p
    BY <1>2, CreatedIsLive
  <2>2. \A c \in Live : Members(c)' = Members(c)
    BY <1>2, CreatedIsLive
  <2> QED
    BY <2>1, <2>2 DEF Paired
<1>3. ASSUME NEW u \in Users, Remove(u)
      PROVE  Paired'
  <2>1. \A c \in Live' : c \in Live /\ Members(c)' \subseteq Members(c)
    BY <1>3, RemovedIsGone
  <2> QED
    BY <2>1 DEF Paired
<1> QED
  BY <1>1, <1>2, <1>3, MembersMove

\* Somebody is in every thread; two threads have not the same two members; a
\* creation is on for those only who have none; a deletion takes along exactly
\* the threads that have nobody else.
Occupied == \A c \in Live : Members(c) # {}
Unique == \A c, d \in Live : Members(c) \in Pairs /\ Members(c) = Members(d) => c = d
Missing == \A p \in Pairs, c \in Live : creating[p] > 0 => ~(p \subseteq Members(c))
EmptiedKnown == \A u \in Users : removing[u] # Absent => removing[u].emptied = Emptied(u)

Turns == Paired /\ Occupied /\ Unique /\ Missing /\ EmptiedKnown

LEMMA StayTurns ==
  ASSUME TypeOK, Turns, [Next]_vars, ThreadsStay,
         \A p \in Pairs : creating'[p] > 0
           => creating[p] > 0 \/ \A c \in Live : ~(p \subseteq Members(c)),
         \A u \in Users : removing'[u] # Absent => removing'[u].emptied = Emptied(u)
  PROVE  Turns'
<1>1. Paired'
  BY NextPaired DEF Turns
<1>2. Occupied' /\ Unique'
  BY DEF ThreadsStay, Turns, Occupied, Unique
<1>3. Missing'
  BY DEF ThreadsStay, Turns, Missing
<1>4. EmptiedKnown'
  <2>1. \A u \in Users : Emptied(u)' = Emptied(u)
    BY DEF ThreadsStay, Emptied
  <2> QED
    BY <2>1 DEF EmptiedKnown
<1> QED
  BY <1>1, <1>2, <1>3, <1>4 DEF Turns

LEMMA AffectsEmptied ==
  ASSUME TypeOK, NEW S, Affects(S), EmptiedKnown
  PROVE  \A u \in Users : removing'[u] # Absent => removing'[u].emptied = Emptied(u)
BY DEF Affects, EmptiedKnown

LEMMA CreateTurns ==
  ASSUME TypeOK, Turns, [Next]_vars, TakeTurns,
         NEW p \in Pairs, CreateConversation(p), p \subseteq accounts
  PROVE  Turns'
<1>1. PICK new \in Conversations \ Live : Live' = Live \cup {new} /\ Members(new)' = p
  BY CreatedIsLive
<1>2. \A c \in Live : Members(c)' = Members(c)
  BY CreatedIsLive
<1>3. Paired'
  BY NextPaired DEF Turns
<1>4. p \in SUBSET Users /\ Cardinality(p) = 2
  BY DEF Pairs
<1>5. p # {}
  BY <1>4, FS_EmptySet
<1>6. Occupied'
  BY <1>1, <1>2, <1>5 DEF Turns, Occupied
<1>7. creating[p] > 0 /\ creating' = [creating EXCEPT ![p] = creating[p] - 1]
  BY DEF CreateConversation
<1>8. creating[p] \in Nat /\ creating[p] <= 1 /\ creating'[p] = creating[p] - 1
      /\ \A q \in Pairs : q # p => creating'[q] = creating[q]
  BY <1>7, MessagingAssumption DEF TypeOK, TakeTurns
<1>9. Unique'
  <2>1. \A c \in Live : Members(c) # p
    BY <1>7 DEF Turns, Missing
  <2> QED
    BY <1>1, <1>2, <2>1 DEF Turns, Unique
<1>10. Missing'
  <2> SUFFICES ASSUME NEW q \in Pairs, NEW c \in Live', creating'[q] > 0, q \subseteq Members(c)'
               PROVE  FALSE
    BY DEF Missing
  <2>1. q # p
    BY <1>7, <1>8
  <2>2. CASE c \in Live
    BY <1>2, <1>8, <2>1, <2>2 DEF Turns, Missing
  <2>3. CASE c = new
    BY <1>1, <2>1, <2>3, PairsApart
  <2> QED
    BY <1>1, <2>2, <2>3
<1>11. EmptiedKnown'
  <2>1. \A u \in Users : Emptied(u)' = Emptied(u)
    <3> SUFFICES ASSUME NEW u \in Users PROVE p # {u}
      BY <1>1, <1>2 DEF Emptied
    <3>1. Cardinality({u}) = 1
      BY FS_Singleton
    <3> QED
      BY <1>4, <3>1
  <2>2. Affects(p)
    BY DEF CreateConversation
  <2>3. \A u \in Users : removing'[u] # Absent => removing'[u].emptied = Emptied(u)
    BY <2>2, AffectsEmptied DEF Turns
  <2> QED
    BY <2>1, <2>3 DEF EmptiedKnown
<1> QED
  BY <1>3, <1>6, <1>9, <1>10, <1>11 DEF Turns

LEMMA RemoveTurns ==
  ASSUME TypeOK, Turns, [Next]_vars, TakeTurns,
         NEW u \in Users, Remove(u)
  PROVE  Turns'
<1>1. removing[u] # Absent /\ removing' = [removing EXCEPT ![u] = Absent] /\ UNCHANGED creating
  BY DEF Remove
<1>2. removing[u].emptied = {c \in Live : Members(c) = {u}}
  BY <1>1 DEF Turns, EmptiedKnown, Emptied
<1>3. \A c \in Live' : c \in Live /\ Members(c) # {u} /\ Members(c)' = Members(c) \ {u}
  BY <1>2, RemovedIsGone
<1>4. Paired'
  BY NextPaired DEF Turns
<1>5. Occupied'
  BY <1>3 DEF Turns, Occupied
<1>6. ASSUME NEW c \in Live', NEW q \in Pairs, q \subseteq Members(c)'
      PROVE  Members(c) = q
  <2>1. PICK p \in Pairs : Members(c) \subseteq p
    BY <1>3 DEF Turns, Paired
  <2>2. q = p
    BY <1>3, <1>6, <2>1, PairsApart
  <2> QED
    BY <1>3, <1>6, <2>1, <2>2
<1>7. Unique'
  <2> SUFFICES ASSUME NEW c \in Live', NEW d \in Live', Members(c)' \in Pairs,
                      Members(c)' = Members(d)'
               PROVE  c = d
    BY DEF Unique
  <2> DEFINE q == DOMAIN conversation'[c]
  <2>1. q \in Pairs /\ q = Members(c)' /\ q = Members(d)'
    BY DEF Members
  <2>2. Members(c) = q /\ Members(d) = q
    BY <1>6, <2>1
  <2> QED
    BY <1>3, <2>1, <2>2 DEF Turns, Unique
<1>8. Missing'
  BY <1>1, <1>3 DEF Turns, Missing
<1>9. EmptiedKnown'
  <2>1. \A v \in Users : removing'[v] = Absent
    BY <1>1 DEF TakeTurns, TypeOK
  <2> QED
    BY <2>1 DEF EmptiedKnown
<1> QED
  BY <1>4, <1>5, <1>7, <1>8, <1>9 DEF Turns

LEMMA NextTurns == TypeOK /\ Turns /\ TakeTurns /\ [Next]_vars => Turns'
<1> SUFFICES ASSUME TypeOK, Turns, TakeTurns, [Next]_vars PROVE Turns'
  OBVIOUS
<1>1. ASSUME UNCHANGED handlers, ThreadsStay PROVE Turns'
  BY <1>1, StayTurns DEF handlers, Turns, EmptiedKnown
<1>2. ASSUME NEW u \in Users, NEW v \in Users, FindConversation(u, v)
      PROVE  Turns'
  <2>1. ThreadsStay /\ UNCHANGED removing
    BY <1>2 DEF FindConversation, ThreadsStay, Live, Members
  <2>2. \A p \in Pairs : p # {u, v} => creating'[p] = creating[p]
    BY <1>2 DEF FindConversation, TypeOK
  <2>3. \A c \in Live : ~({u, v} \subseteq Members(c))
    BY <1>2 DEF FindConversation, Between
  <2> QED
    BY <2>1, <2>2, <2>3, StayTurns DEF Turns, EmptiedKnown
<1>3. ASSUME NEW p \in Pairs, CreateConversation(p)
      PROVE  Turns'
  <2>1. CASE p \subseteq accounts
    BY <1>3, <2>1, CreateTurns
  <2>2. CASE ~(p \subseteq accounts)
    <3>1. ThreadsStay /\ UNCHANGED removing
      BY <1>3, <2>2 DEF CreateConversation, ThreadsStay, Live, Members
    <3>2. \A q \in Pairs : creating'[q] > 0 => creating[q] > 0
      BY <1>3, MessagingAssumption DEF CreateConversation, TypeOK
    <3> QED
      BY <3>1, <3>2, StayTurns DEF Turns, EmptiedKnown
  <2> QED
    BY <2>1, <2>2
<1>4. ASSUME NEW m \in sending, Insert(m)
      PROVE  Turns'
  <2>1. ThreadsStay /\ UNCHANGED creating
    BY <1>4 DEF Insert, ThreadsStay, Live, Members
  <2>2. \A u \in Users : removing'[u] # Absent => removing'[u].emptied = Emptied(u)
    BY <1>4, AffectsEmptied DEF Insert, Turns, EmptiedKnown
  <2> QED
    BY <2>1, <2>2, StayTurns
<1>5. ASSUME NEW u \in Users, BeginRemove(u)
      PROVE  Turns'
  <2>1. ThreadsStay /\ UNCHANGED creating
    BY <1>5 DEF BeginRemove, ThreadsStay, Live, Members
  <2>2. removing' = [removing EXCEPT ![u] = [emptied |-> Emptied(u)]]
    BY <1>5 DEF BeginRemove
  <2>3. \A v \in Users : removing'[v] # Absent => removing'[v].emptied = Emptied(v)
    BY <2>2 DEF TypeOK, Turns, EmptiedKnown
  <2> QED
    BY <2>1, <2>3, StayTurns
<1>6. ASSUME NEW u \in Users, Remove(u)
      PROVE  Turns'
  BY <1>6, RemoveTurns
<1>7. CASE RequestLost
  <2>1. ThreadsStay
    BY <1>7 DEF RequestLost, ThreadsStay, Live, Members
  <2>2. \A q \in Pairs : creating'[q] > 0 => creating[q] > 0
    BY <1>7, MessagingAssumption DEF RequestLost, TypeOK
  <2>3. \A v \in Users : removing'[v] # Absent => removing'[v] = removing[v]
    BY <1>7 DEF RequestLost, TypeOK
  <2> QED
    BY <2>1, <2>2, <2>3, StayTurns DEF Turns, EmptiedKnown
<1>8. ASSUME NEW u \in Users, NEW c \in Conversations, Send(u, c)
      PROVE  Turns'
  BY <1>1, <1>8 DEF Send, ThreadsStay, Live, Members
<1>9. ASSUME NEW u \in Watchers, NEW c \in Watched \cup {Absent},
             SelectConversation(u, c) \/ LeaveMessages(u)
      PROVE  Turns'
  BY <1>1, <1>9 DEF SelectConversation, LeaveMessages, ThreadsStay, Live, Members
<1>10. ASSUME NEW u \in Watchers, NEW c \in Watched, WatchStep(u, c)
       PROVE  Turns'
  <2>1. UNCHANGED handlers
    BY <1>10, WatchersOnlyRead DEF handlers
  <2>2. UNCHANGED conversation \/ MarkRead(u, c)
    BY <1>10, WatchersOnlyRead
  <2>3. ThreadsStay
    BY <2>2, MarkedIsRead DEF ThreadsStay, Live, Members
  <2> QED
    BY <1>1, <2>1, <2>3
<1>11. CASE UNCHANGED vars
  BY <1>1, <1>11 DEF vars, ThreadsStay, Live, Members
<1> QED
  BY <1>2, <1>3, <1>4, <1>5, <1>6, <1>7, <1>8, <1>9, <1>10, <1>11 DEF HandlerStep, Next

\* For any number of users: as long as at most one creation runs for each two and
\* one deletion at all, two users share one thread at most, and a thread ends
\* exactly with the last of its members (findOrCreateConversation's "Idempotent";
\* deleteMessagingFootprint).
THEOREM OnePerPairInTurns == Spec => TurnsOnePerPair
<1>1. Init => TypeOK /\ Turns
  <2>1. Init => Live = {} /\ \A u \in Users : removing[u] = Absent
    BY DEF Init, Live
  <2> QED
    BY <2>1, InitTypeOK DEF Turns, Paired, Occupied, Unique, Missing, EmptiedKnown
<1>2. TypeOK /\ Turns /\ TakeTurns /\ [Next]_vars => TypeOK' /\ Turns'
  BY NextTypeOK, NextTurns
<1>3. TypeOK /\ Turns => OnePerPair
  <2>1. ASSUME TypeOK, NEW c \in Live, Cardinality(Members(c)) = 2
        PROVE  Members(c) \in Pairs
    BY <2>1, LiveTypes DEF Pairs
  <2> QED
    BY <2>1 DEF Turns, Occupied, Unique, OnePerPair
<1> QED
  BY <1>1, <1>2, <1>3, PTL DEF Spec, TurnsOnePerPair


-----------------------------------------------------------------------------
\* No message of a list is newer than the newest that was readable.

ReachedBy(S) == \A t \in S : Ms[t] <= Ms[reached]

ReachedAt(u, c) ==
  /\ ReachedBy(list[u][c])
  /\ Fetching(u, c) => ReachedBy(fetch[u][c].items)

Reached ==
  /\ \A m \in messages : Ms[m.at] <= Ms[reached]
  /\ \A u \in Watchers, c \in Watched : ReachedAt(u, c)

LEMMA LaterOf ==
  ASSUME NEW t \in Time, NEW s \in Sent
  PROVE  LET last == IF t < s THEN s ELSE t
         IN  last \in Time /\ s \in Time /\ t <= last /\ s <= last
BY MessagingAssumption DEF Sent, Time

LEMMA ReachedGrows ==
  ASSUME TypeOK, [Next]_vars
  PROVE  reached \in Time /\ reached' \in Time /\ Ms[reached] <= Ms[reached']
<1>1. reached \in Time /\ Ms[reached] \in Nat
  BY TimesAreNat DEF TypeOK
<1>2. ASSUME NEW m \in sending, Insert(m), Participates(m.from, m.in)
      PROVE  reached' \in Time /\ reached <= reached'
  <2>1. m.at \in Sent /\ reached' = IF reached < m.at THEN m.at ELSE reached
    BY <1>2, InsertAt
  <2> QED
    BY <1>1, <2>1, LaterOf
<1>3. ASSUME NEW u, NEW c, CreateConversation(u) \/ Remove(u) \/ MarkRead(u, c)
      PROVE  reached' = reached
  BY <1>3 DEF CreateConversation, Remove, MarkRead, post
<1>4. reached' = reached \/ (reached' \in Time /\ reached <= reached')
  BY <1>2, <1>3, ServerMoves
<1> QED
  BY <1>1, <1>4, MsMonotone

LEMMA ReachedByGrows ==
  ASSUME TypeOK, [Next]_vars, NEW S \in SUBSET Sent, ReachedBy(S)
  PROVE  \A t \in S : Ms[t] <= Ms[reached']
<1>1. \A t \in S : t \in Time /\ Ms[t] \in Nat
  BY TimesAreNat
<1>2. Ms[reached] \in Nat /\ Ms[reached'] \in Nat
  BY ReachedGrows, TimesAreNat
<1> QED
  BY <1>1, <1>2, ReachedGrows DEF ReachedBy

LEMMA ReachedMoves ==
  ASSUME TypeOK, NEW u \in Watchers, NEW c \in Watched, WatchStep(u, c), Reached
  PROVE  ReachedAt(u, c)'
<1>1. UNCHANGED reached /\ ReachedAt(u, c)
  BY WatchersOnlyRead DEF Reached
<1>2. CASE Expire(u, c)
  <2>1. list'[u][c] = {} /\ UNCHANGED fetch
    BY <1>2 DEF Expire, TypeOK
  <2> QED
    BY <1>1, <2>1 DEF ReachedAt, ReachedBy, Fetching
<1>3. CASE Poll(u, c)
  BY <1>1, <1>3, PollAt DEF Asked, ReachedAt, ReachedBy
<1>4. CASE LoadOlder(u, c)
  BY <1>1, <1>4, LoadOlderAt DEF ReachedAt, ReachedBy
<1>5. CASE ReadPage(u, c)
  <2>1. fetch'[u][c].items \subseteq TimesIn(c) /\ UNCHANGED list
    BY <1>5, ReadPageAt DEF PagesOf, Earlier
  <2>2. ReachedBy(TimesIn(c))
    BY DEF Reached, ReachedBy, TimesIn, In
  <2> QED
    BY <1>1, <2>1, <2>2 DEF ReachedAt, ReachedBy
<1>6. CASE MarkRead(u, c)
  BY <1>1, <1>6, MarkReadAt DEF ReachedAt, ReachedBy
<1>7. CASE Merge(u, c)
  BY <1>1, <1>7, EndsAt, MergedIsListed DEF ReachedAt, ReachedBy, Fetching
<1>8. CASE FetchLost(u, c)
  BY <1>1, <1>8, FetchLostAt DEF ReachedAt, ReachedBy
<1>9. CASE GiveUp(u, c)
  BY <1>1, <1>9, EndsAt DEF ReachedAt, ReachedBy, Fetching
<1> QED
  BY <1>2, <1>3, <1>4, <1>5, <1>6, <1>7, <1>8, <1>9 DEF WatchStep

LEMMA ReachedMessages ==
  ASSUME TypeOK, Reached, [Next]_vars
  PROVE  \A m \in messages' : Ms[m.at] <= Ms[reached']
<1> DEFINE T == {m.at : m \in messages}
<1>1. T \in SUBSET Sent
  BY DEF TypeOK
<1>2. \A t \in T : Ms[t] <= Ms[reached']
  <2>1. ReachedBy(T)
    BY DEF Reached, ReachedBy
  <2> HIDE DEF T
  <2> QED
    BY <1>1, <2>1, ReachedByGrows
<1>3. \A m \in messages : Ms[m.at] <= Ms[reached']
  BY <1>2
<1>4. ASSUME NEW m \in sending, Insert(m), Participates(m.from, m.in)
      PROVE  messages' = messages \cup {m} /\ Ms[m.at] <= Ms[reached']
  <2>1. messages' = messages \cup {m} /\ m.at \in Sent /\ reached \in Time
        /\ reached' = IF reached < m.at THEN m.at ELSE reached
    BY <1>4, InsertAt, ReachedGrows
  <2>2. m.at <= reached' /\ m.at \in Time /\ reached' \in Time
    BY <2>1, LaterOf
  <2> QED
    BY <2>1, <2>2, MsMonotone
<1>5. ASSUME NEW u, NEW c, CreateConversation(u) \/ Remove(u) \/ MarkRead(u, c)
      PROVE  messages' \subseteq messages
  BY <1>5 DEF CreateConversation, Remove, MarkRead, post
<1> QED
  BY <1>3, <1>4, <1>5, ServerMoves

LEMMA NextReached == TypeOK /\ Reached /\ [Next]_vars => Reached'
<1> SUFFICES ASSUME TypeOK, Reached, [Next]_vars, NEW u \in Watchers, NEW c \in Watched
             PROVE  ReachedAt(u, c)'
  BY ReachedMessages DEF Reached
<1>1. ReachedAt(u, c) /\ list[u][c] \in SUBSET Sent
      /\ (Fetching(u, c) => fetch[u][c].items \in SUBSET Sent)
  BY ThreadTypes DEF Reached, Fetches
<1>2. \A t \in list[u][c] : Ms[t] <= Ms[reached']
  BY <1>1, ReachedByGrows DEF ReachedAt
<1>3. Fetching(u, c) => \A t \in fetch[u][c].items : Ms[t] <= Ms[reached']
  BY <1>1, ReachedByGrows DEF ReachedAt
<1>4. CASE Idle(u, c)
  BY <1>2, <1>3, <1>4 DEF ReachedAt, ReachedBy, Idle, Fetching
<1>5. CASE Asked(u, c, 0)
  BY <1>2, <1>5 DEF ReachedAt, ReachedBy, Asked
<1>6. CASE Left(u, c)
  BY <1>2, <1>3, <1>6 DEF ReachedAt, ReachedBy, Left, Fetching
<1>7. CASE WatchStep(u, c)
  BY <1>7, ReachedMoves
<1> QED
  BY <1>4, <1>5, <1>6, <1>7, ThreadMoves

\* What comes in is not older than what was readable.
LEMMA NewIsLast ==
  ASSUME TypeOK, [Next]_vars, ~Belated, NEW c
  PROVE  \A t \in TimesIn(c)' :
           t \in TimesIn(c) \/ (t \in Sent /\ Ms[reached] <= Ms[t])
<1> SUFFICES ASSUME NEW m \in sending
             PROVE  m.at \in Sent /\ Ms[reached] <= Ms[m.at]
  BY TimesMove
<1>1. m.at \in Sent /\ ~(Ms[m.at] < Ms[reached]) /\ reached \in Time
  BY DEF TypeOK, Belated
<1>2. m.at \in Time
  BY <1>1, TimesAreNat
<1>3. Ms[m.at] \in Nat /\ Ms[reached] \in Nat
  BY <1>1, <1>2, TimesAreNat
<1> QED
  BY <1>1, <1>3

-----------------------------------------------------------------------------
\* No hole in a list.

\* Between the milliseconds of two messages of a set there is none that a message
\* has and the set has not: so it is for a list, and for a list with the page that
\* is about to come into it.
HoleFree(c, S) ==
  \A t \in TimesIn(c) : \A s, w \in S :
    Ms[s] <= Ms[t] /\ Ms[t] <= Ms[w] => \E r \in S : Ms[r] = Ms[t]

HolesAt(u, c) ==
  /\ HoleFree(c, list[u][c])
  /\ Fetching(u, c) /\ fetch[u][c].pc \in {"read", "answered"}
     => HoleFree(c, list[u][c] \cup fetch[u][c].items)

HolesClosed == \A u \in Watchers, c \in Watched : HolesAt(u, c)

\* A poll that kept up closes the gap to the list.
LEMMA PollCloses ==
  ASSUME TypeOK, NEW u \in Watchers, NEW c \in Watched, KeepsUp, HoleFree(c, list[u][c]),
         NEW W \in PagesOf(TimesIn(c))
  PROVE  HoleFree(c, list[u][c] \cup W)
<1> DEFINE S == list[u][c]
           T == TimesIn(c)
<1>1. S \in SUBSET Sent /\ T \in SUBSET Sent /\ W \in SUBSET T
  BY ThreadTypes, TimesInTypes, PageOfIs
<1>2. \A t \in S \cup T : Ms[t] \in Nat
  BY <1>1, TimesAreNat
<1>3. ASSUME NEW t \in T \ W
      PROVE  Cardinality(W) = Page /\ \A x \in W : Ms[t] <= Ms[x]
  BY <1>1, <1>3, PageOfIs
<1>4. HoleFree(c, S)
  OBVIOUS
<1>5. S # {} => Cardinality(Newer(c, S)) <= Page
  BY DEF KeepsUp
<1>6. Newer(c, S) = {t \in T : \A s \in S : Ms[s] < Ms[t]}
  BY DEF Newer
<1> HIDE DEF S
<1> SUFFICES ASSUME NEW t \in T, NEW s \in S \cup W, NEW w \in S \cup W,
                    Ms[s] <= Ms[t], Ms[t] <= Ms[w]
             PROVE  \E r \in S \cup W : Ms[r] = Ms[t]
  BY DEF HoleFree, S
<1> HIDE DEF T
<1>7. CASE t \in W
  BY <1>7
<1>8. CASE t \notin W /\ s \in W
  <2>1. Ms[t] <= Ms[s] /\ Ms[t] \in Nat /\ Ms[s] \in Nat
    BY <1>1, <1>2, <1>3, <1>8
  <2> QED
    BY <1>8, <2>1
<1>9. CASE s \in S /\ \E x \in S : Ms[t] <= Ms[x]
  BY <1>4, <1>9 DEF HoleFree, T
<1>10. CASE t \notin W /\ s \in S /\ ~\E x \in S : Ms[t] <= Ms[x]
  <2> DEFINE later == {r \in T : \A x \in S : Ms[x] < Ms[r]}
  <2>1. \A x \in S : Ms[x] < Ms[t]
    BY <1>2, <1>10
  <2>2. \A r \in W : \A x \in S : Ms[x] < Ms[r]
    BY <1>1, <1>2, <1>3, <1>10, <2>1
  <2>3. W \subseteq later /\ t \in later /\ W # later
    BY <1>1, <1>10, <2>1, <2>2
  <2>4. later \in SUBSET Sent
    BY <1>1
  <2>5. Cardinality(later) <= Page
    BY <1>5, <1>6, <1>10
  <2> HIDE DEF later
  <2>6. IsFiniteSet(later) /\ Cardinality(later) \in Nat
    BY <2>4, TimesFinite
  <2>7. Cardinality(W) = Page /\ Page \in Nat
    BY <1>3, <1>10, MessagingAssumption
  <2>8. Cardinality(W) <= Cardinality(later) /\ Cardinality(W) # Cardinality(later)
    BY <2>3, <2>6, FS_Subset
  <2> QED
    BY <2>5, <2>6, <2>7, <2>8
<1> QED
  BY <1>7, <1>8, <1>9, <1>10

\* A page before a message of the list ends where that begins.
LEMMA CursorCloses ==
  ASSUME TypeOK, NEW u \in Watchers, NEW c \in Watched, HoleFree(c, list[u][c]),
         NEW before \in list[u][c], NEW W \in PagesOf(Earlier(c, before))
  PROVE  HoleFree(c, list[u][c] \cup W)
<1> DEFINE S == list[u][c]
           T == TimesIn(c)
           E == Earlier(c, before)
<1>1. S \in SUBSET Sent /\ T \in SUBSET Sent /\ E \in SUBSET Sent /\ before # 0
  BY ThreadTypes, TimesInTypes, WindowTypes DEF Sent
<1>2. \A t \in S \cup T : Ms[t] \in Nat
  BY <1>1, TimesAreNat
<1>3. E = {t \in T : Ms[t] < Ms[before]}
  BY <1>1 DEF Earlier
<1>4. W \subseteq E /\ \A t \in E \ W : \A x \in W : Ms[t] <= Ms[x]
  BY <1>1, PageOfIs
<1>5. HoleFree(c, S)
  OBVIOUS
<1> SUFFICES ASSUME NEW t \in T, NEW s \in S \cup W, NEW w \in S \cup W,
                    Ms[s] <= Ms[t], Ms[t] <= Ms[w]
             PROVE  \E r \in S \cup W : Ms[r] = Ms[t]
  BY DEF HoleFree
<1> HIDE DEF S, E
<1>6. before \in S /\ Ms[before] \in Nat /\ Ms[t] \in Nat /\ Ms[s] \in Nat /\ Ms[w] \in Nat
  BY <1>2, <1>3, <1>4 DEF S
<1>7. CASE t \in W
  BY <1>7
<1>8. CASE ~(Ms[t] < Ms[before])
  <2>1. w \in S
    BY <1>3, <1>4, <1>6, <1>8
  <2>2. Ms[before] <= Ms[t]
    BY <1>6, <1>8
  <2> QED
    BY <1>5, <1>6, <2>1, <2>2 DEF HoleFree
<1>9. CASE t \notin W /\ Ms[t] < Ms[before]
  <2>1. t \in E \ W
    BY <1>3, <1>9
  <2>2. CASE s \in W
    <3>1. Ms[t] <= Ms[s]
      BY <1>4, <2>1, <2>2
    <3>2. Ms[s] = Ms[t]
      BY <1>6, <3>1
    <3> QED
      BY <2>2, <3>2
  <2>3. CASE s \in S
    <3>1. Ms[t] <= Ms[before]
      BY <1>6, <1>9
    <3> QED
      BY <1>5, <1>6, <2>3, <3>1 DEF HoleFree
  <2> QED
    BY <2>2, <2>3
<1> QED
  BY <1>7, <1>8, <1>9

LEMMA HolesMove ==
  ASSUME TypeOK, NEW u \in Watchers, NEW c \in Watched, WatchStep(u, c),
         OlderAt(u, c), HolesAt(u, c), KeepsUp
  PROVE  HolesAt(u, c)'
<1>1. TimesIn(c)' = TimesIn(c)
  BY WatchersOnlyRead DEF TimesIn, In
<1>2. CASE Expire(u, c)
  <2>1. list'[u][c] = {} /\ UNCHANGED fetch /\ ~Fetching(u, c)
    BY <1>2 DEF Expire, TypeOK
  <2> QED
    BY <2>1 DEF HolesAt, HoleFree, Fetching
<1>3. CASE Poll(u, c)
  <2>1. fetch'[u][c].pc = "asked" /\ list'[u][c] = list[u][c]
    BY <1>3, PollAt DEF Asked
  <2> QED
    BY <1>1, <2>1 DEF HolesAt, HoleFree
<1>4. CASE LoadOlder(u, c)
  BY <1>1, <1>4, LoadOlderAt DEF HolesAt, HoleFree
<1>5. CASE ReadPage(u, c)
  <2>1. /\ UNCHANGED list /\ Fetching(u, c)
        /\ fetch'[u][c].items \in PagesOf(Earlier(c, fetch[u][c].before))
    BY <1>5, ReadPageAt
  <2>2. fetch[u][c].before = 0 => Earlier(c, fetch[u][c].before) = TimesIn(c)
    BY DEF Earlier
  <2>3. HoleFree(c, list[u][c] \cup fetch'[u][c].items)
    BY <2>1, <2>2, PollCloses, CursorCloses DEF HolesAt, OlderAt
  <2> QED
    BY <1>1, <2>1, <2>3 DEF HolesAt, HoleFree
<1>6. CASE MarkRead(u, c)
  BY <1>1, <1>6, MarkReadAt DEF HolesAt, HoleFree
<1>7. CASE Merge(u, c)
  BY <1>1, <1>7, EndsAt, MergedIsListed DEF HolesAt, HoleFree, Fetching
<1>8. CASE FetchLost(u, c)
  BY <1>1, <1>8, FetchLostAt DEF HolesAt, HoleFree
<1>9. CASE GiveUp(u, c)
  BY <1>1, <1>9, EndsAt DEF HolesAt, HoleFree, Fetching
<1> QED
  BY <1>2, <1>3, <1>4, <1>5, <1>6, <1>7, <1>8, <1>9 DEF WatchStep

\* A message that comes in opens no hole, and one that goes does not either.
LEMMA HoleFreeStays ==
  ASSUME TypeOK, [Next]_vars, ~Belated, NEW c, NEW S \in SUBSET Sent, ReachedBy(S),
         HoleFree(c, S)
  PROVE  \A t \in TimesIn(c)' : \A s, w \in S :
           Ms[s] <= Ms[t] /\ Ms[t] <= Ms[w] => \E r \in S : Ms[r] = Ms[t]
<1> SUFFICES ASSUME NEW t \in TimesIn(c)', NEW s \in S, NEW w \in S,
                    Ms[s] <= Ms[t], Ms[t] <= Ms[w]
             PROVE  \E r \in S : Ms[r] = Ms[t]
  OBVIOUS
<1>1. CASE t \in TimesIn(c)
  BY <1>1 DEF HoleFree
<1>2. CASE t \in Sent /\ Ms[reached] <= Ms[t]
  <2>1. Ms[w] \in Nat /\ Ms[t] \in Nat /\ Ms[reached] \in Nat
    BY <1>2, TimesAreNat DEF TypeOK
  <2>2. Ms[w] <= Ms[reached]
    BY DEF ReachedBy
  <2> QED
    BY <1>2, <2>1, <2>2
<1> QED
  BY <1>1, <1>2, NewIsLast

LEMMA NextHoles ==
  TypeOK /\ Older /\ Reached /\ HolesClosed /\ KeepsUp /\ ~Belated /\ [Next]_vars
  => HolesClosed'
<1> SUFFICES ASSUME TypeOK, Older, Reached, HolesClosed, KeepsUp, ~Belated, [Next]_vars,
                    NEW u \in Watchers, NEW c \in Watched
             PROVE  HolesAt(u, c)'
  BY DEF HolesClosed
<1>1. OlderAt(u, c) /\ ReachedAt(u, c) /\ HolesAt(u, c) /\ list[u][c] \in SUBSET Sent
  BY ThreadTypes DEF Older, Reached, HolesClosed
<1>2. CASE Idle(u, c)
  <2>1. \A t \in TimesIn(c)' : \A s, w \in list[u][c] :
          Ms[s] <= Ms[t] /\ Ms[t] <= Ms[w] => \E r \in list[u][c] : Ms[r] = Ms[t]
    BY <1>1, HoleFreeStays DEF ReachedAt, HolesAt
  <2>2. ASSUME Fetching(u, c), fetch[u][c].pc \in {"read", "answered"}
        PROVE  \A t \in TimesIn(c)' : \A s, w \in list[u][c] \cup fetch[u][c].items :
                 Ms[s] <= Ms[t] /\ Ms[t] <= Ms[w]
                 => \E r \in list[u][c] \cup fetch[u][c].items : Ms[r] = Ms[t]
    <3> DEFINE S == list[u][c] \cup fetch[u][c].items
    <3>1. S \in SUBSET Sent /\ ReachedBy(S) /\ HoleFree(c, S)
      BY <1>1, <2>2, ThreadTypes DEF ReachedAt, ReachedBy, HolesAt, Fetches
    <3> HIDE DEF S
    <3>2. \A t \in TimesIn(c)' : \A s, w \in S :
            Ms[s] <= Ms[t] /\ Ms[t] <= Ms[w] => \E r \in S : Ms[r] = Ms[t]
      BY <3>1, HoleFreeStays
    <3> QED
      BY <3>2 DEF S
  <2> QED
    BY <1>2, <2>1, <2>2 DEF Idle, HolesAt, HoleFree, Fetching
<1>3. CASE (Asked(u, c, 0) \/ Left(u, c)) /\ UNCHANGED messages
  <2>1. TimesIn(c)' = TimesIn(c)
    BY <1>3 DEF TimesIn, In
  <2>2. Asked(u, c, 0) => HolesAt(u, c)'
    BY <1>1, <2>1 DEF Asked, HolesAt, HoleFree
  <2>3. Left(u, c) => HolesAt(u, c)'
    BY <1>1, <2>1 DEF Left, HolesAt, HoleFree, Fetching
  <2> QED
    BY <1>3, <2>2, <2>3
<1>4. CASE WatchStep(u, c)
  BY <1>1, <1>4, HolesMove
<1> QED
  BY <1>2, <1>3, <1>4, ThreadMoves

\* For pages of any length and any number of messages, of which any may share a
\* millisecond: as long as no more than a page comes in between two polls for the
\* newest, and in the order of the stamps, a list skips no millisecond between two
\* of its messages, however polls, with and without a cursor, older pages, lost
\* answers and deletions mix (merge's "history paged in manually survives a later
\* poll").  Of messages in one millisecond at the edge of a page some may be
\* missing: the theorem does not say otherwise.
THEOREM TurnsLeaveNoHole == Spec => TurnsNoHole
<1> DEFINE I == TypeOK /\ Older /\ Reached /\ HolesClosed
<1>1. Init => I
  <2>1. Init => messages = {} /\ \A u \in Watchers, c \in Watched :
                  fetch[u][c] = Absent /\ list[u][c] = {} /\ cursor[u][c] = 0
    BY DEF Init
  <2> QED
    BY <2>1, InitTypeOK
    DEF Older, OlderAt, Reached, ReachedAt, ReachedBy, HolesClosed, HolesAt, HoleFree, Fetching
<1>2. I /\ KeepsUp /\ ~Belated /\ [Next]_vars => I'
  BY NextTypeOK, NextOlder, NextReached, NextHoles
<1>3. I => NoHole
  BY DEF NoHole, HolesClosed, HolesAt, HoleFree
<1> QED
  BY <1>1, <1>2, <1>3, PTL DEF Spec, TurnsNoHole

-----------------------------------------------------------------------------
\* "Load older" and what it hides.

\* A page with a cursor that is not full has all there is before it.
WholeAt(u, c) ==
  Fetching(u, c) /\ fetch[u][c].pc \in {"read", "answered"} /\ fetch[u][c].before # 0
  => \/ Cardinality(fetch[u][c].items) = Page
     \/ \A t \in TimesIn(c) : Ms[t] < Ms[fetch[u][c].before] => t \in fetch[u][c].items

\* Some message of the list is as old as any.
Reaches(c, S) == \A t \in TimesIn(c) : \E s \in S : Ms[s] <= Ms[t]

\* The open thread, once "Load older" was used.
HiddenAt(u, c) ==
  page[u].open = c /\ page[u].paged
  => list[u][c] # {} /\ (~page[u].more => Reaches(c, list[u][c]))

Whole == \A u \in Watchers, c \in Watched : WholeAt(u, c)
Hidden == \A u \in Watchers, c \in Watched : HiddenAt(u, c)

LEMMA WholeMoves ==
  ASSUME TypeOK, NEW u \in Watchers, NEW c \in Watched, WatchStep(u, c), WholeAt(u, c)
  PROVE  WholeAt(u, c)'
<1>1. TimesIn(c)' = TimesIn(c)
  BY WatchersOnlyRead DEF TimesIn, In
<1>2. CASE Expire(u, c)
  BY <1>2 DEF Expire, WholeAt, Fetching
<1>3. CASE Poll(u, c)
  <2>1. fetch'[u][c].pc = "asked"
    BY <1>3, PollAt DEF Asked
  <2> QED
    BY <2>1 DEF WholeAt
<1>4. CASE LoadOlder(u, c)
  BY <1>1, <1>4, LoadOlderAt DEF WholeAt
<1>5. CASE ReadPage(u, c)
  <2> DEFINE before == fetch[u][c].before
             items == fetch'[u][c].items
  <2>1. items \in PagesOf(Earlier(c, before)) /\ fetch'[u][c].before = before
    BY <1>5, ReadPageAt
  <2>2. items = Earlier(c, before) \/ Cardinality(items) = Page
    BY <2>1 DEF PagesOf
  <2>3. \A t \in TimesIn(c) : Ms[t] < Ms[before] => t \in Earlier(c, before)
    BY DEF Earlier
  <2> QED
    BY <1>1, <2>1, <2>2, <2>3 DEF WholeAt
<1>6. CASE MarkRead(u, c)
  BY <1>1, <1>6, MarkReadAt DEF WholeAt
<1>7. CASE Merge(u, c) \/ GiveUp(u, c)
  BY <1>7, EndsAt DEF WholeAt, Fetching
<1>8. CASE FetchLost(u, c)
  BY <1>8, FetchLostAt DEF WholeAt
<1> QED
  BY <1>2, <1>3, <1>4, <1>5, <1>6, <1>7, <1>8 DEF WatchStep

LEMMA NextWhole ==
  TypeOK /\ Older /\ Reached /\ Whole /\ ~Belated /\ [Next]_vars => Whole'
<1> SUFFICES ASSUME TypeOK, Older, Reached, Whole, ~Belated, [Next]_vars,
                    NEW u \in Watchers, NEW c \in Watched
             PROVE  WholeAt(u, c)'
  BY DEF Whole
<1>1. WholeAt(u, c)
  BY DEF Whole
<1>2. CASE Idle(u, c)
  <2> SUFFICES ASSUME Fetching(u, c), fetch[u][c].pc \in {"read", "answered"},
                      fetch[u][c].before # 0, Cardinality(fetch[u][c].items) # Page,
                      NEW t \in TimesIn(c)', Ms[t] < Ms[fetch[u][c].before]
               PROVE  t \in fetch[u][c].items
    BY <1>2 DEF Idle, WholeAt, Fetching
  <2>1. fetch[u][c].before \in list[u][c] /\ ReachedBy(list[u][c]) /\ list[u][c] \in SUBSET Sent
    BY ThreadTypes DEF Older, OlderAt, Reached, ReachedAt
  <2>2. Ms[fetch[u][c].before] <= Ms[reached]
    BY <2>1 DEF ReachedBy
  <2>3. CASE t \in TimesIn(c)
    BY <1>1, <2>3 DEF WholeAt
  <2>4. CASE t \in Sent /\ Ms[reached] <= Ms[t]
    <3>1. Ms[t] \in Nat /\ Ms[reached] \in Nat /\ Ms[fetch[u][c].before] \in Nat
      BY <2>1, <2>4, TimesAreNat DEF TypeOK
    <3> QED
      BY <2>2, <2>4, <3>1
  <2> QED
    BY <2>3, <2>4, NewIsLast
<1>3. CASE Asked(u, c, 0)
  BY <1>3 DEF Asked, WholeAt
<1>4. CASE Left(u, c) /\ UNCHANGED messages
  BY <1>1, <1>4 DEF Left, WholeAt, Fetching, TimesIn, In
<1>5. CASE WatchStep(u, c)
  BY <1>1, <1>5, WholeMoves
<1> QED
  BY <1>2, <1>3, <1>4, <1>5, ThreadMoves

\* A thread stays open and paged, or becomes paged with the end of a click in it.
LEMMA PageMoves ==
  ASSUME TypeOK, [Next]_vars, ~Crossed, NEW u \in Watchers, NEW c \in Watched,
         page'[u].open = c, page'[u].paged
  PROVE  \/ page[u].open = c /\ page[u].paged /\ page'[u].more = page[u].more
         \/ Merge(u, c) /\ page[u].open = c /\ fetch[u][c].waiting # -1
<1>1. page[u] \in Pages
  BY DEF TypeOK
<1>2. ASSUME page'[u] = page[u]
      PROVE  page[u].open = c /\ page[u].paged /\ page'[u].more = page[u].more
  BY <1>2
<1>3. HandlerStep \/ UNCHANGED vars => page'[u] = page[u]
  BY HandlerTypeOK DEF vars, client
<1>4. ASSUME NEW v \in Watchers, NEW d \in Watched \cup {Absent}, SelectConversation(v, d)
      PROVE  page'[u] = page[u]
  <2>1. page' = [page EXCEPT ![v] = Opened(d, page[v].asked)]
    BY <1>4 DEF SelectConversation
  <2>2. v = u => page'[u].paged = FALSE
    BY <2>1 DEF TypeOK, Opened
  <2> QED
    BY <2>1, <2>2 DEF TypeOK
<1>5. ASSUME NEW v \in Watchers, LeaveMessages(v), v = u
      PROVE  FALSE
  <2>1. page'[u] = Opened(Absent, Absent)
    BY <1>5 DEF LeaveMessages, TypeOK
  <2> QED
    BY <2>1 DEF Opened
<1>6. ASSUME NEW v \in Watchers, LeaveMessages(v), v # u
       PROVE  page'[u] = page[u]
  BY <1>6 DEF LeaveMessages, TypeOK
<1>7. ASSUME NEW v \in Watchers, NEW d \in Watched, LoadOlder(v, d)
      PROVE  /\ page'[u].open = page[u].open /\ page'[u].paged = page[u].paged
             /\ page'[u].more = page[u].more
  <2>1. page' = [page EXCEPT ![v] = [page[v] EXCEPT !.asked = d]]
    BY <1>7 DEF LoadOlder
  <2> QED
    BY <1>1, <2>1 DEF TypeOK, Pages
<1>8. ASSUME NEW v \in Watchers, NEW d \in Watched, Merge(v, d), page'[u] # page[u]
      PROVE  Merge(u, c) /\ page[u].open = c /\ fetch[u][c].waiting # -1
  <2> DEFINE more == Growth(fetch[v][d].waiting,
                            Cardinality(list[v][d] \cup fetch[v][d].items)) = Page
  <2>1. /\ Fetching(v, d) /\ fetch[v][d].waiting # -1
        /\ page' = [page EXCEPT ![v].paged = TRUE, ![v].more = more]
    BY <1>8 DEF Merge
  <2>2. page[v].open = d
    BY <2>1 DEF Crossed
  <2> HIDE DEF more
  <2>3. v = u
    BY <1>8, <2>1 DEF TypeOK
  <2>4. page'[u].open = page[u].open
    BY <1>1, <2>1, <2>3 DEF TypeOK, Pages
  <2> QED
    BY <1>8, <2>1, <2>2, <2>3, <2>4
<1>9. ASSUME NEW v \in Watchers, NEW d \in Watched, WatchStep(v, d), ~LoadOlder(v, d), ~Merge(v, d)
      PROVE  page'[u] = page[u]
  BY <1>9 DEF WatchStep, Expire, Poll, ReadPage, MarkRead, FetchLost, GiveUp
<1>10. ASSUME NEW v \in Watchers, NEW d \in Watched, WatchStep(v, d)
      PROVE  \/ page[u].open = c /\ page[u].paged /\ page'[u].more = page[u].more
             \/ Merge(u, c) /\ page[u].open = c /\ fetch[u][c].waiting # -1
  BY <1>2, <1>7, <1>8, <1>9, <1>10
<1> QED
  BY <1>2, <1>3, <1>4, <1>10, <1>5, <1>6 DEF Next

\* The end of a click: what it leaves of the button is right.
LEMMA MergeHidesNothing ==
  ASSUME TypeOK, NEW u \in Watchers, NEW c \in Watched, Merge(u, c),
         OlderAt(u, c), WholeAt(u, c), HiddenAt(u, c), ~Crossed
  PROVE  HiddenAt(u, c)'
<1> DEFINE S == list[u][c]
           P == fetch[u][c].items
           f == fetch[u][c]
<1>1. f \in Fetches /\ Fetching(u, c) /\ f.pc = "answered" /\ TimesIn(c)' = TimesIn(c)
  <2>1. TimesIn(c)' = TimesIn(c)
    BY WatchersOnlyRead DEF WatchStep, TimesIn, In
  <2> QED
    BY <2>1, EndsAt
<1>2. S \in SUBSET Sent /\ P \in SUBSET Sent /\ S \cup P \in SUBSET Sent
      /\ list'[u][c] = S \cup P
  BY <1>1, ThreadTypes, MergedIsListed DEF Fetches
<1>3. \A t \in S \cup P \cup TimesIn(c) : Ms[t] \in Nat
  BY <1>2, TimesInTypes, TimesAreNat
<1> SUFFICES ASSUME page'[u].open = c, page'[u].paged
             PROVE  S \cup P # {} /\ (~page'[u].more => Reaches(c, S \cup P))
  BY <1>1, <1>2 DEF HiddenAt, Reaches
<1>4. CASE f.waiting = -1
  <2>1. page' = page
    BY <1>4 DEF Merge
  <2> QED
    BY <2>1 DEF HiddenAt, Reaches
<1>5. CASE f.waiting # -1
  <2>1. f.older
    BY <1>1, <1>5 DEF Crossed
  <2>2. /\ f.before # 0 /\ f.before \in S /\ f.waiting = Cardinality(S)
        /\ \A s \in S : Ms[f.before] <= Ms[s]
        /\ \A t \in P : Ms[t] < Ms[f.before]
    BY <1>1, <1>5, <2>1 DEF OlderAt, Oldest
  <2>3. page'[u].more = (Cardinality(S \cup P) - Cardinality(S) = Page)
    <3> DEFINE more == Growth(f.waiting, Cardinality(S \cup P)) = Page
    <3>1. page' = [page EXCEPT ![u].paged = TRUE, ![u].more = more]
      BY <1>5 DEF Merge
    <3>2. page \in [Watchers -> Pages] /\ more \in BOOLEAN
      BY DEF TypeOK
    <3>3. more = (Cardinality(S \cup P) - Cardinality(S) = Page)
      BY <2>2 DEF Growth
    <3> HIDE DEF more
    <3>4. page'[u].more = more
      BY <3>1, <3>2 DEF Pages
    <3> QED
      BY <3>3, <3>4
  <2>4. Cardinality(S \cup P) - Cardinality(S) = Cardinality(P)
    <3>1. IsFiniteSet(S) /\ IsFiniteSet(P) /\ Cardinality(S) \in Nat /\ Cardinality(P) \in Nat
      BY <1>2, TimesFinite
    <3>2. S \cap P = {}
      <4> SUFFICES ASSUME NEW t \in S \cap P PROVE FALSE
        OBVIOUS
      <4>1. Ms[f.before] <= Ms[t] /\ Ms[t] < Ms[f.before]
        BY <2>2
      <4>2. Ms[t] \in Nat /\ Ms[f.before] \in Nat
        BY <1>3, <2>2
      <4> QED
        BY <4>1, <4>2
    <3>3. Cardinality(S \cup P) = Cardinality(S) + Cardinality(P) - Cardinality(S \cap P)
      BY <3>1, FS_Union
    <3>4. Cardinality(S \cap P) = 0
      BY <3>2, FS_EmptySet
    <3>5. Cardinality(S \cup P) = Cardinality(S) + Cardinality(P)
      BY <3>1, <3>3, <3>4
    <3> HIDE DEF S, P
    <3> QED
      BY <3>1, <3>5
  <2>5. ASSUME ~page'[u].more, NEW t \in TimesIn(c)
        PROVE  \E s \in S \cup P : Ms[s] <= Ms[t]
    <3>1. Cardinality(P) # Page
      BY <2>3, <2>4, <2>5
    <3>2. Ms[t] < Ms[f.before] => t \in P
      BY <1>1, <2>2, <3>1 DEF WholeAt
    <3>3. Ms[t] \in Nat /\ Ms[f.before] \in Nat
      BY <1>3, <2>2
    <3>4. CASE t \in P
      BY <3>3, <3>4
    <3>5. CASE ~(Ms[t] < Ms[f.before])
      BY <2>2, <3>3, <3>5
    <3> QED
      BY <3>2, <3>4, <3>5
  <2> QED
    BY <2>2, <2>5 DEF Reaches
<1> QED
  BY <1>4, <1>5

LEMMA NextHidden ==
  TypeOK /\ Older /\ Reached /\ Whole /\ Hidden /\ ~Crossed /\ ~Belated /\ [Next]_vars
  => Hidden'
<1> SUFFICES ASSUME TypeOK, Older, Reached, Whole, Hidden, ~Crossed, ~Belated, [Next]_vars,
                    NEW u \in Watchers, NEW c \in Watched
             PROVE  HiddenAt(u, c)'
  BY DEF Hidden
<1>1. CASE Merge(u, c)
  BY <1>1, MergeHidesNothing DEF Older, Whole, Hidden
<1>2. CASE ~Merge(u, c)
  <2> SUFFICES ASSUME page'[u].open = c, page'[u].paged
               PROVE  /\ list'[u][c] # {}
                      /\ ~page'[u].more
                         => \A t \in TimesIn(c)' : \E s \in list'[u][c] : Ms[s] <= Ms[t]
    BY DEF HiddenAt, Reaches
  <2>1. page[u].open = c /\ page[u].paged /\ page'[u].more = page[u].more
    BY <1>2, PageMoves
  <2>2. list'[u][c] = list[u][c]
    <3>1. ~Expire(u, c)
      BY <2>1 DEF Expire
    <3> QED
      BY <1>2, <3>1, ThreadMoves
      DEF Idle, Asked, Left, WatchStep, Poll, LoadOlder, ReadPage, MarkRead, FetchLost, GiveUp
  <2>3. list[u][c] # {} /\ (~page[u].more => Reaches(c, list[u][c]))
    BY <2>1 DEF Hidden, HiddenAt
  <2>4. ReachedBy(list[u][c]) /\ list[u][c] \in SUBSET Sent
    BY ThreadTypes DEF Reached, ReachedAt
  <2>5. ASSUME ~page'[u].more, NEW t \in TimesIn(c)'
        PROVE  \E s \in list[u][c] : Ms[s] <= Ms[t]
    <3>1. CASE t \in TimesIn(c)
      BY <2>1, <2>3, <2>5, <3>1 DEF Reaches
    <3>2. CASE t \in Sent /\ Ms[reached] <= Ms[t]
      <4>1. PICK s \in list[u][c] : Ms[s] <= Ms[reached]
        BY <2>3, <2>4 DEF ReachedBy
      <4>2. Ms[s] \in Nat /\ Ms[t] \in Nat /\ Ms[reached] \in Nat
        BY <2>4, <3>2, TimesAreNat DEF TypeOK
      <4> QED
        BY <3>2, <4>1, <4>2
    <3> QED
      BY <3>1, <3>2, NewIsLast
  <2> QED
    BY <2>2, <2>3, <2>5
<1> QED
  BY <1>1, <1>2

\* For pages of any length: as long as clicks on "Load older" do not cross polls or
\* a change of the thread, and messages come in in the order of their stamps, the
\* button disappears only when nothing is older than the whole list
\* (handleLoadOlder's test of the growth).
THEOREM TurnsHideNothing == Spec => TurnsNothingHidden
<1> DEFINE I == TypeOK /\ Older /\ Reached /\ Whole /\ Hidden
<1>1. Init => I
  <2>1. Init => messages = {} /\ \A u \in Watchers :
                  /\ ~page[u].paged
                  /\ \A c \in Watched :
                       fetch[u][c] = Absent /\ list[u][c] = {} /\ cursor[u][c] = 0
    BY DEF Init
  <2> QED
    BY <2>1, InitTypeOK
    DEF Older, OlderAt, Reached, ReachedAt, ReachedBy, Whole, WholeAt, Hidden, HiddenAt, Fetching
<1>2. I /\ ~Crossed /\ ~Belated /\ [Next]_vars => I'
  BY NextTypeOK, NextOlder, NextReached, NextWhole, NextHidden
<1>3. I => NothingHidden
  <2> SUFFICES ASSUME TypeOK, Hidden, NEW u \in Watchers, page[u].open # Absent,
                      page[u].paged, ~page[u].more
               PROVE  Reaches(page[u].open, list[u][page[u].open])
    BY DEF NothingHidden, Reaches
  <2>1. page[u].open \in Watched
    BY DEF TypeOK, Pages
  <2> QED
    BY <2>1 DEF Hidden, HiddenAt
<1> QED
  BY <1>1, <1>2, <1>3, PTL DEF Spec, TurnsNothingHidden

-----------------------------------------------------------------------------
\* What was read was on the screen.

\* A message comes from a member of its thread; a thread that a deletion takes along
\* has nobody but its user.
Senders == \A m \in messages : m.from \in Members(m.in)
EmptiedAlone ==
  \A u \in Users : removing[u] # Absent
    => \A c \in removing[u].emptied : c \in Live /\ Members(c) = {u}

LEMMA PairIs ==
  ASSUME NEW p \in Pairs, NEW a \in p, NEW b \in p, a # b
  PROVE  p = {a, b}
<1>1. p \in SUBSET Users
  BY DEF Pairs
<1>2. IsFiniteSet({b}) /\ Cardinality({b}) = 1
  BY FS_Singleton
<1>3. Cardinality({b} \cup {a}) = 2
  BY <1>2, FS_AddElement
<1>4. {b} \cup {a} = {a, b}
  OBVIOUS
<1>5. {a, b} \in Pairs
  BY <1>1, <1>3, <1>4 DEF Pairs
<1> QED
  BY <1>5, PairsApart

LEMMA InLive ==
  ASSUME TypeOK, NEW m \in messages
  PROVE  m.in \in Live /\ m.at \in Sent
BY DEF TypeOK

LEMMA NextSenders == TypeOK /\ Senders /\ [Next]_vars => Senders'
<1> SUFFICES ASSUME TypeOK, Senders, [Next]_vars PROVE Senders'
  OBVIOUS
<1>1. ASSUME messages' \subseteq messages, \A c \in Live : Members(c)' = Members(c)
      PROVE  Senders'
  <2> SUFFICES ASSUME NEW m \in messages' PROVE m.from \in Members(m.in)'
    BY DEF Senders
  <2>1. m \in messages
    BY <1>1
  <2>2. m.in \in Live /\ m.from \in Members(m.in)
    BY <2>1, InLive DEF Senders
  <2> QED
    BY <1>1, <2>2
<1>2. CASE UNCHANGED <<accounts, conversation, messages, reached>>
  BY <1>1, <1>2 DEF Members
<1>3. ASSUME NEW m \in sending, Insert(m), Participates(m.from, m.in)
      PROVE  Senders'
  BY <1>3, InsertAt DEF Senders, Members
<1>4. ASSUME NEW p \in Pairs, CreateConversation(p), p \subseteq accounts
      PROVE  Senders'
  <2>1. messages' = messages
    BY <1>4 DEF CreateConversation, post
  <2> QED
    BY <1>1, <1>4, <2>1, CreatedIsLive
<1>5. ASSUME NEW u \in Users, Remove(u)
      PROVE  Senders'
  <2> SUFFICES ASSUME NEW m \in messages' PROVE m.from \in Members(m.in)'
    BY DEF Senders
  <2>1. m \in messages /\ m.from # u /\ m.in \in Live'
    BY <1>5, RemovedIsGone, InLive
  <2> QED
    BY <1>5, <2>1, RemovedIsGone DEF Senders
<1>6. ASSUME NEW u \in Watchers, NEW c \in Watched, MarkRead(u, c)
      PROVE  Senders'
  <2>1. messages' = messages
    BY <1>6 DEF MarkRead, post
  <2> QED
    BY <1>1, <1>6, <2>1, MarkedIsRead
<1> QED
  BY <1>2, <1>3, <1>4, <1>5, <1>6, ServerMoves

\* A deletion that is under way is one that was, or begins.
LEMMA RemovingMoves ==
  ASSUME TypeOK, [Next]_vars, NEW u \in Users, removing'[u] # Absent
  PROVE  \/ removing'[u] = removing[u] /\ ~Remove(u)
         \/ removing'[u].emptied = Emptied(u) /\ UNCHANGED conversation
<1>1. ASSUME NEW v, NEW w, FindConversation(v, w) \/ Send(v, w)
      PROVE  removing' = removing
  BY <1>1 DEF FindConversation, Send, handlers
<1>2. ASSUME NEW p, CreateConversation(p) PROVE removing'[u] = removing[u]
  BY <1>2 DEF CreateConversation, Affects
<1>3. ASSUME NEW m, Insert(m) PROVE removing'[u] = removing[u]
  BY <1>3 DEF Insert, Affects
<1>4. ASSUME NEW v \in Users, BeginRemove(v)
      PROVE  \/ removing'[u] = removing[u]
             \/ removing'[u].emptied = Emptied(u) /\ UNCHANGED conversation
  BY <1>4 DEF BeginRemove, TypeOK
<1>5. ASSUME NEW v \in Users, Remove(v) PROVE removing'[u] = removing[u]
  BY <1>5 DEF Remove, TypeOK
<1>6. RequestLost => removing'[u] = removing[u]
  BY DEF RequestLost, TypeOK
<1>7. ~HandlerStep => removing' = removing
  BY WatchersOnlyRead DEF Next, vars, handlers
<1>8. ~Remove(u)
  BY DEF Remove, TypeOK
<1> QED
  BY <1>1, <1>2, <1>3, <1>4, <1>5, <1>6, <1>7, <1>8 DEF HandlerStep

LEMMA NextEmptiedAlone == TypeOK /\ EmptiedAlone /\ [Next]_vars => EmptiedAlone'
<1> SUFFICES ASSUME TypeOK, EmptiedAlone, [Next]_vars, NEW u \in Users, removing'[u] # Absent,
                    NEW c \in removing'[u].emptied
             PROVE  c \in Live' /\ Members(c)' = {u}
  BY DEF EmptiedAlone
<1>1. CASE removing'[u].emptied = Emptied(u) /\ UNCHANGED conversation
  BY <1>1 DEF Emptied, Live, Members
<1>2. CASE removing'[u] = removing[u] /\ ~Remove(u)
  <2>1. c \in Live /\ Members(c) = {u}
    BY <1>2 DEF EmptiedAlone
  <2>2. CASE ThreadsStay
    BY <2>1, <2>2 DEF ThreadsStay
  <2>3. ASSUME NEW p \in Pairs, CreateConversation(p), p \subseteq accounts
        PROVE  c \in Live' /\ Members(c)' = {u}
    BY <2>1, <2>3, CreatedIsLive
  <2>4. ASSUME NEW v \in Users, Remove(v)
        PROVE  c \in Live' /\ Members(c)' = {u}
    <3>1. v # u /\ removing[v] # Absent
      BY <1>2, <2>4, RemovedIsGone
    <3>2. c \notin removing[v].emptied
      BY <2>1, <3>1 DEF EmptiedAlone
    <3>3. c \in Live' /\ Members(c)' = Members(c) \ {v}
      BY <2>1, <2>4, <3>2, RemovedIsGone
    <3> QED
      BY <2>1, <3>1, <3>3
  <2> QED
    BY <2>2, <2>3, <2>4, MembersMove
<1> QED
  BY <1>1, <1>2, RemovingMoves

\* One of the newest messages of a thread is its reader's own, or one of S.
IsNewest(m, c) == m \in In(c) /\ \A n \in In(c) : Ms[n.at] <= Ms[m.at]
Shows(u, c, S) == In(c) # {} => \E m \in In(c) : IsNewest(m, c) /\ (m.from = u \/ m.at \in S)

\* What a watcher has of a thread, or is about to have.
Held(u, c) ==
  list[u][c] \cup (IF Fetching(u, c) THEN fetch[u][c].items \cup fetch[u][c].asOf ELSE {})
Answered(u, c) ==
  IF Fetching(u, c) /\ fetch[u][c].pc = "answered" THEN fetch[u][c].items ELSE {}
Reading(u, c) == Fetching(u, c) /\ fetch[u][c].pc = "read" /\ fetch[u][c].before = 0

\* As long as another member is there, nothing of it is gone.
KeptAt(u, c) == (\E v \in Members(c) : v # u) => Held(u, c) \subseteq TimesIn(c)

\* A page of the newest has a newest one.
ReadAt(u, c) ==
  Reading(u, c) /\ TimesIn(c) \subseteq fetch[u][c].asOf => Shows(u, c, fetch[u][c].items)

\* A thread that is marked was on the screen to its end, or is about to be.
MarkedAt(u, c) ==
  Unread(u, c) = {} => Shows(u, c, seen[u] \cup Answered(u, c))

ShownAt(u, c) ==
  /\ list[u][c] \subseteq seen[u]
  /\ Held(u, c) # {} /\ u \in accounts => Participates(u, c)
  /\ Participates(u, c) => KeptAt(u, c) /\ ReadAt(u, c) /\ MarkedAt(u, c)

Shown == \A u \in Watchers, c \in Watched : ShownAt(u, c)

\* Of some messages there is a newest one.
LEMMA NewestIn ==
  ASSUME TypeOK, NEW c, In(c) # {}
  PROVE  \E m \in In(c) : IsNewest(m, c)
<1>1. TimesIn(c) \in SUBSET Sent /\ TimesIn(c) # {}
  BY TimesInTypes DEF TimesIn
<1>2. PICK t \in TimesIn(c) : \A s \in TimesIn(c) : Ms[s] <= Ms[t]
  BY <1>1, NewestFound
<1>3. PICK m \in In(c) : m.at = t
  BY DEF TimesIn
<1> QED
  BY <1>2, <1>3 DEF IsNewest, TimesIn

LEMMA OwnShows ==
  ASSUME TypeOK, NEW u, NEW c, NEW S, \A m \in In(c) : m.from = u
  PROVE  Shows(u, c, S)
BY NewestIn DEF Shows

\* The thread is for its watcher as it was ...
Same(u, c) ==
  /\ u \in accounts' => u \in accounts
  /\ In(c)' = In(c)
  /\ c \in Live' <=> c \in Live
  /\ c \in Live => /\ Members(c)' = Members(c)
                   /\ u \in Members(c) => conversation'[c][u] = conversation[c][u]

\* ... and he has no more of it, and saw no less.
Quiet(u, c) ==
  /\ seen[u] \subseteq seen'[u] /\ list'[u][c] \subseteq seen'[u]
  /\ Held(u, c)' \subseteq Held(u, c)
  /\ Answered(u, c) \subseteq Answered(u, c)' \cup seen'[u]
  /\ Reading(u, c)' => /\ Reading(u, c) /\ fetch'[u][c].asOf = fetch[u][c].asOf
                       /\ fetch'[u][c].items = fetch[u][c].items

LEMMA QuietShown ==
  ASSUME NEW u \in Watchers, NEW c \in Watched, ShownAt(u, c), Same(u, c), Quiet(u, c)
  PROVE  ShownAt(u, c)'
<1>1. Participates(u, c)' <=> Participates(u, c)
  BY DEF Same, Participates
<1>2. list'[u][c] \subseteq seen'[u] /\ (Held(u, c)' # {} /\ u \in accounts' => Participates(u, c)')
  BY <1>1 DEF Quiet, Same, ShownAt
<1> SUFFICES ASSUME Participates(u, c)
             PROVE  KeptAt(u, c)' /\ ReadAt(u, c)' /\ MarkedAt(u, c)'
  BY <1>1, <1>2 DEF ShownAt
<1>3. /\ In(c)' = In(c) /\ TimesIn(c)' = TimesIn(c) /\ Members(c)' = Members(c)
      /\ conversation'[c][u] = conversation[c][u]
  BY DEF Same, Participates, TimesIn
<1>4. KeptAt(u, c) /\ ReadAt(u, c) /\ MarkedAt(u, c)
  BY DEF ShownAt
<1>5. KeptAt(u, c)'
  BY <1>3, <1>4 DEF KeptAt, Quiet
<1>6. ReadAt(u, c)'
  BY <1>3, <1>4 DEF ReadAt, Quiet, Shows, IsNewest
<1>7. MarkedAt(u, c)'
  <2>1. Unread(u, c)' = Unread(u, c)
    BY <1>3 DEF Unread
  <2>2. seen[u] \cup Answered(u, c) \subseteq seen'[u] \cup Answered(u, c)'
    BY DEF Quiet
  <2> QED
    BY <1>3, <1>4, <2>1, <2>2 DEF MarkedAt, Shows, IsNewest
<1> QED
  BY <1>5, <1>6, <1>7

LEMMA NextSeen ==
  ASSUME TypeOK, [Next]_vars, NEW u \in Watchers, NEW c \in Watched, list[u][c] \subseteq seen[u]
  PROVE  seen[u] \subseteq seen'[u] /\ list'[u][c] \subseteq seen'[u]
<1>1. ASSUME NEW v \in Watchers, NEW d \in Watched, Merge(v, d)
      PROVE  seen[u] \subseteq seen'[u] /\ list'[u][c] \subseteq seen'[u]
  BY <1>1, MergedIsListed
<1>2. \/ UNCHANGED seen
      \/ \E v \in Watchers, d \in Watched : Merge(v, d)
  <2>1. HandlerStep \/ UNCHANGED vars => UNCHANGED seen
    BY HandlerTypeOK DEF vars, client
  <2>2. ASSUME NEW v, NEW d, SelectConversation(v, d) \/ LeaveMessages(v)
        PROVE  UNCHANGED seen
    BY <2>2 DEF SelectConversation, LeaveMessages
  <2>3. ASSUME NEW v, NEW d, WatchStep(v, d), ~Merge(v, d)
        PROVE  UNCHANGED seen
    BY <2>3 DEF WatchStep, Expire, Poll, LoadOlder, ReadPage, MarkRead, FetchLost, GiveUp
  <2> QED
    BY <2>1, <2>2, <2>3 DEF Next
<1>3. WatchStep(u, c) => Merge(u, c) \/ list'[u][c] \subseteq list[u][c]
  <2>1. ASSUME Expire(u, c) PROVE list'[u][c] = {}
    BY <2>1 DEF Expire, TypeOK
  <2>2. ASSUME WatchStep(u, c), ~Merge(u, c), ~Expire(u, c) PROVE list' = list
    BY <2>2 DEF WatchStep, Poll, LoadOlder, ReadPage, MarkRead, FetchLost, GiveUp
  <2> QED
    BY <2>1, <2>2
<1>4. Merge(u, c) \/ list'[u][c] \subseteq list[u][c]
  BY <1>3, ThreadMoves DEF Idle, Asked, Left
<1> QED
  BY <1>1, <1>2, <1>4

LEMMA IdleQuiet ==
  ASSUME NEW u \in Watchers, NEW c \in Watched, Idle(u, c),
         seen[u] \subseteq seen'[u], list'[u][c] \subseteq seen'[u]
  PROVE  Quiet(u, c)
BY DEF Idle, Quiet, Held, Answered, Reading, Fetching

LEMMA UnchangedSame ==
  ASSUME NEW u, NEW c, UNCHANGED <<accounts, conversation, messages>>
  PROVE  Same(u, c)
BY DEF Same, In, Live, Members

\* The steps of a watcher in the thread: a page is read ...
LEMMA ReadPageShown ==
  ASSUME TypeOK, NEW u \in Watchers, NEW c \in Watched, ReadPage(u, c), ShownAt(u, c)
  PROVE  ShownAt(u, c)'
<1>1. /\ Participates(u, c) /\ Fetching(u, c) /\ fetch[u][c].pc = "asked"
      /\ UNCHANGED <<accounts, conversation, messages, list, seen>>
  BY DEF ReadPage, post
<1>2. /\ In(c)' = In(c) /\ TimesIn(c)' = TimesIn(c) /\ Members(c)' = Members(c)
      /\ Participates(u, c)'
  BY <1>1 DEF In, TimesIn, Members, Participates, Live
<1>3. /\ fetch'[u][c].pc = "read" /\ fetch'[u][c].before = fetch[u][c].before
      /\ fetch'[u][c].items \in PagesOf(Earlier(c, fetch[u][c].before))
      /\ fetch'[u][c].asOf = IF fetch[u][c].before = 0 THEN TimesIn(c) ELSE {}
      /\ Fetching(u, c)'
  BY ReadPageAt, AbsentApart DEF Fetching
<1>4. fetch'[u][c].items \subseteq TimesIn(c) /\ fetch'[u][c].asOf \subseteq TimesIn(c)
  BY <1>3 DEF PagesOf, Earlier
<1>5. KeptAt(u, c)'
  BY <1>1, <1>2, <1>3, <1>4 DEF ShownAt, KeptAt, Held
<1>6. ReadAt(u, c)'
  <2> SUFFICES ASSUME fetch[u][c].before = 0, In(c) # {}
               PROVE  \E m \in In(c) : IsNewest(m, c) /\ m.at \in fetch'[u][c].items
    BY <1>2, <1>3 DEF ReadAt, Reading, Shows, IsNewest
  <2>1. Earlier(c, fetch[u][c].before) = TimesIn(c) /\ TimesIn(c) \in SUBSET Sent /\ TimesIn(c) # {}
    BY TimesInTypes DEF Earlier, TimesIn
  <2>2. PICK t \in fetch'[u][c].items : \A s \in TimesIn(c) : Ms[s] <= Ms[t]
    BY <1>3, <2>1, PageOfIs
  <2>3. PICK m \in In(c) : m.at = t
    BY <1>4 DEF TimesIn
  <2> QED
    BY <2>2, <2>3 DEF IsNewest, TimesIn
<1>7. MarkedAt(u, c)'
  <2>1. MarkedAt(u, c) /\ Unread(u, c)' = Unread(u, c)
    BY <1>1, <1>2 DEF ShownAt, Unread
  <2>2. seen' = seen /\ Answered(u, c) = {}
    BY <1>1 DEF Answered
  <2> QED
    BY <1>2, <2>1, <2>2 DEF MarkedAt, Shows, IsNewest
<1> QED
  BY <1>1, <1>2, <1>5, <1>6, <1>7 DEF ShownAt

\* ... and marks the thread, which nothing overtook ...
LEMMA MarkReadShown ==
  ASSUME TypeOK, Senders, NEW u \in Watchers, NEW c \in Watched, MarkRead(u, c), ~Overtaken,
         OlderAt(u, c), ShownAt(u, c)
  PROVE  ShownAt(u, c)'
<1> DEFINE f == fetch[u][c]
<1>1. /\ Participates(u, c) /\ Fetching(u, c) /\ f.pc = "read"
      /\ UNCHANGED <<accounts, messages, list, seen>>
  BY DEF MarkRead, post
<1>2. In(c)' = In(c) /\ TimesIn(c)' = TimesIn(c) /\ Members(c)' = Members(c) /\ Participates(u, c)'
  BY <1>1, MarkedIsRead DEF In, TimesIn, Participates
<1>3. /\ fetch'[u][c].pc = "answered" /\ fetch'[u][c].items = f.items /\ fetch'[u][c].asOf = {}
      /\ Fetching(u, c)'
  BY MarkReadAt, AbsentApart DEF Fetching
<1>4. list[u][c] \subseteq seen[u] /\ KeptAt(u, c) /\ ReadAt(u, c)
  BY <1>1 DEF ShownAt
<1>5. KeptAt(u, c)'
  BY <1>1, <1>2, <1>3, <1>4 DEF KeptAt, Held
<1>6. ReadAt(u, c)'
  BY <1>3 DEF ReadAt, Reading
<1>7. Shows(u, c, seen[u] \cup f.items)
  <2>1. CASE f.before = 0
    <3>1. TimesIn(c) \subseteq f.asOf
      BY <1>1, <2>1 DEF Overtaken
    <3> QED
      BY <1>1, <1>4, <2>1, <3>1 DEF ReadAt, Reading, Shows
  <2>2. CASE f.before # 0
    <3> SUFFICES ASSUME NEW m \in In(c), IsNewest(m, c), m.from # u
                 PROVE  \E n \in In(c) : IsNewest(n, c) /\ n.at \in seen[u]
      BY NewestIn DEF Shows
    <3>1. m.from \in Members(c)
      BY DEF Senders, In
    <3>2. list[u][c] \subseteq TimesIn(c)
      BY <1>4, <3>1 DEF KeptAt, Held
    <3>3. PICK s \in list[u][c] : ~(Ms[s] < Ms[m.at])
      BY <1>1, <2>2 DEF Overtaken, Newer, TimesIn
    <3>4. PICK n \in In(c) : n.at = s
      BY <3>2 DEF TimesIn
    <3>5. \A k \in In(c) : Ms[k.at] \in Nat
      BY InLive, TimesAreNat DEF In
    <3>6. IsNewest(n, c)
      BY <3>3, <3>4, <3>5 DEF IsNewest
    <3> QED
      BY <1>4, <3>4, <3>6
  <2> QED
    BY <2>1, <2>2
<1>8. MarkedAt(u, c)'
  BY <1>1, <1>2, <1>3, <1>7 DEF MarkedAt, Shows, IsNewest, Answered
<1> QED
  BY <1>1, <1>2, <1>4, <1>5, <1>6, <1>8 DEF ShownAt

\* ... and the rest brings no more than was on its way.
LEMMA WatchQuiet ==
  ASSUME TypeOK, NEW u \in Watchers, NEW c \in Watched, WatchStep(u, c),
         ~ReadPage(u, c), ~MarkRead(u, c), ~AnswerLost',
         seen[u] \subseteq seen'[u], list'[u][c] \subseteq seen'[u]
  PROVE  Same(u, c) /\ Quiet(u, c)
<1>1. Same(u, c)
  BY WatchersOnlyRead, UnchangedSame
<1> SUFFICES Quiet(u, c)
  BY <1>1
<1>2. CASE Expire(u, c)
  <2>1. list'[u][c] = {} /\ ~Fetching(u, c) /\ UNCHANGED fetch
    BY <1>2 DEF Expire, TypeOK
  <2> QED
    BY <2>1 DEF Quiet, Held, Answered, Reading, Fetching
<1>3. CASE Poll(u, c)
  BY <1>3, PollAt DEF Asked, Quiet, Held, Answered, Reading
<1>4. CASE LoadOlder(u, c)
  BY <1>4, LoadOlderAt, AbsentApart DEF Quiet, Held, Answered, Reading, Fetching
<1>5. CASE Merge(u, c)
  <2>1. Fetching(u, c) /\ fetch'[u][c] = Absent
    BY <1>5, EndsAt
  <2>2. list'[u][c] = list[u][c] \cup fetch[u][c].items /\ fetch[u][c].items \subseteq seen'[u]
    BY <1>5, MergedIsListed
  <2> QED
    BY <2>1, <2>2 DEF Quiet, Held, Answered, Reading, Fetching
<1>6. CASE FetchLost(u, c)
  <2>1. fetch'[u][c].pc = "lost" /\ fetch'[u][c] # Absent
    BY <1>6, FetchLostAt, AbsentApart
  <2> QED
    BY <2>1 DEF AnswerLost, Fetching
<1>7. CASE GiveUp(u, c)
  <2>1. fetch'[u][c] = Absent /\ list'[u][c] = list[u][c] /\ fetch[u][c].pc # "answered"
    <3>1. fetch[u][c].pc # "answered"
      BY <1>7 DEF GiveUp
    <3> QED
      BY <1>7, <3>1, EndsAt
  <2> QED
    BY <2>1 DEF Quiet, Held, Answered, Reading, Fetching
<1> QED
  BY <1>1, <1>2, <1>3, <1>4, <1>5, <1>6, <1>7 DEF WatchStep

\* The steps of the server: a message comes in, later than the marks of others ...
LEMMA InsertShown ==
  ASSUME TypeOK, Senders, NEW m \in sending, Insert(m), Participates(m.from, m.in), ~Covered,
         NEW u \in Watchers, NEW c \in Watched, ShownAt(u, c)
  PROVE  ShownAt(u, c)'
<1>1. /\ messages' = messages \cup {m} /\ UNCHANGED <<accounts, conversation, fetch, list, seen>>
      /\ m.in \in Live /\ m.from \in Members(m.in) /\ m.at \in Sent
  BY InsertAt DEF client
<1>2. Participates(u, c)' <=> Participates(u, c)
  BY <1>1 DEF Participates, Live, Members
<1>3. /\ Held(u, c)' = Held(u, c) /\ Answered(u, c)' = Answered(u, c)
      /\ Reading(u, c)' = Reading(u, c) /\ Members(c)' = Members(c)
  BY <1>1 DEF Held, Answered, Reading, Fetching, Members
<1>4. CASE m.in # c
  <2>1. Same(u, c)
    BY <1>1, <1>4 DEF Same, In, Live, Members
  <2>2. Quiet(u, c)
    BY <1>1, <1>3 DEF Quiet, ShownAt
  <2> QED
    BY <2>1, <2>2, QuietShown
<1>5. CASE m.in = c
  <2> SUFFICES ASSUME Participates(u, c)
               PROVE  KeptAt(u, c)' /\ ReadAt(u, c)' /\ MarkedAt(u, c)'
    BY <1>1, <1>2, <1>3 DEF ShownAt
  <2>1. KeptAt(u, c) /\ ReadAt(u, c) /\ MarkedAt(u, c)
    BY DEF ShownAt
  <2>2. In(c)' = In(c) \cup {m} /\ TimesIn(c)' = TimesIn(c) \cup {m.at}
    BY <1>1, <1>5 DEF In, TimesIn
  <2>3. \A n \in In(c) \cup {m} : Ms[n.at] \in Nat
    BY <1>1, InLive, TimesAreNat DEF In
  <2>4. KeptAt(u, c)'
    BY <1>3, <2>1, <2>2 DEF KeptAt
  \* It is the newest, or what was is.
  <2>5. ASSUME NEW S, Shows(u, c, S), m.from = u \/ m.at \in TimesIn(c)
        PROVE  In(c)' # {} => \E n \in In(c)' : (\A k \in In(c)' : Ms[k.at] <= Ms[n.at])
                                                 /\ (n.from = u \/ n.at \in S)
    <3>1. CASE \E n \in In(c) : IsNewest(n, c) /\ (n.from = u \/ n.at \in S) /\ Ms[m.at] <= Ms[n.at]
      BY <2>2, <3>1 DEF IsNewest
    <3>2. CASE In(c) = {}
      <4>1. m.from = u
        BY <2>5, <3>2 DEF TimesIn
      <4> QED
        BY <2>2, <2>3, <3>2, <4>1
    <3>3. ASSUME NEW n \in In(c), IsNewest(n, c), n.from = u \/ n.at \in S, ~(Ms[m.at] <= Ms[n.at])
          PROVE  /\ m.from = u
                 /\ \A k \in In(c)' : Ms[k.at] <= Ms[m.at]
      <4>1. Ms[n.at] < Ms[m.at]
        BY <2>3, <3>3
      <4>2. m.at \notin TimesIn(c)
        BY <3>3 DEF IsNewest, TimesIn
      <4>3. \A k \in In(c) : Ms[k.at] <= Ms[m.at]
        BY <2>3, <3>3, <4>1 DEF IsNewest
      <4>4. Ms[m.at] <= Ms[m.at]
        BY <2>3
      <4> QED
        BY <2>2, <2>5, <4>2, <4>3, <4>4
    <3> QED
      BY <2>2, <2>5, <3>1, <3>2, <3>3 DEF Shows
  <2>6. ReadAt(u, c)'
    <3> SUFFICES ASSUME Reading(u, c), TimesIn(c)' \subseteq fetch[u][c].asOf
                 PROVE  Shows(u, c, fetch[u][c].items)'
      BY <1>1, <1>3 DEF ReadAt
    <3>1. Shows(u, c, fetch[u][c].items)
      BY <2>1, <2>2 DEF ReadAt
    <3>2. m.from = u \/ m.at \in TimesIn(c)
      <4>1. fetch[u][c].asOf \subseteq Held(u, c)
        BY DEF Held, Reading
      <4>2. m.from # u => Held(u, c) \subseteq TimesIn(c)
        BY <1>1, <1>5, <2>1 DEF KeptAt
      <4> QED
        BY <2>2, <4>1, <4>2
    <3> QED
      BY <1>1, <2>5, <3>1, <3>2 DEF Shows, IsNewest
  <2>7. MarkedAt(u, c)'
    <3>1. Unread(u, c) \subseteq Unread(u, c)'
      BY <1>1, <2>2 DEF Unread
    <3>2. CASE m.from = u
      BY <1>1, <1>3, <2>1, <2>5, <3>1, <3>2 DEF MarkedAt, Shows, IsNewest
    <3>3. CASE m.from # u
      <4>1. ~(Ms[m.at] <= Ms[conversation[c][u]])
        BY <1>1, <1>5, <3>3 DEF Covered, Participates
      <4>2. Ms[conversation[c][u]] \in Nat
        BY LiveTypes, TimesAreNat DEF Participates
      <4>3. m \in Unread(u, c)'
        BY <1>1, <2>2, <2>3, <3>3, <4>1, <4>2 DEF Unread
      <4> QED
        BY <4>3 DEF MarkedAt
    <3> QED
      BY <3>2, <3>3
  <2> QED
    BY <2>4, <2>6, <2>7
<1> QED
  BY <1>4, <1>5

\* ... a thread is made ...
LEMMA CreateShown ==
  ASSUME TypeOK, NEW p \in Pairs, CreateConversation(p), p \subseteq accounts,
         NEW u \in Watchers, NEW c \in Watched, ShownAt(u, c)
  PROVE  ShownAt(u, c)'
<1>1. UNCHANGED <<accounts, messages, fetch, list, seen>>
  BY DEF CreateConversation, post, client
<1>2. PICK new \in Conversations \ Live : Live' = Live \cup {new} /\ Members(new)' = p
  BY CreatedIsLive
<1>3. In(c)' = In(c) /\ TimesIn(c)' = TimesIn(c)
  BY <1>1 DEF In, TimesIn
<1>4. /\ Held(u, c)' = Held(u, c) /\ Answered(u, c)' = Answered(u, c)
      /\ Reading(u, c)' = Reading(u, c)
  BY <1>1 DEF Held, Answered, Reading, Fetching
<1>5. CASE c # new
  <2>1. Same(u, c)
    BY <1>1, <1>2, <1>3, <1>5, CreatedIsLive DEF Same
  <2>2. Quiet(u, c)
    BY <1>1, <1>4 DEF Quiet, ShownAt
  <2> QED
    BY <2>1, <2>2, QuietShown
<1>6. CASE c = new
  <2>1. In(c) = {} /\ ~Participates(u, c)
    BY <1>2, <1>6, InLive DEF In, Participates
  <2>2. Held(u, c) = {} \/ u \notin accounts
    BY <2>1 DEF ShownAt
  <2>3. Participates(u, c)' => Held(u, c) = {}
    BY <1>2, <1>6, <2>2 DEF Participates
  <2>4. ReadAt(u, c)' /\ MarkedAt(u, c)'
    BY <1>3, <2>1 DEF ReadAt, MarkedAt, Shows
  <2>5. Participates(u, c)' => KeptAt(u, c)'
    BY <1>4, <2>3 DEF KeptAt
  <2> QED
    BY <1>1, <1>4, <2>2, <2>4, <2>5 DEF ShownAt
<1> QED
  BY <1>5, <1>6

\* ... and a user goes, with the messages that he sent.
LEMMA RemoveShown ==
  ASSUME TypeOK, Paired, Senders, EmptiedAlone, NEW v \in Users, Remove(v), TypeOK', Senders',
         NEW u \in Watchers, NEW c \in Watched, ShownAt(u, c)
  PROVE  ShownAt(u, c)'
<1> DEFINE gone == removing[v].emptied
<1>1. UNCHANGED <<fetch, list, seen>>
  BY DEF Remove, client
<1>2. /\ removing[v] # Absent /\ accounts' = accounts \ {v} /\ Live' = Live \ gone
      /\ messages' = {m \in messages : m.from # v /\ m.in \notin gone}
      /\ \A d \in Live' : Members(d)' = Members(d) \ {v}
      /\ \A d \in Live' : \A w \in Members(d)' : conversation'[d][w] = conversation[d][w]
  BY RemovedIsGone
<1>3. \A d \in gone : d \in Live /\ Members(d) = {v}
  BY <1>2 DEF EmptiedAlone
<1> HIDE DEF gone
<1>4. /\ Held(u, c)' = Held(u, c) /\ Answered(u, c)' = Answered(u, c)
      /\ Reading(u, c)' = Reading(u, c) /\ list'[u][c] \subseteq seen'[u]
  BY <1>1 DEF Held, Answered, Reading, Fetching, ShownAt
<1>5. CASE u = v \/ c \in gone
  <2>1. ~Participates(u, c)'
    BY <1>2, <1>5 DEF Participates
  <2>2. Held(u, c) # {} /\ u \in accounts' => FALSE
    BY <1>2, <1>3, <1>5 DEF ShownAt, Participates
  <2> QED
    BY <1>4, <2>1, <2>2 DEF ShownAt
<1>6. CASE u # v /\ c \notin gone /\ ~Participates(v, c)
  <2>1. In(c)' = In(c)
    <3>1. \A m \in messages : m.in = c => m.from # v
      BY <1>6, InLive DEF Senders, Participates
    <3> QED
      BY <1>2, <1>6, <3>1 DEF In
  <2>2. Same(u, c)
    BY <1>2, <1>6, <2>1 DEF Same, Participates
  <2>3. Quiet(u, c)
    BY <1>1, <1>4 DEF Quiet
  <2> QED
    BY <2>2, <2>3, QuietShown
<1>7. CASE u # v /\ c \notin gone /\ Participates(v, c)
  <2>1. c \in Live /\ c \in Live' /\ v \in Members(c) /\ Members(c)' = Members(c) \ {v}
    BY <1>2, <1>7 DEF Participates
  <2>2. Participates(u, c)' <=> Participates(u, c)
    BY <1>7, <2>1 DEF Participates
  <2>3. Held(u, c)' # {} /\ u \in accounts' => Participates(u, c)'
    BY <1>2, <1>4, <2>2 DEF ShownAt
  <2> SUFFICES ASSUME u \in Members(c)
               PROVE  KeptAt(u, c)' /\ ReadAt(u, c)' /\ MarkedAt(u, c)'
    BY <1>4, <2>2, <2>3 DEF ShownAt, Participates
  <2>4. Members(c)' = {u}
    <3>1. PICK p \in Pairs : Members(c) \subseteq p
      BY <2>1 DEF Paired
    <3>2. p = {u, v}
      BY <1>7, <2>1, <3>1, PairIs
    <3> QED
      BY <1>7, <2>1, <3>1, <3>2
  <2>5. \A m \in In(c)' : m.from = u
    BY <2>4 DEF Senders, In
  <2>6. \A S : Shows(u, c, S)'
    <3> SUFFICES ASSUME NEW S PROVE Shows(u, c, S)'
      OBVIOUS
    <3>1. In(c)' # {} => \E m \in In(c)' : IsNewest(m, c)'
      <4>1. TimesIn(c)' \in SUBSET Sent
        BY DEF TypeOK, TimesIn, In
      <4>2. In(c)' # {} => TimesIn(c)' # {}
        BY DEF TimesIn
      <4>3. ASSUME In(c)' # {}
            PROVE  \E t \in TimesIn(c)' : \A s \in TimesIn(c)' : Ms[s] <= Ms[t]
        BY <4>1, <4>2, <4>3, NewestFound
      <4> QED
        BY <4>3 DEF TimesIn, IsNewest
    <3> QED
      BY <2>5, <3>1 DEF Shows
  <2>7. KeptAt(u, c)'
    BY <2>4 DEF KeptAt
  <2> QED
    BY <2>6, <2>7 DEF ReadAt, MarkedAt
<1> QED
  BY <1>5, <1>6, <1>7

LEMMA NextShown ==
  TypeOK /\ Paired /\ Senders /\ EmptiedAlone /\ Older /\ Shown
    /\ ~Overtaken /\ ~Covered /\ ~AnswerLost' /\ [Next]_vars => Shown'
<1> SUFFICES ASSUME TypeOK, Paired, Senders, EmptiedAlone, Older, Shown,
                    ~Overtaken, ~Covered, ~AnswerLost', [Next]_vars,
                    NEW u \in Watchers, NEW c \in Watched
             PROVE  ShownAt(u, c)'
  BY DEF Shown
<1>1. ShownAt(u, c) /\ OlderAt(u, c)
  BY DEF Shown, Older
<1>2. seen[u] \subseteq seen'[u] /\ list'[u][c] \subseteq seen'[u]
  BY <1>1, NextSeen DEF ShownAt
<1>3. CASE WatchStep(u, c)
  BY <1>1, <1>2, <1>3, ReadPageShown, MarkReadShown, WatchQuiet, QuietShown
<1>4. CASE Asked(u, c, 0) /\ UNCHANGED <<accounts, conversation, messages>>
  <2>1. Quiet(u, c)
    BY <1>2, <1>4 DEF Asked, Quiet, Held, Answered, Reading
  <2> QED
    BY <1>1, <1>4, <2>1, UnchangedSame, QuietShown
<1>5. CASE Left(u, c) /\ UNCHANGED <<accounts, conversation, messages>>
  <2>1. Quiet(u, c)
    BY <1>2, <1>5, AbsentApart DEF Left, Quiet, Held, Answered, Reading, Fetching
  <2> QED
    BY <1>1, <1>5, <2>1, UnchangedSame, QuietShown
<1>6. CASE Idle(u, c) /\ ~WatchStep(u, c)
  <2>1. Quiet(u, c)
    BY <1>2, <1>6, IdleQuiet
  <2>2. UNCHANGED <<accounts, conversation, messages, reached>> => ShownAt(u, c)'
    BY <1>1, <2>1, UnchangedSame, QuietShown
  <2>3. ASSUME NEW v \in Watchers, NEW d \in Watched, MarkRead(v, d)
        PROVE  ShownAt(u, c)'
    <3>1. u # v \/ c # d
      BY <1>6, <2>3 DEF WatchStep
    <3>2. UNCHANGED <<accounts, messages>>
      BY <2>3 DEF MarkRead, post
    <3>3. Same(u, c)
      BY <2>3, <3>1, <3>2, MarkedIsRead DEF Same, In
    <3> QED
      BY <1>1, <2>1, <3>3, QuietShown
  <2>4. ASSUME NEW v \in Users, Remove(v) PROVE ShownAt(u, c)'
    BY <1>1, <2>4, NextTypeOK, NextSenders, RemoveShown
  <2> QED
    BY <1>1, <2>2, <2>3, <2>4, InsertShown, CreateShown, ServerMoves
<1> QED
  BY <1>3, <1>4, <1>5, <1>6, ThreadMoves

LEMMA ShownIsRead == TypeOK /\ Shown => ReadWasShown
<1> SUFFICES ASSUME TypeOK, Shown, NEW u \in Watchers, NEW c \in Live \cap Watched,
                    Participates(u, c), ~Fetching(u, c), Unread(u, c) = {}, In(c) # {}
             PROVE  \E m \in In(c) : /\ \A n \in In(c) : Ms[n.at] <= Ms[m.at]
                                      /\ (m.from = u \/ m.at \in seen[u])
  BY DEF ReadWasShown
<1>1. Shows(u, c, seen[u])
  BY DEF Shown, ShownAt, MarkedAt, Answered
<1> QED
  BY <1>1 DEF Shows, IsNewest

\* For any number of users and messages: as long as no message overtakes a page or a
\* mark, no poll that repeats a cursor has something newer to leave out, and no answer
\* is lost, a thread without unread messages had a newest one on its reader's screen,
\* or that one is his own, deletions and new threads included (getMessages,
\* buildConversationSummaries).
THEOREM ReadWasOnTheScreen == Spec => TurnsReadWasShown
<1> DEFINE I == TypeOK /\ Paired /\ Senders /\ EmptiedAlone /\ Older /\ Shown
           Q == ~Overtaken /\ ~Covered /\ ~AnswerLost
<1>1. Init => I
  <2>1. Init => /\ Live = {} /\ messages = {} /\ \A u \in Users : removing[u] = Absent
                /\ \A u \in Watchers, c \in Watched :
                     fetch[u][c] = Absent /\ list[u][c] = {} /\ cursor[u][c] = 0
    BY MessagingAssumption DEF Init, Live
  <2> QED
    BY <2>1, InitTypeOK
    DEF Paired, Senders, EmptiedAlone, Older, OlderAt, Shown, ShownAt, Held, Participates, Fetching
<1>2. I /\ Q /\ Q' /\ [Next]_vars => I'
  BY NextTypeOK, NextPaired, NextSenders, NextEmptiedAlone, NextOlder, NextShown
<1>3. I => ReadWasShown
  BY ShownIsRead
<1> HIDE DEF I
<1>4. Spec /\ []Q => []ReadWasShown
  BY <1>1, <1>2, <1>3, PTL DEF Spec
<1> QED
  BY <1>4 DEF TurnsReadWasShown
=============================================================================

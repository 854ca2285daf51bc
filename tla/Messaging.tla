----------------------------- MODULE Messaging -----------------------------
(***************************************************************************)
(* Conversations of two (messages.service.ts): finding or creating one,     *)
(* sending, reading a page and what counts as unread; what is left of them  *)
(* when a member is deleted (cascade-delete.ts); and the page that shows a  *)
(* thread (use-messaging.ts, messagesApi.ts): one growing list for each     *)
(* conversation, fed by a poll of its newest messages and by "Load older".  *)
(*                                                                         *)
(* Time is counted in instants, of which several may be in one millisecond; *)
(* a message is the instant at which it was stamped, by whom and where, and *)
(* may come into the database later than others that were stamped after it. *)
(* Its text, and the names in a list, are left out.  The sort at every      *)
(* reading makes the client's list a set.                                   *)
(***************************************************************************)
EXTENDS Integers, FiniteSets

CONSTANTS
  Students, Supervisors, Coordinators,  \* the users, by role
  Place,          \* the establishment of a student or supervisor, or NoPlace
  NoPlace,
  Conversations,  \* ids
  MaxCreating,    \* creations of one conversation at once; bounds the runs
  Watchers,       \* users with the messages page open in a browser
  Watched,        \* the conversations they look at; bounds the runs
  Page,           \* MESSAGE_PAGE_SIZE
  Ms,             \* the millisecond of an instant, which is all that is stored
  MaxTime,        \* instants
  MaxMessages,    \* of each user at once; both bound the runs
  Absent          \* no row, no conversation, no fetch

Users == Students \cup Supervisors \cup Coordinators

Sent == 1 .. MaxTime
Time == 0 .. MaxTime   \* 0: never

ASSUME MessagingAssumption ==
  /\ Page \in Nat \ {0}
  /\ MaxCreating \in Nat /\ MaxMessages \in [Users -> Nat]
  /\ MaxTime \in Nat \ {0}
  /\ Ms \in [Time -> Nat] /\ \A s, t \in Time : s <= t => Ms[s] <= Ms[t]
  /\ Watchers \subseteq Users
  /\ Watched \subseteq Conversations
  /\ IsFiniteSet(Users)

VARIABLES
  accounts,      \* users that exist
  conversation,  \* the members of each, and what time each last read it; or Absent
  messages,      \* what others can read
  sending,       \* messages stamped and not in the database yet
  clock,         \* the instant of the last stamp
  reached,       \* the newest instant of a message that was readable (history)
  creating,      \* how many handlers are about to create one, for each pair
  removing,      \* the deletion of a user that is under way, or Absent
  fetch,         \* the request for a page that fills a watcher's list, or Absent
  list,          \* messagesApi's cache: the instants of the messages in it
  cursor,        \* with which the entry was last asked for, or 0
  page,          \* useMessaging's state for each watcher
  seen           \* instants of the messages that ever were in a list (history)

handlers == <<creating, removing>>
post == <<messages, sending, clock, reached>>
client == <<fetch, list, cursor, page, seen>>
vars == <<accounts, conversation, post, handlers, client>>

Memberships == UNION {[S -> Time] : S \in SUBSET Users}
Live == {c \in Conversations : conversation[c] # Absent}
Members(c) == DOMAIN conversation[c]
Participates(u, c) == c \in Live /\ u \in Members(c)

In(c) == {m \in messages : m.in = c}
TimesIn(c) == {m.at : m \in In(c)}

\* createdAt orders messages, and nothing does those of one millisecond.
Oldest(S) == {t \in S : \A s \in S : Ms[t] <= Ms[s]}
Newer(c, S) == {t \in TimesIn(c) : \A s \in S : Ms[s] < Ms[t]}

Pairs == {S \in SUBSET Users : Cardinality(S) = 2}

\* emptied: the conversations that it takes along.
Removals == [emptied : SUBSET Conversations]

Pages == [open : Watched \cup {Absent}, paged : BOOLEAN, more : BOOLEAN,
          asked : Watched \cup {Absent}]

\* before: the cursor, or 0.  asOf: what there was when the newest page was read,
\* until it is marked.  older: whether it is what a click on "Load older" asked
\* for.  waiting: how long the list was at a click that this fetch answers, or -1.
Fetches == [pc : {"asked", "read", "answered", "lost"}, before : Time,
            items : SUBSET Sent, asOf : SUBSET Sent, older : BOOLEAN,
            waiting : -1 .. MaxTime]

ASSUME AbsentAssumption ==
  Absent \notin Conversations \cup Memberships \cup Removals \cup Fetches

TypeOK ==
  /\ accounts \subseteq Users
  /\ conversation \in [Conversations -> Memberships \cup {Absent}]
  /\ \A c \in Live : Members(c) \subseteq accounts
  /\ messages \subseteq [in : Live, from : accounts, at : Sent]
  /\ sending \subseteq [in : Conversations, from : Users, at : Sent]
  /\ clock \in Time /\ reached \in Time
  /\ creating \in [Pairs -> 0 .. MaxCreating]
  /\ removing \in [Users -> Removals \cup {Absent}]
  /\ fetch \in [Watchers -> [Watched -> Fetches \cup {Absent}]]
  /\ list \in [Watchers -> [Watched -> SUBSET Sent]]
  /\ cursor \in [Watchers -> [Watched -> Time]]
  /\ page \in [Watchers -> Pages]
  /\ seen \in [Watchers -> SUBSET Sent]

Init ==
  /\ accounts = Users
  /\ conversation = [c \in Conversations |-> Absent]
  /\ messages = {} /\ sending = {}
  /\ clock = 0 /\ reached = 0
  /\ creating = [p \in Pairs |-> 0]
  /\ removing = [u \in Users |-> Absent]
  /\ fetch = [u \in Watchers |-> [c \in Watched |-> Absent]]
  /\ list = [u \in Watchers |-> [c \in Watched |-> {}]]
  /\ cursor = [u \in Watchers |-> [c \in Watched |-> 0]]
  /\ page = [u \in Watchers |->
               [open |-> Absent, paged |-> FALSE, more |-> TRUE, asked |-> Absent]]
  /\ seen = [u \in Watchers |-> {}]

-----------------------------------------------------------------------------
\* Conversations and messages.

\* getContacts.
Contacts(u) ==
  accounts \cap
    CASE u \in Students ->
           Coordinators \cup {v \in Supervisors : Place[u] # NoPlace /\ Place[v] = Place[u]}
      [] u \in Supervisors -> Coordinators \cup {v \in Students : Place[v] = Place[u]}
      [] u \in Coordinators -> Students \cup Supervisors

BrokenBetween(u, v) ==   \* compares the whole membership with the caller's alone
  {c \in Live : Members(c) = {u}}
\* findFirst: some participant is the one, and some the other.
Between(u, v) == {c \in Live : {u, v} \subseteq Members(c)}

\* findOrCreateConversation: looked up ...
FindConversation(u, v) ==
  /\ u \in accounts
  /\ v \in Contacts(u)
  /\ Between(u, v) = {}
  /\ creating[{u, v}] < MaxCreating
  /\ creating' = [creating EXCEPT ![{u, v}] = @ + 1]
  /\ UNCHANGED <<accounts, conversation, post, removing, client>>

\* New rows that refer to these users: their deletion, if it is under way, is going
\* to fail for them, and all of it to be rolled back.
Affects(S) == removing' = [u \in Users |-> IF u \in S THEN Absent ELSE removing[u]]

\* A new id: which one does not matter.
NewConversation == CHOOSE c \in Conversations : c \notin Live

\* ... and created; the rows of both members refer to their accounts.
CreateConversation(p) ==
  /\ creating[p] > 0
  /\ creating' = [creating EXCEPT ![p] = @ - 1]
  /\ IF p \subseteq accounts
     THEN /\ Live # Conversations
          /\ conversation' = [conversation EXCEPT ![NewConversation] = [u \in p |-> 0]]
          /\ Affects(p)
     ELSE UNCHANGED <<conversation, removing>>
  /\ UNCHANGED <<accounts, post, client>>

\* sendMessage: who may send is checked, the message is stamped with now() ...
Send(u, c) ==
  /\ Participates(u, c)
  /\ Cardinality({m \in messages \cup sending : m.from = u}) < MaxMessages[u]
  /\ \E t \in Sent : /\ t > clock
                     /\ clock' = t
                     /\ sending' = sending \cup {[in |-> c, from |-> u, at |-> t]}
  /\ UNCHANGED <<accounts, conversation, messages, reached, handlers, client>>

\* ... and inserted, unless its sender or its conversation is gone by then: a
\* foreign key.
Insert(m) ==
  /\ m \in sending
  /\ sending' = sending \ {m}
  /\ IF Participates(m.from, m.in)
     THEN /\ messages' = messages \cup {m}
          /\ reached' = IF reached < m.at THEN m.at ELSE reached
          /\ Affects({m.from})
     ELSE UNCHANGED <<messages, reached, removing>>
  /\ UNCHANGED <<accounts, conversation, clock, creating, client>>

-----------------------------------------------------------------------------
\* deleteMessagingFootprint and the deletion of its user, in one transaction.

\* The conversations that have nobody in them without u, as this transaction sees it.
Emptied(u) == {c \in Live : Members(c) = {u}}

BeginRemove(u) ==
  /\ u \in accounts
  /\ removing[u] = Absent
  /\ removing' = [removing EXCEPT ![u] = [emptied |-> Emptied(u)]]
  /\ UNCHANGED <<accounts, conversation, post, creating, client>>

Without(u, c) == [v \in Members(c) \ {u} |-> conversation[c][v]]

Remove(u) ==
  /\ removing[u] # Absent
  /\ accounts' = accounts \ {u}
  /\ messages' = {m \in messages : m.from # u /\ m.in \notin removing[u].emptied}
  /\ conversation' = [c \in Conversations |->
       IF c \in removing[u].emptied THEN Absent
       ELSE IF Participates(u, c) THEN Without(u, c)
       ELSE conversation[c]]
  /\ removing' = [removing EXCEPT ![u] = Absent]
  /\ UNCHANGED <<sending, clock, reached, creating, client>>

\* A crash, a lost connection or the transaction's timeout.  A message that never
\* comes in stays in "sending".
RequestLost ==
  /\ \/ \E p \in Pairs : /\ creating[p] > 0
                          /\ creating' = [creating EXCEPT ![p] = @ - 1]
                          /\ UNCHANGED removing
     \/ \E u \in Users : /\ removing[u] # Absent
                          /\ removing' = [removing EXCEPT ![u] = Absent]
                          /\ UNCHANGED creating
  /\ UNCHANGED <<accounts, conversation, post, client>>

-----------------------------------------------------------------------------
\* A page of messages: asked for by the client, read and marked by the server.

Fetching(u, c) == fetch[u][c] # Absent

Sets(u, c, f) == fetch' = [fetch EXCEPT ![u][c] = f]

\* A request for an entry: it leaves its cursor there.
Ask(u, c, before, older, waiting) ==
  /\ Sets(u, c, [pc |-> "asked", before |-> before, items |-> {}, asOf |-> {},
                 older |-> older, waiting |-> waiting])
  /\ cursor' = [cursor EXCEPT ![u][c] = before]

\* The list cannot be opened twice: opening resets what belongs to the thread.
Opened(c, asked) == [open |-> c, paged |-> FALSE, more |-> TRUE, asked |-> asked]

\* onSelectConversation and onBackToList.  An entry that was last asked for with a
\* cursor is asked for without (forceRefetch), unless a request for it runs.
SelectConversation(u, c) ==
  /\ c # page[u].open
  /\ c # Absent => Participates(u, c)
  /\ page' = [page EXCEPT ![u] = Opened(c, @.asked)]
  /\ IF c \in Watched /\ cursor[u][c] # 0 /\ ~Fetching(u, c)
     THEN Ask(u, c, 0, FALSE, -1)
     ELSE UNCHANGED <<fetch, cursor>>
  /\ UNCHANGED <<accounts, conversation, post, handlers, list, seen>>

\* Another page of the site is opened, and nobody waits for an answer any more.
LeaveMessages(u) ==
  /\ page[u] # Opened(Absent, Absent)
  /\ page' = [page EXCEPT ![u] = Opened(Absent, Absent)]
  /\ fetch' = [fetch EXCEPT ![u] =
       [c \in Watched |-> IF @[c] = Absent THEN Absent ELSE [@[c] EXCEPT !.waiting = -1]]]
  /\ UNCHANGED <<accounts, conversation, post, handlers, list, cursor, seen>>

\* The entry of a thread that is neither open nor the last that an older page was
\* asked of is kept for a while, then dropped.
Expire(u, c) ==
  /\ c \notin {page[u].open, page[u].asked}
  /\ (list[u][c] # {} \/ cursor[u][c] # 0) /\ ~Fetching(u, c)
  /\ list' = [list EXCEPT ![u][c] = {}]
  /\ cursor' = [cursor EXCEPT ![u][c] = 0]
  /\ UNCHANGED <<accounts, conversation, post, handlers, fetch, page, seen>>

\* Every three seconds, and after a message was sent from a thread that may have
\* been left since; never while a request for the entry runs.  The last request is
\* repeated, with its cursor.
Poll(u, c) ==
  /\ c # Absent /\ c \in {page[u].open, page[u].asked}
  /\ ~Fetching(u, c)
  /\ Ask(u, c, cursor[u][c], FALSE, -1)
  /\ UNCHANGED <<accounts, conversation, post, handlers, list, page, seen>>

\* hasMoreOlder.
HasMoreOlder(u, c) == IF page[u].paged THEN page[u].more
                      ELSE Cardinality(list[u][c]) = Page

\* handleLoadOlder.  Until the first click its hook does not see that a poll is
\* under way; the click is then answered by that poll.
LoadOlder(u, c) ==
  /\ c = page[u].open /\ c # Absent
  /\ list[u][c] # {}
  /\ HasMoreOlder(u, c)
  /\ LET before == Cardinality(list[u][c])
     IN  \/ /\ ~Fetching(u, c)
            /\ \E t \in Oldest(list[u][c]) : Ask(u, c, t, TRUE, before)
         \/ /\ Fetching(u, c) /\ page[u].asked # c
            /\ Sets(u, c, [fetch[u][c] EXCEPT !.waiting = before])
            /\ UNCHANGED cursor
  /\ page' = [page EXCEPT ![u].asked = c]
  /\ UNCHANGED <<accounts, conversation, post, handlers, list, seen>>

\* The newest of these, as many as fit a page; any of those that tie for its end.
PagesOf(these) ==
  {S \in SUBSET these : /\ \A t \in S, s \in these \ S : Ms[s] <= Ms[t]
                        /\ S = these \/ Cardinality(S) = Page
                        /\ Cardinality(S) <= Page}

BrokenWindows(c, before) ==   \* takes the cursor's own millisecond again
  PagesOf({t \in TimesIn(c) : before = 0 \/ Ms[t] <= Ms[before]})
BrokenSkip(c, before) ==   \* skips the millisecond next to the cursor
  PagesOf({t \in TimesIn(c) : before = 0 \/ Ms[t] < Ms[before] - 1})
BrokenOldestFirst(c, before) ==   \* orders upwards
  LET these == {t \in TimesIn(c) : before = 0 \/ Ms[t] < Ms[before]}
  IN  {S \in SUBSET these : /\ \A t \in S, s \in these \ S : Ms[t] <= Ms[s]
                            /\ S = these \/ Cardinality(S) = Page
                            /\ Cardinality(S) <= Page}
\* The newest messages, of those before the cursor if there is one.
Windows(c, before) ==
  PagesOf({t \in TimesIn(c) : before = 0 \/ Ms[t] < Ms[before]})

\* getMessages: the page is read ...
ReadPage(u, c) ==
  /\ Fetching(u, c) /\ fetch[u][c].pc = "asked"
  /\ Participates(u, c)
  /\ fetch[u][c].before \in TimesIn(c) \cup {0}
  /\ \E items \in Windows(c, fetch[u][c].before) :
       Sets(u, c, [fetch[u][c] EXCEPT !.pc = "read", !.items = items,
                     !.asOf = IF fetch[u][c].before = 0 THEN TimesIn(c) ELSE {}])
  /\ UNCHANGED <<accounts, conversation, post, handlers, list, cursor, page, seen>>

\* ... and then the thread is marked as read until now: the last stamp stands for
\* the time since.
MarkRead(u, c) ==
  /\ Fetching(u, c) /\ fetch[u][c].pc = "read"
  /\ Participates(u, c)
  /\ conversation' = [conversation EXCEPT ![c][u] = clock]
  /\ Sets(u, c, [fetch[u][c] EXCEPT !.pc = "answered", !.asOf = {}])
  /\ UNCHANGED <<accounts, post, handlers, list, cursor, page, seen>>

BrokenGrowth(before, after) == after   \* forgets what was there before
\* What a click on "Load older" takes for the length of its page.
Growth(before, after) == after - before

\* merge, and the end of a handleLoadOlder that waits for it, whatever is open by now.
Merge(u, c) ==
  /\ Fetching(u, c) /\ fetch[u][c].pc = "answered"
  /\ LET merged == list[u][c] \cup fetch[u][c].items
         waiting == fetch[u][c].waiting
     IN  /\ list' = [list EXCEPT ![u][c] = merged]
         /\ seen' = [seen EXCEPT ![u] = @ \cup merged]
         /\ page' = IF waiting = -1 THEN page
                    ELSE [page EXCEPT
                           ![u].paged = TRUE,
                           ![u].more = Growth(waiting, Cardinality(merged)) = Page]
  /\ Sets(u, c, Absent)
  /\ UNCHANGED <<accounts, conversation, post, handlers, cursor>>

\* The request or its answer is lost ...
FetchLost(u, c) ==
  /\ Fetching(u, c) /\ fetch[u][c].pc \in {"asked", "answered"}
  /\ Sets(u, c, [fetch[u][c] EXCEPT !.pc = "lost", !.items = {}])
  /\ UNCHANGED <<accounts, conversation, post, handlers, list, cursor, page, seen>>

\* ... or the server refuses it: a member, the conversation or the cursor's
\* message is gone.  The list stays as it is.
GiveUp(u, c) ==
  /\ Fetching(u, c)
  /\ \/ fetch[u][c].pc = "lost"
     \/ fetch[u][c].pc \in {"asked", "read"} /\ ~Participates(u, c)
     \/ fetch[u][c].pc = "asked" /\ fetch[u][c].before \notin TimesIn(c) \cup {0}
  /\ Sets(u, c, Absent)
  /\ UNCHANGED <<accounts, conversation, post, handlers, list, cursor, page, seen>>

HandlerStep ==
  \/ \E u, v \in Users : FindConversation(u, v)
  \/ \E p \in Pairs : CreateConversation(p)
  \/ \E u \in Users, c \in Conversations : Send(u, c)
  \/ \E m \in sending : Insert(m)
  \/ \E u \in Users : BeginRemove(u) \/ Remove(u)
  \/ RequestLost

WatchStep(u, c) ==
  \/ Expire(u, c) \/ Poll(u, c) \/ LoadOlder(u, c)
  \/ ReadPage(u, c) \/ MarkRead(u, c) \/ Merge(u, c)
  \/ FetchLost(u, c) \/ GiveUp(u, c)

Next ==
  \/ HandlerStep
  \/ \E u \in Watchers :
       \/ \E c \in Watched \cup {Absent} : SelectConversation(u, c)
       \/ LeaveMessages(u)
       \/ \E c \in Watched : WatchStep(u, c)

Spec == Init /\ [][Next]_vars

-----------------------------------------------------------------------------
\* Properties.

\* A page that a click on "Load older" asked for brings only what is older than the
\* whole list ("Always strictly older than everything already cached"), and nothing
\* else comes into the list while it is under way: its growth is the length of that
\* page (merge, handleLoadOlder).
OlderPageApart ==
  \A u \in Watchers, c \in Watched :
    Fetching(u, c) /\ fetch[u][c].older
    => /\ fetch[u][c].waiting \in {Cardinality(list[u][c]), -1}
       /\ \A t \in fetch[u][c].items, s \in list[u][c] : Ms[t] < Ms[s]

TakeTurns ==
  /\ \A p \in Pairs : creating[p] <= 1
  /\ \A u, v \in Users : removing[u] # Absent /\ removing[v] # Absent => u = v

\* When no two creations and no two deletions run at once, two users share one
\* conversation at most, however often either of them starts it, and it lasts
\* exactly as long as one of them does (findOrCreateConversation, "Idempotent";
\* deleteMessagingFootprint).
OnePerPair ==
  \A c, d \in Live :
    Members(c) # {} /\ (Members(c) = Members(d) /\ Cardinality(Members(c)) = 2 => c = d)

TurnsOnePerPair == []TakeTurns => []OnePerPair

\* A message came in between the reading of a page and the mark, or, when the page
\* was asked for with a cursor, after what the list ends with.
Overtaken ==
  \E u \in Watchers, c \in Watched :
    LET f == fetch[u][c]
    IN  /\ Fetching(u, c) /\ f.pc = "read"
        /\ IF f.before = 0 THEN ~(TimesIn(c) \subseteq f.asOf)
           ELSE Newer(c, list[u][c]) # {}

AnswerLost ==
  \E u \in Watchers, c \in Watched : Fetching(u, c) /\ fetch[u][c].pc = "lost"

\* A mark reaches a message that is still on its way.
Covered ==
  \E m \in sending : m.in \in Live /\ \E u \in Members(m.in) :
    u # m.from /\ Ms[m.at] <= Ms[conversation[m.in][u]]

\* A message on its way is older than one that was readable.
Belated == \E m \in sending : Ms[m.at] < Ms[reached]

Unread(u, c) == {m \in In(c) : m.from # u /\ Ms[m.at] > Ms[conversation[c][u]]}

\* Of a thread without unread messages a newest one was in its reader's list,
\* unless it is his own or still on its way.
ReadWasShown ==
  \A u \in Watchers, c \in Live \cap Watched :
    Participates(u, c) /\ ~Fetching(u, c) /\ Unread(u, c) = {} /\ In(c) # {}
    => \E m \in In(c) : /\ \A n \in In(c) : Ms[n.at] <= Ms[m.at]
                         /\ (m.from = u \/ m.at \in seen[u])

\* The badge tells the truth as long as no message overtakes a page or a mark, no
\* poll that repeats a cursor has something newer to leave out, and no answer is
\* lost (getMessages, buildConversationSummaries).
TurnsReadWasShown == [](~Overtaken /\ ~Covered /\ ~AnswerLost) => []ReadWasShown

\* Between two polls for the newest no more than a page comes in.
KeepsUp ==
  \A u \in Watchers, c \in Watched :
    list[u][c] # {} => Cardinality(Newer(c, list[u][c])) <= Page

\* Between the milliseconds of two messages of the list there is none that a message
\* has and the list has not.
NoHole ==
  \A u \in Watchers, c \in Watched :
    \A t \in TimesIn(c), first, last \in list[u][c] :
      Ms[first] <= Ms[t] /\ Ms[t] <= Ms[last]
      => \E s \in list[u][c] : Ms[s] = Ms[t]

\* As long as messages are readable in the order of their stamps, the list has no
\* hole but among messages of one millisecond, however polls, with and without a
\* cursor, and older pages are mixed (merge, "history paged in manually survives a
\* later poll").
TurnsNoHole == [](KeepsUp /\ ~Belated) => []NoHole

\* A click is answered by a poll, or after its thread was left.
Crossed ==
  \E u \in Watchers, c \in Watched :
    /\ Fetching(u, c) /\ fetch[u][c].waiting # -1
    /\ ~fetch[u][c].older \/ page[u].open # c

\* "Load older" disappears only when there is nothing older, once it was used,
\* if clicks do not cross polls or a change of the thread, and messages are readable
\* in the order of their stamps (handleLoadOlder).
NothingHidden ==
  \A u \in Watchers :
    LET c == page[u].open
    IN  c # Absent /\ page[u].paged /\ ~page[u].more
        => \A t \in TimesIn(c) : \E s \in list[u][c] : Ms[s] <= Ms[t]

TurnsNothingHidden == [](~Crossed /\ ~Belated) => []NothingHidden

=============================================================================

---------------------------- MODULE AddressForm -----------------------------
(***************************************************************************)
(* The address of an establishment as the coordinator's page edits it      *)
(* (use-establishment.ts, EstablishmentForm.tsx) and as the server keeps   *)
(* it (establishment.service.ts).                                          *)
(*                                                                         *)
(* An address is four names, each inside the one before: region, province, *)
(* city, barangay.  The form keeps it twice, as the names that it sends    *)
(* and as the places picked in four selects; React effects load the        *)
(* options of a select and clear it when the one above it changes, except  *)
(* while a stored address is being restored.                               *)
(*                                                                         *)
(* Names that Directory has too are prefixed with Form: one module proves  *)
(* theorems about both.                                                    *)
(***************************************************************************)
EXTENDS Naturals, FiniteSets

CONSTANTS
  Places,            \* of the address list (@aivangogh/ph-address)
  LevelOf,           \* which select offers a place
  ParentOf,          \* the place that it is inside of
  NameOf,            \* as it is stored; places of one level may share a name
  PlaceNames, NoName, NoPlace,
  Rows, Nobody, NoRow,
  Before,            \* addresses of rows from before
  MaxCalls           \* submissions; bounds the runs

Levels == 1 .. 4

At(l) == {p \in Places : LevelOf[p] = l}

Addresses == [Levels -> PlaceNames \cup {NoName}]

Picks == [Levels -> Places \cup {NoPlace}]

NoAddress == [l \in Levels |-> NoName]

NoPick == [l \in Levels |-> NoPlace]

\* A place, with those that it is inside of, in the selects; or no place.
Chains ==
  {c \in Picks : \A l \in Levels :
     c[l] # NoPlace => LevelOf[c[l]] = l /\ (l > 1 => ParentOf[c[l]] = c[l - 1])}

\* The names of a place and of those that it is inside of.
Nested ==
  {[l \in Levels |-> IF c[l] = NoPlace THEN NoName ELSE NameOf[c[l]]] : c \in Chains}

AddressList ==
  /\ LevelOf \in [Places -> Levels]
  /\ ParentOf \in [Places -> Places \cup {NoPlace}]
  /\ NameOf \in [Places -> PlaceNames]
  /\ NoPlace \notin Places /\ NoName \notin PlaceNames /\ Nobody \notin Rows
  /\ \A p \in Places : IF LevelOf[p] = 1 THEN ParentOf[p] = NoPlace
                       ELSE /\ ParentOf[p] # NoPlace
                            /\ LevelOf[ParentOf[p]] = LevelOf[p] - 1
  /\ Before \in SUBSET Nested
  /\ MaxCalls \in Nat

ASSUME AddressAssumption == AddressList

VARIABLES
  stored,    \* the address columns of the Establishment rows, NoRow where none
  listed,    \* the rows as the page has them
  dialog,    \* the form: open or not, the row it edits, names and picks
  options,   \* what each select offers
  ran,       \* what the effects last ran for, and isPopulatingRef
  call,      \* the create or update in flight
  calls,     \* submissions so far
  halved     \* history: the rows that a write left half an address in

formVars == <<stored, listed, dialog, options, ran, call, calls, halved>>

NoCall == [pc |-> "idle", at |-> Nobody, body |-> NoAddress]

\* editTarget: the row as the list had it.
Targets == [at : Rows, row : Addresses]

NoTarget == [at |-> Nobody, row |-> NoAddress]

Under(p) == IF p = NoPlace THEN {} ELSE {q \in Places : ParentOf[q] = p}

FormTypeOK ==
  /\ stored \in [Rows -> Addresses \cup {NoRow}]
  /\ listed \in [Rows -> Addresses \cup {NoRow}]
  /\ dialog \in [open : BOOLEAN, target : Targets \cup {NoTarget},
                 form : Addresses, selected : Picks]
  /\ options \in [Levels -> SUBSET Places]
  /\ ran \in [selected : Picks, target : Targets \cup {NoTarget}, populating : BOOLEAN]
  /\ call \in [pc : {"idle", "sent", "done", "failed"},
               at : Rows \cup {Nobody}, body : Addresses]
  /\ calls \in 0 .. MaxCalls
  /\ halved \in SUBSET Rows

-----------------------------------------------------------------------------
\* Rows from before, with an address of which, since all of it is optional, the
\* last names may be missing.
FormInit ==
  /\ stored \in [Rows -> Before \cup {NoRow}]
  /\ listed = stored
  /\ dialog = [open |-> FALSE, target |-> NoTarget, form |-> NoAddress, selected |-> NoPick]
  /\ options = [l \in Levels |-> IF l = 1 THEN At(1) ELSE {}]
  /\ ran = [selected |-> NoPick, target |-> NoTarget, populating |-> FALSE]
  /\ call = NoCall
  /\ calls = 0
  /\ halved = {}

-----------------------------------------------------------------------------
\* The effects, in the render after a handler: they run before the next event.

Changed == {l \in 1 .. 3 : dialog.selected[l] # ran.selected[l]}

Settled == Changed = {} /\ dialog.target = ran.target

\* Below a select that changed all picks go, unless they were just restored.
Cleared ==
  [l \in Levels |-> IF ~ran.populating /\ (\E c \in Changed : c < l) THEN NoPlace
                    ELSE dialog.selected[l]]

\* One pass: options follow the picks it was rendered with, and its clearing
\* shows in the next one.
RunEffects ==
  /\ ~Settled
  /\ options' = [l \in Levels |-> IF l - 1 \in Changed THEN Under(dialog.selected[l - 1])
                                  ELSE options[l]]
  /\ dialog' = [dialog EXCEPT !.selected = Cleared]
  /\ ran' = [selected |-> dialog.selected, target |-> dialog.target,
             populating |-> ran.populating /\ dialog.target = ran.target]
  /\ UNCHANGED <<stored, listed, call, calls, halved>>

-----------------------------------------------------------------------------
\* The user.

OpenAdd ==
  /\ Settled /\ ~dialog.open
  /\ dialog' = [open |-> TRUE, target |-> NoTarget, form |-> NoAddress, selected |-> NoPick]
  /\ UNCHANGED <<stored, listed, options, ran, call, calls, halved>>

Find(S, name) ==
  LET found == {p \in S : NameOf[p] = name}
  IN  IF found = {} THEN NoPlace ELSE CHOOSE p \in found : TRUE

\* The reverse lookup: a province is looked for in every region, the others in
\* the place above them.
Region(a) ==
  LET r == Find(At(1), a[1])
      p == Find(At(2), a[2])
  IN  IF r = NoPlace /\ p # NoPlace THEN ParentOf[p] ELSE r

Restored(a) ==
  LET province == Find(At(2), a[2])
      city     == Find(Under(province), a[3])
  IN  <<Region(a), province, city, Find(Under(city), a[4])>>

BrokenPopulating == FALSE   \* lets the effects clear what was restored
Populating == TRUE

\* handleEdit, from the list.  The city is left as it was if there is no
\* province.
OpenEdit(e) ==
  /\ Settled /\ ~dialog.open
  /\ listed[e] # NoRow
  /\ LET places == Restored(listed[e])
     IN  /\ dialog' = [open |-> TRUE, target |-> [at |-> e, row |-> listed[e]], form |-> listed[e],
                       selected |-> [l \in Levels |-> IF l = 3 /\ places[2] = NoPlace
                                                      THEN dialog.selected[3] ELSE places[l]]]
         /\ options' = [l \in Levels |-> IF l > 1 /\ places[l - 1] # NoPlace
                                         THEN Under(places[l - 1]) ELSE options[l]]
  /\ ran' = [ran EXCEPT !.populating = Populating]
  /\ UNCHANGED <<stored, listed, call, calls, halved>>

\* Cancel, Clear or the cross.
Close ==
  /\ Settled /\ dialog.open
  /\ dialog' = [open |-> FALSE, target |-> NoTarget, form |-> NoAddress, selected |-> NoPick]
  /\ UNCHANGED <<stored, listed, options, ran, call, calls, halved>>

BrokenPicked(l, p) ==   \* leaves the names below
  [dialog.form EXCEPT ![l] = NameOf[p]]
\* The names to send: that of the pick, and none below it.
Picked(l, p) ==
  [k \in Levels |-> IF k < l THEN dialog.form[k] ELSE IF k = l THEN NameOf[p] ELSE NoName]

\* A select is enabled by the one above it.
Pick(l, p) ==
  /\ Settled /\ dialog.open
  /\ l > 1 => dialog.selected[l - 1] # NoPlace
  /\ p \in options[l]
  /\ dialog' = [dialog EXCEPT !.form = Picked(l, p), !.selected[l] = p]
  /\ UNCHANGED <<stored, listed, options, ran, call, calls, halved>>

\* handleSubmit, handleUpdate: the button is held while a request runs.  No name
\* of the address is required.
Submit ==
  /\ Settled /\ dialog.open
  /\ call.pc = "idle"
  /\ calls < MaxCalls
  /\ calls' = calls + 1
  /\ call' = [pc |-> "sent", at |-> dialog.target.at, body |-> dialog.form]
  /\ UNCHANGED <<stored, listed, dialog, options, ran, halved>>

-----------------------------------------------------------------------------
\* The server.  An empty name is sent as undefined, which leaves the column; the
\* names sent are forgotten with the answer.

Written(old, body) ==
  [l \in Levels |-> IF body[l] = NoName THEN old[l] ELSE body[l]]

\* A name is left out that the row has, or above one that is given.
Halves(old, body) ==
  \E l \in Levels :
    /\ body[l] = NoName
    /\ old[l] # NoName \/ (\E k \in Levels : k > l /\ body[k] # NoName)

Create(e) ==
  /\ call.pc = "sent" /\ call.at = Nobody
  /\ stored[e] = NoRow
  /\ stored' = [stored EXCEPT ![e] = Written(NoAddress, call.body)]
  /\ halved' = IF Halves(NoAddress, call.body) THEN halved \cup {e} ELSE halved
  /\ call' = [call EXCEPT !.pc = "done", !.body = NoAddress]
  /\ UNCHANGED <<listed, dialog, options, ran, calls>>

Update(e) ==
  /\ call.pc = "sent" /\ call.at = e
  /\ stored[e] # NoRow
  /\ stored' = [stored EXCEPT ![e] = Written(@, call.body)]
  /\ halved' = IF Halves(stored[e], call.body) THEN halved \cup {e} ELSE halved
  /\ call' = [call EXCEPT !.pc = "done", !.body = NoAddress]
  /\ UNCHANGED <<listed, dialog, options, ran, calls>>

\* Another coordinator deletes the establishment.
Remove(e) ==
  /\ stored[e] # NoRow
  /\ stored' = [stored EXCEPT ![e] = NoRow]
  /\ UNCHANGED <<listed, dialog, options, ran, call, calls, halved>>

\* The name is taken, the row is gone, or the connection is.
Refuse ==
  /\ call.pc = "sent"
  /\ call' = [call EXCEPT !.pc = "failed", !.body = NoAddress]
  /\ UNCHANGED <<stored, listed, dialog, options, ran, calls, halved>>

-----------------------------------------------------------------------------
\* The answer.  Success closes whatever dialog is open by then, and leaves the
\* selects as they are; only that of an update drops the target.  An error
\* leaves all for another try.
Answered ==
  /\ Settled
  /\ \/ /\ call.pc = "done"
        /\ dialog' = [dialog EXCEPT !.open = FALSE, !.form = NoAddress,
                                    !.target = IF call.at = Nobody THEN @ ELSE NoTarget]
     \/ call.pc = "failed" /\ UNCHANGED dialog
  /\ call' = NoCall
  /\ UNCHANGED <<stored, listed, options, ran, calls, halved>>

\* The list is fetched again (invalidated by every mutation).
Refresh ==
  /\ listed # stored
  /\ listed' = stored
  /\ UNCHANGED <<stored, dialog, options, ran, call, calls, halved>>

FormNext ==
  \/ RunEffects
  \/ OpenAdd \/ Close \/ Submit \/ Refuse \/ Answered \/ Refresh
  \/ \E e \in Rows : OpenEdit(e) \/ Create(e) \/ Update(e) \/ Remove(e)
  \/ \E l \in Levels : \E p \in At(l) : Pick(l, p)

FormSpec == FormInit /\ [][FormNext]_formVars

-----------------------------------------------------------------------------
\* Properties.

Existing(rows) == {e \in Rows : rows[e] # NoRow}

\* What is stored is the address of a place, not the region of one with the city
\* of another, unless a request left out a name that the row had, or one above a
\* name that it gave: whatever was picked before in whichever dialog and however
\* late an answer or the list comes (handleUpdate, handleEdit, "the cascade
\* effects (which normally clear children when a user picks a new parent)").
AddressNests == \A e \in Existing(stored) \ halved : stored[e] \in Nested

\* A name that the form will send is the one that its select shows: the effects
\* never clear what handleEdit restores of such a row, whichever dialogs were
\* open before and whenever an answer closed one.
SentIsShown ==
  dialog.open /\ Settled /\ dialog.target.at \notin halved =>
    \A l \in Levels :
      dialog.form[l] # NoName =>
        dialog.selected[l] # NoPlace /\ NameOf[dialog.selected[l]] = dialog.form[l]

=============================================================================

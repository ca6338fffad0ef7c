------------------------------ MODULE Profile -------------------------------
(***************************************************************************)
(* The profile screen of one user (ProfileViewController,                  *)
(* ProfileViewModel): the model it shows and edits, isChanged and          *)
(* oldModelUser, the bar button items it shares with home, and the record  *)
(* users/<displayName> that it observes and overwrites. The same user may  *)
(* edit the record on another phone.                                       *)
(*                                                                         *)
(* Of the four text fields two are kept: the username, which decides which *)
(* record is written, and the bio, which stands for the others.            *)
(***************************************************************************)
EXTENDS Integers, Sequences, FiniteSets, SequencesExt

CONSTANTS
  Names,   \* names of users
  me,      \* this user's display name
  Bios,    \* what a bio may say
  none,    \* no record, no model
  MaxPend, \* bound: writes of this phone without an acknowledgement
  MaxEvents \* bound: events waiting on the main queue

ASSUME NamesAssumption == me \in Names
ASSUME NoneAssumption == none \notin [id : {"mine", "theirs"}, bio : Bios]
                                       \cup [id : {"mine", "theirs"}, name : Names, bio : Bios]
ASSUME ProfileBounds == MaxPend \in Nat /\ MaxEvents \in Nat

VARIABLES
  record,   \* users/<me> on the server; nobody here reads other users' records
  pend,     \* this phone's writes the server has not acknowledged, oldest first
  stored,   \* how many of them the server stored since the phone last connected
  told,     \* the record the server told this phone of; <<>>: not told yet
  opened,   \* viewDidLoad has run: the record is observed
  events,   \* value events waiting on the main queue
  user,     \* user.value
  changed,  \* isChanged
  old,      \* oldModelUser
  bar,      \* whose bar button items home's navigation item has
  field,    \* the text field that is being edited
  typed,    \* it has text
  touched,  \* history: a field was returned or undo tapped since the last event
  began     \* history: the model when isChanged became true; none once a further
            \* picture was picked

dbVars == <<record, pend, stored, told>>
editVars == <<changed, old, bar, field, typed>>
historyVars == <<touched, began>>
vars == <<dbVars, opened, events, user, editVars, historyVars>>

Record == [id : {"mine", "theirs"}, bio : Bios]
User == [id : {"mine", "theirs"}, name : Names, bio : Bios]
Write == [to : Names, value : Record]

\* The record as the phone sees it, as a sequence of at most one: its own
\* latest write until that is acknowledged, or what the server told.
ViewOf(p, t) ==
  LET own == {i \in 1..Len(p) : p[i].to = me}
  IN IF own = {} THEN t ELSE <<p[CHOOSE i \in own : \A j \in own : j <= i].value>>

View == ViewOf(pend, told)

\* A record that is observed raises an event when what the phone sees of it
\* changes.
Raise ==
  events' = IF opened /\ ViewOf(pend', told') # View
            THEN events \o ViewOf(pend', told') ELSE events

\* A model out of a record: observeDataProfile takes the name it observes.
ModelOf(r) == [id |-> r.id, name |-> me, bio |-> r.bio]

-----------------------------------------------------------------------------
\* A sign-up that was cut off leaves no record, or another's under this name;
\* one that has just ended has its write on the way.
Init ==
  /\ record \in Record \cup {none}
  /\ pend \in {<<>>} \cup {<<[to |-> me, value |-> r]>> : r \in {x \in Record : x.id = "mine"}}
  /\ stored = 0 /\ told = <<>>
  /\ opened = FALSE /\ events = <<>> /\ user = none
  /\ changed = FALSE /\ old = none /\ bar = "search" /\ field = "none" /\ typed = FALSE
  /\ touched = FALSE /\ began = none

\* viewDidLoad: a write on the way is seen at once.
Open ==
  /\ ~opened
  /\ opened' = TRUE
  /\ events' = View
  /\ UNCHANGED <<dbVars, user, editVars, historyVars>>

\* Mutant of RecordEvent: what arrives while there are changes is ignored.
RecordEventUnlessChanged ==
  /\ events # <<>>
  /\ user' = IF Head(events) = none \/ changed THEN user ELSE ModelOf(Head(events))
  /\ touched' = FALSE
  /\ events' = Tail(events)
  /\ UNCHANGED <<dbVars, opened, editVars, began>>

\* The closure of observeDataProfile: the model is replaced, edits included. An
\* absent record is the assertion's case, and changes nothing.
RecordEvent ==
  /\ events # <<>>
  /\ IF Head(events) = none
     THEN UNCHANGED <<user, touched>>
     ELSE user' = ModelOf(Head(events)) /\ touched' = FALSE
  /\ events' = Tail(events)
  /\ UNCHANGED <<dbVars, opened, editVars, began>>

(* Editing. *)

\* isChanged's willSet keeps the model as it is then, each time it is set.
SetChanged ==
  /\ changed' = TRUE /\ old' = user /\ bar' = "edit"

\* A tap on another field ends the editing of the first: its text is cleared.
TapField(f) ==
  /\ opened /\ f # field
  /\ field' = f /\ typed' = FALSE
  /\ UNCHANGED <<dbVars, opened, events, user, changed, old, bar, historyVars>>

\* Mutant of TypeText: isChanged is set by each character.
TypeTextSetsAgain ==
  /\ field # "none"
  /\ IF typed
     THEN SetChanged /\ began' = (IF changed THEN began ELSE user)
     ELSE UNCHANGED <<changed, old, bar, began>>
  /\ typed' \in {TRUE} \cup (IF typed THEN {FALSE} ELSE {})
  /\ UNCHANGED <<dbVars, opened, events, user, field, touched>>

\* A character, or a paste: shouldChangeCharacters looks at the text before the
\* change, so that what is put into an empty field is not a change yet. The
\* buttons are set with each character, for the screen's own item has none.
TypeText ==
  /\ field # "none"
  /\ IF typed /\ ~changed
     THEN SetChanged /\ began' = user
     ELSE UNCHANGED <<changed, old, began>> /\ bar' = IF typed THEN "edit" ELSE bar
  /\ typed' \in {TRUE} \cup (IF typed THEN {FALSE} ELSE {})
  /\ UNCHANGED <<dbVars, opened, events, user, field, touched>>

\* Return takes the text over into the model, whether it was a change or not.
Return(f, model) ==
  /\ field = f
  /\ IF typed /\ user # none
     THEN user' = model /\ touched' = TRUE
     ELSE UNCHANGED <<user, touched>>
  /\ field' = "none" /\ typed' = FALSE
  /\ UNCHANGED <<dbVars, opened, events, changed, old, bar, began>>

ReturnName(n) == Return("name", [user EXCEPT !.name = n])
ReturnBio(t) == Return("bio", [user EXCEPT !.bio = t])

\* A picture is picked. The screen's own navigation item never has buttons, so
\* isChanged is set again even after other changes.
PickImage ==
  /\ opened
  /\ SetChanged
  /\ began' = (IF changed THEN none ELSE user)
  /\ UNCHANGED <<dbVars, opened, events, user, field, typed, touched>>

EndSession ==
  /\ changed' = FALSE /\ old' = none /\ bar' = "none"
  /\ field' = "none" /\ typed' = FALSE
  /\ began' = none

\* What updateProfile puts: all of the model but the username, which says where.
Put == [to |-> user.name, value |-> [id |-> user.id, bio |-> user.bio]]

\* Mutant of DoneTap: the phone's own write raises no event.
DoneTapNoRaise ==
  /\ bar = "edit" /\ Len(pend) < MaxPend /\ Len(events) < MaxEvents
  /\ pend' = IF changed /\ user # none THEN Append(pend, Put) ELSE pend
  /\ EndSession
  /\ UNCHANGED <<record, stored, told, opened, events, user, touched>>

\* Mutant of DoneTap: without a model an empty record is put.
DoneTapUnguarded ==
  /\ bar = "edit" /\ Len(pend) < MaxPend /\ Len(events) < MaxEvents
  /\ pend' = CASE ~changed -> pend
              [] changed /\ user # none -> Append(pend, Put)
              [] OTHER -> Append(pend, [to |-> me, value |-> none])
  /\ UNCHANGED <<record, stored, told>>
  /\ Raise
  /\ EndSession
  /\ UNCHANGED <<opened, user, touched>>

\* Done: a text that was not returned is dropped, the model is written, and home
\* is left without buttons.
DoneTap ==
  /\ bar = "edit" /\ Len(pend) < MaxPend /\ Len(events) < MaxEvents
  /\ pend' = IF changed /\ user # none THEN Append(pend, Put) ELSE pend
  /\ UNCHANGED <<record, stored, told>>
  /\ Raise
  /\ EndSession
  /\ UNCHANGED <<opened, user, touched>>

\* Undo brings oldModelUser back, whatever has arrived since it was kept.
UndoTap ==
  /\ bar = "edit"
  /\ IF changed THEN user' = old /\ touched' = TRUE ELSE UNCHANGED <<user, touched>>
  /\ EndSession
  /\ UNCHANGED <<dbVars, opened, events>>

(* The connection, the server and the user's other phone. *)

\* The phone sends its writes in order. A record is replaced as a whole.
Commit ==
  /\ stored < Len(pend)
  /\ record' = IF pend[stored + 1].to = me THEN pend[stored + 1].value ELSE record
  /\ stored' = stored + 1
  /\ UNCHANGED <<pend, told, opened, events, user, editVars, historyVars>>

\* The oldest write is acknowledged, after the data it led to.
Acknowledged ==
  /\ stored > 0
  /\ stored' = stored - 1
  /\ pend' = Tail(pend)
  /\ told' = IF opened THEN <<record>> ELSE told
  /\ UNCHANGED record
  /\ Raise
  /\ UNCHANGED <<opened, user, editVars, historyVars>>

\* Without an acknowledgement all writes are sent once more.
Reconnect ==
  /\ stored > 0
  /\ stored' = 0
  /\ UNCHANGED <<record, pend, told, opened, events, user, editVars, historyVars>>

\* The server tells a phone that observes.
Hear ==
  /\ opened /\ told # <<record>>
  /\ told' = <<record>>
  /\ UNCHANGED <<record, pend, stored>>
  /\ Raise
  /\ UNCHANGED <<opened, user, editVars, historyVars>>

OtherPhoneSaves(t) ==
  /\ record # none /\ Len(events) < MaxEvents
  /\ record' = [record EXCEPT !.bio = t]
  /\ UNCHANGED <<pend, stored, told, opened, events, user, editVars, historyVars>>

\* The app is killed and started again, with nothing but the server's records.
Restart ==
  /\ pend' = <<>> /\ stored' = 0 /\ told' = <<>>
  /\ opened' = FALSE /\ events' = <<>> /\ user' = none
  /\ changed' = FALSE /\ old' = none /\ bar' = "search" /\ field' = "none" /\ typed' = FALSE
  /\ touched' = FALSE /\ began' = none
  /\ UNCHANGED record

Next ==
  \/ Open \/ RecordEvent
  \/ \E f \in {"name", "bio"} : TapField(f)
  \/ TypeText \/ PickImage \/ DoneTap \/ UndoTap
  \/ \E n \in Names : ReturnName(n)
  \/ \E t \in Bios : ReturnBio(t) \/ OtherPhoneSaves(t)
  \/ Commit \/ Acknowledged \/ Reconnect \/ Hear \/ Restart

Spec == Init /\ [][Next]_vars

-----------------------------------------------------------------------------
(* Properties. *)

\* Every value is of its kind.
TypeOK ==
  /\ record \in Record \cup {none}
  /\ pend \in Seq(Write) /\ stored \in 0..Len(pend)
  /\ told \in Seq(Record \cup {none}) /\ Len(told) <= 1
  /\ opened \in BOOLEAN /\ events \in Seq(Record \cup {none})
  /\ user \in User \cup {none} /\ old \in User \cup {none} /\ began \in User \cup {none}
  /\ changed \in BOOLEAN /\ bar \in {"search", "edit", "none"}
  /\ field \in {"none", "name", "bio"} /\ typed \in BOOLEAN
  /\ touched \in BOOLEAN

\* Undo goes back to where the changes began, however often text is typed,
\* unless a picture was picked among them (imagePickerController sets isChanged
\* a second time).
UndoGoesBack == began # none => changed /\ old = began

\* Once all events have been handled the screen shows what the phone's database
\* holds, its own writes included, but for what was taken over from a field
\* or brought back by undo after the last event.
IdleShowsRecord ==
  opened /\ events = <<>> /\ ~touched /\ View \notin {<<>>, <<none>>}
    => user = ModelOf(View[1])

\* No write of this phone or of the user's other one gives this user's record another
\* id or takes it away: whatever is shown, undone, sent twice or cut off, what
\* updateProfile writes to it is a model with the user's own id, and the models of other
\* records stay out of it. (What phones of other users write is not modelled: one whose
\* user takes this name for theirs does replace the record, ProfileViewModel.swift:75.)
OwnRecordStays ==
  [][record # none /\ record.id = "mine"
       => record' # none /\ record'.id = "mine"]_vars

-----------------------------------------------------------------------------
(* Liveness: the main queue runs, a connected phone is told and sends, and a *)
(* connection that is lost over and over lasts for an answer now and then.   *)

FairSpec ==
  /\ Spec
  /\ WF_vars(RecordEvent) /\ WF_vars(Hear) /\ WF_vars(Commit) /\ SF_vars(Acknowledged)

UpToDate == record # none => user = ModelOf(record)

\* What is stored gets shown, again and again, unless it is replaced for ever, the
\* user edits or undoes, or the screen is gone.
StoredGetsShown ==
  \/ []<>(UpToDate \/ touched \/ ~opened)
  \/ []<><<record' # record>>_vars
=============================================================================

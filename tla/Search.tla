------------------------------- MODULE Search -------------------------------
(***************************************************************************)
(* The search for a user by name (SearchUserViewController,                *)
(* SearchUserViewModel, FBSearchService): each text of three letters or    *)
(* more asks for users/<text>, and whichever answer arrives is shown,      *)
(* under the name it was asked for.                                        *)
(*                                                                         *)
(* Questions for one name that are open together are answered by one       *)
(* listen, so that each name is open once. Answers come in the order of    *)
(* the questions unless the name's record is observed already (the user's  *)
(* own, by the profile) or the connection was lost: the listens are then   *)
(* sent again in no particular order.                                      *)
(***************************************************************************)
EXTENDS Integers, Sequences, FiniteSets, SequencesExt

CONSTANTS
  Names,    \* texts of three letters and more
  Ids,      \* the ids of users
  none,     \* no record, nobody shown, a text of fewer than three letters
  MaxWait   \* bound: questions and answers that are waiting

ASSUME NoneIsNoName == none \notin Names \cup Ids \cup [name : Names, id : Ids]
ASSUME WaitBound == MaxWait \in Nat

VARIABLES
  users,      \* users[n]: the id in users/<n>
  ever,       \* history: the records there have been
  open,       \* the search screen is on the navigation stack
  searching,  \* isSearching: the table is visible
  text,       \* the search bar's text
  shown,      \* searchResult: the one user found
  chat,       \* the user the last chat screen was opened for
  asked,      \* the names asked for, in order
  answers,    \* answers waiting on the main queue
  listed,     \* history: the text's record was there when it was typed
  overtaken,  \* history: some open question was answered before an earlier one
  quiet       \* history: nothing was open when the text was cleared

screenVars == <<open, searching, text, shown>>
askVars == <<asked, answers>>
historyVars == <<listed, overtaken, quiet>>
vars == <<users, ever, screenVars, chat, askVars, historyVars>>

User == [name : Names, id : Ids]
Answer == [name : Names, id : Ids \cup {none}]

Init ==
  /\ users \in [Names -> Ids \cup {none}]
  /\ ever = {[name |-> n, id |-> users[n]] : n \in {m \in Names : users[m] # none}}
  /\ open = FALSE /\ searching = FALSE /\ text = none /\ shown = none /\ chat = none
  /\ asked = <<>> /\ answers = <<>>
  /\ listed = FALSE /\ overtaken = FALSE /\ quiet = TRUE

-----------------------------------------------------------------------------
(* The screen. *)

\* The search button of home.
ShowSearch ==
  /\ ~open
  /\ open' = TRUE
  /\ quiet' = TRUE
  /\ UNCHANGED <<users, ever, searching, text, shown, chat, askVars, listed, overtaken>>

BeginEditing ==
  /\ open /\ ~searching
  /\ searching' = TRUE
  /\ UNCHANGED <<users, ever, open, text, shown, chat, askVars, historyVars>>

EndEditing ==
  /\ searching
  /\ searching' = FALSE
  /\ UNCHANGED <<users, ever, open, text, shown, chat, askVars, historyVars>>

Nothing == asked = <<>> /\ answers = <<>>

\* A text long enough to be a name: what is shown stays until an answer comes.
TypeName(n) ==
  /\ searching /\ text # n
  /\ Contains(asked, n) \/ Len(asked) + Len(answers) < MaxWait
  /\ text' = n
  /\ asked' = IF Contains(asked, n) THEN asked ELSE Append(asked, n)
  /\ listed' = (users[n] # none)
  /\ overtaken' = ((overtaken /\ ~Nothing) \/ Contains(asked, n))
  /\ UNCHANGED <<users, ever, open, searching, shown, chat, answers, quiet>>

TypeShort ==
  /\ searching /\ text # none
  /\ text' = none /\ shown' = none
  /\ quiet' = Nothing
  /\ UNCHANGED <<users, ever, open, searching, chat, askVars, listed, overtaken>>

\* The cancel button empties the search bar as well.
Cancel ==
  /\ searching
  /\ searching' = FALSE /\ text' = none /\ shown' = none
  /\ quiet' = Nothing
  /\ UNCHANGED <<users, ever, open, chat, askVars, listed, overtaken>>

\* A tap on the row of the user found: a chat screen is pushed for them.
Select ==
  /\ searching /\ shown # none
  /\ chat' = shown
  /\ UNCHANGED <<users, ever, screenVars, askVars, historyVars>>

\* Back to home: the next search has a screen and a view model of its own, which
\* the answers to this one do not reach.
Leave ==
  /\ open
  /\ open' = FALSE /\ searching' = FALSE /\ text' = none /\ shown' = none
  /\ asked' = <<>> /\ answers' = <<>>
  /\ UNCHANGED <<users, ever, chat, historyVars>>

(* The database. *)

\* The question for n is answered with the record there is, behind those that
\* are waiting. Questions of a screen that was left have nobody to tell.
Read(n) ==
  /\ \E i \in DOMAIN asked :
       /\ asked[i] = n
       /\ asked' = RemoveAt(asked, i)
       /\ overtaken' = (overtaken \/ i # 1)
  /\ answers' = Append(answers, [name |-> n, id |-> users[n]])
  /\ UNCHANGED <<users, ever, screenVars, chat, listed, quiet>>

\* Mutant of ShowAnswer: the user is given the name in the search bar.
ShowAnswerAsText ==
  /\ answers # <<>>
  /\ shown' = IF Head(answers).id = none \/ text = none THEN shown
              ELSE [name |-> text, id |-> Head(answers).id]
  /\ answers' = Tail(answers)
  /\ UNCHANGED <<users, ever, open, searching, text, chat, asked, historyVars>>

\* Mutant of ShowAnswer: the first answer is kept.
ShowAnswerOnce ==
  /\ answers # <<>>
  /\ shown' = IF Head(answers).id = none \/ shown # none THEN shown ELSE Head(answers)
  /\ answers' = Tail(answers)
  /\ UNCHANGED <<users, ever, open, searching, text, chat, asked, historyVars>>

\* The closure of searchUserBy: whatever the text is by now, a record is shown,
\* and no record changes nothing.
ShowAnswer ==
  /\ answers # <<>>
  /\ shown' = IF Head(answers).id = none THEN shown ELSE Head(answers)
  /\ answers' = Tail(answers)
  /\ UNCHANGED <<users, ever, open, searching, text, chat, asked, historyVars>>

\* A sign-up, or a profile saved under this name.
Store(n, i) ==
  /\ users[n] # i
  /\ users' = [users EXCEPT ![n] = i]
  /\ ever' = ever \cup {[name |-> n, id |-> i]}
  /\ UNCHANGED <<screenVars, chat, askVars, historyVars>>

Next ==
  \/ ShowSearch \/ BeginEditing \/ EndEditing \/ TypeShort \/ Cancel \/ Select \/ Leave
  \/ \E n \in Names : TypeName(n) \/ Read(n)
  \/ \E n \in Names, i \in Ids : Store(n, i)
  \/ ShowAnswer

Spec == Init /\ [][Next]_vars

-----------------------------------------------------------------------------
(* Properties. *)

\* Every value is of its kind.
TypeOK ==
  /\ users \in [Names -> Ids \cup {none}] /\ ever \subseteq User
  /\ open \in BOOLEAN /\ searching \in BOOLEAN
  /\ text \in Names \cup {none} /\ shown \in User \cup {none} /\ chat \in User \cup {none}
  /\ asked \in Seq(Names) /\ answers \in Seq(Answer)
  /\ listed \in BOOLEAN /\ overtaken \in BOOLEAN /\ quiet \in BOOLEAN

\* A chat is only ever opened for a user who was stored as such: however many
\* questions are open and whatever is typed since, no name is shown with the id
\* of another's record (searchUserBy's closure keeps the name it asked for).
FoundIsARecord == {shown, chat} \ {none} \subseteq ever

\* Once all questions are answered, in their order, the user shown is the one in
\* the search bar, if they were there to be found when the text was typed; and a
\* list that was emptied (a short text, cancel) with no question open stays empty.
\* Otherwise a late answer is what is shown.
SettledShowsText ==
  /\ text # none /\ Nothing /\ listed /\ ~overtaken => shown # none /\ shown.name = text
  /\ open /\ text = none /\ quiet => shown = none

-----------------------------------------------------------------------------
(* Liveness: a connected phone gets its answers, and the main queue runs.    *)

FairSpec == Spec /\ WF_vars(ShowAnswer) /\ \A n \in Names : WF_vars(Read(n))

\* Somebody who is there to be found is shown in the end, whatever else is typed,
\* unless the screen is left.
AskedIsShown ==
  \A n \in Names :
    open /\ Contains(asked, n) /\ users[n] # none
      ~> (~open \/ (shown # none /\ shown.name = n))
=============================================================================

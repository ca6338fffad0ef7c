------------------------------- MODULE SignIn -------------------------------
(***************************************************************************)
(* One phone signs its user up or in (FBAuthService, LoginViewModel,       *)
(* SignUpViewModel and their screens): the verification id kept in the     *)
(* user defaults, the screen on which its code is typed, the attempts in   *)
(* flight, and the listener that shows home or login (AppDelegate,         *)
(* AppCoordinator). The user types their own number; other phones are      *)
(* reduced to the names they take.                                         *)
(*                                                                         *)
(* A failed assertion ends a debug build, as Restart may end any; the      *)
(* model goes on as a release build does. What waits on the main queue     *)
(* runs before a tap is handled.                                           *)
(***************************************************************************)
EXTENDS Integers, Sequences, FiniteSets, SequencesExt

CONSTANTS
  Names,     \* names a user may choose
  none,      \* no name
  MaxIds,    \* bound: verification ids the phone is given
  MaxChecks  \* bound: checks of a name awaiting their answer

ASSUME NamesAssumption == none \notin Names
ASSUME SignInBounds == MaxIds \in Nat /\ MaxChecks \in Nat

VARIABLES
  users,        \* users[n]: whose record users/<n> is
  account,      \* the display name of this user's account on the server
  signedIn,     \* Auth keeps this user signed in on the phone
  displayName,  \* the display name as the phone knows it
  stored,       \* "verificationId" of the user defaults; 0: none
  outbox,       \* names whose users/<name> the phone has yet to send
  listener,     \* the auth listener: "off", or what it reported last
  notes,        \* its calls waiting on the main queue
  replaced,     \* listeners whose place was taken before their first call
  homes,        \* how often home was pushed since the launch
  arrivals,     \* sign-ins since the launch, the one it began with included
  failed,       \* a sign-up failed since the launch
  stack,        \* the navigation stack
  username,     \* SignUpViewModel.username
  taken,        \* isTakenUsername.value
  checks,       \* names being checked
  asks,         \* verification ids being asked for
  tries,        \* attempts to sign in that are under way
  lastId        \* ids given so far

serverVars == <<users, account>>
phoneVars == <<signedIn, displayName, stored, outbox>>
listenVars == <<listener, notes, replaced, homes, arrivals, failed>>
screenVars == <<stack, username, taken, checks>>
flowVars == <<asks, tries, lastId>>
vars == <<serverVars, phoneVars, listenVars, screenVars, flowVars>>

Flow == {"login", "signup"}

\* A verification screen: which flow's screen is its delegate, and whether a
\* code was typed on it. Every later digit is added to that code.
CodeScreen(flow, typed) == [is |-> "code", flow |-> flow, typed |-> typed]

Screen == [is : {"login", "signup", "home"}]
            \cup [is : {"code"}, flow : Flow \cup {"nobody"}, typed : BOOLEAN]

Ask == [flow : Flow \cup {"resend"}, at : {"phone", "sms"}]

\* An attempt: at "signIn", then at "name" (of a login) the phone asks for its
\* own name, and at "commit" and "named" the account's name is changed.
Try == [id : Nat \ {0}, flow : Flow, typed : BOOLEAN, name : Names \cup {none},
        at : {"signIn", "name", "commit", "named"}]

Top == stack[Len(stack)]
On(kind) == stack # <<>> /\ Top.is = kind

\* The names under which this phone finds its number among users, its own
\* writes included.
OwnNames == {n \in Names : users[n] = "me" \/ Contains(outbox, n)}

\* The user may have signed up on another phone, or begun to.
Init ==
  /\ users \in [Names -> {"nobody", "me", "other"}] /\ account \in Names \cup {none}
  /\ \A n \in Names : users[n] = "me" => account = n
  /\ signedIn = FALSE /\ displayName = none /\ stored = 0 /\ outbox = <<>>
  /\ listener = "new" /\ notes = 1 /\ replaced = 0
  /\ homes = 0 /\ arrivals = 0 /\ failed = FALSE
  /\ stack = <<>> /\ username = none /\ taken = "unknown" /\ checks = <<>>
  /\ asks = {} /\ tries = {} /\ lastId = 0

-----------------------------------------------------------------------------
(* The listener and the screens. *)

\* The call of a listener: home is pushed for a user, login without one, if it
\* is the listener's first or the user is another than it reported last. A
\* sign-up that puts a listener in the place of another leaves both on, and the
\* calls of the replaced one come first.
AuthEvent ==
  LET now   == IF signedIn THEN "in" ELSE "out"
      shows == replaced > 0 \/ listener # now
  IN
  /\ notes > 0
  /\ notes' = notes - 1
  /\ IF replaced > 0
     THEN replaced' = replaced - 1 /\ UNCHANGED listener
     ELSE listener' = now /\ UNCHANGED replaced
  /\ stack' = IF shows
              THEN Append(stack, [is |-> IF signedIn THEN "home" ELSE "login"])
              ELSE stack
  /\ homes' = IF shows /\ signedIn THEN homes + 1 ELSE homes
  /\ UNCHANGED <<serverVars, phoneVars, arrivals, failed, username, taken, checks, flowVars>>

\* Left out: a sign-up screen opened anew while one that was left still waits
\* for a verification id.
OpenSignUp ==
  /\ On("login") /\ \A r \in asks : r.flow # "signup"
  /\ stack' = Append(stack, [is |-> "signup"])
  /\ username' = none /\ taken' = "unknown" /\ checks' = <<>>
  /\ UNCHANGED <<serverVars, phoneVars, listenVars, flowVars>>

Back ==
  /\ Len(stack) > 1
  /\ stack' = Front(stack)
  /\ UNCHANGED <<serverVars, phoneVars, listenVars, username, taken, checks, flowVars>>

\* Each text is checked. The view model takes the name when editing ends, at the
\* latest when a digit of the code is typed.
TypeName(n) ==
  /\ On("signup") /\ Len(checks) < MaxChecks
  /\ username' = n
  /\ checks' = Append(checks, n)
  /\ UNCHANGED <<serverVars, phoneVars, listenVars, stack, taken, flowVars>>

\* Whichever name was checked, its answer is taken for the typed one's.
NameChecked ==
  /\ checks # <<>>
  /\ taken' = IF users[Head(checks)] # "nobody" \/ Head(checks) \in OwnNames
              THEN "yes" ELSE "no"
  /\ checks' = Tail(checks)
  /\ UNCHANGED <<serverVars, phoneVars, listenVars, stack, username, flowVars>>

(* Getting a verification id. *)

MayAsk == lastId + Cardinality(asks) < MaxIds

\* The button of either screen; the sign-up's asks for a free name first.
AskCode(flow) ==
  /\ On(flow) /\ MayAsk
  /\ flow = "signup" => taken = "no"
  /\ asks' = asks \cup {[flow |-> flow, at |-> "phone"]}
  /\ UNCHANGED <<serverVars, phoneVars, listenVars, screenVars, tries, lastId>>

\* A login needs a record with the number, a sign-up needs there to be none.
PhoneChecked(r) ==
  /\ r \in asks /\ r.at = "phone"
  /\ asks' = IF (r.flow = "login") = (OwnNames # {})
             THEN (asks \ {r}) \cup {[r EXCEPT !.at = "sms"]}
             ELSE asks \ {r}
  /\ UNCHANGED <<serverVars, phoneVars, listenVars, screenVars, tries, lastId>>

\* The number is only known to a screen of the sign-up.
Resend ==
  /\ On("code") /\ Top.flow = "signup" /\ MayAsk
  /\ asks' = asks \cup {[flow |-> "resend", at |-> "sms"]}
  /\ UNCHANGED <<serverVars, phoneVars, listenVars, screenVars, tries, lastId>>

\* A screen that was popped finds no navigation controller to reach the pushed
\* screen by, and does not become its delegate.
Delegate(flow) ==
  IF \E i \in 1..Len(stack) : stack[i].is = flow THEN flow ELSE "nobody"

\* The id replaces the stored one, and a screen for its code is pushed.
CodeSent(r) ==
  /\ r \in asks /\ r.at = "sms"
  /\ asks' = asks \ {r}
  /\ lastId' = lastId + 1
  /\ stored' = lastId'
  /\ stack' = IF r.flow = "resend" THEN stack
              ELSE Append(stack, CodeScreen(Delegate(r.flow), FALSE))
  /\ UNCHANGED <<serverVars, signedIn, displayName, outbox, listenVars, username, taken, checks,
                 tries>>

CodeNotSent(r) ==
  /\ r \in asks /\ r.at = "sms"
  /\ asks' = asks \ {r}
  /\ UNCHANGED <<serverVars, phoneVars, listenVars, screenVars, tries, lastId>>

(* Signing in. *)

NewTry ==
  [id |-> stored, flow |-> Top.flow, typed |-> Top.typed, at |-> "signIn",
   name |-> IF Top.flow = "signup" THEN username ELSE none]

\* Mutant of ConfirmCode: the id is read without deletion.
ConfirmKeepsId ==
  /\ On("code") /\ Top.flow \in Flow /\ notes = 0
  /\ stack' = Append(Front(stack), CodeScreen(Top.flow, TRUE))
  /\ stored # 0
  /\ tries' = tries \cup {NewTry}
  /\ listener' = IF Top.flow = "signup" THEN "off" ELSE listener
  /\ UNCHANGED <<serverVars, phoneVars, notes, replaced, homes, arrivals, failed, username,
                 taken, checks, asks, lastId>>

\* Mutant of ConfirmCode: a sign-up goes on listening.
ConfirmListens ==
  /\ On("code") /\ Top.flow \in Flow /\ notes = 0
  /\ stack' = Append(Front(stack), CodeScreen(Top.flow, TRUE))
  /\ stored # 0
  /\ stored' = 0
  /\ tries' = tries \cup {NewTry}
  /\ UNCHANGED <<serverVars, signedIn, displayName, outbox, listenVars, username, taken, checks,
                 asks, lastId>>

\* Mutant of ConfirmCode: a login takes the listener off as well.
ConfirmLoginDeaf ==
  /\ On("code") /\ Top.flow \in Flow /\ notes = 0
  /\ stack' = Append(Front(stack), CodeScreen(Top.flow, TRUE))
  /\ stored # 0
  /\ stored' = 0
  /\ tries' = tries \cup {NewTry}
  /\ listener' = "off"
  /\ UNCHANGED <<serverVars, signedIn, displayName, outbox, notes, replaced, homes, arrivals,
                 failed, username, taken, checks, asks, lastId>>

\* The sixth digit: an attempt with the stored id, which is deleted. A sign-up
\* takes the listener off first. Without an id nothing is attempted, and what
\* else a sign-up asserts to have, a name, is looked at before the id.
ConfirmCode ==
  /\ On("code") /\ Top.flow \in Flow /\ notes = 0
  /\ stack' = Append(Front(stack), CodeScreen(Top.flow, TRUE))
  /\ IF stored # 0 /\ (Top.flow = "signup" => username # none)
     THEN /\ stored' = 0
          /\ tries' = tries \cup {NewTry}
          /\ listener' = IF Top.flow = "signup" THEN "off" ELSE listener
     ELSE UNCHANGED <<stored, tries, listener>>
  /\ UNCHANGED <<serverVars, signedIn, displayName, outbox, notes, replaced, homes, arrivals,
                 failed, username, taken, checks, asks, lastId>>

Moved(t, at, n) == (tries \ {t}) \cup {[t EXCEPT !.at = at, !.name = n]}

\* Mutant of SignedIn: a sign-up writes its record before the account's name.
SignedInWritesFirst(t) ==
  /\ t \in tries /\ t.at = "signIn" /\ ~t.typed
  /\ signedIn' = TRUE
  /\ displayName' = account
  /\ arrivals' = arrivals + 1
  /\ notes' = IF listener = "off" THEN notes ELSE notes + 1
  /\ outbox' = IF t.flow = "signup" THEN Append(outbox, t.name) ELSE outbox
  /\ tries' = Moved(t, IF t.flow = "login" THEN "name" ELSE "commit", t.name)
  /\ UNCHANGED <<serverVars, stored, listener, replaced, homes, failed, screenVars, asks, lastId>>

\* Only six digits can be right.
SignedIn(t) ==
  /\ t \in tries /\ t.at = "signIn" /\ ~t.typed
  /\ signedIn' = TRUE
  /\ displayName' = account
  /\ arrivals' = arrivals + 1
  /\ notes' = IF listener = "off" THEN notes ELSE notes + 1
  /\ tries' = Moved(t, IF t.flow = "login" THEN "name" ELSE "commit", t.name)
  /\ UNCHANGED <<serverVars, stored, outbox, listener, replaced, homes, failed, screenVars,
                 asks, lastId>>

\* An error of signIn or of commitChanges: a sign-up leaves the listener off.
TryFails(t) ==
  /\ t \in tries /\ t.at \in {"signIn", "commit", "named"}
  /\ tries' = tries \ {t}
  /\ failed' = (failed \/ t.flow = "signup")
  /\ UNCHANGED <<serverVars, phoneVars, listener, notes, replaced, homes, arrivals, screenVars,
                 asks, lastId>>

\* Mutant of NameFetched: it goes on without a record.
NameFetchedAnyway(t) ==
  /\ t \in tries /\ t.at = "name"
  /\ tries' \in {Moved(t, "commit", n) : n \in OwnNames}
                  \cup (IF OwnNames = {} THEN {Moved(t, "commit", none)} ELSE {})
  /\ UNCHANGED <<serverVars, phoneVars, listenVars, screenVars, asks, lastId>>

\* setProfileData looks up the name of the number that was signed in.
NameFetched(t) ==
  /\ t \in tries /\ t.at = "name"
  /\ tries' \in {Moved(t, "commit", n) : n \in OwnNames}
                  \cup (IF OwnNames = {} THEN {tries \ {t}} ELSE {})
  /\ UNCHANGED <<serverVars, phoneVars, listenVars, screenVars, asks, lastId>>

\* The server commits the change of the account's name.
NameSet(t) ==
  /\ t \in tries /\ t.at = "commit"
  /\ account' = t.name
  /\ tries' = Moved(t, "named", t.name)
  /\ UNCHANGED <<users, phoneVars, listenVars, screenVars, asks, lastId>>

\* Mutant of NameAnswered: the listener is not put back.
NameAnsweredDeaf(t) ==
  /\ t \in tries /\ t.at = "named"
  /\ displayName' = t.name
  /\ tries' = tries \ {t}
  /\ outbox' = IF t.flow = "signup" THEN Append(outbox, t.name) ELSE outbox
  /\ UNCHANGED <<serverVars, signedIn, stored, listenVars, screenVars, asks, lastId>>

\* commitChanges calls back: a sign-up writes users/<name> and listens again.
NameAnswered(t) ==
  /\ t \in tries /\ t.at = "named"
  /\ displayName' = t.name
  /\ tries' = tries \ {t}
  /\ IF t.flow = "signup"
     THEN /\ outbox' = Append(outbox, t.name)
          /\ listener' = "new"
          /\ notes' = notes + 1
          /\ replaced' = IF listener = "new" THEN replaced + 1 ELSE replaced
     ELSE UNCHANGED <<outbox, listener, notes, replaced>>
  /\ UNCHANGED <<serverVars, signedIn, stored, homes, arrivals, failed, screenVars, asks, lastId>>

(* The server, the other phones, and the process. *)

StoreUser ==
  /\ outbox # <<>>
  /\ users' = [users EXCEPT ![Head(outbox)] = "me"]
  /\ outbox' = Tail(outbox)
  /\ UNCHANGED <<account, signedIn, displayName, stored, listenVars, screenVars, flowVars>>

\* Another user's sign-up: it may have checked the name long before.
OtherTakes(n) ==
  /\ users[n] # "other"
  /\ users' = [users EXCEPT ![n] = "other"]
  /\ UNCHANGED <<account, phoneVars, listenVars, screenVars, flowVars>>

\* The app is killed and launched: the user defaults and Auth's user stay.
Restart ==
  /\ outbox' = <<>>
  /\ listener' = "new" /\ notes' = 1 /\ replaced' = 0
  /\ homes' = 0 /\ arrivals' = (IF signedIn THEN 1 ELSE 0) /\ failed' = FALSE
  /\ stack' = <<>> /\ username' = none /\ taken' = "unknown" /\ checks' = <<>>
  /\ asks' = {} /\ tries' = {}
  /\ UNCHANGED <<serverVars, signedIn, displayName, stored, lastId>>

\* A call of an attempt is answered, or carried out by the server.
TryGoesOn ==
  \E t \in tries : \/ SignedIn(t) \/ TryFails(t)
                  \/ NameFetched(t) \/ NameSet(t) \/ NameAnswered(t)

Next ==
  \/ AuthEvent \/ OpenSignUp \/ Back
  \/ \E n \in Names : TypeName(n) \/ OtherTakes(n)
  \/ NameChecked
  \/ \E flow \in Flow : AskCode(flow)
  \/ \E r \in Ask : PhoneChecked(r) \/ CodeSent(r) \/ CodeNotSent(r)
  \/ Resend \/ ConfirmCode \/ TryGoesOn
  \/ StoreUser \/ Restart

Spec == Init /\ [][Next]_vars

\* The main queue runs what is queued, and each call of an attempt is answered
\* in the end, be it with an error. Taps and kills are not fair.
FairSpec == Spec /\ WF_vars(AuthEvent) /\ WF_vars(TryGoesOn)

-----------------------------------------------------------------------------
(* Properties. *)

TypeOK ==
  /\ users \in [Names -> {"nobody", "me", "other"}] /\ account \in Names \cup {none}
  /\ signedIn \in BOOLEAN /\ displayName \in Names \cup {none}
  /\ stored \in 0..lastId /\ outbox \in Seq(Names)
  /\ listener \in {"off", "new", "out", "in"} /\ notes \in Nat /\ replaced \in Nat
  /\ homes \in Nat /\ arrivals \in Nat /\ failed \in BOOLEAN
  /\ stack \in Seq(Screen) /\ username \in Names \cup {none}
  /\ taken \in {"unknown", "yes", "no"} /\ checks \in Seq(Names)
  /\ asks \subseteq Ask /\ tries \subseteq Try /\ lastId \in Nat
  /\ \A t \in tries : t.flow = "signup" \/ t.at \in {"commit", "named"} => t.name \in Names

\* An id is tried once, however often the sixth digit is typed while the answer
\* is awaited (getVerificationId with deletion).
OneTryPerId == \A t, u \in tries : t.id = u.id => t = u

\* Home is not shown twice for one sign-in: not for a sign-up either, whose
\* user Auth reports when it is signed in and when the listener is put back.
HomeOncePerSignIn == homes <= arrivals

\* The app has its listener, unless a sign-up is under way or has failed.
ListenerComesBack ==
  listener = "off" => failed \/ \E t \in tries : t.flow = "signup"

\* Whoever is among users, and so may log in, has a name: wherever a sign-up
\* is cut off, the record is not stored before the account's name.
ListedHasName == OwnNames # {} => account # none

\* Somebody who is signed in gets to see home, unless a sign-up failed.
SignedInReachesHome == signedIn ~> homes > 0 \/ failed

\* What ChatRoomsViewModel.startObservingUserChatRooms asserts when home is
\* shown: the user has a display name.
HomeHasName == homes > 0 => displayName # none

\* What LoginViewModel.login and SignUpViewModel.signUp assert of a confirmed
\* code: there is a verification id to go with it.
CodeHasId == [][ConfirmCode => stored # 0]_vars
=============================================================================

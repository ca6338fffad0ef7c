---------------------------- MODULE SignInProofs ----------------------------
(***************************************************************************)
(* Signing in, for any names and any number of verification ids: type      *)
(* correctness, OneTryPerId, ListenerComesBack, ListedHasName and          *)
(* HomeOncePerSignIn. The last counts what home is still owed: once for    *)
(* each sign-up that is signed in, for each listener that was replaced     *)
(* before its first call, and while the listener has not reported the      *)
(* user.                                                                   *)
(***************************************************************************)
EXTENDS SignIn, FiniteSetTheorems, TLAPS

\* The stored id was not tried yet, and no id beyond the last was.
StoredIsUntried == \A t \in tries : t.id <= lastId /\ t.id # stored

\* Only a login asks for its own name, and the account has got the name that
\* an attempt waits to hear of.
TryStages ==
  \A t \in tries : /\ t.at = "name" => t.flow = "login"
                   /\ t.at = "named" => account # none

\* A listener that is off has no calls waiting, and it is off, or somebody is
\* signed in already, while a sign-up is under way.
OffWhileSigningUp ==
  /\ listener = "off" => notes = 0
  /\ (\E t \in tries : t.flow = "signup") => signedIn \/ listener = "off"

\* The sign-ups that are signed in and have yet to put the listener back.
SignUps == {t \in tries : t.flow = "signup" /\ t.at # "signIn"}

\* The calls that will push home.
Unseen == replaced + (IF signedIn /\ listener \in {"new", "out"} THEN 1 ELSE 0)

\* Home will not be pushed more often than there were sign-ins.
HomesOwed == homes + Cardinality(SignUps) + Unseen <= arrivals

Steady ==
  /\ IsFiniteSet(tries)
  /\ OneTryPerId /\ StoredIsUntried /\ TryStages
  /\ ListenerComesBack /\ OffWhileSigningUp
  /\ ListedHasName
  /\ SignUps # {} => signedIn
  /\ HomesOwed

IInv == TypeOK /\ Steady

-----------------------------------------------------------------------------
(* Facts about the data. *)

LEMMA ScreenKinds ==
  /\ \A s \in Screen : s.is = "code" => s.typed \in BOOLEAN
  /\ \A f \in Flow \cup {"nobody"}, b \in BOOLEAN : CodeScreen(f, b) \in Screen
  /\ \A k \in {"login", "signup", "home"} : [is |-> k] \in Screen
BY DEF Screen, CodeScreen

LEMMA StackParts ==
  ASSUME NEW s \in Seq(Screen), s # <<>>
  PROVE  Front(s) \in Seq(Screen) /\ s[Len(s)] \in Screen
<1>1. SubSeq(s, 1, Len(s) - 1) \in Seq(Screen)
  OBVIOUS
<1>2. QED
  BY <1>1 DEF Front

LEMMA SeqParts ==
  ASSUME NEW S
  PROVE  /\ <<>> \in Seq(S)
         /\ \A s \in Seq(S), e \in S : Append(s, e) \in Seq(S)
OBVIOUS

\* The attempt that a typed code starts.
LEMMA NewTryKind ==
  ASSUME IInv, On("code"), Top.flow \in Flow, stored # 0
  PROVE  /\ NewTry \in Try
         /\ NewTry.id = stored /\ NewTry.flow = Top.flow /\ NewTry.at = "signIn"
         /\ NewTry.name = IF Top.flow = "signup" THEN username ELSE none
<1>1. stack \in Seq(Screen) /\ username \in Names \cup {none} /\ stored \in Nat \ {0}
  BY DEF IInv, TypeOK
<1>2. Top.typed \in BOOLEAN
  BY <1>1, ScreenKinds, StackParts DEF On, Top
<1>3. QED
  BY <1>1, <1>2 DEF NewTry, Try, Flow

-----------------------------------------------------------------------------
(* What a step may do to the attempts. *)

\* The actions that leave the attempts, the listener and the names alone.
Quiet == UNCHANGED <<users, account, outbox, signedIn, listenVars, stored, tries, lastId>>

\* An attempt t becomes u.
Becomes(t, u) == t \in tries /\ u \in Try /\ u.id = t.id /\ u.flow = t.flow
                 /\ tries' = (tries \ {t}) \cup {u}

Drops(t) == t \in tries /\ tries' = tries \ {t}

LEMMA QuietKeeps ==
  ASSUME IInv, Quiet
  PROVE  Steady'
BY DEF IInv, Steady, Quiet, listenVars, OneTryPerId, StoredIsUntried, TryStages, ListenerComesBack,
       OffWhileSigningUp, ListedHasName, OwnNames, Contains, SignUps, HomesOwed, Unseen

\* An attempt keeps its id as long as it lasts.
LEMMA TriesKeep ==
  ASSUME IInv, UNCHANGED <<stored, lastId>>,
         \E t \in tries : Drops(t) \/ \E u \in Try : Becomes(t, u)
  PROVE  /\ IsFiniteSet(tries') /\ OneTryPerId' /\ StoredIsUntried'
         /\ (\E t \in tries : t.flow = "signup")' => \E t \in tries : t.flow = "signup"
<1>1. PICK t \in tries : Drops(t) \/ \E u \in Try : Becomes(t, u)
  OBVIOUS
<1>2. CASE Drops(t)
  <2>1. tries' = tries \ {t} /\ tries' \subseteq tries
    BY <1>2 DEF Drops
  <2>2. IsFiniteSet(tries')
    BY <2>1, FS_RemoveElement DEF IInv, Steady
  <2>3. QED
    BY <2>1, <2>2 DEF IInv, Steady, OneTryPerId, StoredIsUntried
<1>3. CASE \E u \in Try : Becomes(t, u)
  <2>1. PICK u \in Try : Becomes(t, u)
    BY <1>3
  <2>2. tries' = (tries \ {t}) \cup {u} /\ u.id = t.id /\ u.flow = t.flow
    BY <2>1 DEF Becomes
  <2>3. IsFiniteSet(tries')
    BY <2>2, FS_RemoveElement, FS_AddElement DEF IInv, Steady
  <2>4. OneTryPerId'
    BY <2>2 DEF IInv, Steady, OneTryPerId
  <2>5. StoredIsUntried'
    BY <2>2 DEF IInv, Steady, StoredIsUntried
  <2>6. QED
    BY <2>2, <2>3, <2>4, <2>5
<1>4. QED
  BY <1>1, <1>2, <1>3

\* How the count of sign-ups changes.
LEMMA SignUpsFinite ==
  ASSUME IInv
  PROVE  IsFiniteSet(SignUps) /\ Cardinality(SignUps) \in Nat
<1>1. IsFiniteSet(SignUps)
  BY FS_Subset DEF IInv, Steady, SignUps
<1>2. QED
  BY <1>1, FS_CardinalityType

LEMMA OneMoreSignUp ==
  ASSUME IInv, NEW x
  PROVE  /\ Cardinality(SignUps \cup {x}) <= Cardinality(SignUps) + 1
         /\ Cardinality(SignUps \cup {x}) \in Nat
BY SignUpsFinite, FS_AddElement

LEMMA OneSignUpLess ==
  ASSUME IInv, NEW x \in SignUps
  PROVE  /\ Cardinality(SignUps \ {x}) = Cardinality(SignUps) - 1
         /\ Cardinality(SignUps \ {x}) \in Nat
<1>1. IsFiniteSet(SignUps \ {x}) /\ Cardinality(SignUps \ {x}) = Cardinality(SignUps) - 1
  BY SignUpsFinite, FS_RemoveElement
<1>2. QED
  BY <1>1, FS_CardinalityType

LEMMA OneSignUpReplaced ==
  ASSUME IInv, NEW x \in SignUps, NEW y
  PROVE  /\ Cardinality((SignUps \ {x}) \cup {y}) <= Cardinality(SignUps)
         /\ Cardinality((SignUps \ {x}) \cup {y}) \in Nat
<1>1. IsFiniteSet(SignUps \ {x})
  BY SignUpsFinite, FS_RemoveElement
<1>2. Cardinality((SignUps \ {x}) \cup {y}) \in {Cardinality(SignUps \ {x}),
                                                Cardinality(SignUps \ {x}) + 1}
  BY <1>1, FS_AddElement
<1>3. QED
  BY <1>2, OneSignUpLess, SignUpsFinite

-----------------------------------------------------------------------------
(* Type correctness. *)

LEMMA InitTyped == Init => TypeOK
<1>1. ASSUME Init PROVE TypeOK
  <2>1. outbox \in Seq(Names) /\ stack \in Seq(Screen) /\ checks \in Seq(Names)
    BY <1>1, SeqParts DEF Init
  <2>2. users \in [Names -> {"nobody", "me", "other"}] /\ account \in Names \cup {none}
    BY <1>1 DEF Init
  <2>3. tries = {} /\ asks = {} /\ stored \in 0..lastId
    BY <1>1 DEF Init
  <2>4. QED
    BY <1>1, <2>1, <2>2, <2>3 DEF Init, TypeOK
<1>2. QED
  BY <1>1

LEMMA ScreenSteps ==
  ASSUME IInv,
         \/ AuthEvent \/ OpenSignUp \/ Back \/ NameChecked
         \/ \E n \in Names : TypeName(n)
  PROVE  TypeOK'
<1>1. TypeOK
  BY DEF IInv
<1>2. ASSUME AuthEvent PROVE TypeOK'
  <2>1. \A k \in {"login", "home"} : Append(stack, [is |-> k]) \in Seq(Screen)
    BY <1>1, ScreenKinds DEF TypeOK
  <2>2. stack \in Seq(Screen) /\ signedIn \in BOOLEAN
    BY <1>1 DEF TypeOK
  <2>3. stack' = stack \/ \E k \in {"login", "home"} : stack' = Append(stack, [is |-> k])
    BY <1>2, <2>2 DEF AuthEvent
  <2>4. stack' \in Seq(Screen)
    BY <2>1, <2>2, <2>3
  <2>5. homes' \in Nat /\ notes' \in Nat /\ replaced' \in Nat
    BY <1>1, <1>2 DEF AuthEvent, TypeOK
  <2>6. listener' \in {"off", "new", "out", "in"}
    BY <1>1, <1>2 DEF AuthEvent, TypeOK
  <2>7. QED
    BY <1>1, <1>2, <2>4, <2>5, <2>6 DEF AuthEvent, TypeOK, serverVars, phoneVars, flowVars
<1>3. ASSUME OpenSignUp PROVE TypeOK'
  <2>1. stack' \in Seq(Screen)
    BY <1>1, <1>3, ScreenKinds DEF OpenSignUp, TypeOK
  <2>2. QED
    BY <1>1, <1>3, <2>1 DEF OpenSignUp, TypeOK, serverVars, phoneVars, listenVars, flowVars
<1>4. ASSUME Back PROVE TypeOK'
  <2>1. stack # <<>>
    BY <1>1, <1>4 DEF Back, TypeOK
  <2>2. stack' \in Seq(Screen)
    BY <1>1, <1>4, <2>1, StackParts DEF Back, TypeOK
  <2>3. QED
    BY <1>1, <1>4, <2>2 DEF Back, TypeOK, serverVars, phoneVars, listenVars, flowVars
<1>5. ASSUME NameChecked PROVE TypeOK'
  <2>1. checks' \in Seq(Names)
    BY <1>1, <1>5 DEF NameChecked, TypeOK
  <2>2. QED
    BY <1>1, <1>5, <2>1 DEF NameChecked, TypeOK, serverVars, phoneVars, listenVars, flowVars
<1>6. ASSUME NEW n \in Names, TypeName(n) PROVE TypeOK'
  <2>1. checks' \in Seq(Names)
    BY <1>1, <1>6 DEF TypeName, TypeOK
  <2>2. QED
    BY <1>1, <1>6, <2>1 DEF TypeName, TypeOK, serverVars, phoneVars, listenVars, flowVars
<1>7. QED
  BY <1>2, <1>3, <1>4, <1>5, <1>6

LEMMA AskSteps ==
  ASSUME IInv,
         \/ Resend
         \/ \E flow \in Flow : AskCode(flow)
         \/ \E r \in Ask : PhoneChecked(r) \/ CodeSent(r) \/ CodeNotSent(r)
  PROVE  TypeOK'
<1>1. TypeOK
  BY DEF IInv
<1>2. ASSUME Resend PROVE TypeOK'
  <2>1. asks' \subseteq Ask
    BY <1>1, <1>2 DEF Resend, TypeOK, Ask
  <2>2. QED
    BY <1>1, <1>2, <2>1 DEF Resend, TypeOK, serverVars, phoneVars, listenVars, screenVars
<1>3. ASSUME NEW flow \in Flow, AskCode(flow) PROVE TypeOK'
  <2>1. asks' \subseteq Ask
    BY <1>1, <1>3 DEF AskCode, TypeOK, Ask
  <2>2. QED
    BY <1>1, <1>3, <2>1 DEF AskCode, TypeOK, serverVars, phoneVars, listenVars, screenVars
<1>4. ASSUME NEW r \in Ask, PhoneChecked(r) PROVE TypeOK'
  <2>1. [r EXCEPT !.at = "sms"] \in Ask
    BY DEF Ask
  <2>2. asks' \subseteq Ask
    BY <1>1, <1>4, <2>1 DEF PhoneChecked, TypeOK
  <2>3. QED
    BY <1>1, <1>4, <2>2 DEF PhoneChecked, TypeOK, serverVars, phoneVars, listenVars, screenVars
<1>5. ASSUME NEW r \in Ask, CodeSent(r) PROVE TypeOK'
  <2>1. r.flow # "resend" => CodeScreen(Delegate(r.flow), FALSE) \in Screen
    <3>1. r.flow # "resend" => Delegate(r.flow) \in Flow \cup {"nobody"}
      BY DEF Ask, Flow, Delegate
    <3>2. QED
      BY <3>1, ScreenKinds
  <2>2. stack' \in Seq(Screen)
    <3>1. stack \in Seq(Screen)
      BY <1>1 DEF TypeOK
    <3>2. CASE r.flow = "resend"
      BY <1>5, <3>1, <3>2 DEF CodeSent
    <3>3. CASE r.flow # "resend"
      <4>1. stack' = Append(stack, CodeScreen(Delegate(r.flow), FALSE))
        BY <1>5, <3>3 DEF CodeSent
      <4>2. QED
        BY <2>1, <3>1, <3>3, <4>1, SeqParts
    <3>4. QED
      BY <3>2, <3>3
  <2>3. lastId' \in Nat /\ stored' \in 0..lastId'
    BY <1>1, <1>5 DEF CodeSent, TypeOK
  <2>4. QED
    BY <1>1, <1>5, <2>2, <2>3 DEF CodeSent, TypeOK, serverVars, listenVars
<1>6. ASSUME NEW r \in Ask, CodeNotSent(r) PROVE TypeOK'
  BY <1>1, <1>6 DEF CodeNotSent, TypeOK, serverVars, phoneVars, listenVars, screenVars
<1>7. QED
  BY <1>2, <1>3, <1>4, <1>5, <1>6

LEMMA TrySteps ==
  ASSUME IInv,
         ConfirmCode \/ TryGoesOn
  PROVE  TypeOK'
<1>1. TypeOK
  BY DEF IInv
<1> DEFINE Named(S) == \A t \in S : t.flow = "signup" \/ t.at \in {"commit", "named"}
                                      => t.name \in Names
<1>2. tries \subseteq Try /\ Named(tries)
  BY <1>1 DEF TypeOK
<1>3. ASSUME ConfirmCode PROVE TypeOK'
  <2>1. Front(stack) \in Seq(Screen) /\ Top.flow \in Flow
    BY <1>1, <1>3, StackParts, ScreenKinds DEF ConfirmCode, On, Top, TypeOK
  <2>2. stack' \in Seq(Screen)
    <3>1. stack' = Append(Front(stack), CodeScreen(Top.flow, TRUE))
      BY <1>3 DEF ConfirmCode
    <3>2. CodeScreen(Top.flow, TRUE) \in Screen
      BY <2>1, ScreenKinds
    <3>3. QED
      BY <2>1, <3>1, <3>2, SeqParts
  <2>3. tries' \subseteq Try /\ Named(tries')
    BY <1>1, <1>2, <1>3, NewTryKind DEF ConfirmCode, TypeOK
  <2>4. stored' \in 0..lastId /\ listener' \in {"off", "new", "out", "in"}
    BY <1>1, <1>3 DEF ConfirmCode, TypeOK
  <2>5. QED
    BY <1>1, <1>3, <2>2, <2>3, <2>4 DEF ConfirmCode, TypeOK, serverVars
<1>4. ASSUME NEW t \in tries, SignedIn(t) PROVE TypeOK'
  <2> DEFINE at == IF t.flow = "login" THEN "name" ELSE "commit"
             u == [t EXCEPT !.at = at, !.name = t.name]
  <2>1. t \in Try /\ t.name \in Names \cup {none} /\ t.flow \in Flow
    BY <1>2 DEF Try
  <2>2. at \in {"name", "commit"} /\ (at = "commit" => t.flow = "signup")
    BY <2>1 DEF Flow
  <2>3. u \in Try /\ u.flow = t.flow /\ u.at = at /\ u.name = t.name
    <3> HIDE DEF at
    <3>1. QED
      BY <2>1, <2>2 DEF Try
  <2>4. tries' = (tries \ {t}) \cup {u}
    BY <1>4 DEF SignedIn, Moved
  <2>5. u.flow = "signup" \/ u.at \in {"commit", "named"} => u.name \in Names
    BY <1>2, <2>1, <2>2, <2>3 DEF Flow
  <2>6. tries' \subseteq Try /\ Named(tries')
    BY <1>2, <2>3, <2>4, <2>5
  <2>7. arrivals' \in Nat /\ notes' \in Nat
    BY <1>1, <1>4 DEF SignedIn, TypeOK
  <2>8. QED
    BY <1>1, <1>4, <2>6, <2>7 DEF SignedIn, TypeOK, serverVars, screenVars
<1>5. ASSUME NEW t \in tries, TryFails(t) PROVE TypeOK'
  <2>1. tries' \subseteq Try /\ Named(tries')
    BY <1>2, <1>5 DEF TryFails
  <2>2. QED
    BY <1>1, <1>5, <2>1 DEF TryFails, TypeOK, serverVars, phoneVars, screenVars
<1>6. ASSUME NEW t \in tries, NameFetched(t) PROVE TypeOK'
  <2>1. CASE tries' = tries \ {t}
    BY <1>1, <1>2, <1>6, <2>1
    DEF NameFetched, TypeOK, serverVars, phoneVars, listenVars, screenVars
  <2>2. CASE tries' # tries \ {t}
    <3>1. PICK n \in OwnNames : tries' = Moved(t, "commit", n)
      BY <1>6, <2>2 DEF NameFetched
    <3> DEFINE u == [t EXCEPT !.at = "commit", !.name = n]
    <3>2. n \in Names /\ t \in Try
      BY <1>2, <3>1 DEF OwnNames
    <3>3. u \in Try /\ u.name = n
      BY <3>2 DEF Try
    <3>4. tries' = (tries \ {t}) \cup {u}
      BY <3>1 DEF Moved
    <3>5. tries' \subseteq Try /\ Named(tries')
      BY <1>2, <3>2, <3>3, <3>4
    <3>6. QED
      BY <1>1, <1>6, <3>5
      DEF NameFetched, TypeOK, serverVars, phoneVars, listenVars, screenVars
  <2>3. QED
    BY <2>1, <2>2
<1>7. ASSUME NEW t \in tries, NameSet(t) PROVE TypeOK'
  <2> DEFINE u == [t EXCEPT !.at = "named", !.name = t.name]
  <2>1. t.name \in Names
    BY <1>2, <1>7 DEF NameSet
  <2>2. u \in Try /\ u.name = t.name
    BY <1>2, <2>1 DEF Try
  <2>3. tries' = (tries \ {t}) \cup {u}
    BY <1>7 DEF NameSet, Moved
  <2>4. tries' \subseteq Try /\ Named(tries')
    BY <1>2, <2>1, <2>2, <2>3
  <2>5. QED
    BY <1>1, <1>7, <2>1, <2>4 DEF NameSet, TypeOK, phoneVars, listenVars, screenVars
<1>8. ASSUME NEW t \in tries, NameAnswered(t) PROVE TypeOK'
  <2>1. t.name \in Names
    BY <1>2, <1>8 DEF NameAnswered
  <2>2. tries' \subseteq Try /\ Named(tries')
    BY <1>2, <1>8 DEF NameAnswered
  <2>3. outbox' \in Seq(Names)
    <3>1. outbox \in Seq(Names)
      BY <1>1 DEF TypeOK
    <3>2. outbox' = Append(outbox, t.name) \/ outbox' = outbox
      BY <1>8 DEF NameAnswered
    <3>3. QED
      BY <2>1, <3>1, <3>2, SeqParts
  <2>4. notes' \in Nat /\ listener' \in {"off", "new", "out", "in"}
    BY <1>1, <1>8 DEF NameAnswered, TypeOK
  <2>5. QED
    BY <1>1, <1>8, <2>1, <2>2, <2>3, <2>4 DEF NameAnswered, TypeOK, serverVars, screenVars
<1>9. QED
  BY <1>3, <1>4, <1>5, <1>6, <1>7, <1>8 DEF TryGoesOn

LEMMA OtherSteps ==
  ASSUME IInv,
         StoreUser \/ Restart \/ \E n \in Names : OtherTakes(n)
  PROVE  TypeOK'
<1>1. TypeOK
  BY DEF IInv
<1>2. ASSUME StoreUser PROVE TypeOK'
  <2>1. outbox' \in Seq(Names) /\ Head(outbox) \in Names
    BY <1>1, <1>2 DEF StoreUser, TypeOK
  <2>2. QED
    BY <1>1, <1>2, <2>1 DEF StoreUser, TypeOK, listenVars, screenVars, flowVars
<1>3. ASSUME Restart PROVE TypeOK'
  <2>1. outbox' \in Seq(Names) /\ stack' \in Seq(Screen) /\ checks' \in Seq(Names)
    BY <1>3, SeqParts DEF Restart
  <2>2. arrivals' \in Nat /\ tries' = {} /\ asks' = {}
    BY <1>3 DEF Restart
  <2>3. QED
    BY <1>1, <1>3, <2>1, <2>2 DEF Restart, TypeOK, serverVars
<1>4. ASSUME NEW n \in Names, OtherTakes(n) PROVE TypeOK'
  BY <1>1, <1>4 DEF OtherTakes, TypeOK, phoneVars, listenVars, screenVars, flowVars
<1>5. QED
  BY <1>2, <1>3, <1>4

LEMMA StepTyped == IInv /\ [Next]_vars => TypeOK'
<1>1. ASSUME IInv, UNCHANGED vars PROVE TypeOK'
  BY <1>1 DEF IInv, TypeOK, vars, serverVars, phoneVars, listenVars, screenVars, flowVars
<1>2. QED
  BY <1>1, ScreenSteps, AskSteps, TrySteps, OtherSteps DEF Next

-----------------------------------------------------------------------------
(* The rest of the invariant. *)

LEMMA InitSteady == Init => Steady
<1>1. ASSUME Init PROVE Steady
  <2>1. tries = {} /\ SignUps = {} /\ Unseen = 0
    BY <1>1 DEF Init, SignUps, Unseen
  <2>2. HomesOwed
    BY <1>1, <2>1, FS_EmptySet DEF Init, HomesOwed
  <2>3. ListedHasName
    BY <1>1, NamesAssumption DEF Init, ListedHasName, OwnNames, Contains
  <2>4. QED
    BY <1>1, <2>1, <2>2, <2>3, FS_EmptySet
    DEF Init, Steady, OneTryPerId, StoredIsUntried, TryStages, ListenerComesBack,
        OffWhileSigningUp
<1>2. QED
  BY <1>1

LEMMA QuietSteps ==
  ASSUME IInv,
         \/ OpenSignUp \/ Back \/ NameChecked \/ Resend
         \/ \E n \in Names : TypeName(n)
         \/ \E flow \in Flow : AskCode(flow)
         \/ \E r \in Ask : PhoneChecked(r) \/ CodeNotSent(r)
  PROVE  Steady'
<1>1. Quiet
  BY DEF OpenSignUp, Back, NameChecked, Resend, TypeName, AskCode, PhoneChecked, CodeNotSent,
         Quiet, serverVars, phoneVars, flowVars
<1>2. QED
  BY <1>1, QuietKeeps

LEMMA CodeSentSteady ==
  ASSUME IInv, NEW r \in Ask, CodeSent(r)
  PROVE  Steady'
<1>1. lastId \in Nat /\ lastId' = lastId + 1 /\ stored' = lastId + 1
  BY DEF CodeSent, IInv, TypeOK
<1>2. \A t \in tries : t.id \in Nat
  BY DEF IInv, TypeOK, Try
<1>3. UNCHANGED <<users, account, outbox, signedIn, listenVars, tries>>
  BY DEF CodeSent, serverVars
<1>4. StoredIsUntried'
  BY <1>1, <1>2, <1>3 DEF IInv, Steady, StoredIsUntried
<1>5. QED
  BY <1>3, <1>4
  DEF IInv, Steady, listenVars, OneTryPerId, TryStages, ListenerComesBack, OffWhileSigningUp,
      ListedHasName, OwnNames, SignUps, HomesOwed, Unseen

LEMMA AuthEventSteady ==
  ASSUME IInv, AuthEvent
  PROVE  Steady'
<1>1. UNCHANGED <<users, account, outbox, signedIn, stored, tries, lastId, failed, arrivals>>
  BY DEF AuthEvent, serverVars, phoneVars, flowVars
<1>2. listener # "off" /\ listener' # "off"
  BY DEF AuthEvent, IInv, Steady, OffWhileSigningUp, TypeOK
<1>3. UNCHANGED SignUps /\ Cardinality(SignUps) \in Nat
  BY <1>1, SignUpsFinite DEF SignUps
<1>4. \/ homes' = homes + 1 /\ Unseen' = Unseen - 1
      \/ homes' = homes /\ (Unseen' = Unseen \/ Unseen' = Unseen - 1)
  BY <1>1, <1>2 DEF AuthEvent, Unseen, IInv, TypeOK
<1>5. homes \in Nat /\ homes' \in Nat /\ Unseen \in Nat /\ Unseen' \in Nat /\ arrivals \in Nat
  BY DEF AuthEvent, Unseen, IInv, TypeOK
<1>6. HomesOwed'
  <2>1. homes + Cardinality(SignUps) + Unseen <= arrivals
    BY DEF IInv, Steady, HomesOwed
  <2>2. /\ Cardinality(SignUps') = Cardinality(SignUps) /\ Cardinality(SignUps) \in Nat
        /\ arrivals' = arrivals
    BY <1>1, <1>3
  <2>3. homes' + Cardinality(SignUps') + Unseen' <= arrivals'
    BY <1>4, <1>5, <2>1, <2>2
  <2>4. QED
    BY <2>3 DEF HomesOwed
<1>7. QED
  BY <1>1, <1>2, <1>3, <1>6
  DEF IInv, Steady, OneTryPerId, StoredIsUntried, TryStages, ListenerComesBack,
      OffWhileSigningUp, ListedHasName, OwnNames

LEMMA ConfirmCodeSteady ==
  ASSUME IInv, ConfirmCode
  PROVE  Steady'
<1>1. CASE UNCHANGED <<stored, tries, listener>>
  <2>1. Quiet
    BY <1>1 DEF ConfirmCode, Quiet, serverVars, listenVars
  <2>2. QED
    BY <2>1, QuietKeeps
<1>2. CASE stored # 0 /\ ~UNCHANGED <<stored, tries, listener>>
  <2>1. /\ stored' = 0 /\ tries' = tries \cup {NewTry} /\ notes = 0
        /\ listener' = IF Top.flow = "signup" THEN "off" ELSE listener
        /\ UNCHANGED <<users, account, outbox, signedIn, replaced, homes, arrivals, failed,
                       notes, lastId>>
    BY <1>2 DEF ConfirmCode, serverVars
  <2>2. /\ NewTry.id = stored /\ NewTry.flow = Top.flow /\ NewTry.at = "signIn"
        /\ Top.flow \in Flow
    BY <1>2, NewTryKind DEF ConfirmCode
  <2>3. stored \in 0..lastId /\ lastId \in Nat /\ \A t \in tries : t.id \in Nat \ {0}
    BY DEF IInv, TypeOK, Try
  <2>4. IsFiniteSet(tries')
    BY <2>1, FS_AddElement DEF IInv, Steady
  <2>5. OneTryPerId'
    BY <2>1, <2>2 DEF IInv, Steady, OneTryPerId, StoredIsUntried
  <2>6. StoredIsUntried'
    BY <1>2, <2>1, <2>2, <2>3 DEF IInv, Steady, StoredIsUntried
  <2>7. TryStages'
    BY <2>1, <2>2 DEF IInv, Steady, TryStages
  <2>8. ListenerComesBack'
    BY <2>1, <2>2 DEF IInv, Steady, ListenerComesBack
  <2>9. OffWhileSigningUp'
    BY <2>1, <2>2 DEF IInv, Steady, OffWhileSigningUp
  <2>10. ListedHasName'
    BY <2>1 DEF IInv, Steady, ListedHasName, OwnNames
  <2>11. UNCHANGED SignUps
    BY <2>1, <2>2 DEF SignUps
  <2>12. Unseen' <= Unseen /\ Unseen \in Nat /\ Unseen' \in Nat
    BY <2>1 DEF Unseen, IInv, TypeOK
  <2>13. HomesOwed'
    BY <2>1, <2>11, <2>12, SignUpsFinite DEF IInv, Steady, HomesOwed, TypeOK
  <2>14. QED
    BY <2>1, <2>4, <2>5, <2>6, <2>7, <2>8, <2>9, <2>10, <2>11, <2>13 DEF IInv, Steady
<1>3. QED
  BY <1>1, <1>2 DEF ConfirmCode

LEMMA MovedBecomes ==
  ASSUME IInv, NEW t \in tries, NEW at \in {"signIn", "name", "commit", "named"},
         NEW n \in Names \cup {none}, tries' = Moved(t, at, n)
  PROVE  \E u \in Try : Becomes(t, u) /\ u.at = at /\ u.name = n
<1> DEFINE u == [t EXCEPT !.at = at, !.name = n]
<1>1. t \in Try
  BY DEF IInv, TypeOK
<1>2. u \in Try /\ u.id = t.id /\ u.flow = t.flow /\ u.at = at /\ u.name = n
  BY <1>1 DEF Try
<1>3. tries' = (tries \ {t}) \cup {u}
  BY DEF Moved
<1>4. Becomes(t, u)
  BY <1>2, <1>3 DEF Becomes
<1>5. QED
  BY <1>2, <1>4

LEMMA SignedInSteady ==
  ASSUME IInv, NEW t \in tries, SignedIn(t)
  PROVE  Steady'
<1> DEFINE at == IF t.flow = "login" THEN "name" ELSE "commit"
<1>1. t \in Try /\ t.flow \in Flow /\ t.name \in Names \cup {none} /\ t.at = "signIn"
  BY DEF SignedIn, IInv, TypeOK, Try
<1>2. /\ signedIn' = TRUE /\ arrivals' = arrivals + 1
      /\ notes' = IF listener = "off" THEN notes ELSE notes + 1
      /\ UNCHANGED <<users, account, outbox, stored, listener, replaced, homes, failed, lastId>>
  BY DEF SignedIn, serverVars
<1>3. PICK u \in Try : Becomes(t, u) /\ u.at = at /\ u.name = t.name
  BY <1>1, MovedBecomes DEF SignedIn
<1>4. tries' = (tries \ {t}) \cup {u} /\ u.flow = t.flow
  BY <1>3 DEF Becomes
<1>5. IsFiniteSet(tries') /\ OneTryPerId' /\ StoredIsUntried'
  BY <1>2, <1>3, TriesKeep
<1>6. TryStages'
  BY <1>1, <1>2, <1>3, <1>4 DEF IInv, Steady, TryStages
<1>7. ListenerComesBack'
  BY <1>2, <1>4 DEF IInv, Steady, ListenerComesBack
<1>8. OffWhileSigningUp'
  BY <1>2 DEF IInv, Steady, OffWhileSigningUp
<1>9. ListedHasName'
  BY <1>2 DEF IInv, Steady, ListedHasName, OwnNames
<1>10. /\ Unseen \in Nat /\ Unseen' \in Nat /\ Unseen' <= Unseen + 1
       /\ homes \in Nat /\ arrivals \in Nat
  BY <1>2 DEF Unseen, IInv, TypeOK
<1>11. HomesOwed'
  <2>1. CASE t.flow = "login"
    <3>1. UNCHANGED SignUps
      BY <1>4, <2>1 DEF SignUps
    <3>2. QED
      BY <1>2, <1>10, <3>1, SignUpsFinite DEF IInv, Steady, HomesOwed
  <2>2. CASE t.flow = "signup"
    <3>1. SignUps' = SignUps \cup {u}
      BY <1>1, <1>3, <1>4, <2>2 DEF SignUps
    <3>2. signedIn \/ listener = "off"
      BY <2>2 DEF IInv, Steady, OffWhileSigningUp
    <3>3. Unseen' <= Unseen
      BY <1>2, <1>10, <3>2 DEF Unseen, IInv, TypeOK
    <3>4. /\ Cardinality(SignUps') <= Cardinality(SignUps) + 1
          /\ Cardinality(SignUps') \in Nat /\ Cardinality(SignUps) \in Nat
      BY <3>1, OneMoreSignUp, SignUpsFinite
    <3>5. homes + Cardinality(SignUps) + Unseen <= arrivals
      BY DEF IInv, Steady, HomesOwed
    <3>6. homes' + Cardinality(SignUps') + Unseen' <= arrivals'
      BY <1>2, <1>10, <3>3, <3>4, <3>5
    <3>7. QED
      BY <3>6 DEF HomesOwed
  <2>3. QED
    BY <1>1, <2>1, <2>2 DEF Flow
<1>12. QED
  BY <1>2, <1>5, <1>6, <1>7, <1>8, <1>9, <1>11 DEF Steady

LEMMA TryFailsSteady ==
  ASSUME IInv, NEW t \in tries, TryFails(t)
  PROVE  Steady'
<1>1. /\ Drops(t) /\ failed' = (failed \/ t.flow = "signup")
      /\ UNCHANGED <<users, account, outbox, signedIn, stored, listener, notes, replaced, homes,
                     arrivals, lastId>>
  BY DEF TryFails, Drops, serverVars, phoneVars
<1>2. tries' = tries \ {t}
  BY <1>1 DEF Drops
<1>3. IsFiniteSet(tries') /\ OneTryPerId' /\ StoredIsUntried'
  BY <1>1, TriesKeep
<1>4. TryStages' /\ ListenerComesBack' /\ OffWhileSigningUp'
  BY <1>1, <1>2 DEF IInv, Steady, TryStages, ListenerComesBack, OffWhileSigningUp
<1>5. ListedHasName'
  BY <1>1 DEF IInv, Steady, ListedHasName, OwnNames
<1>6. SignUps' = SignUps \ {t} /\ UNCHANGED Unseen
  BY <1>1, <1>2 DEF SignUps, Unseen
<1>7. Unseen \in Nat /\ homes \in Nat /\ arrivals \in Nat
  BY DEF Unseen, IInv, TypeOK
<1>8. HomesOwed'
  <2>1. CASE t \in SignUps
    BY <1>1, <1>6, <1>7, <2>1, OneSignUpLess, SignUpsFinite DEF IInv, Steady, HomesOwed
  <2>2. CASE t \notin SignUps
    <3>1. UNCHANGED SignUps
      BY <1>6, <2>2
    <3>2. QED
      BY <1>1, <1>6, <3>1 DEF IInv, Steady, HomesOwed
  <2>3. QED
    BY <2>1, <2>2
<1>9. QED
  BY <1>1, <1>3, <1>4, <1>5, <1>6, <1>8 DEF IInv, Steady

LEMMA NameFetchedSteady ==
  ASSUME IInv, NEW t \in tries, NameFetched(t)
  PROVE  Steady'
<1>1. UNCHANGED <<users, account, outbox, signedIn, stored, listener, notes, replaced, homes,
                  arrivals, failed, lastId>>
  BY DEF NameFetched, serverVars, phoneVars, listenVars
<1>2. t \in Try /\ t.flow = "login"
  BY DEF NameFetched, IInv, Steady, TypeOK, TryStages
<1>3. Drops(t) \/ \E u \in Try : Becomes(t, u) /\ u.at = "commit"
  <2>1. CASE tries' = tries \ {t}
    BY <2>1 DEF Drops
  <2>2. CASE tries' # tries \ {t}
    <3>1. PICK n \in OwnNames : tries' = Moved(t, "commit", n)
      BY <2>2 DEF NameFetched
    <3>2. QED
      BY <3>1, MovedBecomes DEF OwnNames
  <2>3. QED
    BY <2>1, <2>2
<1>4. IsFiniteSet(tries') /\ OneTryPerId' /\ StoredIsUntried'
  BY <1>1, <1>3, TriesKeep
<1>5. \A v : v.flow = "signup" => (v \in tries' <=> v \in tries)
  BY <1>2, <1>3 DEF Drops, Becomes
<1>6. \A v \in tries' : v \in tries \/ v.at = "commit"
  BY <1>3 DEF Drops, Becomes
<1>7. TryStages'
  BY <1>1, <1>6 DEF IInv, Steady, TryStages
<1>8. UNCHANGED SignUps /\ UNCHANGED Unseen
  BY <1>1, <1>5 DEF SignUps, Unseen
<1>9. ListenerComesBack' /\ OffWhileSigningUp'
  BY <1>1, <1>5 DEF IInv, Steady, ListenerComesBack, OffWhileSigningUp
<1>10. ListedHasName' /\ HomesOwed'
  BY <1>1, <1>8 DEF IInv, Steady, ListedHasName, OwnNames, HomesOwed
<1>11. QED
  BY <1>1, <1>4, <1>7, <1>8, <1>9, <1>10 DEF IInv, Steady

LEMMA NameSetSteady ==
  ASSUME IInv, NEW t \in tries, NameSet(t)
  PROVE  Steady'
<1>1. /\ account' = t.name
      /\ UNCHANGED <<users, outbox, signedIn, stored, listener, notes, replaced, homes, arrivals,
                     failed, lastId>>
  BY DEF NameSet, phoneVars, listenVars
<1>2. t.name \in Names /\ t.at = "commit"
  BY DEF NameSet, IInv, TypeOK
<1>3. PICK u \in Try : Becomes(t, u) /\ u.at = "named"
  BY <1>2, MovedBecomes DEF NameSet
<1>4. tries' = (tries \ {t}) \cup {u} /\ u.flow = t.flow
  BY <1>3 DEF Becomes
<1>5. IsFiniteSet(tries') /\ OneTryPerId' /\ StoredIsUntried'
  BY <1>1, <1>3, TriesKeep
<1>6. account' # none
  BY <1>1, <1>2, NamesAssumption
<1>7. TryStages'
  BY <1>3, <1>4, <1>6 DEF IInv, Steady, TryStages
<1>8. ListenerComesBack' /\ OffWhileSigningUp'
  BY <1>1, <1>4 DEF IInv, Steady, ListenerComesBack, OffWhileSigningUp
<1>9. ListedHasName'
  BY <1>6 DEF ListedHasName
<1>10. UNCHANGED Unseen /\ Unseen \in Nat /\ homes \in Nat /\ arrivals \in Nat
  BY <1>1 DEF Unseen, IInv, TypeOK
<1>11. HomesOwed' /\ (SignUps # {} => signedIn)'
  <2>1. CASE t.flow = "signup"
    <3>1. t \in SignUps /\ SignUps' = (SignUps \ {t}) \cup {u}
      BY <1>2, <1>3, <1>4, <2>1 DEF SignUps
    <3>2. /\ Cardinality(SignUps') <= Cardinality(SignUps)
          /\ Cardinality(SignUps') \in Nat /\ Cardinality(SignUps) \in Nat
      BY <3>1, OneSignUpReplaced, SignUpsFinite
    <3>3. homes + Cardinality(SignUps) + Unseen <= arrivals /\ signedIn
      BY <3>1 DEF IInv, Steady, HomesOwed
    <3>4. homes' + Cardinality(SignUps') + Unseen' <= arrivals'
      BY <1>1, <1>10, <3>2, <3>3
    <3>5. QED
      BY <1>1, <3>3, <3>4 DEF HomesOwed
  <2>2. CASE t.flow # "signup"
    <3>1. UNCHANGED SignUps
      BY <1>4, <2>2 DEF SignUps
    <3>2. QED
      BY <1>1, <1>10, <3>1 DEF IInv, Steady, HomesOwed
  <2>3. QED
    BY <2>1, <2>2
<1>12. QED
  BY <1>5, <1>7, <1>8, <1>9, <1>11 DEF Steady

LEMMA NameAnsweredSteady ==
  ASSUME IInv, NEW t \in tries, NameAnswered(t)
  PROVE  Steady'
<1>1. /\ t.at = "named" /\ Drops(t) /\ tries' = tries \ {t}
      /\ UNCHANGED <<users, account, signedIn, stored, homes, arrivals, failed, lastId>>
  BY DEF NameAnswered, Drops, serverVars
<1>2. IsFiniteSet(tries') /\ OneTryPerId' /\ StoredIsUntried'
  BY <1>1, TriesKeep
<1>3. TryStages' /\ ListedHasName'
  BY <1>1 DEF IInv, Steady, TryStages, ListedHasName
<1>4. SignUps' = SignUps \ {t}
  BY <1>1 DEF SignUps
<1>5. Unseen \in Nat /\ homes \in Nat /\ arrivals \in Nat
  BY DEF Unseen, IInv, TypeOK
<1>6. ListenerComesBack' /\ OffWhileSigningUp' /\ HomesOwed'
  <2>1. CASE t.flow = "signup"
    <3>1. t \in SignUps /\ signedIn /\ listener' = "new"
      BY <1>1, <2>1 DEF NameAnswered, IInv, Steady, SignUps
    <3>2. ListenerComesBack' /\ OffWhileSigningUp'
      BY <1>1, <3>1 DEF ListenerComesBack, OffWhileSigningUp
    <3>3. Unseen' \in Nat /\ Unseen' <= Unseen + 1
      BY <1>1, <2>1, <3>1 DEF NameAnswered, Unseen, IInv, TypeOK
    <3>4. HomesOwed'
      BY <1>1, <1>4, <1>5, <3>1, <3>3, OneSignUpLess, SignUpsFinite DEF IInv, Steady, HomesOwed
    <3>5. QED
      BY <3>2, <3>4
  <2>2. CASE t.flow # "signup"
    <3>1. UNCHANGED <<listener, notes, replaced>>
      BY <2>2 DEF NameAnswered
    <3>2. UNCHANGED SignUps /\ UNCHANGED Unseen
      BY <1>1, <1>4, <2>2, <3>1 DEF SignUps, Unseen
    <3>3. ListenerComesBack' /\ OffWhileSigningUp'
      BY <1>1, <2>2, <3>1 DEF IInv, Steady, ListenerComesBack, OffWhileSigningUp
    <3>4. QED
      BY <1>1, <3>2, <3>3 DEF IInv, Steady, HomesOwed
  <2>3. QED
    BY <2>1, <2>2
<1>7. QED
  BY <1>1, <1>2, <1>3, <1>4, <1>6 DEF IInv, Steady

LEMMA OutsideSteady ==
  ASSUME IInv, StoreUser \/ \E n \in Names : OtherTakes(n)
  PROVE  Steady'
<1>1. UNCHANGED <<account, signedIn, stored, listenVars, tries, lastId>>
  BY DEF StoreUser, OtherTakes, phoneVars, flowVars
<1>2. OwnNames' # {} => OwnNames # {}
  <2>1. CASE StoreUser
    <3>1. outbox # <<>> /\ outbox \in Seq(Names)
      BY <2>1 DEF StoreUser, IInv, TypeOK
    <3>2. outbox[1] \in Names /\ 1 \in 1..Len(outbox)
      BY <3>1
    <3>3. QED
      BY <3>2 DEF OwnNames, Contains
  <2>2. CASE \E n \in Names : OtherTakes(n)
    BY <2>2 DEF OtherTakes, OwnNames, Contains, phoneVars, IInv, TypeOK
  <2>3. QED
    BY <2>1, <2>2
<1>3. ListedHasName'
  BY <1>1, <1>2 DEF IInv, Steady, ListedHasName
<1>4. QED
  BY <1>1, <1>3
  DEF IInv, Steady, listenVars, OneTryPerId, StoredIsUntried, TryStages, ListenerComesBack,
      OffWhileSigningUp, SignUps, HomesOwed, Unseen

LEMMA RestartSteady ==
  ASSUME IInv, Restart
  PROVE  Steady'
<1>1. /\ tries' = {} /\ listener' = "new" /\ replaced' = 0 /\ homes' = 0 /\ outbox' = <<>>
      /\ arrivals' = (IF signedIn THEN 1 ELSE 0) /\ UNCHANGED <<users, account, signedIn>>
  BY DEF Restart, serverVars
<1>2. SignUps' = {} /\ Unseen' = arrivals'
  BY <1>1 DEF SignUps, Unseen
<1>3. HomesOwed'
  BY <1>1, <1>2, FS_EmptySet DEF HomesOwed
<1>4. ListedHasName'
  BY <1>1 DEF IInv, Steady, ListedHasName, OwnNames, Contains
<1>5. QED
  BY <1>1, <1>2, <1>3, <1>4, FS_EmptySet
  DEF Steady, OneTryPerId, StoredIsUntried, TryStages, ListenerComesBack, OffWhileSigningUp

LEMMA StepSteady == IInv /\ [Next]_vars => Steady'
<1>1. ASSUME IInv, UNCHANGED vars PROVE Steady'
  <2>1. Quiet
    BY <1>1 DEF Quiet, vars, serverVars, phoneVars, flowVars
  <2>2. QED
    BY <1>1, <2>1, QuietKeeps
<1>2. ASSUME IInv, TryGoesOn PROVE Steady'
  BY <1>2, SignedInSteady, TryFailsSteady, NameFetchedSteady, NameSetSteady, NameAnsweredSteady
  DEF TryGoesOn
<1>3. QED
  BY <1>1, <1>2, QuietSteps, CodeSentSteady, AuthEventSteady, ConfirmCodeSteady, OutsideSteady,
     RestartSteady
  DEF Next

-----------------------------------------------------------------------------
(* The theorems. *)

\* The invariant that the theorems below follow from.
THEOREM SignInInvariant == Spec => []IInv
<1>1. Init => IInv
  BY InitTyped, InitSteady DEF IInv
<1>2. IInv /\ [Next]_vars => IInv'
  BY StepTyped, StepSteady DEF IInv
<1>3. QED
  BY <1>1, <1>2, PTL DEF Spec

\* Type correctness: an attempt that has to set the account's name has one to
\* set.
THEOREM SignInTypeCorrect == Spec => []TypeOK
<1>1. IInv => TypeOK
  BY DEF IInv
<1>2. QED
  BY <1>1, SignInInvariant, PTL

\* Two attempts never try the same verification id, whatever is typed, sent
\* anew and restarted in between: getVerificationId deletes what it returns.
THEOREM IdsTriedOnce == Spec => []OneTryPerId
<1>1. IInv => OneTryPerId
  BY DEF IInv, Steady
<1>2. QED
  BY <1>1, SignInInvariant, PTL

\* While neither a sign-up is under way nor one has failed, the app listens to
\* who is signed in: each of several sign-ups that end puts the listener back.
THEOREM ListenerIsBack == Spec => []ListenerComesBack
<1>1. IInv => ListenerComesBack
  BY DEF IInv, Steady
<1>2. QED
  BY <1>1, SignInInvariant, PTL

\* Wherever signUp is cut off, by an error or by the end of the process: the
\* number is not among users before the account has its name.
THEOREM ListedAreNamed == Spec => []ListedHasName
<1>1. IInv => ListedHasName
  BY DEF IInv, Steady
<1>2. QED
  BY <1>1, SignInInvariant, PTL

\* However sign-ups, logins and the listener's calls interleave, home is pushed
\* at most once for each time somebody was signed in since the launch.
THEOREM HomeShownOncePerSignIn == Spec => []HomeOncePerSignIn
<1>1. IInv => HomeOncePerSignIn
  <2>1. ASSUME IInv PROVE HomeOncePerSignIn
    <3>1. Unseen \in Nat /\ homes \in Nat /\ arrivals \in Nat
      BY <2>1 DEF Unseen, IInv, TypeOK
    <3>2. QED
      BY <2>1, <3>1, SignUpsFinite DEF IInv, Steady, HomesOwed, HomeOncePerSignIn
  <2>2. QED
    BY <2>1
<1>2. QED
  BY <1>1, SignInInvariant, PTL
=============================================================================

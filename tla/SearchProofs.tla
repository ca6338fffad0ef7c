---------------------------- MODULE SearchProofs ----------------------------
(***************************************************************************)
(* The search, for any names and ids and any number of open questions:     *)
(* type correctness, FoundIsARecord and SettledShowsText. While nothing    *)
(* was overtaken, the last of what is open (questions before answers,      *)
(* answers before the row shown) is for the text in the search bar.        *)
(***************************************************************************)
EXTENDS Search, SequenceTheorems, TLAPS

\* Each record, and each answer that is one, has been there.
Known ==
  /\ \A n \in Names : users[n] # none => [name |-> n, id |-> users[n]] \in ever
  /\ \A i \in 1..Len(answers) : answers[i].id # none => answers[i] \in ever

\* A text whose record was there keeps it: records are replaced, not removed.
ListedStays == text # none /\ listed => users[text] # none

\* What was asked last is what will be shown last.
LatestIsText ==
  text # none /\ listed /\ ~overtaken =>
    /\ asked # <<>> => Last(asked) = text
    /\ asked = <<>> /\ answers # <<>> => Last(answers).name = text /\ Last(answers).id # none
    /\ Nothing => shown # none /\ shown.name = text

\* A list that was emptied while nothing was open has nothing to fill it.
EmptyStays == open /\ text = none /\ quiet => Nothing /\ shown = none

\* A screen that is not there asks and shows nothing.
Closed == ~open => ~searching /\ Nothing /\ text = none /\ shown = none

IInv == TypeOK /\ Known /\ FoundIsARecord /\ ListedStays /\ LatestIsText /\ EmptyStays /\ Closed

-----------------------------------------------------------------------------
(* Facts about the data. *)

LEMMA NoUser == none \notin Names /\ none \notin Ids /\ none \notin User
BY NoneIsNoName DEF User

LEMMA AnswerParts ==
  ASSUME NEW a \in Answer
  PROVE  /\ a.name \in Names /\ a.id \in Ids \cup {none}
         /\ a.id # none => a \in User
BY DEF Answer, User

LEMMA EmptyLen ==
  ASSUME NEW S, NEW s \in Seq(S)
  PROVE  s = <<>> <=> Len(s) = 0
OBVIOUS

LEMMA HeadAnswer ==
  ASSUME answers \in Seq(Answer), answers # <<>>
  PROVE  /\ Head(answers) \in Answer /\ Head(answers) = answers[1] /\ 1 \in 1..Len(answers)
         /\ Tail(answers) \in Seq(Answer) /\ Len(Tail(answers)) = Len(answers) - 1
         /\ \A i \in 1..Len(Tail(answers)) : Tail(answers)[i] = answers[i + 1]
         /\ \A i \in 1..Len(Tail(answers)) : i + 1 \in 1..Len(answers)
<1>1. Len(answers) \in Nat /\ Len(answers) # 0
  BY EmptyLen
<1>2. QED
  BY <1>1, HeadTailProperties

\* A question that is taken out leaves the others in their order.
LEMMA QuestionTaken ==
  ASSUME asked \in Seq(Names), NEW i \in DOMAIN asked
  PROVE  /\ RemoveAt(asked, i) \in Seq(Names)
         /\ Len(RemoveAt(asked, i)) = Len(asked) - 1
         /\ i = 1 => \A j \in 1..(Len(asked) - 1) : RemoveAt(asked, i)[j] = asked[j + 1]
<1> DEFINE front == SubSeq(asked, 1, i - 1)
           back == SubSeq(asked, i + 1, Len(asked))
<1>1. Len(asked) \in Nat /\ i \in 1..Len(asked)
  OBVIOUS
<1>2. /\ \A j \in 1..(i - 1) : asked[j] \in Names
      /\ \A j \in (i + 1)..Len(asked) : asked[j] \in Names
  BY <1>1, ElementOfSeq
<1>3. front \in Seq(Names) /\ Len(front) = i - 1
  BY <1>1, <1>2, SubSeqProperties
<1>4. /\ back \in Seq(Names) /\ Len(back) = Len(asked) - i
      /\ \A j \in 1..(Len(asked) - i) : back[j] = asked[i + j]
  BY <1>1, <1>2, SubSeqProperties
<1>5. RemoveAt(asked, i) = front \o back
  BY DEF RemoveAt
<1> HIDE DEF front, back
<1>6. /\ front \o back \in Seq(Names) /\ Len(front \o back) = Len(front) + Len(back)
      /\ \A j \in 1..(Len(front) + Len(back)) :
           (front \o back)[j] = IF j <= Len(front) THEN front[j] ELSE back[j - Len(front)]
  BY <1>3, <1>4, ConcatProperties
<1>7. Len(front) + Len(back) = Len(asked) - 1
  BY <1>1, <1>3, <1>4
<1>8. ASSUME i = 1, NEW j \in 1..(Len(asked) - 1)
      PROVE  (front \o back)[j] = asked[j + 1]
  <2>1. Len(front) = 0 /\ Len(back) = Len(asked) - 1
    BY <1>8, <1>1, <1>3, <1>4
  <2>2. (front \o back)[j] = back[j]
    BY <2>1, <1>1, <1>6
  <2>3. QED
    BY <2>1, <2>2, <1>1, <1>4, <1>8
<1>9. QED
  BY <1>5, <1>6, <1>7, <1>8

-----------------------------------------------------------------------------
(* The invariant. *)

LEMMA InvInit == Init => IInv
<1> SUFFICES ASSUME Init
             PROVE  IInv
  OBVIOUS
<1>1. TypeOK
  <2>1. ever \subseteq User
    BY DEF Init, User
  <2>2. asked \in Seq(Names) /\ answers \in Seq(Answer)
    BY DEF Init
  <2>3. QED
    BY <2>1, <2>2 DEF Init, TypeOK
<1>2. Known
  BY DEF Init, Known
<1>3. FoundIsARecord /\ ListedStays
  BY DEF Init, FoundIsARecord, ListedStays
<1>4. LatestIsText /\ EmptyStays /\ Closed
  BY DEF Init, LatestIsText, EmptyStays, Closed, Nothing
<1>5. QED
  BY <1>1, <1>2, <1>3, <1>4 DEF IInv

\* The screen comes, and its table is shown or hidden.
LEMMA InvScreen ==
  ASSUME IInv, ShowSearch \/ BeginEditing \/ EndEditing
  PROVE  IInv'
<1> USE DEF IInv, ShowSearch, BeginEditing, EndEditing, askVars, historyVars
<1>1. TypeOK'
  BY DEF TypeOK
<1>2. Known' /\ FoundIsARecord' /\ ListedStays'
  BY DEF Known, FoundIsARecord, ListedStays
<1>3. LatestIsText'
  BY DEF LatestIsText, Nothing
<1>4. EmptyStays' /\ Closed'
  BY DEF EmptyStays, Closed, Nothing, TypeOK
<1>5. QED
  BY <1>1, <1>2, <1>3, <1>4

LEMMA InvTypeName ==
  ASSUME IInv, NEW n \in Names, TypeName(n)
  PROVE  IInv'
<1> USE DEF IInv
<1>1. /\ text' = n /\ n # none /\ listed' = (users[n] # none)
      /\ UNCHANGED <<users, ever, open, searching, shown, chat, answers, quiet>>
  BY NoUser DEF TypeName
<1>2. asked' \in Seq(Names)
  BY DEF TypeName, TypeOK
<1>3. TypeOK'
  BY <1>1, <1>2 DEF TypeOK, TypeName
<1>4. Known' /\ FoundIsARecord' /\ ListedStays'
  BY <1>1 DEF Known, FoundIsARecord, ListedStays
<1>5. LatestIsText'
  <2>1. SUFFICES ASSUME ~overtaken'
                 PROVE  LatestIsText'
    BY DEF LatestIsText
  <2>2. ~Contains(asked, n) /\ asked' = Append(asked, n)
    BY <2>1 DEF TypeName
  <2>3. asked' # <<>> /\ asked'[Len(asked')] = n
    BY <2>2 DEF TypeOK
  <2>4. QED
    BY <2>3, <1>1 DEF LatestIsText, Nothing, Last
<1>6. EmptyStays'
  BY <1>1 DEF EmptyStays
<1>7. Closed'
  BY <1>1 DEF Closed, TypeName, TypeOK
<1>8. QED
  BY <1>3, <1>4, <1>5, <1>6, <1>7

\* The search bar is emptied, by hand or by cancel.
LEMMA InvEmptied ==
  ASSUME IInv, TypeShort \/ Cancel
  PROVE  IInv'
<1> USE DEF IInv
<1>1. /\ text' = none /\ shown' = none /\ quiet' = Nothing /\ searching' \in BOOLEAN /\ open
      /\ UNCHANGED <<users, ever, open, chat, asked, answers, listed, overtaken>>
  BY DEF TypeShort, Cancel, askVars, Closed, TypeOK
<1>2. TypeOK'
  BY <1>1 DEF TypeOK, Nothing
<1>3. Known' /\ FoundIsARecord' /\ ListedStays' /\ LatestIsText'
  BY <1>1 DEF Known, FoundIsARecord, ListedStays, LatestIsText
<1>4. EmptyStays' /\ Closed'
  BY <1>1 DEF EmptyStays, Closed, Nothing, TypeOK
<1>5. QED
  BY <1>2, <1>3, <1>4

LEMMA InvSelect ==
  ASSUME IInv, Select
  PROVE  IInv'
<1> USE DEF IInv, Select, screenVars, askVars, historyVars
<1>1. TypeOK'
  BY DEF TypeOK
<1>2. Known' /\ FoundIsARecord' /\ ListedStays'
  BY DEF Known, FoundIsARecord, ListedStays
<1>3. LatestIsText' /\ EmptyStays' /\ Closed'
  BY DEF LatestIsText, EmptyStays, Closed, Nothing
<1>4. QED
  BY <1>1, <1>2, <1>3

LEMMA InvLeave ==
  ASSUME IInv, Leave
  PROVE  IInv'
<1> USE DEF IInv, Leave, historyVars
<1>1. TypeOK'
  <2>1. asked' \in Seq(Names) /\ answers' \in Seq(Answer)
    OBVIOUS
  <2>2. QED
    BY <2>1 DEF TypeOK
<1>2. Known' /\ FoundIsARecord' /\ ListedStays'
  BY DEF Known, FoundIsARecord, ListedStays
<1>3. LatestIsText' /\ EmptyStays' /\ Closed'
  BY DEF LatestIsText, EmptyStays, Closed, Nothing
<1>4. QED
  BY <1>1, <1>2, <1>3

LEMMA InvRead ==
  ASSUME IInv, NEW n \in Names, Read(n)
  PROVE  IInv'
<1> USE DEF IInv
<1>1. PICK i \in DOMAIN asked :
        /\ asked[i] = n /\ asked' = RemoveAt(asked, i) /\ overtaken' = (overtaken \/ i # 1)
  BY DEF Read
<1> DEFINE a == [name |-> n, id |-> users[n]]
<1>2. /\ answers' = Append(answers, a)
      /\ UNCHANGED <<users, ever, open, searching, text, shown, chat, listed, quiet>>
  BY DEF Read, screenVars
<1>3. a \in Answer /\ (a.id # none => a \in ever) /\ a.name = n /\ a.id = users[n]
  BY DEF TypeOK, Answer, Known
<1> HIDE DEF a
<1>4. /\ asked \in Seq(Names) /\ Len(asked) \in Nat \ {0} /\ asked # <<>>
      /\ answers \in Seq(Answer) /\ Len(answers) \in Nat
  BY <1>1 DEF TypeOK
<1>5. /\ asked' \in Seq(Names) /\ Len(asked') = Len(asked) - 1
      /\ i = 1 => \A j \in 1..(Len(asked) - 1) : asked'[j] = asked[j + 1]
  BY <1>1, <1>4, QuestionTaken
<1>6. /\ answers' \in Seq(Answer) /\ Len(answers') = Len(answers) + 1
      /\ answers'[Len(answers')] = a
      /\ \A j \in 1..Len(answers) : answers'[j] = answers[j]
  BY <1>2, <1>3, <1>4
<1>7. TypeOK'
  BY <1>1, <1>2, <1>5, <1>6 DEF TypeOK
<1>8. Known'
  <2>1. \A j \in 1..Len(answers') : answers'[j].id # none => answers'[j] \in ever
    BY <1>3, <1>4, <1>6 DEF Known
  <2>2. QED
    BY <2>1, <1>2 DEF Known
<1>9. FoundIsARecord' /\ ListedStays'
  BY <1>2 DEF FoundIsARecord, ListedStays
<1>10. LatestIsText'
  <2>1. SUFFICES ASSUME text # none, listed, ~overtaken, i = 1
                 PROVE  LatestIsText'
    BY <1>1, <1>2 DEF LatestIsText, TypeOK
  <2>2. asked[Len(asked)] = text /\ users[text] # none
    BY <2>1, <1>4 DEF LatestIsText, ListedStays, Last
  <2>3. asked' # <<>> => asked'[Len(asked')] = text
    <3>1. SUFFICES ASSUME Len(asked') # 0
                   PROVE  asked'[Len(asked')] = text
      BY <1>5
    <3>2. Len(asked') \in 1..(Len(asked) - 1) /\ Len(asked') + 1 = Len(asked)
      BY <3>1, <1>4, <1>5
    <3>3. QED
      BY <3>2, <2>1, <2>2, <1>5
  <2>4. asked' = <<>> => a.name = text /\ a.id # none
    BY <2>1, <2>2, <1>1, <1>3, <1>4, <1>5
  <2>5. answers' # <<>>
    BY <1>4, <1>6
  <2>6. QED
    BY <2>3, <2>4, <2>5, <1>2, <1>6 DEF LatestIsText, Nothing, Last
<1>11. EmptyStays' /\ Closed'
  <2>1. ~Nothing
    BY <1>4 DEF Nothing
  <2>2. QED
    BY <2>1, <1>2 DEF EmptyStays, Closed
<1>12. QED
  BY <1>7, <1>8, <1>9, <1>10, <1>11

LEMMA InvShowAnswer ==
  ASSUME IInv, ShowAnswer
  PROVE  IInv'
<1> USE DEF IInv
<1>1. /\ answers # <<>> /\ answers' = Tail(answers)
      /\ shown' = IF Head(answers).id = none THEN shown ELSE Head(answers)
      /\ UNCHANGED <<users, ever, open, searching, text, chat, asked, listed, overtaken, quiet>>
  BY DEF ShowAnswer, historyVars
<1>2. /\ answers[1] \in Answer /\ Head(answers) = answers[1]
      /\ answers' \in Seq(Answer) /\ Len(answers') = Len(answers) - 1
      /\ \A i \in 1..Len(answers') : answers'[i] = answers[i + 1] /\ i + 1 \in 1..Len(answers)
  BY <1>1, HeadAnswer DEF TypeOK
<1>3. Len(answers) \in Nat \ {0}
  BY <1>1 DEF TypeOK
<1>4. answers[1].id # none => answers[1] \in ever /\ answers[1] \in User
  BY <1>2, <1>3, AnswerParts DEF Known
<1>5. TypeOK'
  BY <1>1, <1>2, <1>4 DEF TypeOK
<1>6. Known'
  <2>1. \A j \in 1..Len(answers') : answers'[j].id # none => answers'[j] \in ever
    BY <1>2 DEF Known
  <2>2. QED
    BY <2>1, <1>1 DEF Known
<1>7. FoundIsARecord'
  BY <1>1, <1>2, <1>4 DEF FoundIsARecord
<1>8. ListedStays'
  BY <1>1 DEF ListedStays
<1>9. LatestIsText'
  <2>1. SUFFICES ASSUME text # none, listed, ~overtaken
                 PROVE  LatestIsText'
    BY <1>1 DEF LatestIsText
  <2>2. /\ asked # <<>> => Last(asked) = text
        /\ asked = <<>> => /\ answers[Len(answers)].name = text
                          /\ answers[Len(answers)].id # none
    BY <2>1, <1>1 DEF LatestIsText, Last
  <2>3. ASSUME answers' # <<>>
        PROVE  answers'[Len(answers')] = answers[Len(answers)]
    <3>1. Len(answers') \in 1..Len(answers') /\ Len(answers') + 1 = Len(answers)
      BY <2>3, <1>2, <1>3
    <3>2. QED
      BY <3>1, <1>2
  <2>4. answers' = <<>> => Len(answers) = 1
    BY <1>2, <1>3
  <2>5. asked = <<>> /\ answers' = <<>> => shown' = answers[1] /\ answers[1].name = text
    BY <2>2, <2>4, <1>1, <1>2
  <2>6. asked = <<>> /\ answers' = <<>> => shown' # none
    BY <2>2, <2>4, <2>5, <1>4, NoUser
  <2>7. QED
    BY <2>2, <2>3, <2>5, <2>6, <1>1 DEF LatestIsText, Nothing, Last
<1>10. EmptyStays' /\ Closed'
  <2>1. ~Nothing
    BY <1>1 DEF Nothing
  <2>2. QED
    BY <2>1, <1>1 DEF EmptyStays, Closed
<1>11. QED
  BY <1>5, <1>6, <1>7, <1>8, <1>9, <1>10

LEMMA InvStore ==
  ASSUME IInv, NEW n \in Names, NEW i \in Ids, Store(n, i)
  PROVE  IInv'
<1> USE DEF IInv
<1>1. /\ users' = [users EXCEPT ![n] = i] /\ ever' = ever \cup {[name |-> n, id |-> i]}
      /\ UNCHANGED <<open, searching, text, shown, chat, asked, answers>>
      /\ UNCHANGED <<listed, overtaken, quiet>>
  BY DEF Store, screenVars, askVars, historyVars
<1>2. users' \in [Names -> Ids \cup {none}] /\ [name |-> n, id |-> i] \in User
  BY <1>1 DEF TypeOK, User
<1>3. TypeOK'
  BY <1>1, <1>2 DEF TypeOK
<1>4. /\ users'[n] = i /\ i # none
      /\ \A m \in Names \ {n} : users'[m] = users[m]
  BY <1>1, NoUser DEF TypeOK
<1>5. Known'
  <2>1. \A m \in Names : users'[m] # none => [name |-> m, id |-> users'[m]] \in ever'
    BY <1>1, <1>4 DEF Known
  <2>2. QED
    BY <2>1, <1>1 DEF Known
<1>6. FoundIsARecord'
  BY <1>1 DEF FoundIsARecord
<1>7. ListedStays'
  <2>1. SUFFICES ASSUME text # none, listed
                 PROVE  users'[text] # none
    BY <1>1 DEF ListedStays
  <2>2. text \in Names
    BY <2>1 DEF TypeOK
  <2>3. QED
    BY <2>1, <2>2, <1>4 DEF ListedStays
<1>8. LatestIsText' /\ EmptyStays' /\ Closed'
  BY <1>1 DEF LatestIsText, EmptyStays, Closed, Nothing
<1>9. QED
  BY <1>3, <1>5, <1>6, <1>7, <1>8

LEMMA InvStep ==
  ASSUME IInv, [Next]_vars
  PROVE  IInv'
<1>1. CASE Next
  BY <1>1, InvScreen, InvTypeName, InvEmptied, InvSelect, InvLeave, InvRead, InvShowAnswer,
     InvStore DEF Next
<1>2. CASE UNCHANGED vars
  <2> USE <1>2 DEF vars, screenVars, askVars, historyVars, IInv
  <2>1. TypeOK'
    BY DEF TypeOK
  <2>2. Known' /\ FoundIsARecord' /\ ListedStays'
    BY DEF Known, FoundIsARecord, ListedStays
  <2>3. LatestIsText' /\ EmptyStays' /\ Closed'
    BY DEF LatestIsText, EmptyStays, Closed, Nothing
  <2>4. QED
    BY <2>1, <2>2, <2>3
<1>3. QED
  BY <1>1, <1>2

THEOREM Invariant == Spec => []IInv
BY InvInit, InvStep, PTL DEF Spec

-----------------------------------------------------------------------------
(* The theorems. *)

\* Every variable of the search stays of its kind: a row, and a chat opened from it,
\* is a name with an id.
THEOREM SearchTypeCorrect == Spec => []TypeOK
<1>1. IInv => TypeOK
  BY DEF IInv
<1>2. QED
  BY <1>1, Invariant, PTL

\* FoundIsARecord: for any number of open questions, answered in any order, no chat
\* is opened for a name with the id of another.
THEOREM FoundAreRecords == Spec => []FoundIsARecord
<1>1. IInv => FoundIsARecord
  BY DEF IInv
<1>2. QED
  BY <1>1, Invariant, PTL

\* SettledShowsText: when everything open was answered in order, the row is for the
\* text; and what was emptied with nothing open stays empty.
THEOREM SettledRowIsText == Spec => []SettledShowsText
<1>1. IInv => SettledShowsText
  BY DEF IInv, LatestIsText, EmptyStays, SettledShowsText
<1>2. QED
  BY <1>1, Invariant, PTL

=============================================================================

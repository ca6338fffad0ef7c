--------------------------- MODULE ProfileProofs ----------------------------
(***************************************************************************)
(* The profile screen, for any names and bios and any number of pending    *)
(* writes and waiting events: type correctness, UndoGoesBack,              *)
(* IdleShowsRecord and OwnRecordStays. Whose record the phone deals with   *)
(* is decided when the app starts: all it holds then bears one id. A       *)
(* record of the other id is dealt with only behind a write of one's own,  *)
(* which hides it until it has replaced it.                                *)
(***************************************************************************)
EXTENDS Profile, SequenceTheorems, FiniteSetTheorems, WellFoundedInduction, TLAPS

Seen == Record \cup {none}

\* The writes that hide what the server told.
Own(p) == {i \in 1..Len(p) : p[i].to = me}

\* What is on the phone bears the id o.
Phone(o) ==
  /\ \A i \in 1..Len(pend) : pend[i].value.id = o
  /\ \A i \in 1..Len(events) : events[i] # none => events[i].id = o
  /\ user # none => user.id = o
  /\ old # none => old.id = o

\* The server's record, and what it told, are the phone's or are hidden.
Shows(o) ==
  \/ o = "mine" /\ Own(pend) # {}
  \/ /\ record # none => record.id = o
     /\ \A i \in 1..Len(told) : told[i] # none => told[i].id = o

OneId == \E o \in {"mine", "theirs"} : Phone(o) /\ Shows(o)

\* Nothing is told before the record is observed.
Unheard == ~opened => told = <<>>

\* A write that is stored has left its id in the record.
StoredLeftId ==
  \A i \in 1..stored :
    pend[i].to = me => record # none /\ record.id = pend[i].value.id

\* The last event waiting is what the phone sees.
LastIsSeen ==
  opened /\ events # <<>> => View # <<>> /\ events[Len(events)] = View[1]

IInv ==
  /\ TypeOK /\ UndoGoesBack /\ Unheard /\ StoredLeftId /\ OneId
  /\ LastIsSeen /\ IdleShowsRecord

-----------------------------------------------------------------------------
(* What the phone sees. *)

\* Among the writes to this user's record there is a latest one.
LEMMA LatestOwn ==
  ASSUME NEW p \in Seq(Write), Own(p) # {}
  PROVE  \E i \in Own(p) : \A j \in Own(p) : j <= i
<1> DEFINE From(i) == Own(p) \cap (i..Len(p))
           Tails == {From(i) : i \in Own(p)}
           S == 1..Len(p)
<1>1. Len(p) \in Nat /\ Own(p) \subseteq S
  BY DEF Own
<1>2. IsFiniteSet(S)
  BY <1>1, FS_Interval
<1>3. Tails \subseteq SUBSET S
  BY <1>1
<1>4. Tails # {}
  OBVIOUS
<1>5. IsWellFoundedOn(StrictSubsetOrdering(S), SUBSET S)
  BY <1>2, FS_FiniteSubsetsOfFinite, FS_StrictSubsetOrderingWellFounded
<1> HIDE DEF Tails, S
<1>6. PICK t \in Tails : \A u \in Tails : <<u, t>> \notin StrictSubsetOrdering(S)
  BY <1>3, <1>4, <1>5, WFMin
<1>7. PICK i \in Own(p) : t = From(i)
  BY <1>6 DEF Tails
<1>8. \A j \in Own(p) : j <= i
  <2>1. SUFFICES ASSUME NEW j \in Own(p), ~(j <= i)
                 PROVE  FALSE
    OBVIOUS
  <2>2. i \in 1..Len(p) /\ j \in 1..Len(p) /\ i < j
    BY <1>1, <2>1 DEF S
  <2>3. From(j) \subseteq From(i) /\ i \in From(i) /\ i \notin From(j)
    BY <2>2
  <2>4. From(j) \in Tails /\ From(i) \in Tails
    BY DEF Tails
  <2>5. <<From(j), From(i)>> \in StrictSubsetOrdering(S)
    BY <2>3, <2>4, <1>3 DEF StrictSubsetOrdering
  <2>6. QED
    BY <2>4, <2>5, <1>6, <1>7
<1>9. QED
  BY <1>8

LEMMA ViewIs ==
  ASSUME NEW p \in Seq(Write), NEW t
  PROVE  /\ Own(p) = {} => ViewOf(p, t) = t
         /\ Own(p) # {} => \E i \in Own(p) : /\ \A j \in Own(p) : j <= i
                                             /\ ViewOf(p, t) = <<p[i].value>>
<1>1. CASE Own(p) = {}
  BY <1>1 DEF ViewOf, Own
<1>2. CASE Own(p) # {}
  <2> DEFINE last == CHOOSE i \in Own(p) : \A j \in Own(p) : j <= i
  <2>1. last \in Own(p) /\ \A j \in Own(p) : j <= last
    BY <1>2, LatestOwn
  <2>2. ViewOf(p, t) = <<p[last].value>>
    BY <1>2 DEF ViewOf, Own
  <2> HIDE DEF last
  <2>3. QED
    BY <1>2, <2>1, <2>2
<1>3. QED
  BY <1>1, <1>2

LEMMA ViewKind ==
  ASSUME NEW p \in Seq(Write), NEW t \in Seq(Seen), Len(t) <= 1
  PROVE  ViewOf(p, t) \in Seq(Seen) /\ Len(ViewOf(p, t)) <= 1
<1>1. CASE Own(p) = {}
  BY <1>1, ViewIs
<1>2. CASE Own(p) # {}
  <2>1. PICK i \in Own(p) : ViewOf(p, t) = <<p[i].value>>
    BY <1>2, ViewIs
  <2>2. p[i] \in Write
    BY ElementOfSeq DEF Own
  <2>3. p[i].value \in Seen
    BY <2>2 DEF Write, Seen
  <2>4. QED
    BY <2>1, <2>3
<1>3. QED
  BY <1>1, <1>2

\* What is seen bears the phone's id.
LEMMA ViewId ==
  ASSUME NEW p \in Seq(Write), NEW t \in Seq(Seen), NEW o, Len(t) <= 1,
         \A i \in 1..Len(p) : p[i].value.id = o,
         \/ Own(p) # {}
         \/ \A i \in 1..Len(t) : t[i] # none => t[i].id = o
  PROVE  \A i \in 1..Len(ViewOf(p, t)) : ViewOf(p, t)[i] # none => ViewOf(p, t)[i].id = o
<1>1. CASE Own(p) = {}
  BY <1>1, ViewIs
<1>2. CASE Own(p) # {}
  <2>1. PICK i \in Own(p) : ViewOf(p, t) = <<p[i].value>>
    BY <1>2, ViewIs
  <2>2. p[i].value.id = o
    BY DEF Own
  <2>3. QED
    BY <2>1, <2>2
<1>3. QED
  BY <1>1, <1>2

LEMMA NoneIsApart == none \notin Record /\ none \notin User
BY NoneAssumption DEF Record, User

LEMMA ModelKind == ASSUME NEW r \in Record PROVE ModelOf(r) \in User /\ ModelOf(r).id = r.id
BY NamesAssumption DEF Record, User, ModelOf

-----------------------------------------------------------------------------
(* Init, and the actions that leave the events and the database alone. *)

LEMMA InvInit == Init => IInv
<1> SUFFICES ASSUME Init PROVE IInv
  OBVIOUS
<1> DEFINE Mine == {<<[to |-> me, value |-> r]>> : r \in {x \in Record : x.id = "mine"}}
<1>1. pend \in Seq(Write) /\ Len(pend) \in Nat
      /\ \A i \in 1..Len(pend) : pend[i].to = me /\ pend[i].value.id = "mine"
  <2>1. CASE pend = <<>>
    BY <2>1
  <2>2. CASE pend \in Mine
    <3>1. PICK r \in Record : r.id = "mine" /\ pend = <<[to |-> me, value |-> r]>>
      BY <2>2
    <3>2. [to |-> me, value |-> r] \in Write
      BY NamesAssumption DEF Write
    <3>3. QED
      BY <3>1, <3>2
  <2>3. QED
    BY <2>1, <2>2 DEF Init
<1>2. TypeOK
  <2>1. opened \in BOOLEAN /\ changed \in BOOLEAN /\ typed \in BOOLEAN /\ touched \in BOOLEAN
    BY DEF Init
  <2>2. told \in Seq(Record \cup {none}) /\ Len(told) <= 1 /\ events \in Seq(Record \cup {none})
        /\ stored \in 0..Len(pend)
    BY <1>1 DEF Init
  <2>3. user \in User \cup {none} /\ old \in User \cup {none} /\ began \in User \cup {none}
        /\ bar \in {"search", "edit", "none"} /\ field \in {"none", "name", "bio"}
        /\ record \in Record \cup {none}
    BY DEF Init
  <2>4. QED
    BY <2>1, <2>2, <2>3, <1>1 DEF TypeOK
<1>3. UndoGoesBack /\ Unheard /\ StoredLeftId /\ LastIsSeen /\ IdleShowsRecord
  BY DEF Init, UndoGoesBack, Unheard, StoredLeftId, LastIsSeen, IdleShowsRecord
<1>4. OneId
  <2>1. CASE pend # <<>>
    <3>1. Len(pend) > 0
      BY <1>1, <2>1, EmptySeq
    <3>2. 1 \in Own(pend)
      BY <3>1, <1>1 DEF Own
    <3>3. Phone("mine") /\ Shows("mine")
      BY <1>1, <3>2 DEF Init, Phone, Shows
    <3>4. QED
      BY <3>3 DEF OneId
  <2>2. CASE pend = <<>>
    <3>1. \A o \in {"mine", "theirs"} : Phone(o)
      BY <2>2 DEF Init, Phone
    <3>2. \E o \in {"mine", "theirs"} : record # none => record.id = o
      BY NoneIsApart DEF Init, Record
    <3>3. \E o \in {"mine", "theirs"} : Shows(o)
      BY <3>2 DEF Init, Shows
    <3>4. QED
      BY <3>1, <3>3 DEF OneId
  <2>3. QED
    BY <2>1, <2>2
<1>5. QED
  BY <1>2, <1>3, <1>4 DEF IInv

\* The parts about the database are kept by what leaves it alone, ...
LEMMA DatabaseKept ==
  ASSUME IInv, UNCHANGED <<dbVars, opened>>
  PROVE  Unheard' /\ StoredLeftId' /\ View' = View /\ \A o : Shows(o) => Shows(o)'
BY DEF IInv, dbVars, Unheard, StoredLeftId, View, Shows

\* ... and those about events by what leaves these alone too, and the model but for
\* what is taken over or brought back.
LEMMA EventsKept ==
  ASSUME IInv, UNCHANGED <<dbVars, opened, events>>,
         UNCHANGED <<user, touched>> \/ touched'
  PROVE  LastIsSeen' /\ IdleShowsRecord'
<1>1. View' = View
  BY DatabaseKept
<1>2. QED
  BY <1>1 DEF IInv, LastIsSeen, IdleShowsRecord

\* The models that an edit leaves are among those there were, or name a user anew.
LEMMA PhoneKept ==
  ASSUME IInv, UNCHANGED <<dbVars, opened, events>>,
         user' \in {user, old} \/ (user # none /\ user' # none /\ user'.id = user.id),
         old' \in {none, user, old}
  PROVE  OneId'
<1>1. PICK o \in {"mine", "theirs"} : Phone(o) /\ Shows(o)
  BY DEF IInv, OneId
<1>2. Shows(o)'
  BY <1>1, DatabaseKept
<1>3. Phone(o)'
  BY <1>1 DEF Phone, dbVars
<1>4. QED
  BY <1>2, <1>3 DEF OneId

LEMMA EditKept ==
  ASSUME IInv, TypeOK', UndoGoesBack', UNCHANGED <<dbVars, opened, events>>,
         UNCHANGED <<user, touched>> \/ touched',
         user' \in {user, old} \/ (user # none /\ user' # none /\ user'.id = user.id),
         old' \in {none, user, old}
  PROVE  IInv'
BY DatabaseKept, EventsKept, PhoneKept DEF IInv

LEMMA InvTapField ==
  ASSUME IInv, NEW f \in {"name", "bio"}, TapField(f)
  PROVE  IInv'
<1> USE DEF TapField, dbVars, historyVars
<1>1. TypeOK'
  BY DEF IInv, TypeOK
<1>2. UndoGoesBack'
  BY DEF IInv, UndoGoesBack
<1>3. QED
  BY <1>1, <1>2, EditKept

LEMMA InvTypeText ==
  ASSUME IInv, TypeText
  PROVE  IInv'
<1> USE DEF TypeText, SetChanged, dbVars
<1>1. typed' \in BOOLEAN /\ changed' \in BOOLEAN
  BY DEF IInv, TypeOK
<1>2. TypeOK'
  BY <1>1 DEF IInv, TypeOK
<1>3. UndoGoesBack'
  BY DEF IInv, UndoGoesBack
<1>4. UNCHANGED <<dbVars, opened, events, user, touched>> /\ old' \in {user, old}
  OBVIOUS
<1>5. QED
  BY <1>2, <1>3, <1>4, EditKept

LEMMA InvReturn ==
  ASSUME IInv, NEW f, NEW model, user # none => model \in User /\ model.id = user.id,
         Return(f, model)
  PROVE  IInv'
<1> USE DEF Return, dbVars
<1>1. UNCHANGED <<user, touched>> \/ (user # none /\ user' = model /\ touched')
  OBVIOUS
<1>2. TypeOK'
  BY <1>1 DEF IInv, TypeOK
<1>3. UndoGoesBack'
  BY DEF IInv, UndoGoesBack
<1>4. user' \in {user, old} \/ (user # none /\ user' # none /\ user'.id = user.id)
  BY <1>1, NoneIsApart
<1>5. UNCHANGED <<dbVars, opened, events, old>>
  OBVIOUS
<1>6. QED
  BY <1>1, <1>2, <1>3, <1>4, <1>5, EditKept

LEMMA InvReturns ==
  ASSUME IInv,
         \/ \E n \in Names : ReturnName(n)
         \/ \E t \in Bios : ReturnBio(t)
  PROVE  IInv'
<1>1. user # none => user \in User
  BY DEF IInv, TypeOK
<1>2. CASE \E n \in Names : ReturnName(n)
  <2>1. PICK n \in Names : ReturnName(n)
    BY <1>2
  <2>2. user # none => [user EXCEPT !.name = n] \in User
                       /\ [user EXCEPT !.name = n].id = user.id
    BY <1>1 DEF User
  <2>3. QED
    BY <2>1, <2>2, InvReturn DEF ReturnName
<1>3. CASE \E t \in Bios : ReturnBio(t)
  <2>1. PICK t \in Bios : ReturnBio(t)
    BY <1>3
  <2>2. user # none => [user EXCEPT !.bio = t] \in User
                       /\ [user EXCEPT !.bio = t].id = user.id
    BY <1>1 DEF User
  <2>3. QED
    BY <2>1, <2>2, InvReturn DEF ReturnBio
<1>4. QED
  BY <1>2, <1>3

LEMMA InvPickImage ==
  ASSUME IInv, PickImage
  PROVE  IInv'
<1> USE DEF PickImage, SetChanged, dbVars
<1>1. TypeOK'
  BY DEF IInv, TypeOK
<1>2. UndoGoesBack'
  BY DEF IInv, UndoGoesBack
<1>3. QED
  BY <1>1, <1>2, EditKept

LEMMA InvUndoTap ==
  ASSUME IInv, UndoTap
  PROVE  IInv'
<1> USE DEF UndoTap, EndSession, dbVars
<1>1. UNCHANGED <<user, touched>> \/ (user' = old /\ touched')
  OBVIOUS
<1>2. TypeOK'
  BY <1>1 DEF IInv, TypeOK
<1>3. UndoGoesBack'
  BY DEF UndoGoesBack
<1>4. QED
  BY <1>1, <1>2, <1>3, EditKept

-----------------------------------------------------------------------------
(* The actions that raise events, handle them, or change the database. *)

LEMMA NotEmptyIsOne ==
  ASSUME NEW S, NEW s \in Seq(S), Len(s) <= 1, s # <<>>
  PROVE  Len(s) = 1
<1>1. Len(s) \in Nat /\ Len(s) # 0 /\ Len(s) <= 1
  BY EmptySeq
<1>2. QED
  BY <1>1, SMTT(20)

\* A sequence with one more element.
LEMMA OneMore ==
  ASSUME NEW S, NEW s \in Seq(S), NEW v \in Seq(S), Len(v) = 1
  PROVE  /\ s \o v \in Seq(S) /\ Len(s \o v) = Len(s) + 1
         /\ (s \o v)[Len(s) + 1] = v[1]
         /\ \A i \in 1..Len(s) : (s \o v)[i] = s[i]
<1> DEFINE c == s \o v
<1>1. Len(s) \in Nat
  OBVIOUS
<1>2. /\ c \in Seq(S) /\ Len(c) = Len(s) + Len(v)
      /\ \A i \in 1..Len(s) + Len(v) : c[i] = IF i <= Len(s) THEN s[i] ELSE v[i - Len(s)]
  BY ConcatProperties
<1> HIDE DEF c
<1>3. Len(c) = Len(s) + 1 /\ c[Len(s) + 1] = v[1] /\ \A i \in 1..Len(s) : c[i] = s[i]
  BY <1>1, <1>2
<1>4. QED
  BY <1>2, <1>3 DEF c

LEMMA ViewTyped ==
  ASSUME TypeOK
  PROVE  View \in Seq(Seen) /\ Len(View) <= 1 /\ events \in Seq(Seen)
         /\ (View # <<>> => Len(View) = 1)
<1>1. View \in Seq(Seen) /\ Len(View) <= 1
  BY ViewKind DEF TypeOK, View, Seen
<1>2. View # <<>> => Len(View) = 1
  BY <1>1, NotEmptyIsOne
<1>3. events \in Seq(Seen)
  BY DEF TypeOK, Seen
<1>4. QED
  BY <1>1, <1>2, <1>3

\* The events that follow when nothing new is handled.
LEMMA RaiseKept ==
  ASSUME IInv, pend' \in Seq(Write), told' \in Seq(Seen), Len(told') <= 1,
         Raise, UNCHANGED <<opened, user, touched>>,
         opened => View' = View \/ View' # <<>>,
         NEW o,
         \A i \in 1..Len(events) : events[i] # none => events[i].id = o,
         opened => \A i \in 1..Len(View') : View'[i] # none => View'[i].id = o
  PROVE  /\ LastIsSeen' /\ IdleShowsRecord'
         /\ events' \in Seq(Seen)
         /\ \A i \in 1..Len(events') : events'[i] # none => events'[i].id = o
<1>1. View' = ViewOf(pend', told') /\ View' \in Seq(Seen) /\ Len(View') <= 1
  BY ViewKind DEF View
<1>2. events \in Seq(Seen) /\ events' = IF opened /\ View' # View THEN events \o View' ELSE events
  BY <1>1, ViewTyped DEF IInv, Raise
<1>3. CASE ~(opened /\ View' # View)
  BY <1>2, <1>3 DEF IInv, LastIsSeen, IdleShowsRecord
<1>4. CASE opened /\ View' # View
  <2> DEFINE v == View'
  <2>1. v \in Seq(Seen) /\ Len(v) = 1 /\ v # <<>>
    <3>1. v \in Seq(Seen) /\ Len(v) <= 1 /\ v # <<>>
      BY <1>1, <1>4
    <3>2. QED
      BY <3>1, NotEmptyIsOne
  <2>2. events' = events \o v
    BY <1>2, <1>4
  <2>3. \A i \in 1..Len(v) : v[i] # none => v[i].id = o
    BY <1>4
  <2> HIDE DEF v
  <2>4. /\ events' \in Seq(Seen) /\ Len(events') = Len(events) + 1
        /\ events'[Len(events) + 1] = v[1]
        /\ \A i \in 1..Len(events) : events'[i] = events[i]
    <3>1. events \in Seq(Seen)
      BY <1>2
    <3>2. QED
      BY <3>1, <2>1, <2>2, OneMore
  <2>5. events' # <<>> /\ events'[Len(events')] = v[1]
    BY <1>2, <2>4
  <2>6. \A i \in 1..Len(events') : events'[i] # none => events'[i].id = o
    <3>1. TAKE i \in 1..Len(events')
    <3>2. CASE i \in 1..Len(events)
      BY <3>2, <2>4
    <3>3. CASE i = Len(events) + 1
      BY <3>3, <2>1, <2>3, <2>4
    <3>4. QED
      BY <3>2, <3>3, <1>2, <2>4
  <2>7. LastIsSeen' /\ IdleShowsRecord'
    BY <2>1, <2>5 DEF v, LastIsSeen, IdleShowsRecord
  <2>8. QED
    BY <2>4, <2>6, <2>7
<1>5. QED
  BY <1>3, <1>4

LEMMA InvOpen ==
  ASSUME IInv, Open
  PROVE  IInv'
<1> USE DEF Open, dbVars, editVars, historyVars
<1>1. View \in Seq(Seen) /\ Len(View) <= 1 /\ (View # <<>> => Len(View) = 1)
  BY ViewTyped DEF IInv
<1>2. View' = View
  BY DEF View
<1>3. TypeOK'
  BY <1>1 DEF IInv, TypeOK, Seen
<1>4. UndoGoesBack' /\ Unheard' /\ StoredLeftId'
  BY DEF IInv, UndoGoesBack, Unheard, StoredLeftId
<1>5. OneId'
  <2>1. PICK o \in {"mine", "theirs"} : Phone(o) /\ Shows(o)
    BY DEF IInv, OneId
  <2>2. /\ pend \in Seq(Write) /\ told \in Seq(Seen) /\ Len(told) <= 1
        /\ \A i \in 1..Len(pend) : pend[i].value.id = o
        /\ Own(pend) # {} \/ \A i \in 1..Len(told) : told[i] # none => told[i].id = o
    BY <2>1 DEF IInv, TypeOK, Seen, Phone, Shows
  <2>3. \A i \in 1..Len(View) : View[i] # none => View[i].id = o
    BY <2>2, ViewId DEF View
  <2>4. Phone(o)'
    BY <2>1, <2>3 DEF Phone
  <2>5. Shows(o)'
    BY <2>1 DEF Shows
  <2>6. QED
    BY <2>4, <2>5 DEF OneId
<1>6. LastIsSeen' /\ IdleShowsRecord'
  BY <1>1, <1>2 DEF LastIsSeen, IdleShowsRecord
<1>7. QED
  BY <1>3, <1>4, <1>5, <1>6 DEF IInv

LEMMA InvRecordEvent ==
  ASSUME IInv, RecordEvent
  PROVE  IInv'
<1> USE DEF RecordEvent, dbVars, editVars
<1>1. /\ events \in Seq(Seen) /\ events # <<>>
      /\ events' = Tail(events) /\ UNCHANGED <<dbVars, opened>>
  BY ViewTyped DEF IInv
<1>2. /\ Head(events) = events[1] /\ Len(events) \in Nat \ {0}
      /\ events' \in Seq(Seen) /\ Len(events') = Len(events) - 1
      /\ \A i \in 1..Len(events') : events'[i] = events[i + 1]
  BY <1>1, HeadTailProperties
<1>3. events[1] \in Seen
  BY <1>1, <1>2, ElementOfSeq
<1>4. events[1] # none => ModelOf(events[1]) \in User /\ ModelOf(events[1]).id = events[1].id
  BY <1>3, ModelKind DEF Seen
<1>5. TypeOK'
  <2>1. user' \in User \cup {none} /\ touched' \in BOOLEAN
    BY <1>2, <1>4 DEF IInv, TypeOK
  <2>2. QED
    BY <2>1, <1>2 DEF IInv, TypeOK, Seen
<1>6. UndoGoesBack'
  BY DEF IInv, UndoGoesBack
<1>7. OneId'
  <2>1. PICK o \in {"mine", "theirs"} : Phone(o) /\ Shows(o)
    BY DEF IInv, OneId
  <2>2. user' # none => user'.id = o
    BY <2>1, <1>2, <1>4 DEF Phone
  <2>3. \A i \in 1..Len(events') : events'[i] # none => events'[i].id = o
    BY <2>1, <1>2 DEF Phone
  <2>4. Phone(o)'
    BY <2>1, <2>2, <2>3 DEF Phone
  <2>5. Shows(o)'
    BY <2>1, <1>1, DatabaseKept
  <2>6. QED
    BY <2>4, <2>5 DEF OneId
<1>8. LastIsSeen' /\ IdleShowsRecord'
  <2>1. SUFFICES ASSUME opened PROVE LastIsSeen' /\ IdleShowsRecord'
    BY <1>1 DEF LastIsSeen, IdleShowsRecord
  <2>2. View' = View /\ View # <<>> /\ events[Len(events)] = View[1]
    BY <1>1, <2>1, DatabaseKept DEF IInv, LastIsSeen
  <2>3. CASE Len(events) = 1
    <3>1. events' = <<>> /\ View[1] = events[1]
      BY <1>2, <2>2, <2>3, EmptySeq
    <3>2. CASE events[1] # none
      BY <1>2, <2>2, <3>1, <3>2 DEF LastIsSeen, IdleShowsRecord
    <3>3. CASE events[1] = none
      <4>1. View = <<none>>
        <5>1. View \in Seq(Seen) /\ Len(View) = 1 /\ <<none>> \in Seq(Seen)
          BY <2>2, ViewTyped DEF IInv, Seen
        <5>2. \A i \in 1..Len(View) : View[i] = <<none>>[i]
          BY <5>1, <3>1, <3>3
        <5>3. QED
          BY <5>1, <5>2, SeqEqual
      <4>2. QED
        BY <2>2, <3>1, <4>1 DEF LastIsSeen, IdleShowsRecord
    <3>4. QED
      BY <3>2, <3>3
  <2>4. CASE Len(events) # 1
    <3>1. Len(events') # 0 /\ Len(events') \in 1..Len(events')
      BY <1>2, <2>4
    <3>2. events' # <<>>
      <4>1. events' = <<>> => Len(events') = 0
        BY EmptySeq
      <4>2. QED
        BY <3>1, <4>1
    <3>3. events'[Len(events')] = events[Len(events') + 1] /\ Len(events') + 1 = Len(events)
      BY <1>2, <3>1
    <3>4. QED
      BY <2>2, <3>2, <3>3 DEF LastIsSeen, IdleShowsRecord
  <2>5. QED
    BY <2>3, <2>4
<1>9. Unheard' /\ StoredLeftId'
  BY <1>1, DatabaseKept
<1>10. QED
  BY <1>5, <1>6, <1>7, <1>8, <1>9 DEF IInv

\* The database after a step that lets the model alone, with its events raised.
LEMMA DatabaseMoves ==
  ASSUME IInv, NEW o \in {"mine", "theirs"}, Phone(o), Shows(o)',
         record' \in Record \cup {none}, pend' \in Seq(Write), stored' \in 0..Len(pend'),
         told' \in Seq(Seen), Len(told') <= 1,
         \A i \in 1..Len(pend') : pend'[i].value.id = o,
         ~opened => told' = told,
         StoredLeftId', opened => View' = View \/ View' # <<>>, Raise,
         UNCHANGED <<opened, user, touched>>,
         UNCHANGED <<editVars, began>> \/ EndSession
  PROVE  IInv'
<1>1. \A i \in 1..Len(View') : View'[i] # none => View'[i].id = o
  <2>1. Own(pend') # {} \/ \A i \in 1..Len(told') : told'[i] # none => told'[i].id = o
    BY DEF Shows
  <2>2. View' = ViewOf(pend', told')
    BY DEF View
  <2>3. QED
    BY <2>1, <2>2, ViewId
<1>2. \A i \in 1..Len(events) : events[i] # none => events[i].id = o
  BY DEF Phone
<1>3. /\ LastIsSeen' /\ IdleShowsRecord' /\ events' \in Seq(Seen)
      /\ \A i \in 1..Len(events') : events'[i] # none => events'[i].id = o
  BY <1>1, <1>2, RaiseKept
<1>4. old' \in {old, none} /\ began' \in {began, none} /\ changed' \in BOOLEAN
      /\ bar' \in {"search", "edit", "none"} /\ field' \in {"none", "name", "bio"}
      /\ typed' \in BOOLEAN
  BY DEF IInv, TypeOK, editVars, EndSession
<1>5. TypeOK'
  BY <1>3, <1>4 DEF IInv, TypeOK, Seen
<1>6. UndoGoesBack'
  BY DEF IInv, UndoGoesBack, editVars, EndSession
<1>7. Unheard'
  BY DEF IInv, Unheard
<1>8. Phone(o)'
  BY <1>3, <1>4 DEF Phone
<1>9. OneId'
  BY <1>8 DEF OneId
<1>10. QED
  BY <1>3, <1>5, <1>6, <1>7, <1>9 DEF IInv

LEMMA PutKind ==
  ASSUME TypeOK, user # none
  PROVE  Put \in Write /\ Put.value.id = user.id
BY DEF TypeOK, User, Record, Write, Put

\* What the phone sees does not vanish behind a further write.
LEMMA AppendKeepsView ==
  ASSUME NEW p \in Seq(Write), NEW q \in Seq(Write), NEW t,
         Own(p) \subseteq Own(q)
  PROVE  ViewOf(q, t) = ViewOf(p, t) \/ ViewOf(q, t) # <<>>
<1>1. CASE Own(q) = {}
  BY <1>1, ViewIs
<1>2. CASE Own(q) # {}
  <2>1. PICK i \in Own(q) : ViewOf(q, t) = <<q[i].value>>
    BY <1>2, ViewIs
  <2>2. QED
    BY <2>1
<1>3. QED
  BY <1>1, <1>2

LEMMA InvDoneTap ==
  ASSUME IInv, DoneTap
  PROVE  IInv'
<1>1. PICK o \in {"mine", "theirs"} : Phone(o) /\ Shows(o)
  BY DEF IInv, OneId
<1>2. /\ pend' = IF changed /\ user # none THEN Append(pend, Put) ELSE pend
      /\ UNCHANGED <<record, stored, told, opened, user, touched>>
      /\ Raise /\ EndSession
  BY DEF DoneTap
<1>3. /\ record \in Record \cup {none} /\ pend \in Seq(Write) /\ stored \in 0..Len(pend)
      /\ told \in Seq(Seen) /\ Len(told) <= 1 /\ Len(pend) \in Nat
  BY DEF IInv, TypeOK, Seen
<1>4. /\ pend' \in Seq(Write) /\ Len(pend') \in Nat /\ Len(pend) <= Len(pend')
      /\ \A i \in 1..Len(pend) : pend'[i] = pend[i]
      /\ \A i \in 1..Len(pend') : pend'[i].value.id = o
  <2>1. CASE changed /\ user # none
    <3>1. Put \in Write /\ Put.value.id = o
      BY <1>1, <2>1, PutKind DEF IInv, Phone
    <3>2. pend' = Append(pend, Put)
      BY <1>2, <2>1
    <3>3. /\ pend' \in Seq(Write) /\ Len(pend') = Len(pend) + 1
          /\ \A i \in 1..Len(pend) : pend'[i] = pend[i]
          /\ pend'[Len(pend) + 1] = Put
      BY <1>3, <3>1, <3>2, AppendProperties
    <3>4. \A i \in 1..Len(pend) : pend[i].value.id = o
      BY <1>1 DEF Phone
    <3>5. \A i \in 1..Len(pend') : i \in 1..Len(pend) \/ i = Len(pend) + 1
      BY <1>3, <3>3
    <3>6. \A i \in 1..Len(pend') : pend'[i].value.id = o
      BY <3>1, <3>3, <3>4, <3>5
    <3>7. QED
      BY <1>3, <3>3, <3>6
  <2>2. CASE ~(changed /\ user # none)
    BY <1>1, <1>2, <1>3, <2>2 DEF Phone
  <2>3. QED
    BY <2>1, <2>2
<1>5. Own(pend) \subseteq Own(pend')
  BY <1>3, <1>4 DEF Own
<1>6. Shows(o)'
  BY <1>1, <1>2, <1>5 DEF Shows
<1>7. StoredLeftId'
  BY <1>2, <1>3, <1>4 DEF IInv, StoredLeftId
<1>8. View' = View \/ View' # <<>>
  BY <1>2, <1>3, <1>4, <1>5, AppendKeepsView DEF View
<1>9. stored' \in 0..Len(pend')
  BY <1>2, <1>3, <1>4
<1>10. QED
  BY <1>1, <1>2, <1>3, <1>4, <1>6, <1>7, <1>8, <1>9, DatabaseMoves

\* Nothing the phone sees changes while the record alone does, ...
LEMMA InvServer ==
  ASSUME IInv, UNCHANGED <<pend, told, opened, events, user, editVars, historyVars>>,
         record' \in Record \cup {none}, stored' \in 0..Len(pend),
         StoredLeftId', \A o : Phone(o) /\ Shows(o) => Shows(o)'
  PROVE  IInv'
<1> USE DEF editVars, historyVars
<1>1. View' = View
  BY DEF View
<1>2. TypeOK'
  BY DEF IInv, TypeOK
<1>3. \A o : Phone(o) => Phone(o)'
  BY DEF Phone
<1>4. OneId'
  BY <1>3 DEF IInv, OneId
<1>5. UndoGoesBack' /\ Unheard' /\ LastIsSeen' /\ IdleShowsRecord'
  BY <1>1 DEF IInv, UndoGoesBack, Unheard, LastIsSeen, IdleShowsRecord
<1>6. QED
  BY <1>2, <1>4, <1>5 DEF IInv

\* ... as when a write is stored, ...
LEMMA InvCommit ==
  ASSUME IInv, Commit
  PROVE  IInv'
<1> DEFINE n == stored + 1
<1>1. /\ n \in 1..Len(pend) /\ stored' = n /\ n \in Nat
      /\ record' = IF pend[n].to = me THEN pend[n].value ELSE record
      /\ UNCHANGED <<pend, told, opened, events, user, editVars, historyVars>>
  BY DEF IInv, TypeOK, Commit
<1>2. pend \in Seq(Write) /\ record \in Record \cup {none} /\ stored \in Nat
  BY DEF IInv, TypeOK
<1>3. pend[n] \in Write
  BY <1>1, <1>2, ElementOfSeq
<1>4. record' \in Record \cup {none}
  BY <1>1, <1>2, <1>3 DEF Write
<1>5. StoredLeftId'
  <2>1. PICK o \in {"mine", "theirs"} : Phone(o)
    BY DEF IInv, OneId
  <2>2. SUFFICES ASSUME NEW i \in 1..n, pend[i].to = me
                 PROVE  record' # none /\ record'.id = pend[i].value.id
    BY <1>1 DEF StoredLeftId
  <2>3. i \in 1..Len(pend) /\ (i = n \/ i \in 1..stored)
    BY <1>1, <1>2
  <2>4. CASE pend[n].to = me
    <3>1. record' = pend[n].value /\ record' # none
      BY <1>1, <1>3, <2>4, NoneIsApart DEF Write
    <3>2. pend[n].value.id = o /\ pend[i].value.id = o
      BY <1>1, <2>1, <2>3 DEF Phone
    <3>3. QED
      BY <3>1, <3>2
  <2>5. CASE pend[n].to # me
    BY <1>1, <2>2, <2>3, <2>5 DEF IInv, StoredLeftId
  <2>6. QED
    BY <2>4, <2>5
<1>6. \A o : Phone(o) /\ Shows(o) => Shows(o)'
  <2>1. SUFFICES ASSUME NEW o, Phone(o), Shows(o) PROVE Shows(o)'
    OBVIOUS
  <2>2. CASE o = "mine" /\ Own(pend) # {}
    BY <1>1, <2>2 DEF Shows
  <2>3. CASE ~(o = "mine" /\ Own(pend) # {})
    <3>1. (record # none => record.id = o)
          /\ \A i \in 1..Len(told) : told[i] # none => told[i].id = o
      BY <2>1, <2>3 DEF Shows
    <3>2. pend[n].value.id = o
      BY <1>1, <2>1 DEF Phone
    <3>3. QED
      BY <1>1, <3>1, <3>2 DEF Shows
  <2>4. QED
    BY <2>2, <2>3
<1>7. stored' \in 0..Len(pend)
  BY <1>1
<1>8. QED
  BY <1>1, <1>4, <1>5, <1>6, <1>7, InvServer

\* ... when all are sent again, ...
LEMMA InvReconnect ==
  ASSUME IInv, Reconnect
  PROVE  IInv'
<1>1. record' \in Record \cup {none} /\ stored' \in 0..Len(pend)
  BY DEF IInv, TypeOK, Reconnect
<1>2. StoredLeftId'
  BY DEF Reconnect, StoredLeftId
<1>3. \A o : Phone(o) /\ Shows(o) => Shows(o)'
  BY DEF Reconnect, Shows
<1>4. QED
  BY <1>1, <1>2, <1>3, InvServer DEF Reconnect

\* ... and when the other phone saves.
LEMMA InvOtherPhoneSaves ==
  ASSUME IInv, NEW t \in Bios, OtherPhoneSaves(t)
  PROVE  IInv'
<1>1. /\ record \in Record /\ record # none /\ stored \in 0..Len(pend)
      /\ record' = [record EXCEPT !.bio = t]
      /\ UNCHANGED <<pend, stored, told, opened, events, user, editVars, historyVars>>
  BY DEF IInv, TypeOK, OtherPhoneSaves
<1>2. record' \in Record /\ record'.id = record.id
  BY <1>1 DEF Record
<1>3. StoredLeftId'
  BY <1>1, <1>2, NoneIsApart DEF IInv, StoredLeftId
<1>4. \A o : Phone(o) /\ Shows(o) => Shows(o)'
  BY <1>1, <1>2 DEF Shows
<1>5. QED
  BY <1>1, <1>2, <1>3, <1>4, InvServer

LEMMA NotNothing == \A x : <<x>> # <<>>
<1>1. TAKE x
<1>2. Len(<<x>>) = 1 /\ Len(<<>>) = 0
  OBVIOUS
<1>3. QED
  BY <1>2

LEMMA ToldIsSeen ==
  ASSUME NEW p \in Seq(Write), NEW r
  PROVE  ViewOf(p, <<r>>) # <<>>
<1>1. CASE Own(p) = {}
  BY <1>1, ViewIs, NotNothing
<1>2. CASE Own(p) # {}
  <2>1. PICK i \in Own(p) : ViewOf(p, <<r>>) = <<p[i].value>>
    BY <1>2, ViewIs
  <2>2. QED
    BY <2>1, NotNothing
<1>3. QED
  BY <1>1, <1>2

\* A write that is taken away was stored, so that its id shows without it.
LEMMA InvAcknowledged ==
  ASSUME IInv, Acknowledged
  PROVE  IInv'
<1>1. PICK o \in {"mine", "theirs"} : Phone(o) /\ Shows(o)
  BY DEF IInv, OneId
<1>2. /\ record \in Record \cup {none} /\ pend \in Seq(Write) /\ stored \in 0..Len(pend)
      /\ told \in Seq(Seen) /\ Len(told) <= 1 /\ Len(pend) \in Nat
  BY DEF IInv, TypeOK, Seen
<1>3. /\ stored > 0 /\ stored' = stored - 1 /\ pend' = Tail(pend)
      /\ told' = IF opened THEN <<record>> ELSE told
      /\ UNCHANGED <<record, opened, user, touched>>
      /\ Raise /\ UNCHANGED <<editVars, began>>
  BY DEF Acknowledged, historyVars
<1>4. Len(pend) # 0 /\ pend # <<>>
  BY <1>2, <1>3, EmptySeq
<1>5. /\ pend' \in Seq(Write) /\ Len(pend') = Len(pend) - 1
      /\ \A i \in 1..Len(pend') : pend'[i] = pend[i + 1]
  BY <1>2, <1>3, <1>4, HeadTailProperties
<1>6. told' \in Seq(Seen) /\ Len(told') <= 1
  <2>1. <<record>> \in Seq(Seen) /\ Len(<<record>>) = 1
    BY <1>2 DEF Seen
  <2>2. QED
    BY <1>2, <1>3, <2>1
<1>7. \A i \in 1..Len(pend') : pend'[i].value.id = o
  <2>1. TAKE i \in 1..Len(pend')
  <2>2. i + 1 \in 1..Len(pend)
    BY <1>2, <1>5
  <2>3. pend'[i] = pend[i + 1]
    BY <1>5
  <2>4. QED
    BY <1>1, <2>2, <2>3 DEF Phone
<1>8. StoredLeftId'
  <2>1. SUFFICES ASSUME NEW i \in 1..stored - 1, pend'[i].to = me
                 PROVE  record # none /\ record.id = pend'[i].value.id
    BY <1>3 DEF StoredLeftId
  <2>2. i + 1 \in 1..stored /\ i \in 1..Len(pend')
    BY <1>2, <1>5
  <2>3. pend'[i] = pend[i + 1]
    BY <1>5, <2>2
  <2>4. QED
    BY <2>1, <2>2, <2>3 DEF IInv, StoredLeftId
<1>9. Shows(o)'
  <2>1. CASE o = "mine" /\ Own(pend') # {}
    BY <2>1 DEF Shows
  <2>2. CASE ~(o = "mine" /\ Own(pend') # {})
    <3>1. record # none => record.id = o
      <4>1. CASE o = "mine" /\ Own(pend) # {}
        <5>1. PICK i \in Own(pend) : TRUE
          BY <4>1
        <5>2. i \in 1..Len(pend) /\ pend[i].to = me
          BY <5>1 DEF Own
        <5>3. i = 1
          <6>1. SUFFICES ASSUME i # 1 PROVE FALSE
            OBVIOUS
          <6>2. i - 1 \in 1..Len(pend') /\ (i - 1) + 1 = i
            BY <1>2, <1>5, <5>2, <6>1
          <6>3. pend'[i - 1].to = me
            BY <1>5, <5>2, <6>2
          <6>4. QED
            BY <2>2, <4>1, <6>2, <6>3 DEF Own
        <5>4. 1 \in 1..stored
          BY <1>2, <1>3
        <5>5. record.id = pend[1].value.id
          BY <5>2, <5>3, <5>4 DEF IInv, StoredLeftId
        <5>6. QED
          BY <1>1, <5>2, <5>3, <5>5 DEF Phone
      <4>2. CASE ~(o = "mine" /\ Own(pend) # {})
        BY <1>1, <4>2 DEF Shows
      <4>3. QED
        BY <4>1, <4>2
    <3>2. \A i \in 1..Len(told') : told'[i] # none => told'[i].id = o
      <4>1. CASE opened
        BY <1>3, <3>1, <4>1
      <4>2. CASE ~opened
        BY <1>3, <4>2 DEF IInv, Unheard
      <4>3. QED
        BY <4>1, <4>2
    <3>3. QED
      BY <1>3, <3>1, <3>2 DEF Shows
  <2>3. QED
    BY <2>1, <2>2
<1>10. opened => View' # <<>>
  BY <1>3, <1>5, ToldIsSeen DEF View
<1>11. stored' \in 0..Len(pend')
  BY <1>2, <1>3, <1>5
<1>12. QED
  BY <1>1, <1>2, <1>3, <1>5, <1>6, <1>7, <1>8, <1>9, <1>10, <1>11, DatabaseMoves

LEMMA InvHear ==
  ASSUME IInv, Hear
  PROVE  IInv'
<1>1. PICK o \in {"mine", "theirs"} : Phone(o) /\ Shows(o)
  BY DEF IInv, OneId
<1>2. /\ record \in Record \cup {none} /\ pend \in Seq(Write) /\ stored \in 0..Len(pend)
  BY DEF IInv, TypeOK
<1>3. /\ opened /\ told' = <<record>>
      /\ UNCHANGED <<record, pend, stored, opened, user, touched>>
      /\ Raise /\ UNCHANGED <<editVars, began>>
  BY DEF Hear, historyVars
<1>4. told' \in Seq(Seen) /\ Len(told') <= 1
  BY <1>2, <1>3 DEF Seen
<1>5. StoredLeftId'
  BY <1>3 DEF IInv, StoredLeftId
<1>6. Shows(o)'
  BY <1>1, <1>3 DEF Shows
<1>7. View' # <<>>
  BY <1>2, <1>3, ToldIsSeen DEF View
<1>8. \A i \in 1..Len(pend') : pend'[i].value.id = o
  BY <1>1, <1>3 DEF Phone
<1>9. QED
  BY <1>1, <1>2, <1>3, <1>4, <1>5, <1>6, <1>7, <1>8, DatabaseMoves

LEMMA InvRestart ==
  ASSUME IInv, Restart
  PROVE  IInv'
<1>1. /\ pend' = <<>> /\ stored' = 0 /\ told' = <<>> /\ opened' = FALSE /\ events' = <<>>
      /\ user' = none /\ changed' = FALSE /\ old' = none /\ bar' = "search"
      /\ field' = "none" /\ typed' = FALSE /\ touched' = FALSE /\ began' = none
      /\ record' = record /\ record \in Record \cup {none}
  BY DEF IInv, TypeOK, Restart
<1>2. /\ opened' \in BOOLEAN /\ changed' \in BOOLEAN /\ typed' \in BOOLEAN
      /\ touched' \in BOOLEAN
  BY <1>1
<1>3. /\ pend' \in Seq(Write) /\ stored' \in 0..Len(pend')
      /\ told' \in Seq(Record \cup {none}) /\ Len(told') <= 1
      /\ events' \in Seq(Record \cup {none})
  BY <1>1
<1>4. TypeOK'
  BY <1>1, <1>2, <1>3 DEF TypeOK
<1>5. /\ UndoGoesBack' /\ Unheard' /\ StoredLeftId' /\ LastIsSeen' /\ IdleShowsRecord'
  BY <1>1 DEF UndoGoesBack, Unheard, StoredLeftId, LastIsSeen, IdleShowsRecord
<1>6. OneId'
  <2>1. \A o \in {"mine", "theirs"} : Phone(o)'
    BY <1>1 DEF Phone
  <2>2. \E o \in {"mine", "theirs"} : record # none => record.id = o
    BY <1>1, NoneIsApart DEF Record
  <2>3. \E o \in {"mine", "theirs"} : Shows(o)'
    BY <1>1, <2>2 DEF Shows
  <2>4. QED
    BY <2>1, <2>3 DEF OneId
<1>7. QED
  BY <1>4, <1>5, <1>6 DEF IInv

LEMMA InvStep ==
  ASSUME IInv, [Next]_vars
  PROVE  IInv'
<1>1. CASE Next
  BY <1>1, InvOpen, InvRecordEvent, InvTapField, InvTypeText, InvReturns, InvPickImage,
     InvDoneTap, InvUndoTap, InvCommit, InvAcknowledged, InvReconnect, InvHear,
     InvOtherPhoneSaves, InvRestart DEF Next
<1>2. CASE UNCHANGED vars
  <2>1. TypeOK'
    BY <1>2 DEF IInv, TypeOK, vars, dbVars, editVars, historyVars
  <2>2. UndoGoesBack'
    BY <1>2 DEF IInv, UndoGoesBack, vars, editVars, historyVars
  <2>3. UNCHANGED <<dbVars, opened, events, user, touched, old>>
    BY <1>2 DEF vars, editVars, historyVars
  <2>4. QED
    BY <2>1, <2>2, <2>3, EditKept
<1>3. QED
  BY <1>1, <1>2

THEOREM Invariant == Spec => []IInv
BY InvInit, InvStep, PTL DEF Spec

-----------------------------------------------------------------------------
(* The theorems. *)

\* Every variable of the profile screen stays of its kind: what is put into a record
\* has an id and is a record, however the edits and the events interleave.
THEOREM ProfileTypeCorrect == Spec => []TypeOK
<1>1. IInv => TypeOK
  BY DEF IInv
<1>2. QED
  BY <1>1, Invariant, PTL

\* UndoGoesBack: without a further picture undo has the model that was there when the
\* changes began.
THEOREM UndoIsWhereChangesBegan == Spec => []UndoGoesBack
<1>1. IInv => UndoGoesBack
  BY DEF IInv
<1>2. QED
  BY <1>1, Invariant, PTL

\* IdleShowsRecord: for any number of writes and events on their way, the screen shows
\* what the phone's database holds once the events are handled.
THEOREM IdleScreenShowsRecord == Spec => []IdleShowsRecord
<1>1. IInv => IdleShowsRecord
  BY DEF IInv
<1>2. QED
  BY <1>1, Invariant, PTL

LEMMA OwnStep ==
  ASSUME IInv, [Next]_vars, record # none, record.id = "mine"
  PROVE  record' # none /\ record'.id = "mine"
<1>1. PICK o \in {"mine", "theirs"} : Phone(o) /\ Shows(o)
  BY DEF IInv, OneId
<1>2. o = "mine"
  BY <1>1 DEF Shows
<1>3. CASE Commit
  <2> DEFINE n == stored + 1
  <2>1. /\ n \in 1..Len(pend) /\ pend \in Seq(Write)
        /\ record' = IF pend[n].to = me THEN pend[n].value ELSE record
    BY <1>3 DEF IInv, TypeOK, Commit
  <2> HIDE DEF n
  <2>2. pend[n] \in Write
    BY <2>1, ElementOfSeq
  <2>3. pend[n].value \in Record
    BY <2>2 DEF Write
  <2>4. pend[n].value.id = "mine"
    BY <1>1, <1>2, <2>1 DEF Phone
  <2>5. QED
    BY <2>1, <2>3, <2>4, NoneIsApart
<1>4. CASE \E t \in Bios : OtherPhoneSaves(t)
  <2>1. PICK t \in Bios : record' = [record EXCEPT !.bio = t]
    BY <1>4 DEF OtherPhoneSaves
  <2>2. record \in Record
    BY DEF IInv, TypeOK
  <2>3. record' \in Record /\ record'.id = record.id
    BY <2>1, <2>2 DEF Record
  <2>4. QED
    BY <2>3, NoneIsApart
<1>5. CASE ~Commit /\ ~\E t \in Bios : OtherPhoneSaves(t)
  <2>1. UNCHANGED record
    BY <1>5 DEF Next, vars, dbVars, Open, RecordEvent, TapField, TypeText, Return, ReturnName,
       ReturnBio, PickImage, DoneTap, UndoTap, Acknowledged, Reconnect, Hear, Restart
  <2>2. QED
    BY <2>1
<1>6. QED
  BY <1>3, <1>4, <1>5

\* OwnRecordStays: no write of this phone, late, sent twice or behind another's, gives
\* the record of this user another id or takes it away.
THEOREM RecordStaysOnesOwn == Spec => OwnRecordStays
<1>1. ASSUME IInv, [Next]_vars
      PROVE  [record # none /\ record.id = "mine"
                => record' # none /\ record'.id = "mine"]_vars
  BY <1>1, OwnStep
<1>2. QED
  BY <1>1, Invariant, PTL DEF Spec, OwnRecordStays

=============================================================================

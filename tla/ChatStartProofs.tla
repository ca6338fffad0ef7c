-------------------------- MODULE ChatStartProofs ---------------------------
(***************************************************************************)
(* Starting a chat, for any number of messages and any clocks: type        *)
(* correctness, ListEntryResolves, WritesToRealRoom and                    *)
(* MessageIsReachable, and the refinement of RoomBook. All of it rests on  *)
(* the order of createChat's writes: the room goes first and the           *)
(* connection keeps the order.                                             *)
(***************************************************************************)
EXTENDS ChatStart, TLAPS

\* The writes of s that are not a room's creation are to rooms of C, or to
\* rooms whose creation is ahead of them in s.
RoomsFirst(s, C) ==
  \A i \in 1..Len(s) :
    s[i].kind # "chat" => s[i].room \in C \/ \E j \in 1..(i - 1) : s[j] = Chat(s[i].room)

\* The room is stored, or u's phone will have it stored.
Created(u, r) == r \in chats \/ ChatWaits(u, r)

OutboxInOrder == \A u \in Users : RoomsFirst(outbox[u], chats)

\* What a phone knows of is created: the room of its list, and the answers.
KnownIsCreated ==
  \A u \in Users :
    /\ front[u] # none => Created(u, front[u])
    /\ \A i \in 1..Len(answers[u]) : answers[u][i] # none => Created(u, answers[u][i])

MessagesInRooms == \A m \in msgs : m.room \in chats

Reached(r, v) == Listed(v, r) \/ \E w \in Users : r \in EntriesWaiting(w, v)

\* A room that is created gets into both lists, or an entry of it was lost.
RoomsReachable ==
  \A u \in Users, r \in Users : Created(u, r) => r \in lost \/ \A v \in Users : Reached(r, v)

IInv ==
  /\ TypeOK
  /\ OutboxInOrder /\ ListEntryResolves /\ KnownIsCreated /\ WritesToRealRoom
  /\ MessagesInRooms /\ RoomsReachable

-----------------------------------------------------------------------------
(* Writes, and the two ends of an outbox. *)

\* An entry of room r in v's list is among the writes of s.
HasEntry(s, v, r) ==
  \E i \in 1..Len(s) : s[i].kind = "entry" /\ s[i].of = v /\ s[i].room = r

LEMMA EntriesAre ==
  ASSUME NEW u, NEW v, NEW r
  PROVE  /\ r \in EntriesWaiting(u, v) <=> HasEntry(outbox[u], v, r)
         /\ (r \in EntriesWaiting(u, v))' <=> HasEntry(outbox'[u], v, r)
BY DEF EntriesWaiting, HasEntry

LEMMA WriteKinds ==
  /\ \A r \in Users : Chat(r) \in Write /\ Chat(r).kind = "chat" /\ Chat(r).room = r
  /\ \A r \in Users : /\ Message(r) \in Write
                     /\ Message(r).kind = "message" /\ Message(r).room = r
  /\ \A v \in Users, t \in 1..MaxTime, r \in Users :
       LET e == Entry(v, t, r)
       IN  e \in Write /\ e.kind = "entry" /\ e.of = v /\ e.at = t /\ e.room = r
BY DEF Write, Chat, Message, Entry

LEMMA WriteParts ==
  ASSUME NEW w \in Write
  PROVE  /\ w.kind \in {"chat", "message", "entry"} /\ w.room \in Users
         /\ w.kind = "chat" => w = Chat(w.room)
         /\ w.kind = "entry" => w.of \in Users /\ w.at \in 1..MaxTime
BY DEF Write, Chat

LEMMA Others ==
  /\ a \in Users /\ b \in Users /\ none \notin Users
  /\ \A u \in Users : Other(u) \in Users /\ Other(u) # u
  /\ \A u, v \in Users : v = u \/ v = Other(u)
BY UsersAssumption DEF Users, Other

\* What is left when the oldest write w has gone to the server.
LEMMA TailWrites ==
  ASSUME NEW s \in Seq(Write), s # <<>>
  PROVE  /\ Head(s) \in Write /\ Tail(s) \in Seq(Write)
         /\ \A w : Contains(s, w) <=> w = Head(s) \/ Contains(Tail(s), w)
         /\ \A v, r : HasEntry(s, v, r) <=>
              \/ Head(s).kind = "entry" /\ Head(s).of = v /\ Head(s).room = r
              \/ HasEntry(Tail(s), v, r)
<1>1. Len(s) \in Nat \ {0} /\ Head(s) = s[1] /\ Head(s) \in Write /\ Tail(s) \in Seq(Write)
  OBVIOUS
<1>2. Len(Tail(s)) = Len(s) - 1 /\ \A i \in 1..Len(Tail(s)) : Tail(s)[i] = s[i + 1]
  OBVIOUS
<1>3. \A i \in 1..Len(s) : i = 1 \/ (i - 1 \in 1..Len(Tail(s)) /\ s[i] = Tail(s)[i - 1])
  BY <1>1, <1>2
<1>4. \A i \in 1..Len(Tail(s)) : i + 1 \in 1..Len(s)
  BY <1>1, <1>2
<1>5. 1 \in 1..Len(s)
  BY <1>1
<1>6. ASSUME NEW w PROVE Contains(s, w) <=> w = Head(s) \/ Contains(Tail(s), w)
  BY <1>1, <1>2, <1>3, <1>4, <1>5 DEF Contains
<1>7. ASSUME NEW v, NEW r
      PROVE  HasEntry(s, v, r) <=>
               \/ Head(s).kind = "entry" /\ Head(s).of = v /\ Head(s).room = r
               \/ HasEntry(Tail(s), v, r)
  BY <1>1, <1>2, <1>3, <1>4, <1>5 DEF HasEntry
<1> QED BY <1>1, <1>6, <1>7

LEMMA TailInOrder ==
  ASSUME NEW s \in Seq(Write), s # <<>>, NEW C, RoomsFirst(s, C),
         NEW D, C \subseteq D, Head(s).kind = "chat" => Head(s).room \in D
  PROVE  /\ Head(s).kind # "chat" => Head(s).room \in C
         /\ RoomsFirst(Tail(s), D)
<1>1. Len(s) \in Nat \ {0} /\ Head(s) = s[1] /\ 1 \in 1..Len(s)
  OBVIOUS
<1>2. Len(Tail(s)) = Len(s) - 1 /\ \A i \in 1..Len(Tail(s)) : Tail(s)[i] = s[i + 1]
  OBVIOUS
<1>3. Head(s).kind # "chat" => Head(s).room \in C
  BY <1>1 DEF RoomsFirst
<1>4. ASSUME NEW i \in 1..Len(Tail(s)), Tail(s)[i].kind # "chat", s[i + 1].room \notin D
      PROVE  \E j \in 1..(i - 1) : Tail(s)[j] = Chat(s[i + 1].room)
  <2>1. i + 1 \in 1..Len(s) /\ Tail(s)[i] = s[i + 1] /\ s[i + 1] \in Write
    BY <1>1, <1>2
  <2>2. PICK j \in 1..((i + 1) - 1) : s[j] = Chat(s[i + 1].room)
    BY <1>4, <2>1 DEF RoomsFirst
  <2>3. s[i + 1].room \in Users
    BY <2>1, WriteParts
  <2>4. j # 1
    BY <1>1, <1>4, <2>2, <2>3, WriteKinds
  <2>5. j - 1 \in 1..(i - 1) /\ j - 1 \in 1..Len(Tail(s)) /\ Tail(s)[j - 1] = s[j]
    BY <1>1, <1>2, <2>1, <2>2, <2>4
  <2> QED BY <2>2, <2>5
<1> QED BY <1>2, <1>3, <1>4 DEF RoomsFirst

\* More writes at the end.
LEMMA LongerWrites ==
  ASSUME NEW s \in Seq(Write), NEW t \in Seq(Write)
  PROVE  /\ s \o t \in Seq(Write)
         /\ \A w : Contains(s, w) => Contains(s \o t, w)
         /\ \A w : Contains(s \o t, w) => Contains(s, w) \/ Contains(t, w)
         /\ \A v, r : HasEntry(s, v, r) \/ HasEntry(t, v, r) => HasEntry(s \o t, v, r)
<1>1. /\ s \o t \in Seq(Write) /\ Len(s \o t) = Len(s) + Len(t)
      /\ Len(s) \in Nat /\ Len(t) \in Nat
  OBVIOUS
<1>2. \A i \in 1..Len(s) : i \in 1..Len(s \o t) /\ (s \o t)[i] = s[i]
  BY <1>1
<1>3. \A i \in 1..Len(t) : i + Len(s) \in 1..Len(s \o t) /\ (s \o t)[i + Len(s)] = t[i]
  BY <1>1
<1>4. \A i \in 1..Len(s \o t) :
        i \in 1..Len(s) \/ (i - Len(s) \in 1..Len(t) /\ (s \o t)[i] = t[i - Len(s)])
  BY <1>1
<1>5. \A w : Contains(s, w) => Contains(s \o t, w)
  BY <1>2 DEF Contains
<1>6. \A w : Contains(s \o t, w) => Contains(s, w) \/ Contains(t, w)
  BY <1>2, <1>4 DEF Contains
<1>7. \A v, r : HasEntry(s, v, r) => HasEntry(s \o t, v, r)
  BY <1>2 DEF HasEntry
<1>8. \A v, r : HasEntry(t, v, r) => HasEntry(s \o t, v, r)
  BY <1>3 DEF HasEntry
<1> QED BY <1>1, <1>5, <1>6, <1>7, <1>8

LEMMA LongerInOrder ==
  ASSUME NEW s \in Seq(Write), NEW t \in Seq(Write), NEW C, RoomsFirst(s, C),
         \A i \in 1..Len(t) : t[i].kind # "chat" =>
           t[i].room \in C \/ Contains(s, Chat(t[i].room))
                          \/ \E j \in 1..(i - 1) : t[j] = Chat(t[i].room)
  PROVE  RoomsFirst(s \o t, C)
<1> DEFINE st == s \o t
<1>1. Len(st) = Len(s) + Len(t) /\ Len(s) \in Nat /\ Len(t) \in Nat
  OBVIOUS
<1>2. \A i \in 1..Len(s) : i \in 1..Len(st) /\ st[i] = s[i]
  BY <1>1
<1>3. \A i \in 1..Len(t) : i + Len(s) \in 1..Len(st) /\ st[i + Len(s)] = t[i]
  BY <1>1
<1>4. SUFFICES ASSUME NEW i \in 1..Len(st), st[i].kind # "chat", st[i].room \notin C
               PROVE  \E j \in 1..(i - 1) : st[j] = Chat(st[i].room)
  BY DEF RoomsFirst
<1>5. CASE i \in 1..Len(s)
  <2>1. PICK j \in 1..(i - 1) : s[j] = Chat(s[i].room)
    BY <1>2, <1>4, <1>5 DEF RoomsFirst
  <2>2. j \in 1..Len(s)
    BY <1>1, <1>5
  <2> QED BY <1>2, <1>5, <2>1, <2>2
<1>6. CASE i \notin 1..Len(s)
  <2> DEFINE k == i - Len(s)
  <2>1. k \in 1..Len(t) /\ i = k + Len(s) /\ st[i] = t[k]
    BY <1>1, <1>3, <1>6
  <2>2. CASE Contains(s, Chat(t[k].room))
    <3>1. PICK j \in 1..Len(s) : s[j] = Chat(t[k].room)
      BY <2>2 DEF Contains
    <3>2. j \in 1..(i - 1)
      BY <1>1, <2>1
    <3> QED BY <1>2, <2>1, <3>1, <3>2
  <2>3. CASE \E j \in 1..(k - 1) : t[j] = Chat(t[k].room)
    <3>1. PICK j \in 1..(k - 1) : t[j] = Chat(t[k].room)
      BY <2>3
    <3>2. j \in 1..Len(t) /\ j + Len(s) \in 1..(i - 1)
      BY <1>1, <2>1
    <3> QED BY <1>3, <2>1, <3>1, <3>2
  <2> QED BY <1>4, <2>1, <2>2, <2>3
<1> QED BY <1>5, <1>6

-----------------------------------------------------------------------------
(* The steps that send nothing. *)

LEMMA Initially == Init => IInv
<1> SUFFICES ASSUME Init PROVE IInv
  OBVIOUS
<1> USE DEF Init
<1>1. TypeOK
  <2>1. /\ list \in [Users -> SUBSET Listing]
        /\ outbox \in [Users -> Seq(Write)]
        /\ answers \in [Users -> Seq(Users \cup {none})]
    OBVIOUS
  <2>2. clock \in [Users -> 0..MaxTime] /\ sends \in 0..MaxSends
    BY StartBounds
  <2>3. /\ front \in [Users -> Users \cup {none}]
        /\ screen \in [Users -> {"none", "list", "search"}]
        /\ joined \in [Users -> BOOLEAN]
        /\ roomId \in [Users -> Users \cup {none}]
        /\ first \in [Users -> {"idle", "asked"}] /\ second \in [Users -> {"idle", "asked"}]
    OBVIOUS
  <2> QED BY <2>1, <2>2, <2>3 DEF TypeOK
<1>2. OutboxInOrder /\ ListEntryResolves /\ KnownIsCreated /\ WritesToRealRoom /\ MessagesInRooms
  BY DEF OutboxInOrder, RoomsFirst, ListEntryResolves, KnownIsCreated, WritesToRealRoom,
         MessagesInRooms
<1>3. RoomsReachable
  BY DEF RoomsReachable, Created, ChatWaits, Contains
<1> QED BY <1>1, <1>2, <1>3 DEF IInv

\* Nothing written, nothing stored: what is created and reached stays so.
LEMMA NothingWritten ==
  ASSUME IInv, UNCHANGED <<chats, list, msgs, outbox, lost>>
  PROVE  /\ OutboxInOrder' /\ ListEntryResolves' /\ MessagesInRooms' /\ RoomsReachable'
         /\ \A u, r : Created(u, r)' <=> Created(u, r)
<1>1. \A u, r : Created(u, r)' <=> Created(u, r)
  BY DEF Created, ChatWaits
<1>2. \A r, v : Reached(r, v)' <=> Reached(r, v)
  BY DEF Reached, Listed, EntriesWaiting
<1>3. RoomsReachable'
  BY <1>1, <1>2 DEF IInv, RoomsReachable
<1>4. OutboxInOrder' /\ ListEntryResolves' /\ MessagesInRooms'
  BY DEF IInv, OutboxInOrder, RoomsFirst, ListEntryResolves, MessagesInRooms
<1> QED BY <1>1, <1>3, <1>4

LEMMA StepListLoads ==
  ASSUME IInv, NEW u \in Users, ListLoads(u)
  PROVE  IInv'
<1>1. /\ UNCHANGED <<chats, list, msgs, outbox, clock, sends, lost>>
      /\ UNCHANGED <<screen, joined, roomId, first, second, answers>>
  BY DEF ListLoads, serverVars, phoneVars, screenVars
<1>2. PICK e \in list[u] : front' = [front EXCEPT ![u] = e.room]
  BY DEF ListLoads
<1>3. e.room \in Users /\ e.room \in chats
  BY <1>2 DEF IInv, TypeOK, Listing, ListEntryResolves
<1>4. TypeOK'
  BY <1>1, <1>2, <1>3 DEF IInv, TypeOK
<1>5. KnownIsCreated'
  BY <1>1, <1>2, <1>3, NothingWritten DEF IInv, TypeOK, KnownIsCreated, Created
<1>6. WritesToRealRoom'
  BY <1>1 DEF IInv, WritesToRealRoom, ChatWaits
<1> QED BY <1>1, <1>4, <1>5, <1>6, NothingWritten DEF IInv

LEMMA StepOpenFromList ==
  ASSUME IInv, NEW u \in Users, OpenFromList(u)
  PROVE  IInv'
<1>1. /\ UNCHANGED <<chats, list, msgs, outbox, clock, sends, lost>>
      /\ UNCHANGED <<front, first, second, answers>>
      /\ front[u] # none
      /\ screen' = [screen EXCEPT ![u] = "list"]
      /\ joined' = [joined EXCEPT ![u] = TRUE]
      /\ roomId' = [roomId EXCEPT ![u] = front[u]]
  BY DEF OpenFromList, serverVars, phoneVars
<1>2. TypeOK'
  BY <1>1 DEF IInv, TypeOK
<1>3. KnownIsCreated'
  BY <1>1, NothingWritten DEF IInv, KnownIsCreated
<1>4. WritesToRealRoom'
  BY <1>1 DEF IInv, TypeOK, WritesToRealRoom, ChatWaits, KnownIsCreated, Created
<1> QED BY <1>1, <1>2, <1>3, <1>4, NothingWritten DEF IInv

LEMMA StepOpenFromSearch ==
  ASSUME IInv, NEW u \in Users, OpenFromSearch(u)
  PROVE  IInv'
<1>1. /\ UNCHANGED <<chats, list, msgs, outbox, clock, sends, lost>>
      /\ UNCHANGED <<front, joined, roomId, answers>>
  BY DEF OpenFromSearch, serverVars, phoneVars
<1>2. TypeOK'
  BY <1>1 DEF IInv, TypeOK, OpenFromSearch
<1>3. KnownIsCreated'
  BY <1>1, NothingWritten DEF IInv, KnownIsCreated
<1>4. WritesToRealRoom'
  BY <1>1 DEF IInv, WritesToRealRoom, ChatWaits
<1> QED BY <1>1, <1>2, <1>3, <1>4, NothingWritten DEF IInv

LEMMA AppendParts ==
  ASSUME NEW S, NEW s \in Seq(S), NEW x \in S
  PROVE  /\ Append(s, x) \in Seq(S)
         /\ \A i \in 1..Len(Append(s, x)) :
              Append(s, x)[i] = x \/ (i \in 1..Len(s) /\ Append(s, x)[i] = s[i])
OBVIOUS

LEMMA TailParts ==
  ASSUME NEW S, NEW s \in Seq(S), s # <<>>
  PROVE  /\ Tail(s) \in Seq(S) /\ Head(s) \in S /\ 1 \in 1..Len(s) /\ Head(s) = s[1]
         /\ \A i \in 1..Len(Tail(s)) : i + 1 \in 1..Len(s) /\ Tail(s)[i] = s[i + 1]
OBVIOUS

\* An answer x is queued, and nothing but the questions changes besides.
LEMMA Queued ==
  ASSUME IInv, NEW u \in Users, NEW x \in Users \cup {none}, x # none => Created(u, x),
         UNCHANGED <<chats, list, msgs, outbox, clock, sends, lost>>,
         UNCHANGED <<front, screen, joined, roomId>>,
         first' \in [Users -> {"idle", "asked"}], second' \in [Users -> {"idle", "asked"}],
         answers' = [answers EXCEPT ![u] = Append(@, x)]
  PROVE  IInv'
<1>1. answers[u] \in Seq(Users \cup {none})
  BY DEF IInv, TypeOK
<1>2. answers'[u] = Append(answers[u], x) /\ \A v \in Users \ {u} : answers'[v] = answers[v]
  BY DEF IInv, TypeOK
<1>3. answers' \in [Users -> Seq(Users \cup {none})]
  BY <1>1, AppendParts DEF IInv, TypeOK
<1>4. TypeOK'
  BY <1>3 DEF IInv, TypeOK
<1>5. ASSUME NEW v \in Users, NEW i \in 1..Len(answers'[v]), answers'[v][i] # none
      PROVE  Created(v, answers'[v][i])
  <2>1. CASE v = u
    <3>1. answers'[v][i] = x \/ (i \in 1..Len(answers[u]) /\ answers'[v][i] = answers[u][i])
      BY <1>1, <1>2, <1>5, <2>1, AppendParts
    <3> QED BY <1>5, <2>1, <3>1 DEF IInv, KnownIsCreated
  <2>2. CASE v # u
    BY <1>2, <1>5, <2>2 DEF IInv, KnownIsCreated
  <2> QED BY <2>1, <2>2
<1>6. KnownIsCreated'
  BY <1>5, NothingWritten DEF IInv, KnownIsCreated
<1>7. WritesToRealRoom'
  BY DEF IInv, WritesToRealRoom, ChatWaits
<1> QED BY <1>4, <1>6, <1>7, NothingWritten DEF IInv

LEMMA StepFirstRead ==
  ASSUME IInv, NEW u \in Users, FirstRead(u)
  PROVE  IInv'
<1>1. /\ UNCHANGED <<chats, list, msgs, outbox, clock, sends, lost>>
      /\ UNCHANGED <<front, screen, joined, roomId, second>>
      /\ first' = [first EXCEPT ![u] = "idle"]
  BY DEF FirstRead, serverVars, phoneVars
<1>2. first' \in [Users -> {"idle", "asked"}] /\ second' \in [Users -> {"idle", "asked"}]
  BY <1>1 DEF IInv, TypeOK
<1>3. CASE Other(u) \in chats
  <2>1. answers' = [answers EXCEPT ![u] = Append(@, Other(u))]
    BY <1>3 DEF FirstRead
  <2> QED BY <1>1, <1>2, <1>3, <2>1, Queued, Others DEF Created
<1>4. CASE Other(u) \notin chats
  <2>1. UNCHANGED answers
    BY <1>4 DEF FirstRead
  <2>2. TypeOK' /\ WritesToRealRoom'
    BY <1>1, <1>2, <2>1 DEF IInv, TypeOK, WritesToRealRoom, ChatWaits
  <2>3. KnownIsCreated'
    BY <1>1, <2>1, NothingWritten DEF IInv, KnownIsCreated
  <2> QED BY <1>1, <2>2, <2>3, NothingWritten DEF IInv
<1> QED BY <1>3, <1>4

LEMMA StepSecondRead ==
  ASSUME IInv, NEW u \in Users, SecondRead(u)
  PROVE  IInv'
<1>1. /\ UNCHANGED <<chats, list, msgs, outbox, clock, sends, lost>>
      /\ UNCHANGED <<front, screen, joined, roomId, first>>
      /\ second' = [second EXCEPT ![u] = "idle"]
  BY DEF SecondRead, serverVars, phoneVars
<1>2. first' \in [Users -> {"idle", "asked"}] /\ second' \in [Users -> {"idle", "asked"}]
  BY <1>1 DEF IInv, TypeOK
<1>3. PICK x \in Users \cup {none} :
        /\ answers' = [answers EXCEPT ![u] = Append(@, x)]
        /\ x # none => Created(u, x)
  BY DEF SecondRead, Created
<1> QED BY <1>1, <1>2, <1>3, Queued

LEMMA StepAnswer ==
  ASSUME IInv, NEW u \in Users, Answer(u)
  PROVE  IInv'
<1> DEFINE x == Head(answers[u])
<1>1. /\ UNCHANGED <<chats, list, msgs, outbox, clock, sends, lost>>
      /\ UNCHANGED <<front, screen, first, second>>
      /\ answers[u] # <<>> /\ answers' = [answers EXCEPT ![u] = Tail(@)]
      /\ roomId' = [roomId EXCEPT ![u] = x]
      /\ joined' = [joined EXCEPT ![u] = (x # none)]
  BY DEF Answer, serverVars, phoneVars
<1>2. answers[u] \in Seq(Users \cup {none})
  BY DEF IInv, TypeOK
<1>3. /\ Tail(answers[u]) \in Seq(Users \cup {none}) /\ x \in Users \cup {none}
      /\ 1 \in 1..Len(answers[u]) /\ x = answers[u][1]
      /\ \A i \in 1..Len(Tail(answers[u])) :
           i + 1 \in 1..Len(answers[u]) /\ Tail(answers[u])[i] = answers[u][i + 1]
  BY <1>1, <1>2, TailParts
<1>4. x # none => Created(u, x)
  BY <1>3 DEF IInv, KnownIsCreated
<1>5. TypeOK'
  <2>1. joined' \in [Users -> BOOLEAN]
    BY <1>1 DEF IInv, TypeOK
  <2>2. roomId' \in [Users -> Users \cup {none}]
    BY <1>1, <1>3 DEF IInv, TypeOK
  <2>3. answers' \in [Users -> Seq(Users \cup {none})]
    BY <1>1, <1>3 DEF IInv, TypeOK
  <2> QED BY <1>1, <2>1, <2>2, <2>3 DEF IInv, TypeOK
<1>6. KnownIsCreated'
  <2>1. ASSUME NEW v \in Users, NEW i \in 1..Len(answers'[v]), answers'[v][i] # none
        PROVE  Created(v, answers'[v][i])
    <3>1. CASE v = u
      <4>1. answers'[v] = Tail(answers[u])
        BY <1>1, <3>1 DEF IInv, TypeOK
      <4> QED BY <1>3, <2>1, <3>1, <4>1 DEF IInv, KnownIsCreated
    <3>2. CASE v # u
      <4>1. answers'[v] = answers[v]
        BY <1>1, <3>2 DEF IInv, TypeOK
      <4> QED BY <2>1, <4>1 DEF IInv, KnownIsCreated
    <3> QED BY <3>1, <3>2
  <2> QED BY <1>1, <2>1, NothingWritten DEF IInv, KnownIsCreated
<1>7. WritesToRealRoom'
  <2>1. ASSUME NEW v \in Users
        PROVE  /\ joined'[v] <=> roomId'[v] # none
               /\ joined'[v] => Created(v, roomId'[v])
    <3>1. CASE v = u
      <4>1. roomId'[v] = x /\ (joined'[v] <=> x # none)
        BY <1>1, <3>1 DEF IInv, TypeOK
      <4> QED BY <1>4, <3>1, <4>1
    <3>2. CASE v # u
      <4>1. roomId'[v] = roomId[v] /\ joined'[v] = joined[v]
        BY <1>1, <3>2 DEF IInv, TypeOK
      <4> QED BY <4>1 DEF IInv, WritesToRealRoom, Created
    <3> QED BY <3>1, <3>2
  <2> QED BY <1>1, <2>1 DEF WritesToRealRoom, Created, ChatWaits
<1> QED BY <1>1, <1>5, <1>6, <1>7, NothingWritten DEF IInv

LEMMA StepClose ==
  ASSUME IInv, NEW u \in Users, Close(u)
  PROVE  IInv'
<1>1. /\ UNCHANGED <<chats, list, msgs, outbox, clock, sends, lost, front>>
      /\ joined' = [joined EXCEPT ![u] = FALSE]
      /\ roomId' = [roomId EXCEPT ![u] = none]
      /\ answers' = [answers EXCEPT ![u] = <<>>]
  BY DEF Close, serverVars, phoneVars
<1>2. TypeOK'
  BY <1>1 DEF IInv, TypeOK, Close
<1>3. KnownIsCreated'
  <2>1. \A v \in Users : answers'[v] = answers[v] \/ answers'[v] = <<>>
    BY <1>1 DEF IInv, TypeOK
  <2> QED BY <1>1, <2>1, NothingWritten DEF IInv, KnownIsCreated
<1>4. WritesToRealRoom'
  BY <1>1 DEF IInv, TypeOK, WritesToRealRoom, ChatWaits
<1> QED BY <1>1, <1>2, <1>3, <1>4, NothingWritten DEF IInv

-----------------------------------------------------------------------------
(* Sending: writes t are put at the end of u's outbox. *)

LEMMA Sent ==
  ASSUME IInv, NEW u \in Users, NEW t \in Seq(Write),
         UNCHANGED <<chats, list, msgs, lost>>,
         outbox' = [outbox EXCEPT ![u] = @ \o t],
         \A i \in 1..Len(t) : t[i].kind # "chat" =>
           t[i].room \in chats \/ Contains(outbox[u], Chat(t[i].room))
                              \/ \E j \in 1..(i - 1) : t[j] = Chat(t[i].room),
         \A r \in Users : Contains(t, Chat(r)) => \A v \in Users : HasEntry(t, v, r)
  PROVE  /\ outbox' \in [Users -> Seq(Write)]
         /\ OutboxInOrder' /\ ListEntryResolves' /\ MessagesInRooms' /\ RoomsReachable'
         /\ \A v \in Users : \A r : Created(v, r) => Created(v, r)'
         /\ \A r : Contains(t, Chat(r)) => Created(u, r)'
<1> DEFINE s == outbox[u]
<1>1. /\ s \in Seq(Write) /\ outbox'[u] = s \o t
      /\ \A v \in Users \ {u} : outbox'[v] = outbox[v]
  BY DEF IInv, TypeOK
<1>2. outbox' \in [Users -> Seq(Write)]
  BY <1>1, LongerWrites DEF IInv, TypeOK
<1>3. OutboxInOrder'
  <2>1. RoomsFirst(s, chats)
    BY DEF IInv, OutboxInOrder
  <2>2. RoomsFirst(s \o t, chats)
    BY <1>1, <2>1, LongerInOrder
  <2>3. \A v \in Users : RoomsFirst(outbox'[v], chats')
    BY <1>1, <2>2 DEF IInv, OutboxInOrder
  <2> QED BY <2>3 DEF OutboxInOrder, RoomsFirst
<1>4. ListEntryResolves' /\ MessagesInRooms'
  BY DEF IInv, ListEntryResolves, MessagesInRooms
<1>5. \A r : Contains(s, Chat(r)) \/ Contains(t, Chat(r)) => Contains(s \o t, Chat(r))
  <2>1. Len(s \o t) = Len(s) + Len(t) /\ Len(s) \in Nat /\ Len(t) \in Nat
    BY <1>1
  <2>2. \A i \in 1..Len(t) : i + Len(s) \in 1..Len(s \o t) /\ (s \o t)[i + Len(s)] = t[i]
    BY <1>1, <2>1
  <2>3. \A r : Contains(t, Chat(r)) => Contains(s \o t, Chat(r))
    BY <2>2 DEF Contains
  <2> QED BY <1>1, <2>3, LongerWrites
<1>6. \A v \in Users : \A r : Created(v, r) => Created(v, r)'
  BY <1>1, <1>5 DEF Created, ChatWaits
<1>7. \A r : Contains(t, Chat(r)) => Created(u, r)'
  BY <1>1, <1>5 DEF Created, ChatWaits
<1>8. \A v \in Users, r \in Users : Reached(r, v) => Reached(r, v)'
  <2> SUFFICES ASSUME NEW v \in Users, NEW r \in Users, Reached(r, v)
               PROVE  Reached(r, v)'
    OBVIOUS
  <2>1. CASE Listed(v, r)
    BY <2>1 DEF Reached, Listed
  <2>2. ASSUME NEW w \in Users, r \in EntriesWaiting(w, v) PROVE Reached(r, v)'
    <3>1. HasEntry(outbox[w], v, r)
      BY <2>2, EntriesAre
    <3>2. HasEntry(outbox'[w], v, r)
      BY <1>1, <3>1, LongerWrites
    <3> QED BY <3>2, EntriesAre DEF Reached
  <2> QED BY <2>1, <2>2 DEF Reached
<1>9. RoomsReachable'
  <2> SUFFICES ASSUME NEW w \in Users, NEW r \in Users, Created(w, r)', r \notin lost
               PROVE  \A v \in Users : Reached(r, v)'
    BY DEF RoomsReachable
  <2>1. CASE Created(w, r)
    BY <1>8, <2>1 DEF IInv, RoomsReachable
  <2>2. CASE ~Created(w, r)
    <3>1. w = u /\ Contains(t, Chat(r))
      BY <1>1, <2>2, LongerWrites DEF Created, ChatWaits
    <3>2. \A v \in Users : HasEntry(t, v, r)
      BY <3>1
    <3>3. \A v \in Users : HasEntry(s \o t, v, r)
      BY <1>1, <3>2, LongerWrites
    <3> QED BY <1>1, <3>3, EntriesAre DEF Reached
  <2> QED BY <2>1, <2>2
<1> QED BY <1>2, <1>3, <1>4, <1>6, <1>7, <1>9

\* A message to a room that is created.
LEMMA StepSendMessage ==
  ASSUME IInv, NEW u \in Users, Send(u), SendMessage(u)
  PROVE  IInv'
<1> DEFINE r == roomId[u]
           t == <<Message(r)>>
<1>1. /\ UNCHANGED <<chats, list, msgs, lost, clock>>
      /\ UNCHANGED <<front, screen, joined, roomId, first, second, answers>>
      /\ outbox' = [outbox EXCEPT ![u] = Append(@, Message(r))]
      /\ joined[u]
  BY DEF Send, SendMessage, serverVars
<1>2. r \in Users /\ Created(u, r)
  BY <1>1 DEF IInv, TypeOK, WritesToRealRoom, Created
<1>3. t \in Seq(Write) /\ outbox' = [outbox EXCEPT ![u] = @ \o t]
  <2>1. outbox[u] \in Seq(Write) /\ Message(r) \in Write
    BY <1>2, WriteKinds DEF IInv, TypeOK
  <2>2. Append(outbox[u], Message(r)) = outbox[u] \o t
    BY <2>1
  <2> QED BY <1>1, <2>1, <2>2
<1>4. \A i \in 1..Len(t) : t[i] = Message(r) /\ t[i].kind = "message" /\ t[i].room = r
  BY <1>2, WriteKinds
<1>5. \A x \in Users : ~Contains(t, Chat(x))
  BY <1>4, WriteKinds DEF Contains
<1>6. /\ outbox' \in [Users -> Seq(Write)]
      /\ OutboxInOrder' /\ ListEntryResolves' /\ MessagesInRooms' /\ RoomsReachable'
      /\ \A v \in Users : \A x : Created(v, x) => Created(v, x)'
  BY <1>1, <1>2, <1>3, <1>4, <1>5, Sent DEF Created, ChatWaits
<1>7. TypeOK'
  <2>1. sends' \in 0..MaxSends
    BY StartBounds DEF IInv, TypeOK, Send
  <2> QED BY <1>1, <1>6, <2>1 DEF IInv, TypeOK
<1>8. KnownIsCreated'
  BY <1>1, <1>6 DEF IInv, KnownIsCreated
<1>9. WritesToRealRoom'
  BY <1>1, <1>6 DEF IInv, WritesToRealRoom, Created
<1> QED BY <1>6, <1>7, <1>8, <1>9 DEF IInv

\* The room, an entry in either list, and the message, to a room of u's own.
LEMMA StepStartChatAndSend ==
  ASSUME IInv, NEW u \in Users, Send(u), StartChatAndSend(u)
  PROVE  IInv'
<1>1. PICK k \in 1..MaxTime :
        /\ clock' = [clock EXCEPT ![u] = k]
        /\ outbox' = [outbox EXCEPT ![u] =
                        @ \o <<Chat(u), Entry(u, k, u), Entry(Other(u), k, u), Message(u)>>]
  BY DEF StartChatAndSend
<1> DEFINE t == <<Chat(u), Entry(u, k, u), Entry(Other(u), k, u), Message(u)>>
<1>2. /\ UNCHANGED <<chats, list, msgs, lost, screen, first>>
      /\ front' = IF front[u] = none THEN [front EXCEPT ![u] = u] ELSE front
      /\ joined' = [joined EXCEPT ![u] = TRUE]
      /\ roomId' = [roomId EXCEPT ![u] = u]
      /\ second' = [second EXCEPT ![u] = "idle"]
      /\ answers' = IF second[u] = "asked" THEN [answers EXCEPT ![u] = Append(@, u)]
                    ELSE answers
  BY DEF Send, StartChatAndSend, serverVars
<1>3. t \in Seq(Write) /\ Len(t) = 4 /\ 1..Len(t) = {1, 2, 3, 4}
  <2>1. /\ Chat(u) \in Write /\ Message(u) \in Write
        /\ Entry(u, k, u) \in Write /\ Entry(Other(u), k, u) \in Write
    BY Others, WriteKinds
  <2> QED BY <2>1
<1>4. /\ t[1] = Chat(u)
      /\ t[2].kind = "entry" /\ t[2].of = u /\ t[2].room = u
      /\ t[3].kind = "entry" /\ t[3].of = Other(u) /\ t[3].room = u
      /\ t[4].kind = "message" /\ t[4].room = u
  BY Others, WriteKinds
<1>5. \A i \in 1..Len(t) : t[i].kind # "chat" =>
        t[i].room \in chats \/ Contains(outbox[u], Chat(t[i].room))
                           \/ \E j \in 1..(i - 1) : t[j] = Chat(t[i].room)
  <2>1. Chat(u).kind = "chat"
    BY WriteKinds
  <2>2. \A i \in {2, 3, 4} : t[i].room = u /\ 1 \in 1..(i - 1)
    BY <1>4
  <2> HIDE DEF t
  <2> QED BY <1>3, <1>4, <2>1, <2>2
<1>6. \A r \in Users : Contains(t, Chat(r)) => \A v \in Users : HasEntry(t, v, r)
  <2> SUFFICES ASSUME NEW r \in Users, Contains(t, Chat(r)), NEW v \in Users
               PROVE  HasEntry(t, v, r)
    OBVIOUS
  <2> HIDE DEF t
  <2>1. Chat(r).kind = "chat" /\ Chat(r).room = r /\ Chat(u).room = u
    BY WriteKinds
  <2>2. r = u
    BY <1>3, <1>4, <2>1 DEF Contains
  <2>3. v = u \/ v = Other(u)
    BY Others
  <2> QED BY <1>3, <1>4, <2>2, <2>3 DEF HasEntry
<1>7. Contains(t, Chat(u))
  BY <1>3, <1>4 DEF Contains
<1>8. /\ outbox' \in [Users -> Seq(Write)]
      /\ OutboxInOrder' /\ ListEntryResolves' /\ MessagesInRooms' /\ RoomsReachable'
      /\ \A v \in Users : \A r : Created(v, r) => Created(v, r)'
      /\ Created(u, u)'
  <2> HIDE DEF t
  <2>1. outbox' = [outbox EXCEPT ![u] = @ \o t]
    BY <1>1 DEF t
  <2> QED BY <1>2, <1>3, <1>5, <1>6, <1>7, <2>1, Sent
<1> HIDE DEF t
<1>9. answers[u] \in Seq(Users \cup {none}) /\ u \in Users \cup {none}
  BY DEF IInv, TypeOK
<1>10. \A v \in Users : answers'[v] = answers[v] \/ (v = u /\ answers'[v] = Append(answers[u], u))
  BY <1>2 DEF IInv, TypeOK
<1>11. TypeOK'
  <2>1. sends' \in 0..MaxSends
    BY StartBounds DEF IInv, TypeOK, Send
  <2>2. answers' \in [Users -> Seq(Users \cup {none})]
    BY <1>2, <1>9, AppendParts DEF IInv, TypeOK
  <2>3. /\ clock' \in [Users -> 0..MaxTime] /\ front' \in [Users -> Users \cup {none}]
        /\ joined' \in [Users -> BOOLEAN] /\ roomId' \in [Users -> Users \cup {none}]
        /\ second' \in [Users -> {"idle", "asked"}]
    BY <1>1, <1>2 DEF IInv, TypeOK
  <2> QED BY <1>2, <1>8, <2>1, <2>2, <2>3 DEF IInv, TypeOK
<1>12. KnownIsCreated'
  <2>1. ASSUME NEW v \in Users, NEW r, r = front'[v], r # none PROVE Created(v, r)'
    <3>1. r = front[v] \/ (v = u /\ r = u)
      BY <1>2, <2>1 DEF IInv, TypeOK
    <3> QED BY <1>8, <2>1, <3>1 DEF IInv, KnownIsCreated
  <2>2. ASSUME NEW v \in Users, NEW i \in 1..Len(answers'[v]),
               NEW r, r = answers'[v][i], r # none
        PROVE  Created(v, r)'
    <3>1. \/ r = answers[v][i] /\ i \in 1..Len(answers[v])
          \/ v = u /\ r = u
      BY <1>9, <1>10, <2>2, AppendParts
    <3> QED BY <1>8, <2>2, <3>1 DEF IInv, KnownIsCreated
  <2> QED BY <2>1, <2>2 DEF KnownIsCreated
<1>13. WritesToRealRoom'
  <2>1. \A v \in Users : \/ joined'[v] = joined[v] /\ roomId'[v] = roomId[v]
                         \/ v = u /\ joined'[v] = TRUE /\ roomId'[v] = u
    BY <1>2 DEF IInv, TypeOK
  <2> QED BY <1>8, <2>1, Others DEF IInv, WritesToRealRoom, Created
<1> QED BY <1>8, <1>11, <1>12, <1>13 DEF IInv

-----------------------------------------------------------------------------
(* The server, and the kill. *)

LEMMA StepCommit ==
  ASSUME IInv, NEW u \in Users, Commit(u)
  PROVE  IInv'
<1> DEFINE s == outbox[u]
           w == Head(s)
           old == {e \in list[w.of] : e.at = w.at}
<1>1. /\ UNCHANGED <<clock, sends, front, screen, joined, roomId, first, second, answers>>
      /\ s # <<>> /\ outbox' = [outbox EXCEPT ![u] = Tail(@)]
  BY DEF Commit, screenVars
<1>2. /\ s \in Seq(Write) /\ outbox'[u] = Tail(s)
      /\ \A v \in Users \ {u} : outbox'[v] = outbox[v]
  BY <1>1 DEF IInv, TypeOK
<1>3. w \in Write /\ Tail(s) \in Seq(Write)
  BY <1>1, <1>2, TailWrites
<1>4. /\ w.kind \in {"chat", "message", "entry"} /\ w.room \in Users
      /\ w.kind = "chat" => w = Chat(w.room)
      /\ w.kind = "entry" => w.of \in Users /\ w.at \in 1..MaxTime
  BY <1>3, WriteParts
<1>5. /\ w.kind = "chat" => chats' = chats \cup {w.room}
      /\ w.kind # "chat" => UNCHANGED chats
      /\ w.kind = "entry" =>
           /\ list' = [list EXCEPT ![w.of] = (@ \ old) \cup {[at |-> w.at, room |-> w.room]}]
           /\ lost' = lost \cup ({e.room : e \in old} \ {w.room})
      /\ w.kind # "entry" => UNCHANGED <<list, lost>>
      /\ w.kind = "message" => msgs' = msgs \cup {[room |-> w.room, by |-> u]}
      /\ w.kind # "message" => UNCHANGED msgs
  BY <1>4 DEF Commit
<1>6. /\ list' \in [Users -> SUBSET Listing] /\ lost' \subseteq Users
       /\ \A v \in Users : \A e :
            e \in list'[v] <=> IF w.kind = "entry" /\ w.of = v
                              THEN e \in list[v] \ old \/ e = [at |-> w.at, room |-> w.room]
                              ELSE e \in list[v]
  <2> DEFINE new == [at |-> w.at, room |-> w.room]
             kept == (list[w.of] \ old) \cup {new}
  <2>1. list \in [Users -> SUBSET Listing] /\ lost \subseteq Users
    BY DEF IInv, TypeOK
  <2>2. CASE w.kind = "entry"
    <3>1. w.of \in Users /\ new \in Listing
      BY <1>4, <2>2 DEF Listing
    <3>2. kept \in SUBSET Listing
      BY <2>1, <3>1
    <3>3. list' = [list EXCEPT ![w.of] = kept]
      BY <1>5, <2>2
    <3>4. list' \in [Users -> SUBSET Listing]
      <4> HIDE DEF w, kept
      <4> QED BY <2>1, <3>2, <3>3
    <3>5. \A v \in Users : list'[v] = IF w.of = v THEN kept ELSE list[v]
      <4> HIDE DEF w, kept
      <4> QED BY <2>1, <3>3
    <3>6. \A e \in old : e.room \in Users
      BY <2>1, <3>1 DEF Listing
    <3>7. lost' \subseteq Users
      BY <1>5, <2>1, <2>2, <3>6
    <3> QED BY <2>2, <3>4, <3>5, <3>7
  <2>3. CASE w.kind # "entry"
    BY <1>5, <2>1, <2>3
  <2> QED BY <2>2, <2>3
<1>7. chats \subseteq chats' /\ (w.kind = "chat" => w.room \in chats')
  BY <1>4, <1>5
<1>8. RoomsFirst(s, chats)
  BY DEF IInv, OutboxInOrder
<1>9. (w.kind # "chat" => w.room \in chats) /\ RoomsFirst(Tail(s), chats')
  <2> DEFINE D == chats'
  <2>1. chats \subseteq D /\ (Head(s).kind = "chat" => Head(s).room \in D)
    BY <1>7
  <2> HIDE DEF D, s
  <2>2. (Head(s).kind # "chat" => Head(s).room \in chats) /\ RoomsFirst(Tail(s), D)
    BY <1>1, <1>2, <1>8, <2>1, TailInOrder DEF s
  <2> QED BY <2>2 DEF D, s
<1>10. TypeOK'
  <2>1. outbox' \in [Users -> Seq(Write)]
    BY <1>1, <1>3 DEF IInv, TypeOK
  <2>2. chats' \subseteq Users
    BY <1>4, <1>5 DEF IInv, TypeOK
  <2>3. list' \in [Users -> SUBSET Listing] /\ lost' \subseteq Users
    BY <1>6
  <2>4. msgs' \subseteq [room : Users, by : Users]
    BY <1>4, <1>5 DEF IInv, TypeOK
  <2> QED BY <1>1, <2>1, <2>2, <2>3, <2>4 DEF IInv, TypeOK
<1>11. OutboxInOrder'
  <2>1. ASSUME NEW v \in Users PROVE RoomsFirst(outbox'[v], chats')
    <3>1. CASE v = u
      BY <1>2, <1>9, <3>1
    <3>2. CASE v # u
      BY <1>2, <1>7, <3>2 DEF IInv, OutboxInOrder, RoomsFirst
    <3> QED BY <3>1, <3>2
  <2> QED BY <2>1 DEF OutboxInOrder, RoomsFirst
<1>12. ListEntryResolves'
  <2>1. ASSUME NEW v \in Users, NEW e \in list'[v] PROVE e.room \in chats'
    <3>1. e \in list[v] \/ (w.kind = "entry" /\ e = [at |-> w.at, room |-> w.room])
      BY <1>6
    <3> QED BY <1>7, <1>9, <3>1 DEF IInv, ListEntryResolves
  <2> QED BY <2>1 DEF ListEntryResolves
<1>13. MessagesInRooms'
  BY <1>5, <1>7, <1>9 DEF IInv, MessagesInRooms
<1>14. \A v \in Users : \A r : Created(v, r) => Created(v, r)'
  <2> SUFFICES ASSUME NEW v \in Users, NEW r, Created(v, r), r \notin chats'
               PROVE  Contains(outbox'[v], Chat(r))
    BY DEF Created, ChatWaits
  <2>1. Contains(outbox[v], Chat(r))
    BY <1>7 DEF Created, ChatWaits
  <2>2. CASE v = u
    <3>1. Chat(r) # w
      BY <1>7 DEF Chat
    <3> QED BY <1>1, <1>2, <2>1, <2>2, <3>1, TailWrites
  <2>3. CASE v # u
    BY <1>2, <2>1, <2>3
  <2> QED BY <2>2, <2>3
<1>15. \A v \in Users, r \in Users : Created(v, r)' => \E x \in Users : Created(x, r)
  <2> SUFFICES ASSUME NEW v \in Users, NEW r \in Users, Created(v, r)'
               PROVE  \E x \in Users : Created(x, r)
    OBVIOUS
  <2>1. CASE r \in chats
    BY <2>1 DEF Created
  <2>2. CASE r \in chats' \ chats
    <3>1. w = Chat(r)
      BY <1>4, <1>5, <2>2
    <3> QED BY <1>1, <1>2, <3>1, TailWrites DEF Created, ChatWaits
  <2>3. CASE r \notin chats'
    <3>1. Contains(outbox'[v], Chat(r))
      BY <2>3 DEF Created, ChatWaits
    <3>2. Contains(outbox[v], Chat(r))
      BY <1>1, <1>2, <3>1, TailWrites
    <3> QED BY <3>2 DEF Created, ChatWaits
  <2> QED BY <2>1, <2>2, <2>3
<1>16. \A v \in Users, r \in Users : Reached(r, v) => r \in lost' \/ Reached(r, v)'
  <2> SUFFICES ASSUME NEW v \in Users, NEW r \in Users, Reached(r, v), r \notin lost'
               PROVE  Reached(r, v)'
    OBVIOUS
  <2>1. ASSUME w.kind = "entry", w.of = v, w.room = r PROVE Reached(r, v)'
    <3>1. [at |-> w.at, room |-> r] \in list'[v]
      BY <1>6, <2>1
    <3>2. [at |-> w.at, room |-> r].room = r
      OBVIOUS
    <3> QED BY <3>1, <3>2 DEF Reached, Listed
  <2>2. CASE Listed(v, r)
    <3>1. PICK e \in list[v] : e.room = r
      BY <2>2 DEF Listed
    <3>2. CASE w.kind = "entry" /\ w.of = v /\ e.at = w.at
      <4>1. e \in old
        BY <3>2
      <4>2. r = w.room
        BY <1>5, <3>1, <3>2, <4>1
      <4> QED BY <2>1, <3>2, <4>2
    <3>3. CASE ~(w.kind = "entry" /\ w.of = v /\ e.at = w.at)
      <4>1. e \in list'[v]
        BY <1>6, <3>1, <3>3
      <4> QED BY <3>1, <4>1 DEF Reached, Listed
    <3> QED BY <3>2, <3>3
  <2>3. ASSUME NEW x \in Users, r \in EntriesWaiting(x, v) PROVE Reached(r, v)'
    <3>1. HasEntry(outbox[x], v, r)
      BY <2>3, EntriesAre
    <3>2. \/ HasEntry(outbox'[x], v, r)
          \/ w.kind = "entry" /\ w.of = v /\ w.room = r
      BY <1>1, <1>2, <3>1, TailWrites
    <3> QED BY <2>1, <3>2, EntriesAre DEF Reached
  <2> QED BY <2>2, <2>3 DEF Reached
<1>17. RoomsReachable'
  <2> SUFFICES ASSUME NEW x \in Users, NEW r \in Users, Created(x, r)', r \notin lost'
               PROVE  \A v \in Users : Reached(r, v)'
    BY DEF RoomsReachable
  <2>1. lost \subseteq lost'
    BY <1>5
  <2>2. \A v \in Users : Reached(r, v)
    BY <1>15, <2>1 DEF IInv, RoomsReachable
  <2> QED BY <1>16, <2>2
<1>18. KnownIsCreated' /\ WritesToRealRoom'
  BY <1>1, <1>14 DEF IInv, KnownIsCreated, WritesToRealRoom, Created
<1> QED BY <1>10, <1>11, <1>12, <1>13, <1>17, <1>18 DEF IInv

LEMMA StepRestart ==
  ASSUME IInv, NEW u \in Users, Restart(u)
  PROVE  IInv'
<1>1. /\ UNCHANGED <<chats, list, msgs, clock, sends>>
      /\ lost' = lost \cup EntriesWaiting(u, a) \cup EntriesWaiting(u, b)
      /\ outbox' = [outbox EXCEPT ![u] = <<>>]
      /\ front' = [front EXCEPT ![u] = none]
      /\ joined' = [joined EXCEPT ![u] = FALSE]
      /\ roomId' = [roomId EXCEPT ![u] = none]
      /\ answers' = [answers EXCEPT ![u] = <<>>]
  BY DEF Restart, serverVars
<1>2. \A v \in Users : IF v = u THEN outbox'[v] = <<>> /\ answers'[v] = <<>> /\ front'[v] = none
                                 /\ joined'[v] = FALSE /\ roomId'[v] = none
                       ELSE outbox'[v] = outbox[v] /\ answers'[v] = answers[v]
                              /\ front'[v] = front[v] /\ joined'[v] = joined[v]
                              /\ roomId'[v] = roomId[v]
  BY <1>1 DEF IInv, TypeOK
<1>3. TypeOK'
  <2>1. \A v \in Users : EntriesWaiting(u, v) \subseteq Users
    <3>1. outbox[u] \in Seq(Write)
      BY DEF IInv, TypeOK
    <3>2. \A i \in 1..Len(outbox[u]) : outbox[u][i].room \in Users
      BY <3>1, WriteParts
    <3> QED BY <3>2 DEF EntriesWaiting
  <2>2. lost' \subseteq Users
    BY <1>1, <2>1, Others DEF IInv, TypeOK
  <2>3. outbox' \in [Users -> Seq(Write)] /\ answers' \in [Users -> Seq(Users \cup {none})]
    BY <1>1 DEF IInv, TypeOK
  <2>4. /\ front' \in [Users -> Users \cup {none}] /\ joined' \in [Users -> BOOLEAN]
        /\ roomId' \in [Users -> Users \cup {none}]
    BY <1>1 DEF IInv, TypeOK
  <2>5. /\ screen' \in [Users -> {"none", "list", "search"}]
        /\ first' \in [Users -> {"idle", "asked"}] /\ second' \in [Users -> {"idle", "asked"}]
    BY DEF IInv, TypeOK, Restart
  <2> QED BY <1>1, <2>2, <2>3, <2>4, <2>5 DEF IInv, TypeOK
<1>4. OutboxInOrder'
  BY <1>1, <1>2 DEF IInv, OutboxInOrder, RoomsFirst
<1>5. ListEntryResolves' /\ MessagesInRooms'
  BY <1>1 DEF IInv, ListEntryResolves, MessagesInRooms
<1>6. \A v \in Users : \A r : v # u /\ Created(v, r) => Created(v, r)'
  BY <1>1, <1>2 DEF Created, ChatWaits
<1>7. \A v \in Users : \A r : Created(v, r)' => Created(v, r)
  BY <1>1, <1>2 DEF Created, ChatWaits, Contains
<1>8. \A v \in Users, r \in Users : Reached(r, v) => r \in lost' \/ Reached(r, v)'
  <2> SUFFICES ASSUME NEW v \in Users, NEW r \in Users, Reached(r, v), r \notin lost'
               PROVE  Reached(r, v)'
    OBVIOUS
  <2>1. CASE Listed(v, r)
    BY <1>1, <2>1 DEF Reached, Listed
  <2>2. ASSUME NEW x \in Users, r \in EntriesWaiting(x, v) PROVE Reached(r, v)'
    <3>1. v = a \/ v = b
      BY DEF Users
    <3>2. x # u
      BY <1>1, <2>2, <3>1
    <3>3. HasEntry(outbox'[x], v, r)
      BY <1>2, <2>2, <3>2, EntriesAre
    <3> QED BY <3>3, EntriesAre DEF Reached
  <2> QED BY <2>1, <2>2 DEF Reached
<1>9. RoomsReachable'
  <2> SUFFICES ASSUME NEW x \in Users, NEW r \in Users, Created(x, r)', r \notin lost'
               PROVE  \A v \in Users : Reached(r, v)'
    BY DEF RoomsReachable
  <2>1. lost \subseteq lost'
    BY <1>1
  <2>2. \A v \in Users : Reached(r, v)
    BY <1>7, <2>1 DEF IInv, RoomsReachable
  <2> QED BY <1>8, <2>2
<1>10. KnownIsCreated' /\ WritesToRealRoom'
  BY <1>2, <1>6 DEF IInv, KnownIsCreated, WritesToRealRoom, Created
<1> QED BY <1>3, <1>4, <1>5, <1>9, <1>10 DEF IInv

-----------------------------------------------------------------------------

LEMMA Inductive == IInv /\ [Next]_vars => IInv'
<1> SUFFICES ASSUME IInv, [Next]_vars PROVE IInv'
  OBVIOUS
<1>1. CASE UNCHANGED vars
  <2>1. /\ UNCHANGED <<chats, list, msgs, outbox, clock, sends, lost>>
        /\ UNCHANGED <<front, screen, joined, roomId, first, second, answers>>
    BY <1>1 DEF vars, serverVars, phoneVars, screenVars
  <2>2. TypeOK' /\ WritesToRealRoom'
    BY <2>1 DEF IInv, TypeOK, WritesToRealRoom, ChatWaits
  <2>3. KnownIsCreated'
    BY <2>1, NothingWritten DEF IInv, KnownIsCreated
  <2> QED BY <2>1, <2>2, <2>3, NothingWritten DEF IInv
<1>2. ASSUME NEW u \in Users,
             \/ ListLoads(u) \/ OpenFromList(u) \/ OpenFromSearch(u)
             \/ FirstRead(u) \/ SecondRead(u) \/ Answer(u)
             \/ Send(u) \/ Close(u) \/ Commit(u) \/ Restart(u)
      PROVE  IInv'
  <2>1. CASE ListLoads(u) BY <2>1, StepListLoads
  <2>2. CASE OpenFromList(u) BY <2>2, StepOpenFromList
  <2>3. CASE OpenFromSearch(u) BY <2>3, StepOpenFromSearch
  <2>4. CASE FirstRead(u) BY <2>4, StepFirstRead
  <2>5. CASE SecondRead(u) BY <2>5, StepSecondRead
  <2>6. CASE Answer(u) BY <2>6, StepAnswer
  <2>7. CASE Send(u)
    <3>1. SendMessage(u) \/ StartChatAndSend(u)
      BY <2>7 DEF Send
    <3> QED BY <2>7, <3>1, StepSendMessage, StepStartChatAndSend
  <2>8. CASE Close(u) BY <2>8, StepClose
  <2>9. CASE Commit(u) BY <2>9, StepCommit
  <2>10. CASE Restart(u) BY <2>10, StepRestart
  <2> QED BY <1>2, <2>1, <2>2, <2>3, <2>4, <2>5, <2>6, <2>7, <2>8, <2>9, <2>10
<1> QED BY <1>1, <1>2 DEF Next

\* The inductive invariant of starting a chat.
THEOREM StartInvariant == Spec => []IInv
BY Initially, Inductive, PTL DEF Spec

\* Every value is of its kind; in particular no message is ever addressed to
\* no room.
THEOREM StartTypeCorrect == Spec => []TypeOK
<1>1. IInv => TypeOK
  BY DEF IInv
<1> QED BY <1>1, StartInvariant, PTL

\* A list's fetch of a room it was told of finds the room
\* (ChatRoomsViewModel.getChatBy), whatever the clocks and kills.
THEOREM ListedRoomsExist == Spec => []ListEntryResolves
<1>1. IInv => ListEntryResolves
  BY DEF IInv
<1> QED BY <1>1, StartInvariant, PTL

\* A screen that takes the chat to exist knows its id, and the room is stored
\* or about to be (ChatViewModel.sendMessage).
THEOREM RoomsWrittenToExist == Spec => []WritesToRealRoom
<1>1. IInv => WritesToRealRoom
  BY DEF IInv
<1> QED BY <1>1, StartInvariant, PTL

\* A message that is stored can be found by both users, now or later, unless
\* a kill or a clock lost an entry of its room (FBChatService.createChat).
THEOREM MessagesAreReachable == Spec => []MessageIsReachable
<1>1. IInv => MessageIsReachable
  <2> SUFFICES ASSUME IInv, NEW m \in msgs, NEW u \in Users, m.room \notin lost
               PROVE  Reached(m.room, u)
    BY DEF MessageIsReachable, Reached
  <2>1. m.room \in Users /\ Created(u, m.room)
    BY DEF IInv, TypeOK, MessagesInRooms, Created
  <2> QED BY <2>1 DEF IInv, RoomsReachable
<1> QED BY <1>1, StartInvariant, PTL

-----------------------------------------------------------------------------
(* The promise of RoomBook. *)

OwnWrites(s, u) == \A i \in 1..Len(s) : s[i].kind # "message" => s[i].room = u

\* Rooms and entries a phone has yet to send are of its user's own room.
OwnRooms == \A u \in Users : OwnWrites(outbox[u], u)

LEMMA OwnLonger ==
  ASSUME NEW s \in Seq(Write), NEW t \in Seq(Write), NEW u, OwnWrites(s, u), OwnWrites(t, u)
  PROVE  OwnWrites(s \o t, u)
<1>1. \A i \in 1..Len(s \o t) :
        \/ i \in 1..Len(s) /\ (s \o t)[i] = s[i]
        \/ i - Len(s) \in 1..Len(t) /\ (s \o t)[i] = t[i - Len(s)]
  OBVIOUS
<1> QED BY <1>1 DEF OwnWrites

LEMMA OwnStep == IInv /\ OwnRooms /\ [Next]_vars => OwnRooms'
<1> SUFFICES ASSUME IInv, OwnRooms, [Next]_vars, NEW v \in Users
             PROVE  OwnWrites(outbox'[v], v)
  BY DEF OwnRooms
<1>1. outbox \in [Users -> Seq(Write)] /\ OwnWrites(outbox[v], v)
  BY DEF IInv, TypeOK, OwnRooms
<1>2. CASE outbox'[v] = outbox[v]
  BY <1>1, <1>2
<1>3. ASSUME NEW u \in Users, Send(u), SendMessage(u), outbox'[v] # outbox[v]
      PROVE  OwnWrites(outbox'[v], v)
  <2>1. roomId[u] \in Users
    BY <1>3 DEF IInv, TypeOK, WritesToRealRoom, SendMessage
  <2>2. outbox' = [outbox EXCEPT ![u] = Append(@, Message(roomId[u]))]
    BY <1>3 DEF SendMessage
  <2>3. v = u /\ outbox'[v] = Append(outbox[v], Message(roomId[u]))
    BY <1>1, <1>3, <2>2
  <2>4. Message(roomId[u]) \in Write /\ Message(roomId[u]).kind = "message"
    BY <2>1, WriteKinds
  <2>5. \A i \in 1..Len(outbox'[v]) :
          \/ outbox'[v][i] = Message(roomId[u])
          \/ i \in 1..Len(outbox[v]) /\ outbox'[v][i] = outbox[v][i]
    BY <1>1, <2>3, <2>4, AppendParts
  <2> QED BY <1>1, <2>4, <2>5 DEF OwnWrites
<1>4. ASSUME NEW u \in Users, Send(u), StartChatAndSend(u), outbox'[v] # outbox[v]
      PROVE  OwnWrites(outbox'[v], v)
  <2>1. PICK k \in 1..MaxTime :
          outbox' = [outbox EXCEPT ![u] =
                       @ \o <<Chat(u), Entry(u, k, u), Entry(Other(u), k, u), Message(u)>>]
    BY <1>4 DEF StartChatAndSend
  <2> DEFINE t == <<Chat(u), Entry(u, k, u), Entry(Other(u), k, u), Message(u)>>
  <2>2. v = u /\ outbox'[v] = outbox[v] \o t
    BY <1>1, <1>4, <2>1
  <2>3. /\ Chat(u) \in Write /\ Entry(u, k, u) \in Write /\ Entry(Other(u), k, u) \in Write
        /\ Message(u) \in Write
        /\ Chat(u).room = u /\ Entry(u, k, u).room = u /\ Entry(Other(u), k, u).room = u
        /\ Message(u).room = u
    BY Others, WriteKinds
  <2>4. t \in Seq(Write) /\ OwnWrites(t, u)
    BY <2>3 DEF OwnWrites
  <2> HIDE DEF t
  <2> QED BY <1>1, <2>2, <2>4, OwnLonger
<1>5. ASSUME NEW u \in Users, Commit(u), outbox'[v] # outbox[v]
      PROVE  OwnWrites(outbox'[v], v)
  <2>1. outbox[u] # <<>> /\ outbox' = [outbox EXCEPT ![u] = Tail(@)]
    BY <1>5 DEF Commit
  <2>2. v = u /\ outbox'[v] = Tail(outbox[v])
    BY <1>1, <1>5, <2>1
  <2> QED BY <1>1, <2>1, <2>2, TailParts DEF OwnWrites
<1>6. ASSUME NEW u \in Users, Restart(u), outbox'[v] # outbox[v]
      PROVE  OwnWrites(outbox'[v], v)
  <2>1. outbox'[v] = <<>>
    BY <1>1, <1>6 DEF Restart
  <2> QED BY <2>1 DEF OwnWrites
<1>7. ASSUME NEW u \in Users,
             \/ ListLoads(u) \/ OpenFromList(u) \/ OpenFromSearch(u)
             \/ FirstRead(u) \/ SecondRead(u) \/ Answer(u) \/ Close(u)
      PROVE  outbox'[v] = outbox[v]
  BY <1>7 DEF ListLoads, OpenFromList, OpenFromSearch, FirstRead, SecondRead, Answer, Close,
              phoneVars
<1>8. CASE UNCHANGED vars
  BY <1>2, <1>8 DEF vars, phoneVars
<1>9. CASE Next
  <2>1. PICK u \in Users :
          \/ ListLoads(u) \/ OpenFromList(u) \/ OpenFromSearch(u)
          \/ FirstRead(u) \/ SecondRead(u) \/ Answer(u)
          \/ Send(u) \/ Close(u) \/ Commit(u) \/ Restart(u)
    BY <1>9 DEF Next
  <2>2. Send(u) => SendMessage(u) \/ StartChatAndSend(u)
    BY DEF Send
  <2> QED BY <1>2, <1>3, <1>4, <1>5, <1>6, <1>7, <2>1, <2>2
<1> QED BY <1>8, <1>9

\* An entry goes into a list: what was there under its key is lost.
LEMMA BookEnters ==
  ASSUME IInv, NEW u \in Users, NEW v, NEW r, NEW t, Commit(u),
         Head(outbox[u]).kind = "entry", Head(outbox[u]).of = v,
         Head(outbox[u]).room = r, Head(outbox[u]).at = t
  PROVE  Book!Enter(v, r)
<1> DEFINE w == Head(outbox[u])
           old == {e \in list[v] : e.at = t}
           new == [at |-> t, room |-> r]
<1>1. /\ list' = [list EXCEPT ![v] = (@ \ old) \cup {new}]
      /\ lost' = lost \cup ({e.room : e \in old} \ {r})
      /\ UNCHANGED <<chats, msgs>>
  BY DEF Commit
<1>2. outbox[u] \in Seq(Write) /\ outbox[u] # <<>> /\ list \in [Users -> SUBSET Listing]
  BY DEF IInv, TypeOK, Commit
<1>3. v \in Users /\ r \in chats
  <2>1. w \in Write
    BY <1>2, TailWrites
  <2>2. RoomsFirst(outbox[u], chats)
    BY DEF IInv, OutboxInOrder
  <2> QED BY <1>2, <2>1, <2>2, TailInOrder, WriteParts
<1>4. /\ list'[v] = (list[v] \ old) \cup {new}
      /\ \A x \in Users \ {v} : list'[x] = list[x]
      /\ DOMAIN list = Users
  BY <1>1, <1>2, <1>3
<1>5. new.room = r
  OBVIOUS
<1> HIDE DEF new
<1>6. /\ r \in RoomsOf(v)'
      /\ RoomsOf(v) \ lost' \subseteq RoomsOf(v)'
      /\ RoomsOf(v)' \subseteq RoomsOf(v) \cup {r}
      /\ lost \subseteq lost' /\ lost' \subseteq lost \cup (RoomsOf(v) \ {r})
  <2>1. r \in RoomsOf(v)' /\ RoomsOf(v)' \subseteq RoomsOf(v) \cup {r}
    BY <1>4, <1>5 DEF RoomsOf
  <2>2. ASSUME NEW e \in list[v], e.room \notin lost'
        PROVE  e.room \in RoomsOf(v)'
    <3>1. CASE e \in old
      BY <1>1, <2>1, <2>2, <3>1
    <3>2. CASE e \notin old
      BY <1>4, <3>2 DEF RoomsOf
    <3> QED BY <3>1, <3>2
  <2>3. lost \subseteq lost' /\ lost' \subseteq lost \cup (RoomsOf(v) \ {r})
    BY <1>1 DEF RoomsOf
  <2> QED BY <2>1, <2>2, <2>3 DEF RoomsOf
<1>7. \A x \in Users \ {v} : RoomsOf(x)' = RoomsOf(x)
  BY <1>4 DEF RoomsOf
<1> DEFINE listed == [x \in Users |-> RoomsOf(x)]
<1>8. listed' = [listed EXCEPT ![v] = listed'[v]]
  <2>1. listed' = [x \in Users |-> RoomsOf(x)']
    OBVIOUS
  <2> QED BY <1>3, <1>7, <2>1
<1>9. /\ r \in listed'[v]
      /\ listed[v] \ lost' \subseteq listed'[v] /\ listed'[v] \subseteq listed[v] \cup {r}
      /\ lost \subseteq lost' /\ lost' \subseteq lost \cup (listed[v] \ {r})
  BY <1>3, <1>6
<1>10. r \in chats /\ UNCHANGED <<chats, msgs>>
  BY <1>1, <1>3
<1> HIDE DEF old
<1> QED BY <1>8, <1>9, <1>10 DEF Book!Enter

LEMMA BookKept ==
  ASSUME UNCHANGED <<chats, list, msgs, lost>>
  PROVE  UNCHANGED Book!vars
BY DEF Book!vars, RoomsOf

\* Every step is one of the book's, or does not touch it.
LEMMA BookStep == IInv /\ OwnRooms /\ [Next]_vars => [Book!Next]_(Book!vars)
<1> SUFFICES ASSUME IInv, OwnRooms, [Next]_vars PROVE [Book!Next]_(Book!vars)
  OBVIOUS
<1>1. ASSUME NEW u \in Users,
             \/ ListLoads(u) \/ OpenFromList(u) \/ OpenFromSearch(u)
             \/ FirstRead(u) \/ SecondRead(u) \/ Answer(u) \/ Send(u) \/ Close(u)
      PROVE  UNCHANGED <<chats, list, msgs, lost>>
  BY <1>1 DEF ListLoads, OpenFromList, OpenFromSearch, FirstRead, SecondRead, Answer, Send,
              Close, serverVars, phoneVars
<1>2. ASSUME NEW u \in Users, Commit(u)
      PROVE  Book!Next
  <2> DEFINE w == Head(outbox[u])
  <2>1. w \in Write /\ outbox[u] \in Seq(Write) /\ outbox[u] # <<>> /\ w = outbox[u][1]
    BY <1>2, TailWrites DEF IInv, TypeOK, Commit
  <2>2. w.kind \in {"chat", "message", "entry"} /\ w.room \in Users
    BY <2>1, WriteParts
  <2>3. CASE w.kind = "entry"
    <3>1. w.of \in Users /\ w.at \in 1..MaxTime
      BY <2>1, <2>3, WriteParts
    <3>2. PICK v \in Users, r \in Users, t \in 1..MaxTime : w.of = v /\ w.room = r /\ w.at = t
      BY <2>2, <3>1
    <3>3. Book!Enter(v, r)
      BY <1>2, <2>3, <3>2, BookEnters
    <3> QED BY <3>2, <3>3 DEF Book!Next
  <2>4. CASE w.kind = "chat"
    <3>1. w.room = u
      <4>1. OwnWrites(outbox[u], u) /\ 1 \in 1..Len(outbox[u])
        BY <2>1 DEF OwnRooms
      <4> QED BY <2>1, <2>4, <4>1 DEF OwnWrites
    <3>2. chats' = chats \cup {u} /\ UNCHANGED <<list, msgs, lost>>
      BY <1>2, <2>4, <3>1 DEF Commit
    <3>3. Book!Create(u)
      BY <3>2 DEF Book!Create, RoomsOf
    <3> QED BY <3>3 DEF Book!Next
  <2>5. CASE w.kind = "message"
    <3>1. w.room \in chats
      <4>1. RoomsFirst(outbox[u], chats)
        BY DEF IInv, OutboxInOrder
      <4> QED BY <2>1, <2>5, <4>1, TailInOrder
    <3>2. msgs' = msgs \cup {[room |-> w.room, by |-> u]} /\ UNCHANGED <<chats, list, lost>>
      BY <1>2, <2>5 DEF Commit
    <3>3. Book!Post(u, w.room)
      BY <3>1, <3>2 DEF Book!Post, RoomsOf
    <3> QED BY <2>2, <3>3 DEF Book!Next
  <2> QED BY <2>2, <2>3, <2>4, <2>5
<1>3. ASSUME NEW u \in Users, Restart(u)
      PROVE  [Book!Next]_(Book!vars)
  <2>1. /\ UNCHANGED <<chats, list, msgs>>
        /\ lost' = lost \cup EntriesWaiting(u, a) \cup EntriesWaiting(u, b)
    BY <1>3 DEF Restart, serverVars
  <2>2. \A v : EntriesWaiting(u, v) \subseteq {u}
    BY DEF EntriesWaiting, OwnRooms, OwnWrites
  <2>3. lost' = lost \/ lost' = lost \cup {u}
    BY <2>1, <2>2
  <2>4. CASE lost' = lost
    BY <2>1, <2>4, BookKept
  <2>5. CASE lost' = lost \cup {u}
    <3>1. Book!Kill(u)
      BY <2>1, <2>5 DEF Book!Kill, RoomsOf
    <3> QED BY <3>1 DEF Book!Next
  <2> QED BY <2>3, <2>4, <2>5
<1>4. CASE UNCHANGED vars
  BY <1>4, BookKept DEF vars, serverVars, phoneVars
<1>5. CASE Next
  <2>1. PICK u \in Users :
          \/ ListLoads(u) \/ OpenFromList(u) \/ OpenFromSearch(u)
          \/ FirstRead(u) \/ SecondRead(u) \/ Answer(u)
          \/ Send(u) \/ Close(u) \/ Commit(u) \/ Restart(u)
    BY <1>5 DEF Next
  <2> QED BY <1>1, <1>2, <1>3, <2>1, BookKept
<1> QED BY <1>4, <1>5

\* Starting a chat keeps the book of rooms: no entry and no message before its room, no
\* room off a list but for a clock that is used twice, and a kill loses only the
\* room its own user was creating (FBChatService.createChat).
THEOREM RoomBookIsKept == Spec => IsRoomBook
<1>1. Init => Book!Init
  BY DEF Init, Book!Init, RoomsOf
<1>2. Init => OwnRooms
  BY DEF Init, OwnRooms, OwnWrites
<1>3. Spec => []OwnRooms
  BY <1>2, OwnStep, StartInvariant, PTL DEF Spec
<1>4. QED
  BY <1>1, <1>3, BookStep, StartInvariant, PTL DEF Spec, IsRoomBook, Book!Spec
=============================================================================

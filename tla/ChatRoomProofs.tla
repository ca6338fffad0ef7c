--------------------------- MODULE ChatRoomProofs ---------------------------
(***************************************************************************)
(* The row of the chat list, for any number of messages and commits: type  *)
(* correctness, RowTracksView and the refinement of RoomFeed, for which a  *)
(* single row is shown to get no message twice.                            *)
(***************************************************************************)
EXTENDS ChatRoom, TLAPS

\* Every key of a version is in the later ones: nothing is deleted.
KeysStay ==
  \A i, j \in 1..Len(versions) : i <= j => Ids(versions[i]) \subseteq Ids(versions[j])

\* The view invents no key: each is stored in the version the phone was told,
\* or pending. Hence a view computed anew holds every key the old one did.
CacheKnown == Ids(cache) \subseteq Ids(versions[pos]) \cup Ids(pend)

\* Before the list observes the room, its row is empty.
NotListed == rows = 0 => row = <<>> /\ rowq = <<>>

DistinctIds(s) == \A i, j \in 1..Len(s) : i # j => s[i].id # s[j].id

\* A single row gets no message twice.
RowExactlyOnce == rows <= 1 => DistinctIds(RowFeed)

IInv ==
  /\ TypeOK /\ KeysStay /\ CacheKnown /\ NotListed
  /\ RowExactlyOnce /\ RowTracksView

-----------------------------------------------------------------------------
(* Sets of messages and sequences in key order. *)

LEMMA MsgId == \A m \in Msg : m.id \in 1..MaxId /\ m.id \in Int
BY BoundsAssumption DEF Msg

LEMMA OverlayIds ==
  ASSUME NEW S \in SUBSET Msg, NEW T \in SUBSET Msg
  PROVE  /\ Overlay(S, T) \in SUBSET Msg
         /\ Ids(Overlay(S, T)) = Ids(S) \cup Ids(T)
BY DEF Overlay, Ids

LEMMA Last1Part ==
  ASSUME NEW S \in SUBSET Msg
  PROVE  Last1(S) \in SUBSET Msg /\ Last1(S) \subseteq S
BY DEF Last1

LEMMA KeyOrderSeq ==
  ASSUME NEW S \in SUBSET Msg, NEW s \in KeyOrder(S)
  PROVE  /\ s \in Seq(Msg)
         /\ \A i \in 1..Len(s) : s[i] \in S
         /\ \A m \in S : \E i \in 1..Len(s) : s[i] = m
         /\ \A i, j \in 1..Len(s) : i < j => s[i].id < s[j].id
<1>1. PICK n \in 0..MaxId : s \in [1..n -> S]
  BY DEF KeyOrder, BoundedSeq, SeqOf
<1>2. s \in Seq(S) /\ Len(s) = n
  BY <1>1, BoundsAssumption
<1>3. QED
  BY <1>1, <1>2 DEF KeyOrder

LEMMA FeedIds ==
  ASSUME NEW f \in Seq(Msg)
  PROVE  /\ ToSet(f) = {f[i] : i \in 1..Len(f)}
         /\ Ids(ToSet(f)) = {f[i].id : i \in 1..Len(f)}
<1>1. ToSet(f) = {f[i] : i \in 1..Len(f)}
  BY DEF ToSet
<1>2. QED
  BY <1>1 DEF Ids

LEMMA DistinctByOrder ==
  ASSUME NEW g \in Seq(Msg),
         \A i, j \in 1..Len(g) : i < j => g[i].id # g[j].id
  PROVE  DistinctIds(g)
<1> SUFFICES ASSUME NEW i \in 1..Len(g), NEW j \in 1..Len(g), i # j
             PROVE  g[i].id # g[j].id
  BY DEF DistinctIds
<1>1. i < j \/ j < i
  OBVIOUS
<1>2. QED
  BY <1>1

\* Appending, in key order, what is new in a view extends a feed that holds the
\* view's keys to one that holds the new view's, and repeats none.
LEMMA FeedGrows ==
  ASSUME NEW f \in Seq(Msg), DistinctIds(f),
         NEW old \in SUBSET Msg, NEW new \in SUBSET Msg,
         Ids(ToSet(f)) = Ids(old), Ids(old) \subseteq Ids(new),
         NEW s \in KeyOrder(Added(old, new))
  PROVE  /\ f \o s \in Seq(Msg)
         /\ DistinctIds(f \o s)
         /\ Ids(ToSet(f \o s)) = Ids(new)
<1> DEFINE A == Added(old, new)
<1>0. A \in SUBSET Msg
  BY DEF Added
<1>1. /\ s \in Seq(Msg)
      /\ \A i \in 1..Len(s) : s[i] \in A
      /\ \A m \in A : \E i \in 1..Len(s) : s[i] = m
      /\ \A i, j \in 1..Len(s) : i < j => s[i].id < s[j].id
  BY <1>0, KeyOrderSeq
<1>2. /\ f \o s \in Seq(Msg)
      /\ Len(f \o s) = Len(f) + Len(s)
      /\ \A i \in 1..Len(f) : (f \o s)[i] = f[i]
      /\ \A i \in 1..Len(s) : (f \o s)[Len(f) + i] = s[i]
  BY <1>1
<1>3. \A i \in 1..Len(f) : f[i].id \in Ids(old)
  BY FeedIds
<1>4. \A i \in 1..Len(s) : s[i].id \notin Ids(old) /\ s[i].id \in Ids(new)
  BY <1>1 DEF Added, Ids
<1>5. DistinctIds(f \o s)
  <2> SUFFICES ASSUME NEW i \in 1..Len(f \o s), NEW j \in 1..Len(f \o s), i < j
               PROVE  (f \o s)[i].id # (f \o s)[j].id
    BY <1>2, DistinctByOrder
  <2>1. CASE j <= Len(f)
    BY <2>1, <1>2 DEF DistinctIds
  <2>2. CASE i <= Len(f) /\ j > Len(f)
    <3>1. j - Len(f) \in 1..Len(s) /\ (f \o s)[j] = s[j - Len(f)]
      BY <2>2, <1>2, <1>1
    <3>2. QED
      BY <2>2, <3>1, <1>2, <1>3, <1>4
  <2>3. CASE i > Len(f)
    <3>1. /\ i - Len(f) \in 1..Len(s) /\ (f \o s)[i] = s[i - Len(f)]
          /\ j - Len(f) \in 1..Len(s) /\ (f \o s)[j] = s[j - Len(f)]
      BY <2>3, <1>2, <1>1
    <3>2. s[i - Len(f)].id < s[j - Len(f)].id
      BY <3>1, <1>1
    <3>3. s[i - Len(f)].id \in Int /\ s[j - Len(f)].id \in Int
      BY <3>1, <1>0, <1>1, MsgId
    <3>4. QED
      BY <3>1, <3>2, <3>3
  <2>4. QED
    BY <2>1, <2>2, <2>3, <1>2
<1>6. Ids(ToSet(f \o s)) \subseteq Ids(new)
  <2> SUFFICES ASSUME NEW i \in 1..Len(f \o s)
               PROVE  (f \o s)[i].id \in Ids(new)
    <3>1. Ids(ToSet(f \o s)) = {(f \o s)[i].id : i \in 1..Len(f \o s)}
      BY <1>2, FeedIds
    <3>2. QED
      BY <3>1
  <2>1. CASE i <= Len(f)
    BY <2>1, <1>2, <1>3
  <2>2. CASE i > Len(f)
    <3>1. i - Len(f) \in 1..Len(s) /\ (f \o s)[i] = s[i - Len(f)]
      BY <2>2, <1>2, <1>1
    <3>2. QED
      BY <3>1, <1>4
  <2>3. QED
    BY <2>1, <2>2, <1>2
<1>7. Ids(new) \subseteq Ids(ToSet(f \o s))
  <2> DEFINE keys == {(f \o s)[i].id : i \in 1..Len(f \o s)}
  <2>1. Ids(ToSet(f \o s)) = keys
    BY <1>2, FeedIds
  <2>2. ASSUME NEW m \in new, m.id \in Ids(old) PROVE m.id \in keys
    <3>1. PICK i \in 1..Len(f) : f[i].id = m.id
      BY <2>2, FeedIds
    <3>2. QED
      BY <3>1, <1>2, <1>1
  <2>3. ASSUME NEW m \in new, m.id \notin Ids(old) PROVE m.id \in keys
    <3>1. PICK i \in 1..Len(s) : s[i] = m
      BY <2>3, <1>1 DEF Added
    <3>2. Len(f) + i \in 1..Len(f \o s) /\ (f \o s)[Len(f) + i] = m
      BY <3>1, <1>2, <1>1
    <3>3. QED
      BY <3>2
  <2> HIDE DEF keys
  <2>4. Ids(new) \subseteq keys
    BY <2>2, <2>3 DEF Ids
  <2>5. QED
    BY <2>1, <2>4
<1>8. QED
  BY <1>2, <1>5, <1>6, <1>7

\* A feed that opens with a view's messages in key order.
LEMMA FeedOpens ==
  ASSUME NEW S \in SUBSET Msg, NEW s \in KeyOrder(S)
  PROVE  /\ <<>> \o s = s
         /\ DistinctIds(s)
         /\ Ids(ToSet(s)) = Ids(S)
<1>1. /\ s \in Seq(Msg)
      /\ \A i \in 1..Len(s) : s[i] \in S
      /\ \A m \in S : \E i \in 1..Len(s) : s[i] = m
      /\ \A i, j \in 1..Len(s) : i < j => s[i].id < s[j].id
  BY KeyOrderSeq
<1>2. DistinctIds(s)
  <2> SUFFICES ASSUME NEW i \in 1..Len(s), NEW j \in 1..Len(s), i < j
               PROVE  s[i].id # s[j].id
    BY <1>1, DistinctByOrder
  <2>1. s[i].id < s[j].id /\ s[i].id \in Int /\ s[j].id \in Int
    BY <1>1, MsgId
  <2> QED
    BY <2>1
<1>3. Ids(ToSet(s)) = {s[i].id : i \in 1..Len(s)}
  BY <1>1, FeedIds
<1>4. {s[i].id : i \in 1..Len(s)} = Ids(S)
  BY <1>1 DEF Ids
<1> QED
  BY <1>1, <1>2, <1>3, <1>4

LEMMA ConcatIds ==
  ASSUME NEW f \in Seq(Msg), NEW g \in Seq(Msg)
  PROVE  Ids(ToSet(f \o g)) = Ids(ToSet(f)) \cup Ids(ToSet(g))
<1>1. /\ f \o g \in Seq(Msg)
      /\ Len(f \o g) = Len(f) + Len(g)
      /\ \A i \in 1..Len(f) : (f \o g)[i] = f[i]
      /\ \A i \in 1..Len(g) : (f \o g)[Len(f) + i] = g[i]
  OBVIOUS
<1>2. /\ Ids(ToSet(f \o g)) = {(f \o g)[i].id : i \in 1..Len(f \o g)}
      /\ Ids(ToSet(f)) = {f[i].id : i \in 1..Len(f)}
      /\ Ids(ToSet(g)) = {g[i].id : i \in 1..Len(g)}
  BY <1>1, FeedIds
<1>3. ASSUME NEW i \in 1..Len(f \o g)
      PROVE  (f \o g)[i].id \in Ids(ToSet(f)) \cup Ids(ToSet(g))
  <2>1. CASE i <= Len(f)
    BY <2>1, <1>1, <1>2
  <2>2. CASE i > Len(f)
    <3>1. i - Len(f) \in 1..Len(g) /\ (f \o g)[i] = g[i - Len(f)]
      BY <2>2, <1>1
    <3> QED
      BY <3>1, <1>2
  <2> QED
    BY <2>1, <2>2, <1>1
<1>4. ASSUME NEW i \in 1..Len(f) PROVE f[i].id \in Ids(ToSet(f \o g))
  <2>1. i \in 1..Len(f \o g) /\ (f \o g)[i] = f[i]
    BY <1>1
  <2> QED
    BY <2>1, <1>2
<1>5. ASSUME NEW i \in 1..Len(g) PROVE g[i].id \in Ids(ToSet(f \o g))
  <2>1. Len(f) + i \in 1..Len(f \o g) /\ (f \o g)[Len(f) + i] = g[i]
    BY <1>1
  <2> QED
    BY <2>1, <1>2
<1> QED
  BY <1>2, <1>3, <1>4, <1>5
-----------------------------------------------------------------------------
(* The callbacks of several registrations. *)

LEMMA CopyIndex ==
  ASSUME NEW s \in Seq(Msg), NEW n \in Nat, NEW i \in 1..(n * Len(s))
  PROVE  ((i - 1) \div n) + 1 \in 1..Len(s)
<1>1. n > 0
  OBVIOUS
<1> DEFINE q == (i - 1) \div n
<1>2. q \in Int /\ n * q <= i - 1 /\ q >= 0
  BY <1>1
<1>3. q < Len(s)
  <2> SUFFICES ASSUME q >= Len(s) PROVE FALSE
    BY <1>2
  <2>1. n * q >= n * Len(s)
    BY <1>1, <1>2
  <2> QED
    BY <2>1, <1>2
<1> QED
  BY <1>2, <1>3

LEMMA CopiesSeq ==
  ASSUME NEW s \in Seq(Msg), NEW n \in Nat
  PROVE  Copies(s, n) \in Seq(Msg)
<1>1. n * Len(s) \in Nat
  OBVIOUS
<1>2. ASSUME NEW i \in 1..(n * Len(s))
      PROVE  s[((i - 1) \div n) + 1] \in Msg
  <2>1. ((i - 1) \div n) + 1 \in 1..Len(s)
    BY CopyIndex
  <2> QED
    BY <2>1
<1> QED
  BY <1>1, <1>2 DEF Copies

LEMMA CopiesFew ==
  ASSUME NEW s \in Seq(Msg)
  PROVE  Copies(s, 0) = <<>> /\ Copies(s, 1) = s
<1>1. Copies(s, 0) = <<>>
  BY DEF Copies
<1>2. \A i \in 1..Len(s) : ((i - 1) \div 1) + 1 = i
  OBVIOUS
<1>3. Copies(s, 1) = [i \in 1..Len(s) |-> s[i]]
  BY <1>2 DEF Copies
<1> QED
  BY <1>1, <1>3

\* Registrations that are all called with an event make no new key of it.
LEMMA CopiesIds ==
  ASSUME NEW s \in Seq(Msg), NEW n \in Nat \ {0}
  PROVE  Ids(ToSet(Copies(s, n))) = Ids(ToSet(s))
<1> DEFINE c == Copies(s, n)
<1>1. c \in Seq(Msg)
  BY CopiesSeq
<1>2. n * Len(s) \in Nat
  OBVIOUS
<1>3. /\ Len(c) = n * Len(s)
      /\ \A i \in 1..(n * Len(s)) : c[i] = s[((i - 1) \div n) + 1]
  BY <1>1, <1>2 DEF Copies
<1>4. ASSUME NEW i \in 1..(n * Len(s)) PROVE ((i - 1) \div n) + 1 \in 1..Len(s)
  BY CopyIndex
<1>5. ASSUME NEW k \in 1..Len(s)
      PROVE  \E i \in 1..(n * Len(s)) : ((i - 1) \div n) + 1 = k
  <2> DEFINE i == n * (k - 1) + 1
  <2>1. n * (k - 1) \in Nat /\ n * (k - 1) + n = n * k
    OBVIOUS
  <2>2. n * k <= n * Len(s)
    OBVIOUS
  <2>3. i \in 1..(n * Len(s))
    BY <2>1, <2>2, <1>2
  <2>4. (i - 1) \div n = k - 1
    <3>1. i - 1 = n * (k - 1)
      BY <2>1
    <3>2. (n * (k - 1)) \div n = k - 1
      OBVIOUS
    <3> QED
      BY <3>1, <3>2
  <2> QED
    BY <2>3, <2>4
<1>6. /\ Ids(ToSet(c)) = {c[i].id : i \in 1..Len(c)}
      /\ Ids(ToSet(s)) = {s[i].id : i \in 1..Len(s)}
  BY <1>1, FeedIds
<1> HIDE DEF c
<1>7. ASSUME NEW i \in 1..Len(c) PROVE c[i].id \in Ids(ToSet(s))
  <2>1. i \in 1..(n * Len(s))
    BY <1>3
  <2>2. c[i] = s[((i - 1) \div n) + 1] /\ ((i - 1) \div n) + 1 \in 1..Len(s)
    BY <2>1, <1>3, <1>4
  <2> QED
    BY <2>2, <1>6
<1>8. ASSUME NEW k \in 1..Len(s) PROVE s[k].id \in Ids(ToSet(c))
  <2>1. PICK i \in 1..(n * Len(s)) : ((i - 1) \div n) + 1 = k
    BY <1>5
  <2>2. i \in 1..Len(c) /\ c[i] = s[k]
    BY <2>1, <1>3
  <2> QED
    BY <2>2, <1>6
<1>9. Ids(ToSet(c)) \subseteq Ids(ToSet(s))
  BY <1>6, <1>7
<1>10. Ids(ToSet(s)) \subseteq Ids(ToSet(c))
  BY <1>6, <1>8
<1> QED
  BY <1>9, <1>10 DEF c
-----------------------------------------------------------------------------
(* Type correctness. *)

LEMMA ViewType ==
  ASSUME TypeOK, NEW k \in 1..Len(versions), NEW w \in SUBSET Msg, NEW wide \in BOOLEAN
  PROVE  ViewOf(k, w, wide) \in SUBSET Msg
<1>1. versions[k] \in SUBSET Msg
  BY DEF TypeOK, SyncTypeOK
<1>2. Overlay(versions[k], w) \in SUBSET Msg
  BY <1>1, OverlayIds
<1>3. QED
  BY <1>2, Last1Part DEF ViewOf

\* What the callbacks of a change do to the queues' types.
LEMMA RaiseType ==
  ASSUME TypeOK, Raise, cache' \in SUBSET Msg
  PROVE  rowq' \in Seq(Msg) /\ chatq' \in Seq(Msg)
<1>1. PICK all \in KeyOrder(Added(cache, cache')),
           last \in KeyOrder(Added(Last1(cache), Last1(cache'))) :
        /\ rowq' = rowq \o Copies(all, rowObs)
        /\ chatq' = (IF chatLast THEN chatq \o last ELSE chatq) \o Copies(all, chatAll)
  BY DEF Raise
<1>2. /\ Added(cache, cache') \in SUBSET Msg
      /\ Added(Last1(cache), Last1(cache')) \in SUBSET Msg
  BY Last1Part DEF Added
<1>3. all \in Seq(Msg) /\ last \in Seq(Msg)
  BY <1>2, KeyOrderSeq
<1>4. Copies(all, chatAll) \in Seq(Msg) /\ Copies(all, rowObs) \in Seq(Msg)
  <2>1. chatAll \in Nat /\ rowObs \in Nat
    BY DEF TypeOK
  <2> QED
    BY <1>3, <2>1, CopiesSeq
<1>5. QED
  BY <1>1, <1>3, <1>4 DEF TypeOK

LEMMA PendType == TypeOK => pend \in SUBSET Msg
BY DEF TypeOK, SyncTypeOK, Msg

LEMMA AppendFacts ==
  ASSUME NEW S, NEW v \in Seq(S), NEW e \in S
  PROVE  /\ Append(v, e) \in Seq(S)
         /\ Len(Append(v, e)) = Len(v) + 1
         /\ \A i \in 1..Len(v) : Append(v, e)[i] = v[i]
         /\ Append(v, e)[Len(v) + 1] = e
OBVIOUS

LEMMA StoreType ==
  ASSUME TypeOK, NEW m \in Msg, Store(m)
  PROVE  /\ versions' \in Seq(SUBSET Msg)
         /\ Len(versions') = Len(versions) + 1
         /\ \A i \in 1..Len(versions) : versions'[i] = versions[i]
         /\ versions'[Len(versions) + 1] = Overlay(versions[Len(versions)], {m})
<1>1. Len(versions) \in 1..Len(versions) /\ versions[Len(versions)] \in SUBSET Msg
  BY DEF TypeOK, SyncTypeOK
<1>2. Overlay(versions[Len(versions)], {m}) \in SUBSET Msg
  BY <1>1, OverlayIds
<1>3. versions \in Seq(SUBSET Msg)
  BY DEF TypeOK, SyncTypeOK
<1> DEFINE S == SUBSET Msg
           new == Overlay(versions[Len(versions)], {m})
<1>4. versions \in Seq(S) /\ new \in S
  BY <1>2, <1>3
<1>5. versions' = Append(versions, new)
  BY DEF Store
<1> HIDE DEF S, new
<1>6. /\ versions' \in Seq(S)
      /\ Len(versions') = Len(versions) + 1
      /\ \A i \in 1..Len(versions) : versions'[i] = versions[i]
      /\ versions'[Len(versions) + 1] = new
  BY <1>4, <1>5, AppendFacts
<1>7. QED
  BY <1>6 DEF S, new

LEMMA TypeStep == TypeOK /\ [Next]_vars => TypeOK'
<1> SUFFICES ASSUME TypeOK, [Next]_vars PROVE TypeOK'
  OBVIOUS
<1> USE DEF TypeOK, SyncTypeOK
<1>w. Wide \in BOOLEAN /\ Viewed \in BOOLEAN
  BY DEF Wide, Viewed
<1>p. pend \in SUBSET Msg /\ Last1(pend) \in SUBSET Msg
  BY PendType, Last1Part
<1>1. ASSUME ListObserve PROVE TypeOK'
  <2>1. cache' \in SUBSET Msg
    BY <1>1, <1>p DEF ListObserve, Register
  <2>2. rowq' \in Seq(Msg)
    <3>1. PICK first \in KeyOrder(cache') : rowq' = rowq \o first
      BY <1>1 DEF ListObserve
    <3>2. first \in Seq(Msg)
      BY <2>1, <3>1, KeyOrderSeq
    <3> QED
      BY <3>1, <3>2
  <2> QED
    BY <1>1, <2>1, <2>2 DEF ListObserve, Register, roomVars, screenVars, obsVars
<1>2. CASE RowEvent
  BY <1>2 DEF RowEvent, syncVars, roomVars, screenVars, obsVars
<1>a. CASE AnotherRoom
  BY <1>a DEF AnotherRoom, syncVars, screenVars, obsVars
<1>3. ASSUME OpenFromList PROVE TypeOK'
  <2>1. cache' \in SUBSET Msg
    BY <1>3, <1>p, <1>w DEF OpenFromList, Register
  <2>2. chatq' \in Seq(Msg)
    BY <1>3, <2>1, Last1Part, KeyOrderSeq DEF OpenFromList
  <2>3. transcript' \in Seq(Msg)
    <3>1. transcript' = row \/ transcript' = <<>>
      BY <1>3 DEF OpenFromList
    <3>2. row \in Seq(Msg) /\ <<>> \in Seq(Msg)
      OBVIOUS
    <3> QED
      BY <3>1, <3>2
  <2> QED
    BY <1>3, <2>1, <2>2, <2>3 DEF OpenFromList, Register, roomVars, listVars
<1>4. CASE OpenFromSearch
  BY <1>4 DEF OpenFromSearch, syncVars, roomVars, listVars, obsVars
<1>5. CASE ExistsRead
  BY <1>5 DEF ExistsRead, syncVars, roomVars, listVars, obsVars
<1>6. CASE ExistsAnswer
  BY <1>6 DEF ExistsAnswer, syncVars, roomVars, listVars, obsVars
<1>7. ASSUME ViewDidAppear PROVE TypeOK'
  <2>1. SyncTypeOK'
    BY <1>7 DEF ViewDidAppear, Unregister, syncVars
  <2>2. /\ appeared' \in BOOLEAN
        /\ UNCHANGED <<roomVars, fetches, rows, row, rowq, screen, joined, query, transcript, chatq,
                       lastId>>
    BY <1>7, Zenon DEF ViewDidAppear
  <2>3. /\ rowObs' \in 0..rows' /\ chatAll' \in Nat
        /\ chatLast' \in BOOLEAN /\ orphan' \in BOOLEAN
    <3>1. CASE joined
      <4>1. rowObs' = 0 /\ chatAll' = 0 /\ chatLast' = FALSE /\ orphan' = FALSE
        BY <1>7, <3>1, Zenon DEF ViewDidAppear
      <4>2. rows' = rows /\ 0 \in 0..rows
        BY <2>2
      <4> QED
        BY <4>1, <4>2
    <3>2. CASE ~joined
      <4>1. UNCHANGED <<rowObs, chatAll, chatLast, orphan>>
        BY <1>7, <3>2, Zenon DEF ViewDidAppear
      <4> QED
        BY <2>2, <4>1
    <3> QED
      BY <3>1, <3>2
  <2> QED
    BY <2>1, <2>2, <2>3 DEF roomVars
<1>8. CASE AppendEvent
  BY <1>8 DEF AppendEvent, syncVars, roomVars, listVars
<1>9. ASSUME OnlyNewEvent PROVE TypeOK'
  <2>1. transcript' \in Seq(Msg)
    <3>1. SubSeq(transcript, 1, Len(transcript) - 1) \in Seq(Msg)
      OBVIOUS
    <3> QED
      BY <1>9, <3>1 DEF OnlyNewEvent
  <2> QED
    BY <1>9, <2>1 DEF OnlyNewEvent, syncVars, roomVars, listVars
<1>10. ASSUME Close PROVE TypeOK'
  <2>1. SyncTypeOK'
    BY <1>10 DEF Close, syncVars
  <2>2. orphan' \in BOOLEAN
    BY <1>10 DEF Close
  <2>3. transcript' \in Seq(Msg) /\ chatq' \in Seq(Msg)
    BY <1>10 DEF Close
  <2> QED
    BY <1>10, <2>1, <2>2, <2>3 DEF Close, roomVars, listVars
<1>11. ASSUME NEW i \in 1..MaxId, Send(i) PROVE TypeOK'
  <2> DEFINE m == [id |-> i, by |-> "me"]
  <2>1. m \in Msg /\ m \in [id : 1..MaxId, by : {"me"}]
    BY DEF Msg
  <2>2. i \in 0..MaxId
    BY BoundsAssumption
  <2>3. CASE SendMessage(i)
    <3>1. cache' \in SUBSET Msg
      BY <2>3, <2>1, OverlayIds DEF SendMessage, Write
    <3>2. rowq' \in Seq(Msg) /\ chatq' \in Seq(Msg)
      BY <2>3, <3>1, RaiseType DEF SendMessage
    <3> QED
      BY <1>11, <2>1, <2>2, <2>3, <3>1, <3>2 DEF Send, SendMessage, Write
  <2>4. CASE StartChatAndSend(i)
    <3> DEFINE held == IF Viewed THEN cache ELSE pend
    <3>1. held \in SUBSET Msg
      BY <1>p
    <3>2. cache' = Overlay(held, {m}) /\ cache' \in SUBSET Msg
      BY <2>4, <2>1, <3>1, OverlayIds DEF StartChatAndSend
    <3>3. PICK first \in KeyOrder(held), new \in KeyOrder(Added(held, cache')) :
            /\ chatq' = chatq \o first \o Copies(new, chatAll')
            /\ rowq' = rowq \o Copies(new, rowObs)
      BY <2>4 DEF StartChatAndSend
    <3>4. Added(held, cache') \in SUBSET Msg
      BY <3>2 DEF Added
    <3>5. first \in Seq(Msg) /\ new \in Seq(Msg)
      BY <3>1, <3>4, KeyOrderSeq
    <3>6. chatAll' \in Nat
      BY <2>4 DEF StartChatAndSend
    <3>7. Copies(new, chatAll') \in Seq(Msg) /\ Copies(new, rowObs) \in Seq(Msg)
      BY <3>5, <3>6, CopiesSeq
    <3>8. chatq' \in Seq(Msg) /\ rowq' \in Seq(Msg)
      BY <3>3, <3>5, <3>7
    <3>9. creates' \subseteq 1..MaxId /\ fetches' \in Nat
      BY <2>4 DEF StartChatAndSend
    <3>10. SyncTypeOK'
      BY <2>1, <2>4, <3>2 DEF StartChatAndSend
    <3>11. joined' \in BOOLEAN /\ query' \in {"idle", "asked", "nil", "found"}
      BY <2>4 DEF StartChatAndSend
    <3> QED
      BY <1>11, <2>2, <3>6, <3>8, <3>9, <3>10, <3>11 DEF Send
  <2> QED
    BY <1>11, <2>3, <2>4 DEF Send
<1>12. CASE RoomCommit
  BY <1>12 DEF RoomCommit, syncVars, listVars, screenVars, obsVars
<1>13. ASSUME PeerSends PROVE TypeOK'
  <2>1. PICK i \in PeerIds : PeerCommit(i)
    BY <1>13 DEF PeerSends
  <2>2. [id |-> i, by |-> "peer"] \in Msg
    BY BoundsAssumption DEF Msg
  <2>3. versions' \in Seq(SUBSET Msg) /\ Len(versions') = Len(versions) + 1
    BY <2>1, <2>2, StoreType DEF PeerCommit
  <2> QED
    BY <1>13, <2>1, <2>3 DEF PeerSends, PeerCommit, roomVars, listVars, screenVars, obsVars
<1>14. ASSUME ServerCommits PROVE TypeOK'
  <2>1. PICK m \in pend : Commit(m)
    BY <1>14 DEF ServerCommits
  <2>2. versions' \in Seq(SUBSET Msg) /\ Len(versions') = Len(versions) + 1
    BY <2>1, <1>p, StoreType DEF Commit
  <2> QED
    BY <1>14, <2>1, <2>2 DEF ServerCommits, Commit, roomVars, listVars, screenVars, obsVars
<1>15. ASSUME DataArrives PROVE TypeOK'
  <2>1. PICK k \in 1..Len(versions) : Receive(k, Wide)
    BY <1>15 DEF DataArrives
  <2>2. cache' \in SUBSET Msg
    BY <2>1, <1>p, <1>w, ViewType DEF Receive
  <2>3. rowq' \in Seq(Msg) /\ chatq' \in Seq(Msg)
    BY <1>15, <2>2, RaiseType DEF DataArrives
  <2> QED
    BY <1>15, <2>1, <2>2, <2>3 DEF DataArrives, Receive, roomVars, screenVars
<1>16. ASSUME WriteAcked PROVE TypeOK'
  <2>1. PICK m \in pend : Ack(m, Wide)
    BY <1>16 DEF WriteAcked
  <2>2. pend' \in SUBSET Msg
    BY <2>1, <1>p DEF Ack
  <2>3. cache' \in SUBSET Msg
    BY <2>1, <2>2, <1>w, ViewType DEF Ack
  <2>4. rowq' \in Seq(Msg) /\ chatq' \in Seq(Msg)
    BY <1>16, <2>3, RaiseType DEF WriteAcked
  <2>5. pos' \in 1..Len(versions') /\ versions' \in Seq(SUBSET Msg)
    BY <2>1 DEF Ack
  <2>6. pend' \subseteq [id : 1..MaxId, by : {"me"}] /\ synced' \in BOOLEAN
    BY <2>1 DEF Ack
  <2> QED
    BY <1>16, <2>3, <2>4, <2>5, <2>6 DEF WriteAcked, roomVars, screenVars
<1>17. ASSUME Restart PROVE TypeOK'
  <2>1. SyncTypeOK'
    BY <1>17 DEF Restart, ForgetClient
  <2>2. /\ row' \in Seq(Msg) /\ rowq' \in Seq(Msg)
        /\ transcript' \in Seq(Msg) /\ chatq' \in Seq(Msg)
    BY <1>17 DEF Restart
  <2>3. creates' \subseteq 1..MaxId /\ fetches' \in Nat /\ rows' = 0 /\ rowObs' = 0
    BY <1>17 DEF Restart
  <2>4. rows' \in Nat /\ rowObs' \in 0..rows'
    BY <2>3
  <2> QED
    BY <1>17, <2>1, <2>2, <2>3, <2>4 DEF Restart
<1>18. CASE UNCHANGED vars
  BY <1>18 DEF vars, syncVars, roomVars, listVars, screenVars, obsVars
<1> QED
  BY <1>a, <1>1, <1>2, <1>3, <1>4, <1>5, <1>6, <1>7, <1>8, <1>9, <1>10, <1>11, <1>12,
     <1>13, <1>14, <1>15, <1>16, <1>17, <1>18 DEF Next

-----------------------------------------------------------------------------
(* The server's versions and the view's keys. *)

LEMMA StoreKeys ==
  ASSUME TypeOK, KeysStay, NEW m \in Msg, Store(m)
  PROVE  KeysStay'
<1>1. /\ Len(versions') = Len(versions) + 1
      /\ \A i \in 1..Len(versions) : versions'[i] = versions[i]
      /\ versions'[Len(versions) + 1] = Overlay(versions[Len(versions)], {m})
  BY StoreType
<1>2. Len(versions) \in 1..Len(versions) /\ versions[Len(versions)] \in SUBSET Msg
  BY DEF TypeOK, SyncTypeOK
<1>3. Ids(versions[Len(versions)]) \subseteq Ids(versions'[Len(versions) + 1])
  BY <1>1, <1>2, OverlayIds
<1> SUFFICES ASSUME NEW i \in 1..Len(versions'), NEW j \in 1..Len(versions'), i <= j
             PROVE  Ids(versions'[i]) \subseteq Ids(versions'[j])
  BY DEF KeysStay
<1>4. CASE j <= Len(versions)
  <2>1. i \in 1..Len(versions) /\ j \in 1..Len(versions)
    BY <1>1, <1>2, <1>4
  <2>2. versions'[i] = versions[i] /\ versions'[j] = versions[j]
    BY <2>1, <1>1
  <2>3. Ids(versions[i]) \subseteq Ids(versions[j])
    BY <2>1 DEF KeysStay
  <2> QED
    BY <2>2, <2>3
<1>5. CASE j = Len(versions) + 1 /\ i <= Len(versions)
  <2>1. i \in 1..Len(versions)
    BY <1>2, <1>5
  <2>2. Ids(versions[i]) \subseteq Ids(versions[Len(versions)])
    BY <2>1, <1>2 DEF KeysStay
  <2>3. versions'[i] = versions[i] /\ versions'[j] = versions'[Len(versions) + 1]
    BY <2>1, <1>1, <1>5
  <2> QED
    BY <2>2, <2>3, <1>3
<1>6. CASE i = j
  BY <1>6
<1> QED
  BY <1>1, <1>2, <1>4, <1>5, <1>6

\* The keys of a view computed anew from version k and the writes w.
LEMMA ViewIds ==
  ASSUME TypeOK, NEW k \in 1..Len(versions), NEW w \in SUBSET Msg, NEW wide \in BOOLEAN
  PROVE  /\ Ids(ViewOf(k, w, wide)) \subseteq Ids(versions[k]) \cup Ids(w)
         /\ wide => Ids(ViewOf(k, w, wide)) = Ids(versions[k]) \cup Ids(w)
<1> DEFINE all == Overlay(versions[k], w)
<1>1. versions[k] \in SUBSET Msg
  BY DEF TypeOK, SyncTypeOK
<1>2. all \in SUBSET Msg /\ Ids(all) = Ids(versions[k]) \cup Ids(w)
  BY <1>1, OverlayIds
<1>3. Last1(all) \subseteq all
  BY <1>2, Last1Part
<1>4. Ids(Last1(all)) \subseteq Ids(all)
  BY <1>3 DEF Ids
<1>5. ViewOf(k, w, wide) = IF wide THEN all ELSE Last1(all)
  BY DEF ViewOf
<1> QED
  BY <1>2, <1>4, <1>5

\* Server data never takes a key away from a view of the whole path.
LEMMA ReceiveKeys ==
  ASSUME TypeOK, KeysStay, CacheKnown,
         NEW k \in 1..Len(versions), NEW wide \in BOOLEAN, Receive(k, wide)
  PROVE  /\ CacheKnown'
         /\ wide => Ids(cache) \subseteq Ids(cache')
<1>1. pend \in SUBSET Msg
  BY PendType
<1>2. cache' = ViewOf(k, pend, wide) /\ pos' = k /\ pos <= k
  BY DEF Receive, TypeOK, SyncTypeOK
<1>3. versions' = versions /\ pend' = pend
  BY DEF Receive
<1>4. /\ Ids(cache') \subseteq Ids(versions[k]) \cup Ids(pend)
      /\ wide => Ids(cache') = Ids(versions[k]) \cup Ids(pend)
  BY <1>1, <1>2, ViewIds
<1>5. Ids(versions[pos]) \subseteq Ids(versions[k])
  BY <1>2 DEF KeysStay, TypeOK, SyncTypeOK
<1>6. CacheKnown'
  BY <1>2, <1>3, <1>4 DEF CacheKnown
<1>7. wide => Ids(cache) \subseteq Ids(cache')
  BY <1>4, <1>5 DEF CacheKnown
<1> QED
  BY <1>6, <1>7

\* Nor does the acknowledgement of a write: its key is stored by then.
LEMMA AckKeys ==
  ASSUME TypeOK, KeysStay, CacheKnown,
         NEW m \in pend, NEW wide \in BOOLEAN, Ack(m, wide)
  PROVE  /\ CacheKnown'
         /\ wide => Ids(cache) \subseteq Ids(cache')
<1>1. pend' = pend \ {m} /\ pend' \in SUBSET Msg /\ versions' = versions
  BY PendType DEF Ack
<1>2. PICK i \in 1..Len(versions) :
        /\ m \in versions[i]
        /\ synced => i <= pos
        /\ pos' = IF i > pos THEN i ELSE pos
  BY DEF Ack
<1>3. pos \in 1..Len(versions) /\ pos' \in 1..Len(versions) /\ pos <= pos' /\ i <= pos'
  BY <1>2 DEF TypeOK, SyncTypeOK
<1>4. /\ Ids(versions[pos]) \subseteq Ids(versions[pos'])
      /\ Ids(versions[i]) \subseteq Ids(versions[pos'])
  BY <1>3 DEF KeysStay
<1>5. m.id \in Ids(versions[pos'])
  BY <1>2, <1>4 DEF Ids
<1>6. Ids(pend) = Ids(pend') \cup {m.id}
  BY <1>1 DEF Ids
<1>7. Ids(cache) \subseteq Ids(versions[pos']) \cup Ids(pend')
  BY <1>4, <1>5, <1>6 DEF CacheKnown
<1>8. CASE synced
  <2>1. pos' = pos
    BY <1>2, <1>3, <1>8
  <2>2. cache' = ViewOf(pos, pend', wide)
    BY <1>8 DEF Ack
  <2>3. /\ Ids(cache') \subseteq Ids(versions[pos]) \cup Ids(pend')
        /\ wide => Ids(cache') = Ids(versions[pos]) \cup Ids(pend')
    BY <1>1, <1>3, <2>2, ViewIds
  <2> QED
    BY <1>1, <1>7, <2>1, <2>3 DEF CacheKnown
<1>9. CASE ~synced
  <2>1. cache' = cache
    BY <1>9 DEF Ack
  <2> QED
    BY <1>1, <1>7, <2>1 DEF CacheKnown
<1> QED
  BY <1>8, <1>9

-----------------------------------------------------------------------------
(* The row: what it holds, and how a step moves it. *)

RowInv == NotListed /\ RowExactlyOnce /\ RowTracksView

RowMove ==
  \/ rows' = rows /\ (rowObs' > 0 <=> rowObs > 0) /\ RowFeed' = RowFeed
  \/ rows' = rows + 1 /\ rowObs' > 0 /\ \E s \in Seq(Msg) : RowFeed' = RowFeed \o s
  \/ rows' = rows /\ rowObs > 0 /\ rowObs' > 0 /\ \E s \in Seq(Msg) : RowFeed' = RowFeed \o s
  \/ rows' = rows /\ rowObs > 0 /\ rowObs' = 0 /\ RowFeed' = RowFeed
  \/ rows' = 0 /\ rowObs' = 0 /\ RowFeed' = <<>>

LEMMA ConcatAssoc ==
  ASSUME NEW a \in Seq(Msg), NEW b \in Seq(Msg), NEW c \in Seq(Msg)
  PROVE  a \o (b \o c) = (a \o b) \o c
OBVIOUS

LEMMA HeadMoves ==
  ASSUME NEW a \in Seq(Msg), NEW b \in Seq(Msg), b # <<>>
  PROVE  Append(a, Head(b)) \o Tail(b) = a \o b
OBVIOUS

\* A step that leaves the row, its queue and its observers alone, and the view
\* too while the list observes.
LEMMA RowSame ==
  ASSUME RowInv, UNCHANGED <<row, rowq, rowObs, rows>>, rowObs > 0 => cache' = cache
  PROVE  RowInv' /\ RowMove
<1>1. RowFeed' = RowFeed
  BY DEF RowFeed
<1>2. RowExactlyOnce'
  BY <1>1 DEF RowInv, RowExactlyOnce, DistinctIds
<1>3. RowTracksView'
  BY <1>1 DEF RowInv, RowTracksView
<1>4. NotListed'
  BY DEF RowInv, NotListed
<1> QED
  BY <1>1, <1>2, <1>3, <1>4 DEF RowInv, RowMove

\* A step that queues for each of the row's observers what is new in a view
\* that loses no key.
LEMMA RowAppends ==
  ASSUME TypeOK, RowInv, cache' \in SUBSET Msg,
         UNCHANGED <<row, rowObs, rows>>,
         NEW all \in Seq(Msg),
         rowObs > 0 => Ids(cache) \subseteq Ids(cache') /\ all \in KeyOrder(Added(cache, cache')),
         rowq' = rowq \o Copies(all, rowObs)
  PROVE  RowInv' /\ RowMove
<1>t. /\ row \in Seq(Msg) /\ rowq \in Seq(Msg) /\ cache \in SUBSET Msg
      /\ rows \in Nat /\ rowObs \in 0..rows
      /\ RowFeed \in Seq(Msg)
  BY DEF TypeOK, SyncTypeOK, RowFeed
<1>1. CASE rowObs = 0
  <2>1. Copies(all, rowObs) = <<>>
    BY <1>1, CopiesFew
  <2>2. rowq' = rowq
    BY <1>t, <2>1
  <2> QED
    BY <1>1, <2>2, RowSame
<1>2. CASE rowObs > 0
  <2> DEFINE c == Copies(all, rowObs)
  <2>1. c \in Seq(Msg) /\ Ids(ToSet(c)) = Ids(ToSet(all))
    BY <1>t, <1>2, CopiesSeq, CopiesIds
  <2>2. Added(cache, cache') \in SUBSET Msg
    BY DEF Added
  <2>3. Ids(ToSet(all)) = Ids(Added(cache, cache'))
    BY <1>2, <2>2, FeedOpens
  <2>4. RowFeed' = RowFeed \o c
    BY <1>t, <2>1, ConcatAssoc DEF RowFeed
  <2>5. Ids(ToSet(RowFeed')) = Ids(ToSet(RowFeed)) \cup Ids(Added(cache, cache'))
    BY <1>t, <2>1, <2>3, <2>4, ConcatIds
  <2>6. Ids(cache') = Ids(cache) \cup Ids(Added(cache, cache'))
    <3>1. Ids(cache') \subseteq Ids(cache) \cup Ids(Added(cache, cache'))
      BY DEF Added, Ids
    <3>2. Ids(Added(cache, cache')) \subseteq Ids(cache')
      BY DEF Added, Ids
    <3> QED
      BY <1>2, <3>1, <3>2
  <2>7. RowTracksView'
    BY <1>2, <2>5, <2>6 DEF RowInv, RowTracksView
  <2>8. RowExactlyOnce'
    <3>1. CASE rows <= 1
      <4>1. rowObs = 1 /\ rows = 1
        BY <1>t, <1>2, <3>1
      <4>2. c = all
        BY <4>1, CopiesFew
      <4>3. DistinctIds(RowFeed) /\ Ids(ToSet(RowFeed)) = Ids(cache)
        BY <4>1 DEF RowInv, RowExactlyOnce, RowTracksView
      <4>4. DistinctIds(RowFeed \o all)
        BY <1>t, <1>2, <4>3, FeedGrows
      <4> QED
        BY <2>4, <4>2, <4>4 DEF RowExactlyOnce, DistinctIds
    <3>2. CASE ~(rows <= 1)
      BY <3>2 DEF RowExactlyOnce
    <3> QED
      BY <3>1, <3>2
  <2>9. NotListed'
    BY <1>t, <1>2 DEF NotListed
  <2>10. RowMove
    <3> HIDE DEF c
    <3> QED
      BY <1>2, <2>1, <2>4 DEF RowMove
  <2> QED
    BY <2>7, <2>8, <2>9, <2>10 DEF RowInv
<1> QED
  BY <1>t, <1>1, <1>2

\* The list observes once more: the new registration is told the whole view.
LEMMA RowOpens ==
  ASSUME TypeOK, RowInv, cache' \in SUBSET Msg,
         rows' = rows + 1, rowObs' = rowObs + 1, row' = row,
         rowObs > 0 => cache' = cache,
         NEW first \in KeyOrder(cache'), rowq' = rowq \o first
  PROVE  RowInv' /\ RowMove
<1>t. /\ row \in Seq(Msg) /\ rowq \in Seq(Msg)
      /\ rows \in Nat /\ rowObs \in 0..rows
      /\ RowFeed \in Seq(Msg)
  BY DEF TypeOK, RowFeed
<1>1. /\ first \in Seq(Msg)
      /\ <<>> \o first = first
      /\ DistinctIds(first)
      /\ Ids(ToSet(first)) = Ids(cache')
  BY KeyOrderSeq, FeedOpens
<1>2. RowFeed' = RowFeed \o first
  BY <1>t, <1>1, ConcatAssoc DEF RowFeed
<1>3. Ids(ToSet(RowFeed')) = Ids(ToSet(RowFeed)) \cup Ids(cache')
  BY <1>t, <1>1, <1>2, ConcatIds
<1>4. ASSUME rows = 0 PROVE RowFeed' = first
  <2>1. row = <<>> /\ rowq = <<>>
    BY <1>4 DEF RowInv, NotListed
  <2>2. row' = <<>> /\ rowq' = <<>> \o first
    BY <2>1
  <2>3. rowq' = first
    BY <2>2, <1>1
  <2>4. RowFeed' = <<>> \o first
    BY <2>2, <2>3 DEF RowFeed
  <2> QED
    BY <2>4, <1>1
<1>5. RowTracksView'
  <2>1. Ids(cache') \subseteq Ids(ToSet(RowFeed'))
    BY <1>3
  <2>2. ASSUME rowObs' = rows' PROVE Ids(ToSet(RowFeed')) = Ids(cache')
    <3>1. CASE rows = 0
      BY <3>1, <1>4, <1>1
    <3>2. CASE rows > 0
      <4>1. rowObs = rows /\ rowObs > 0
        BY <2>2, <3>2, <1>t
      <4>2. Ids(ToSet(RowFeed)) = Ids(cache) /\ cache' = cache
        BY <4>1 DEF RowInv, RowTracksView
      <4> QED
        BY <1>3, <4>2
    <3> QED
      BY <1>t, <3>1, <3>2
  <2> QED
    BY <2>1, <2>2 DEF RowTracksView
<1>6. RowExactlyOnce'
  <2>1. ASSUME rows' <= 1 PROVE DistinctIds(RowFeed')
    <3>1. rows = 0
      BY <1>t, <2>1
    <3>2. RowFeed' = first
      BY <3>1, <1>4
    <3> QED
      BY <3>2, <1>1
  <2> QED
    BY <2>1 DEF RowExactlyOnce, DistinctIds
<1>7. NotListed'
  BY <1>t DEF NotListed
<1>8. RowMove
  <2>1. rows' = rows + 1 /\ rowObs' > 0
    BY <1>t
  <2> QED
    BY <2>1, <1>1, <1>2 DEF RowMove
<1> QED
  BY <1>5, <1>6, <1>7, <1>8 DEF RowInv

LEMMA RowStep == IInv /\ [Next]_vars => CacheKnown' /\ RowInv' /\ RowMove
<1> SUFFICES ASSUME IInv, [Next]_vars PROVE CacheKnown' /\ RowInv' /\ RowMove
  OBVIOUS
<1>a. TypeOK /\ KeysStay /\ CacheKnown /\ RowInv
  BY DEF IInv, RowInv
<1>b. TypeOK'
  BY <1>a, TypeStep
<1>c. cache \in SUBSET Msg /\ cache' \in SUBSET Msg /\ pend \in SUBSET Msg
  BY <1>a, <1>b, PendType DEF TypeOK, SyncTypeOK
<1>w. /\ Wide \in BOOLEAN /\ Viewed \in BOOLEAN
      /\ rowObs > 0 => Wide /\ Viewed
  BY <1>a DEF Wide, Viewed, TypeOK
<1>d. Added(cache, cache') \in SUBSET Msg
  BY <1>c DEF Added
<1>k. UNCHANGED syncVars => CacheKnown'
  BY <1>a DEF CacheKnown, syncVars
<1>1. CASE ListObserve
  <2>1. cache' = IF Viewed THEN cache ELSE pend
    BY <1>1 DEF ListObserve, Register
  <2>2. CacheKnown'
    BY <1>1, <1>a, <2>1 DEF ListObserve, Register, CacheKnown
  <2>3. PICK first \in KeyOrder(cache') : rowq' = rowq \o first
    BY <1>1 DEF ListObserve
  <2>4. rows' = rows + 1 /\ rowObs' = rowObs + 1 /\ row' = row
    BY <1>1 DEF ListObserve
  <2>5. rowObs > 0 => cache' = cache
    BY <1>w, <2>1
  <2> QED
    BY <1>a, <1>c, <2>2, <2>3, <2>4, <2>5, RowOpens
<1>2. CASE RowEvent
  <2>1. RowFeed' = RowFeed
    BY <1>2, <1>a, HeadMoves DEF RowEvent, RowFeed, TypeOK
  <2>2. UNCHANGED <<cache, rowObs, rows>>
    BY <1>2 DEF RowEvent, syncVars
  <2>3. RowExactlyOnce' /\ RowTracksView'
    BY <1>a, <2>1, <2>2 DEF RowInv, RowExactlyOnce, RowTracksView, DistinctIds
  <2>4. NotListed'
    BY <1>2, <1>a, <2>2 DEF RowEvent, RowInv, NotListed
  <2> QED
    BY <1>2, <1>k, <2>1, <2>2, <2>3, <2>4 DEF RowEvent, RowInv, RowMove
<1>3. CASE OpenFromList
  <2>1. cache' = cache \/ cache' = pend \/ cache' = Last1(pend)
    BY <1>3 DEF OpenFromList, Register
  <2>2. Ids(Last1(pend)) \subseteq Ids(pend)
    BY <1>c, Last1Part DEF Ids
  <2>3. CacheKnown'
    BY <1>3, <1>a, <2>1, <2>2 DEF OpenFromList, Register, CacheKnown
  <2>4. rowObs > 0 => cache' = cache
    BY <1>3, <1>w DEF OpenFromList, Register
  <2> QED
    BY <1>3, <1>a, <2>3, <2>4, RowSame DEF OpenFromList, listVars
<1>4. CASE OpenFromSearch \/ ExistsRead \/ ExistsAnswer \/ AppendEvent \/ OnlyNewEvent
           \/ Close \/ RoomCommit \/ AnotherRoom
  <2>1. UNCHANGED <<syncVars, rows, rowObs, row, rowq>>
    BY <1>4 DEF OpenFromSearch, ExistsRead, ExistsAnswer, AppendEvent, OnlyNewEvent,
                Close, RoomCommit, AnotherRoom, listVars
  <2> QED
    BY <1>a, <1>k, <2>1, RowSame DEF syncVars, listVars
<1>5. CASE ViewDidAppear
  <2>1. CASE joined
    <3>1. Unregister /\ rowObs' = 0
      BY <1>5, <2>1, Zenon DEF ViewDidAppear
    <3>2. UNCHANGED <<rows, row, rowq>>
      BY <1>5, Zenon DEF ViewDidAppear
    <3>3. CacheKnown'
      BY <3>1 DEF Unregister, CacheKnown, Ids
    <3>4. RowFeed' = RowFeed
      BY <3>2 DEF RowFeed
    <3>5. RowExactlyOnce' /\ RowTracksView' /\ NotListed'
      BY <1>a, <3>1, <3>2, <3>4
      DEF RowInv, RowExactlyOnce, RowTracksView, DistinctIds, NotListed
    <3> QED
      BY <1>a, <3>1, <3>2, <3>3, <3>4, <3>5 DEF RowInv, RowMove, TypeOK
  <2>2. CASE ~joined
    <3>1. UNCHANGED <<syncVars, rowObs, rows, row, rowq>>
      BY <1>5, <2>2, Zenon DEF ViewDidAppear
    <3> QED
      BY <1>a, <1>k, <3>1, RowSame DEF syncVars
  <2> QED
    BY <2>1, <2>2
<1>6. ASSUME NEW i \in 1..MaxId, Send(i) PROVE CacheKnown' /\ RowInv' /\ RowMove
  <2> DEFINE m == [id |-> i, by |-> "me"]
  <2>1. m \in Msg /\ {m} \in SUBSET Msg
    BY DEF Msg
  <2>2. UNCHANGED <<row, rowObs, rows, versions, pos>> /\ pend' = pend \cup {m}
    BY <1>6 DEF Send, SendMessage, StartChatAndSend, Write
  <2>3. Ids(pend') = Ids(pend) \cup {i} /\ Ids({m}) = {i}
    BY <2>2 DEF Ids
  <2>4. CASE SendMessage(i)
    <3>1. cache' = IF Viewed THEN Overlay(cache, {m}) ELSE cache
      BY <2>4 DEF SendMessage, Write
    <3>2. Ids(Overlay(cache, {m})) = Ids(cache) \cup {i}
      BY <1>c, <2>1, <2>3, OverlayIds
    <3>3. Ids(cache) \subseteq Ids(cache') /\ Ids(cache') \subseteq Ids(cache) \cup {i}
      BY <3>1, <3>2
    <3>4. CacheKnown'
      BY <1>a, <2>2, <2>3, <3>3 DEF CacheKnown
    <3>5. PICK all \in KeyOrder(Added(cache, cache')) : rowq' = rowq \o Copies(all, rowObs)
      BY <2>4 DEF SendMessage, Raise
    <3>6. all \in Seq(Msg)
      BY <1>d, <3>5, KeyOrderSeq
    <3> QED
      BY <1>a, <1>c, <2>2, <3>3, <3>4, <3>5, <3>6, RowAppends
  <2>5. CASE StartChatAndSend(i)
    <3> DEFINE held == IF Viewed THEN cache ELSE pend
    <3>1. cache' = Overlay(held, {m})
      BY <2>5 DEF StartChatAndSend
    <3>2. Ids(cache') = Ids(held) \cup {i}
      BY <1>c, <2>1, <2>3, <3>1, OverlayIds
    <3>3. CacheKnown'
      BY <1>a, <2>2, <2>3, <3>2 DEF CacheKnown
    <3>4. PICK new \in KeyOrder(Added(held, cache')) : rowq' = rowq \o Copies(new, rowObs)
      BY <2>5 DEF StartChatAndSend
    <3>6. new \in Seq(Msg)
      <4>1. Added(held, cache') \in SUBSET Msg
        BY <1>c DEF Added
      <4> QED
        BY <3>4, <4>1, KeyOrderSeq
    <3>5. rowObs > 0 => Ids(cache) \subseteq Ids(cache') /\ new \in KeyOrder(Added(cache, cache'))
      BY <1>w, <3>2, <3>4
    <3> HIDE DEF held
    <3> QED
      BY <1>a, <1>c, <2>2, <3>3, <3>4, <3>5, <3>6, RowAppends
  <2> QED
    BY <1>6, <2>4, <2>5 DEF Send
<1>7. CASE PeerSends \/ ServerCommits
  <2>1. PICK m \in Msg : Store(m)
    <3>1. ASSUME PeerSends PROVE \E m \in Msg : Store(m)
      <4>1. PICK i \in PeerIds : PeerCommit(i)
        BY <3>1 DEF PeerSends
      <4>2. [id |-> i, by |-> "peer"] \in Msg
        BY BoundsAssumption DEF Msg
      <4> QED
        BY <4>1, <4>2 DEF PeerCommit
    <3>2. ASSUME ServerCommits PROVE \E m \in Msg : Store(m)
      BY <3>2, <1>c DEF ServerCommits, Commit
    <3> QED
      BY <1>7, <3>1, <3>2
  <2>2. UNCHANGED <<pend, pos, cache>> /\ UNCHANGED listVars
    BY <1>7 DEF PeerSends, PeerCommit, ServerCommits, Commit
  <2>3. versions'[pos] = versions[pos]
    BY <1>a, <2>1, StoreType DEF TypeOK, SyncTypeOK
  <2>4. CacheKnown'
    BY <1>a, <2>2, <2>3 DEF CacheKnown
  <2> QED
    BY <1>a, <2>2, <2>4, RowSame DEF listVars
<1>8. CASE DataArrives \/ WriteAcked
  <2>1. CacheKnown' /\ (Wide => Ids(cache) \subseteq Ids(cache'))
    BY <1>8, <1>a, <1>w, ReceiveKeys, AckKeys DEF DataArrives, WriteAcked
  <2>2. PICK all \in KeyOrder(Added(cache, cache')) : rowq' = rowq \o Copies(all, rowObs)
    BY <1>8 DEF DataArrives, WriteAcked, Raise
  <2>3. UNCHANGED <<row, rowObs, rows>>
    BY <1>8 DEF DataArrives, WriteAcked
  <2>4. all \in Seq(Msg)
    BY <1>d, <2>2, KeyOrderSeq
  <2> QED
    BY <1>a, <1>c, <1>w, <2>1, <2>2, <2>3, <2>4, RowAppends
<1>9. CASE Restart
  <2>1. row' = <<>> /\ rowq' = <<>> /\ rowObs' = 0 /\ rows' = 0 /\ cache' = {}
    BY <1>9 DEF Restart, ForgetClient
  <2>2. RowFeed' = <<>>
    BY <2>1 DEF RowFeed
  <2>3. CacheKnown'
    BY <2>1 DEF CacheKnown, Ids
  <2> QED
    BY <2>1, <2>2, <2>3
    DEF RowInv, RowMove, RowExactlyOnce, RowTracksView, NotListed, DistinctIds
<1>10. CASE UNCHANGED vars
  BY <1>10, <1>a, <1>k, RowSame DEF vars, syncVars, listVars
<1> QED
  BY <1>1, <1>2, <1>3, <1>4, <1>5, <1>6, <1>7, <1>8, <1>9, <1>10 DEF Next

-----------------------------------------------------------------------------
(* The invariant and what follows from it. *)

LEMMA InvInit == Init => IInv
<1> SUFFICES ASSUME Init PROVE IInv
  OBVIOUS
<1>1. SyncTypeOK
  <2>1. versions = <<{}>> /\ pos = 1
    BY DEF Init, SyncInit
  <2>2. versions \in Seq(SUBSET Msg) /\ Len(versions) = 1
    <3>1. {} \in SUBSET Msg
      OBVIOUS
    <3> QED
      BY <2>1, <3>1
  <2>3. pend = {} /\ synced = FALSE /\ cache = {}
    BY DEF Init, SyncInit
  <2>4. pos \in 1..Len(versions)
    <3>1. pos = 1
      BY <2>1
    <3> QED
      BY <2>2, <3>1
  <2> QED
    BY <2>2, <2>3, <2>4 DEF SyncTypeOK
<1>2. TypeOK
  <2>1. row \in Seq(Msg) /\ rowq \in Seq(Msg) /\ transcript \in Seq(Msg) /\ chatq \in Seq(Msg)
    BY DEF Init
  <2>2. lastId \in 0..MaxId /\ chatAll \in Nat
    BY BoundsAssumption DEF Init
  <2>3. entries \in Nat /\ fetches \in Nat /\ rows \in Nat /\ rowObs \in 0..rows
    BY EntriesAssumption DEF Init
  <2> QED
    BY <1>1, <2>1, <2>2, <2>3 DEF Init, TypeOK
<1>3. KeysStay /\ CacheKnown
  BY DEF Init, SyncInit, KeysStay, CacheKnown, Ids
<1>4. RowFeed = <<>>
  BY DEF Init, RowFeed
<1>5. RowExactlyOnce /\ RowTracksView /\ NotListed
  BY <1>4 DEF Init, RowExactlyOnce, DistinctIds, RowTracksView, NotListed
<1> QED
  BY <1>2, <1>3, <1>5 DEF IInv

LEMMA KeysStep == TypeOK /\ KeysStay /\ [Next]_vars => KeysStay'
<1> SUFFICES ASSUME TypeOK, KeysStay, [Next]_vars PROVE KeysStay'
  OBVIOUS
<1>1. CASE UNCHANGED versions
  BY <1>1 DEF KeysStay
<1>2. ASSUME NEW i \in PeerIds, PeerCommit(i) PROVE KeysStay'
  BY <1>2, StoreKeys, BoundsAssumption DEF PeerCommit, Msg
<1>3. ASSUME NEW m \in pend, Commit(m) PROVE KeysStay'
  BY <1>3, PendType, StoreKeys DEF Commit
<1>4. ASSUME NEW i \in 1..MaxId, Send(i) PROVE UNCHANGED versions
  BY <1>4 DEF Send, SendMessage, StartChatAndSend, Write
<1>5. CASE ViewDidAppear
  <2>1. UNCHANGED versions
    BY <1>5 DEF ViewDidAppear, Unregister, syncVars
  <2> QED
    BY <2>1, <1>1
<1> QED
  BY <1>1, <1>2, <1>3, <1>4, <1>5
  DEF Next, ListObserve, RowEvent, OpenFromList, OpenFromSearch, ExistsRead, ExistsAnswer,
      AnotherRoom, AppendEvent, OnlyNewEvent, Close, RoomCommit, PeerSends, ServerCommits, DataArrives,
      WriteAcked, Restart, Register, Receive, Ack, ForgetClient, vars, syncVars

LEMMA InvStep == IInv /\ [Next]_vars => IInv'
<1>1. IInv /\ [Next]_vars => TypeOK'
  BY TypeStep DEF IInv
<1>2. IInv /\ [Next]_vars => KeysStay'
  BY KeysStep DEF IInv
<1>3. IInv /\ [Next]_vars => CacheKnown' /\ NotListed' /\ RowExactlyOnce' /\ RowTracksView'
  BY RowStep DEF RowInv
<1> QED
  BY <1>1, <1>2, <1>3 DEF IInv

\* The inductive invariant holds in every state the program reaches.
THEOREM Invariant == Spec => []IInv
BY InvInit, InvStep, PTL DEF Spec

\* Every value is of its kind, for any number of messages and commits.
THEOREM TypeCorrect == Spec => []TypeOK
<1>1. IInv => TypeOK
  BY DEF IInv
<1> QED
  BY <1>1, Invariant, PTL

\* While the list's observer is registered the row misses no key of the view.
THEOREM RowHoldsTheView == Spec => []RowTracksView
<1>1. IInv => RowTracksView
  BY DEF IInv
<1> QED
  BY <1>1, Invariant, PTL

\* Every step of the row is a step of the exactly-once feed, or none: the list
\* only appends, stops when the chat screen stops it, and starts afresh with
\* the app.
THEOREM RowImplementsFeed == Spec => RowIsFeed
<1> DEFINE Delivered == [i \in 1..Len(RowFeed) |-> RowFeed[i].id]
<1>1. Init => Feed!FeedInit
  <2> SUFFICES ASSUME Init PROVE Feed!FeedInit
    OBVIOUS
  <2>1. RowFeed = <<>> /\ rowObs = 0 /\ rows = 0
    BY DEF Init, RowFeed
  <2>2. Delivered = <<>>
    BY <2>1
  <2> QED
    BY <2>1, <2>2 DEF Feed!FeedInit
<1>2. IInv /\ IInv' /\ [Next]_vars => [Feed!FeedNext]_(Feed!feedVars)
  <2> SUFFICES ASSUME IInv, IInv', [Next]_vars
               PROVE  Feed!FeedNext \/ UNCHANGED Feed!feedVars
    OBVIOUS
  <2>1. RowMove
    BY RowStep
  <2>2. /\ RowFeed \in Seq(Msg) /\ RowFeed' \in Seq(Msg)
        /\ rows \in Nat /\ rowObs \in Nat /\ rows' \in Nat /\ rowObs' \in Nat
    BY DEF IInv, TypeOK, RowFeed
  <2>3. Feed!Clean'
    <3>1. rows' <= 1 => DistinctIds(RowFeed')
      BY DEF IInv, RowExactlyOnce, DistinctIds
    <3>2. DistinctIds(RowFeed') => Feed!NoKeyTwice(Delivered')
      BY <2>2 DEF DistinctIds, Feed!NoKeyTwice
    <3> QED
      BY <3>1, <3>2 DEF Feed!Clean, Feed!NoKeyTwice
  <2>4. ASSUME NEW s \in Seq(Msg), RowFeed' = RowFeed \o s
        PROVE  Feed!Extends(Delivered, Delivered')
    BY <2>2, <2>4 DEF Feed!Extends
  <2>5. CASE rows' = rows /\ (rowObs' > 0 <=> rowObs > 0) /\ RowFeed' = RowFeed
    BY <2>5 DEF Feed!feedVars
  <2>6. CASE rows' = rows + 1 /\ rowObs' > 0 /\ \E s \in Seq(Msg) : RowFeed' = RowFeed \o s
    BY <2>6, <2>3, <2>4 DEF Feed!FeedNext, Feed!Open
  <2>7. CASE /\ rows' = rows /\ rowObs > 0 /\ rowObs' > 0
             /\ \E s \in Seq(Msg) : RowFeed' = RowFeed \o s
    BY <2>7, <2>3, <2>4 DEF Feed!FeedNext, Feed!Deliver
  <2>8. CASE rows' = rows /\ rowObs > 0 /\ rowObs' = 0 /\ RowFeed' = RowFeed
    BY <2>8 DEF Feed!FeedNext, Feed!Stop
  <2>9. CASE rows' = 0 /\ rowObs' = 0 /\ RowFeed' = <<>>
    <3>1. Delivered' = <<>>
      BY <2>9
    <3> QED
      BY <2>9, <3>1 DEF Feed!FeedNext, Feed!Reset
  <2> QED
    BY <2>1, <2>5, <2>6, <2>7, <2>8, <2>9 DEF RowMove
<1> QED
  BY <1>1, <1>2, Invariant, PTL DEF Spec, RowIsFeed, Feed!FeedSpec
-----------------------------------------------------------------------------
(* The observer of the last message. *)

\* The screen opened from the list knows its room from the start, so the first
\* viewDidAppear removes the observer the initialiser registered; and only a
\* screen opened from the search waits for an answer.
ScreenInv ==
  /\ LastObserverHasScreen
  /\ screen = "list" => joined
  /\ screen = "none" => ~appeared
  /\ query # "idle" => screen = "search"

LEMMA ScreenInit == Init => ScreenInv
BY DEF Init, ScreenInv, LastObserverHasScreen

LEMMA ScreenStep == ScreenInv /\ [Next]_vars => ScreenInv'
<1> SUFFICES ASSUME ScreenInv, [Next]_vars PROVE ScreenInv'
  OBVIOUS
<1> USE DEF ScreenInv, LastObserverHasScreen
<1>1. CASE UNCHANGED <<chatLast, screen, appeared, joined, query>>
  BY <1>1
<1>2. CASE OpenFromList
  BY <1>2 DEF OpenFromList
<1>3. CASE OpenFromSearch
  BY <1>3 DEF OpenFromSearch, obsVars
<1>4. CASE ExistsRead \/ ExistsAnswer
  BY <1>4 DEF ExistsRead, ExistsAnswer, obsVars
<1>5. CASE ViewDidAppear
  <2>1. screen # "none" /\ UNCHANGED <<screen, joined, query>>
    BY <1>5, Zenon DEF ViewDidAppear
  <2>2. CASE joined
    <3>1. chatLast' = FALSE
      BY <1>5, <2>2, Zenon DEF ViewDidAppear
    <3> QED
      BY <2>1, <3>1
  <2>3. CASE ~joined
    <3>1. chatLast' = chatLast
      BY <1>5, <2>3, Zenon DEF ViewDidAppear
    <3> QED
      BY <2>1, <2>3, <3>1
  <2> QED
    BY <2>2, <2>3
<1>6. ASSUME NEW i \in 1..MaxId, Send(i) PROVE ScreenInv'
  BY <1>6 DEF Send, SendMessage, StartChatAndSend
<1>7. CASE Close
  BY <1>7 DEF Close
<1>8. CASE Restart
  BY <1>8 DEF Restart
<1> QED
  BY <1>1, <1>2, <1>3, <1>4, <1>5, <1>6, <1>7, <1>8
  DEF Next, ListObserve, RowEvent, AnotherRoom, AppendEvent, OnlyNewEvent, RoomCommit,
      PeerSends, ServerCommits, DataArrives, WriteAcked, vars, screenVars, obsVars

\* The closure of the observer of the last message never runs for a view model
\* that is gone (the assertion at ChatViewModel.swift:118), whatever the ids.
THEOREM LastObserverBelongsToScreen == Spec => []LastObserverHasScreen
<1>1. ScreenInv => LastObserverHasScreen
  BY DEF ScreenInv
<1> QED
  BY <1>1, ScreenInit, ScreenStep, PTL DEF Spec
=============================================================================

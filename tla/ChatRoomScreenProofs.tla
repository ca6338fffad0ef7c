------------------------ MODULE ChatRoomScreenProofs ------------------------
(***************************************************************************)
(* How often a message is in the first row and on a chat screen, and what  *)
(* the observer of the last message does to a transcript, for any number   *)
(* of messages, commits and entries: OncePerRow, NoThirdCopy and           *)
(* OrderedTranscriptOnlyGrows.                                             *)
(*                                                                         *)
(* One count serves both the row and the screen. Each registration on the  *)
(* path is called once with each key: at once with those the view holds,   *)
(* later with the others. So the copies a feed has of a key, and those its *)
(* n registrations still owe it, are together as many as there ever were   *)
(* registrations, and what removes observers can only lower the sum.       *)
(***************************************************************************)
EXTENDS ChatRoomProofs, FiniteSetTheorems

\* What n registrations on a view S have yet to bring of the key i.
Owed(i, n, S) == IF i \in Ids(S) THEN 0 ELSE n

\* The copies of i the feed f has, and those it is to get.
Debt(i, f, n, S) == TimesIn(i, f) + Owed(i, n, S)

Places(i, s) == {n \in 1..Len(s) : s[n].id = i}

-----------------------------------------------------------------------------
(* Counting the places of a key in a sequence. *)

LEMMA PlacesFinite ==
  ASSUME NEW i, NEW s \in Seq(Msg)
  PROVE  /\ IsFiniteSet(Places(i, s))
         /\ TimesIn(i, s) = Cardinality(Places(i, s))
         /\ TimesIn(i, s) \in Nat
<1>1. IsFiniteSet(1..Len(s)) /\ Places(i, s) \in SUBSET (1..Len(s))
  <2>1. 1 \in Int /\ Len(s) \in Int
    OBVIOUS
  <2>2. QED
    BY <2>1, FS_Interval DEF Places
<1>2. IsFiniteSet(Places(i, s))
  BY <1>1, FS_Subset
<1>3. QED
  BY <1>2, FS_CardinalityType DEF Places, TimesIn

LEMMA ShiftCount ==
  ASSUME NEW S \in SUBSET Int, IsFiniteSet(S), NEW k \in Int
  PROVE  /\ IsFiniteSet({n + k : n \in S})
         /\ Cardinality({n + k : n \in S}) = Cardinality(S)
<1> DEFINE T == {n + k : n \in S}
           f == [n \in S |-> n + k]
<1>1. f \in [S -> T]
  OBVIOUS
<1>2. \A x, y \in S : f[x] = f[y] => x = y
  OBVIOUS
<1>3. \A y \in T : \E x \in S : f[x] = y
  OBVIOUS
<1> HIDE DEF T, f
<1>4. f \in Bijection(S, T)
  BY <1>1, <1>2, <1>3 DEF Bijection, Injection, Surjection, IsInjective
<1>5. ExistsBijection(S, T)
  BY <1>4 DEF ExistsBijection
<1>6. IsFiniteSet(T) /\ Cardinality(T) = Cardinality(S)
  BY <1>5, FS_Bijection
<1>7. QED
  BY <1>6 DEF T

LEMMA DisjointCount ==
  ASSUME NEW S, NEW T, IsFiniteSet(S), IsFiniteSet(T), S \cap T = {}
  PROVE  Cardinality(S \cup T) = Cardinality(S) + Cardinality(T)
<1>1. Cardinality(S \cap T) = 0
  BY FS_EmptySet
<1>2. Cardinality(S) \in Nat /\ Cardinality(T) \in Nat
  BY FS_CardinalityType
<1>3. Cardinality(S \cup T) = Cardinality(S) + Cardinality(T) - Cardinality(S \cap T)
  BY FS_Union
<1>4. QED
  BY <1>1, <1>2, <1>3

LEMMA TimesInConcat ==
  ASSUME NEW i, NEW f \in Seq(Msg), NEW g \in Seq(Msg)
  PROVE  TimesIn(i, f \o g) = TimesIn(i, f) + TimesIn(i, g)
<1> DEFINE h == f \o g
           late == {n + Len(f) : n \in Places(i, g)}
<1>1. /\ h \in Seq(Msg) /\ Len(h) = Len(f) + Len(g)
      /\ Len(f) \in Nat /\ Len(g) \in Nat
      /\ \A n \in 1..Len(f) : h[n] = f[n]
      /\ \A n \in 1..Len(g) : h[Len(f) + n] = g[n]
  OBVIOUS
<1> HIDE DEF h
<1>2. /\ IsFiniteSet(Places(i, f)) /\ IsFiniteSet(Places(i, g))
      /\ TimesIn(i, f) = Cardinality(Places(i, f))
      /\ TimesIn(i, g) = Cardinality(Places(i, g))
      /\ TimesIn(i, h) = Cardinality(Places(i, h))
  BY <1>1, PlacesFinite
<1>3. IsFiniteSet(late) /\ Cardinality(late) = Cardinality(Places(i, g))
  <2>1. Places(i, g) \in SUBSET Int /\ Len(f) \in Int
    BY <1>1 DEF Places
  <2>2. QED
    BY <1>2, <2>1, ShiftCount
<1>4. Places(i, f) \cap late = {}
  BY <1>1 DEF Places
<1>5. Places(i, h) = Places(i, f) \cup late
  <2>1. Places(i, f) \subseteq Places(i, h)
    BY <1>1 DEF Places
  <2>2. late \subseteq Places(i, h)
    BY <1>1 DEF Places
  <2>3. ASSUME NEW n \in Places(i, h) PROVE n \in Places(i, f) \cup late
    <3>1. CASE n <= Len(f)
      BY <1>1, <2>3, <3>1 DEF Places
    <3>2. CASE n > Len(f)
      <4> DEFINE d == n - Len(f)
      <4>1. d \in 1..Len(g) /\ n = d + Len(f) /\ h[n] = g[d]
        BY <1>1, <2>3, <3>2 DEF Places
      <4> HIDE DEF d
      <4>2. d \in Places(i, g)
        BY <2>3, <4>1 DEF Places
      <4>3. QED
        BY <4>1, <4>2
    <3>3. QED
      BY <1>1, <3>1, <3>2 DEF Places
  <2>4. QED
    BY <2>1, <2>2, <2>3
<1> HIDE DEF late
<1>6. QED
  BY <1>2, <1>3, <1>4, <1>5, DisjointCount DEF h

LEMMA TimesInEmpty == \A i : TimesIn(i, <<>>) = 0
<1> SUFFICES ASSUME NEW i PROVE TimesIn(i, <<>>) = 0
  OBVIOUS
<1>1. Places(i, <<>>) = {}
  BY DEF Places
<1>2. QED
  BY <1>1, FS_EmptySet DEF Places, TimesIn

\* Copies of a sequence in key order: each key comes n times, in a row.
LEMMA TimesInCopies ==
  ASSUME NEW i, NEW S \in SUBSET Msg, NEW s \in KeyOrder(S), NEW n \in Nat
  PROVE  TimesIn(i, Copies(s, n)) = IF i \in Ids(S) THEN n ELSE 0
<1> DEFINE c == Copies(s, n)
<1>1. /\ s \in Seq(Msg) /\ Len(s) \in Nat
      /\ \A k \in 1..Len(s) : s[k] \in S
      /\ \A m \in S : \E k \in 1..Len(s) : s[k] = m
  BY KeyOrderSeq
<1>2. \A k, l \in 1..Len(s) : s[k].id = s[l].id => k = l
  BY FeedOpens DEF DistinctIds
<1>3. c \in Seq(Msg) /\ Len(c) = n * Len(s) /\ n * Len(s) \in Nat
  <2>1. n * Len(s) \in Nat
    BY <1>1
  <2>2. c \in Seq(Msg)
    BY <1>1, CopiesSeq
  <2>3. QED
    BY <2>1, <2>2 DEF Copies
<1>4. \A j \in 1..(n * Len(s)) : c[j] = s[((j - 1) \div n) + 1]
  BY DEF Copies
<1>5. TimesIn(i, c) = Cardinality(Places(i, c))
  BY <1>3, PlacesFinite
<1>6. \A j \in 1..(n * Len(s)) : ((j - 1) \div n) + 1 \in 1..Len(s)
  BY <1>1, CopyIndex
<1> HIDE DEF c
<1>7. CASE i \in Ids(S) /\ n > 0
  <2>1. PICK k \in 1..Len(s) : s[k].id = i
    BY <1>1, <1>7 DEF Ids
  <2> DEFINE first == n * (k - 1) + 1
             last == n * k
  <2>2. /\ n * (k - 1) \in Nat /\ n * k \in Nat /\ n * (k - 1) + n = n * k
        /\ n * k <= n * Len(s)
    BY <1>1
  <2>3. \A j \in 1..(n * Len(s)) : ((j - 1) \div n) + 1 = k <=> j \in first..last
    <3> SUFFICES ASSUME NEW j \in 1..(n * Len(s))
                 PROVE  ((j - 1) \div n) + 1 = k <=> j \in first..last
      OBVIOUS
    <3>1. CASE ((j - 1) \div n) + 1 = k
      <4>1. (j - 1) \div n = k - 1
        BY <3>1
      <4>2. n * (k - 1) <= j - 1 /\ j - 1 < n * (k - 1) + n
        BY <4>1, <1>7
      <4>3. QED
        BY <2>2, <3>1, <4>2
    <3>2. CASE j \in first..last
      <4>1. n * (k - 1) <= j - 1 /\ j - 1 < n * (k - 1) + n
        BY <2>2, <3>2
      <4>2. (j - 1) \div n = k - 1
        BY <1>7, <4>1
      <4>3. QED
        BY <3>2, <4>2
    <3>3. QED
      BY <3>1, <3>2
  <2>4. Places(i, c) = first..last
    <3>1. \A j \in 1..Len(c) : c[j].id = i <=> j \in first..last
      <4> SUFFICES ASSUME NEW j \in 1..(n * Len(s))
                   PROVE  c[j].id = i <=> j \in first..last
        BY <1>3
      <4> DEFINE q == ((j - 1) \div n) + 1
      <4>1. q \in 1..Len(s) /\ c[j] = s[q] /\ (q = k <=> j \in first..last)
        BY <1>4, <1>6, <2>3
      <4> HIDE DEF q
      <4>2. s[q].id = i <=> q = k
        BY <1>2, <2>1, <4>1
      <4>3. QED
        BY <4>1, <4>2
    <3>2. first..last \subseteq 1..Len(c)
      BY <1>3, <2>2
    <3>3. QED
      BY <3>1, <3>2 DEF Places
  <2>5. Cardinality(first..last) = n
    <3>1. first \in Int /\ last \in Int /\ last - first + 1 = n /\ ~(first > last)
      BY <1>7, <2>2
    <3> HIDE DEF first, last
    <3>2. QED
      BY <3>1, FS_Interval
  <2>6. QED
    BY <1>5, <1>7, <2>4, <2>5 DEF c
<1>8. CASE i \notin Ids(S) \/ n = 0
  <2>1. Places(i, c) = {}
    <3>1. CASE n = 0
      BY <1>3, <3>1 DEF Places
    <3>2. CASE i \notin Ids(S)
      <4>1. \A k \in 1..Len(s) : s[k].id # i
        BY <1>1, <3>2 DEF Ids
      <4>2. \A j \in 1..Len(c) : c[j].id # i
        BY <1>3, <1>4, <1>6, <4>1
      <4>3. QED
        BY <4>2 DEF Places
    <3>3. QED
      BY <1>8, <3>1, <3>2
  <2>2. QED
    BY <1>5, <1>8, <2>1, FS_EmptySet DEF c
<1>9. QED
  BY <1>7, <1>8

LEMMA TimesInOrdered ==
  ASSUME NEW i, NEW S \in SUBSET Msg, NEW s \in KeyOrder(S)
  PROVE  TimesIn(i, s) = IF i \in Ids(S) THEN 1 ELSE 0
<1>1. Copies(s, 1) = s
  BY KeyOrderSeq, CopiesFew
<1>2. QED
  BY <1>1, TimesInCopies

-----------------------------------------------------------------------------
(* What a feed is still owed. *)

LEMMA DebtType ==
  ASSUME NEW i, NEW f \in Seq(Msg), NEW n \in Nat, NEW S
  PROVE  /\ TimesIn(i, f) \in Nat /\ Owed(i, n, S) \in 0..n
         /\ Debt(i, f, n, S) \in Nat /\ TimesIn(i, f) <= Debt(i, f, n, S)
<1>1. TimesIn(i, f) \in Nat
  BY PlacesFinite
<1>2. Owed(i, n, S) \in 0..n
  BY DEF Owed
<1>3. QED
  BY <1>1, <1>2 DEF Debt

\* Without registrations nothing is owed, whatever the view.
LEMMA DebtUnobserved ==
  ASSUME NEW i, NEW f \in Seq(Msg), NEW S
  PROVE  Debt(i, f, 0, S) = TimesIn(i, f)
BY PlacesFinite DEF Debt, Owed

\* A change of the view pays what it brings: each registration adds one copy.
LEMMA DebtPaid ==
  ASSUME NEW i, NEW f \in Seq(Msg), NEW n \in Nat,
         NEW old \in SUBSET Msg, NEW new \in SUBSET Msg,
         n > 0 => Ids(old) \subseteq Ids(new),
         NEW all \in KeyOrder(Added(old, new))
  PROVE  /\ f \o Copies(all, n) \in Seq(Msg)
         /\ Debt(i, f \o Copies(all, n), n, new) = Debt(i, f, n, old)
<1>1. Added(old, new) \in SUBSET Msg
  BY DEF Added
<1>2. all \in Seq(Msg) /\ Copies(all, n) \in Seq(Msg)
  BY <1>1, KeyOrderSeq, CopiesSeq
<1>3. TimesIn(i, Copies(all, n)) = IF i \in Ids(Added(old, new)) THEN n ELSE 0
  BY <1>1, TimesInCopies
<1>4. TimesIn(i, f \o Copies(all, n)) = TimesIn(i, f) + TimesIn(i, Copies(all, n))
  BY <1>2, TimesInConcat
<1>5. i \in Ids(Added(old, new)) <=> i \in Ids(new) /\ i \notin Ids(old)
  BY DEF Added, Ids
<1>6. TimesIn(i, f) \in Nat
  BY PlacesFinite
<1>7. TimesIn(i, Copies(all, n)) + Owed(i, n, new) = Owed(i, n, old)
  <2>1. CASE n = 0
    BY <1>3, <2>1 DEF Owed
  <2>2. CASE n > 0
    BY <1>3, <1>5, <2>2 DEF Owed
  <2>3. QED
    BY <2>1, <2>2
<1>8. Owed(i, n, new) \in Int /\ Owed(i, n, old) \in Int /\ TimesIn(i, Copies(all, n)) \in Int
  BY <1>3 DEF Owed
<1>9. QED
  BY <1>2, <1>4, <1>6, <1>7, <1>8 DEF Debt

\* One more registration is told at once what the view holds and is owed the rest.
LEMMA DebtOpens ==
  ASSUME NEW i, NEW f \in Seq(Msg), NEW n \in Nat, NEW S \in SUBSET Msg,
         NEW first \in KeyOrder(S)
  PROVE  /\ f \o first \in Seq(Msg)
         /\ Debt(i, f \o first, n + 1, S) = Debt(i, f, n, S) + 1
<1>1. first \in Seq(Msg)
  BY KeyOrderSeq
<1>2. TimesIn(i, f \o first) = TimesIn(i, f) + TimesIn(i, first)
  BY <1>1, TimesInConcat
<1>3. TimesIn(i, first) = IF i \in Ids(S) THEN 1 ELSE 0
  BY TimesInOrdered
<1>4. TimesIn(i, f) \in Nat
  BY PlacesFinite
<1>5. QED
  BY <1>1, <1>2, <1>3, <1>4 DEF Debt, Owed

-----------------------------------------------------------------------------
(* How the view changes under registrations of the whole path. *)

\* The actions that raise what is new in the view take no key away from it.
LEMMA RaisedKeys ==
  ASSUME IInv,
         (\E i \in 1..MaxId : Send(i) /\ SendMessage(i)) \/ DataArrives \/ WriteAcked
  PROVE  /\ cache \in SUBSET Msg /\ cache' \in SUBSET Msg
         /\ Raise
         /\ Wide => Ids(cache) \subseteq Ids(cache')
<1>1. TypeOK /\ KeysStay /\ CacheKnown
  BY DEF IInv
<1>2. Wide \in BOOLEAN
  BY DEF Wide
<1>3. CASE \E i \in 1..MaxId : Send(i) /\ SendMessage(i)
  <2>1. PICK i \in 1..MaxId : Send(i) /\ SendMessage(i)
    BY <1>3
  <2> DEFINE m == [id |-> i, by |-> "me"]
  <2>2. Raise /\ cache' = IF Viewed THEN Overlay(cache, {m}) ELSE cache
    BY <2>1 DEF SendMessage, Write
  <2>3. {m} \in SUBSET Msg /\ cache \in SUBSET Msg
    BY <1>1 DEF Msg, TypeOK, SyncTypeOK
  <2>4. Overlay(cache, {m}) \in SUBSET Msg
        /\ Ids(Overlay(cache, {m})) = Ids(cache) \cup Ids({m})
    BY <2>3, OverlayIds
  <2>5. QED
    BY <2>2, <2>3, <2>4
<1>4. CASE DataArrives \/ WriteAcked
  <2>1. Wide => Ids(cache) \subseteq Ids(cache')
    BY <1>1, <1>2, <1>4, ReceiveKeys, AckKeys DEF DataArrives, WriteAcked
  <2>2. TypeOK'
    <3>1. [Next]_vars
      BY <1>4 DEF Next
    <3>2. QED
      BY <1>1, <3>1, TypeStep
  <2>3. QED
    BY <1>1, <1>4, <2>1, <2>2 DEF DataArrives, WriteAcked, TypeOK, SyncTypeOK
<1>5. QED
  BY <1>3, <1>4

\* startChat: the new registration is told the view it joins, and then all of them
\* the message.
LEMMA StartedKeys ==
  ASSUME IInv, NEW i \in 1..MaxId, Send(i), StartChatAndSend(i)
  PROVE  \E held \in SUBSET Msg :
           /\ held = IF Viewed THEN cache ELSE pend
           /\ cache' \in SUBSET Msg /\ Ids(held) \subseteq Ids(cache')
           /\ chatAll' = chatAll + 1
           /\ \E first \in KeyOrder(held), new \in KeyOrder(Added(held, cache')) :
                /\ chatq' = chatq \o first \o Copies(new, chatAll')
                /\ rowq' = rowq \o Copies(new, rowObs)
<1> DEFINE m == [id |-> i, by |-> "me"]
           held == IF Viewed THEN cache ELSE pend
<1>1. {m} \in SUBSET Msg /\ cache \in SUBSET Msg /\ pend \in SUBSET Msg
  BY PendType DEF IInv, Msg, TypeOK, SyncTypeOK
<1>2. held \in SUBSET Msg
  BY <1>1
<1>3. cache' = Overlay(held, {m})
  BY DEF StartChatAndSend
<1>4. cache' \in SUBSET Msg /\ Ids(cache') = Ids(held) \cup Ids({m})
  BY <1>1, <1>2, <1>3, OverlayIds
<1>5. /\ chatAll' = chatAll + 1
      /\ \E first \in KeyOrder(held), new \in KeyOrder(Added(held, cache')) :
           /\ chatq' = chatq \o first \o Copies(new, chatAll')
           /\ rowq' = rowq \o Copies(new, rowObs)
  BY DEF StartChatAndSend
<1>6. Ids(held) \subseteq Ids(cache')
  BY <1>4
<1> HIDE DEF m
<1>7. QED
  BY <1>2, <1>4, <1>5, <1>6

-----------------------------------------------------------------------------
(* The first row. *)

\* A key's copies in the first row and those its observers owe it are at most one
\* for each row, and just as many while no observer was removed.
RowOwes ==
  \A i \in 1..MaxId :
    /\ Debt(i, RowFeed, rowObs, cache) <= rows
    /\ rowObs = rows => Debt(i, RowFeed, rowObs, cache) = rows

LEMMA RowFacts ==
  ASSUME IInv
  PROVE  /\ RowFeed \in Seq(Msg) /\ row \in Seq(Msg) /\ rowq \in Seq(Msg)
         /\ rowObs \in Nat /\ rows \in Nat /\ rowObs <= rows
         /\ cache \in SUBSET Msg /\ pend \in SUBSET Msg
         /\ rowObs > 0 => Wide /\ Viewed
BY PendType DEF IInv, TypeOK, SyncTypeOK, RowFeed, Wide, Viewed

LEMMA RowDebtKept ==
  ASSUME RowOwes, rows' = rows, rowObs' = rowObs,
         \A i \in 1..MaxId : Debt(i, RowFeed', rowObs', cache') = Debt(i, RowFeed, rowObs, cache)
  PROVE  RowOwes'
BY DEF RowOwes, Debt, Owed, TimesIn, Ids

LEMMA RowDebtSame ==
  ASSUME IInv, RowOwes, RowFeed' = RowFeed, rows' = rows, rowObs' = rowObs,
         rowObs > 0 => cache' = cache
  PROVE  RowOwes'
<1> SUFFICES ASSUME NEW i \in 1..MaxId
             PROVE  Debt(i, RowFeed', rowObs', cache') = Debt(i, RowFeed, rowObs, cache)
  BY RowDebtKept
<1>1. CASE rowObs > 0
  BY <1>1
<1>2. CASE ~(rowObs > 0)
  <2>1. rowObs = 0 /\ RowFeed \in Seq(Msg)
    BY <1>2, RowFacts
  <2>2. QED
    BY <2>1, DebtUnobserved
<1>3. QED
  BY <1>1, <1>2

LEMMA RowDebtPaid ==
  ASSUME IInv, RowOwes, row' = row, rows' = rows, rowObs' = rowObs,
         NEW old \in SUBSET Msg, rowObs > 0 => old = cache,
         cache' \in SUBSET Msg, rowObs > 0 => Ids(old) \subseteq Ids(cache'),
         NEW all \in KeyOrder(Added(old, cache')), rowq' = rowq \o Copies(all, rowObs)
  PROVE  RowOwes'
<1> SUFFICES ASSUME NEW i \in 1..MaxId
             PROVE  Debt(i, RowFeed', rowObs', cache') = Debt(i, RowFeed, rowObs, cache)
  BY RowDebtKept
<1>1. /\ RowFeed \in Seq(Msg) /\ row \in Seq(Msg) /\ rowq \in Seq(Msg) /\ rowObs \in Nat
  BY RowFacts
<1>2. Copies(all, rowObs) \in Seq(Msg)
  <2>1. Added(old, cache') \in SUBSET Msg
    BY DEF Added
  <2>2. QED
    BY <1>1, <2>1, KeyOrderSeq, CopiesSeq
<1>3. RowFeed' = RowFeed \o Copies(all, rowObs)
  BY <1>1, <1>2, ConcatAssoc DEF RowFeed
<1>4. Debt(i, RowFeed', rowObs, cache') = Debt(i, RowFeed, rowObs, old)
  BY <1>1, <1>3, DebtPaid
<1>5. Debt(i, RowFeed, rowObs, old) = Debt(i, RowFeed, rowObs, cache)
  <2>1. CASE rowObs > 0
    BY <2>1
  <2>2. CASE ~(rowObs > 0)
    <3>1. rowObs = 0
      BY <1>1, <2>2
    <3>2. QED
      BY <1>1, <3>1, DebtUnobserved
  <2>3. QED
    BY <2>1, <2>2
<1>6. QED
  BY <1>4, <1>5

LEMMA RowOwesListObserve ==
  ASSUME IInv, RowOwes, TypeOK', ListObserve
  PROVE  RowOwes'
<1>1. /\ RowFeed \in Seq(Msg) /\ row \in Seq(Msg) /\ rowq \in Seq(Msg)
      /\ rowObs \in Nat /\ rows \in Nat /\ rowObs <= rows
  BY RowFacts
<1>2. /\ rows' = rows + 1 /\ rowObs' = rowObs + 1 /\ row' = row
      /\ cache' = IF Viewed THEN cache ELSE pend
  BY DEF ListObserve, Register
<1>3. PICK first \in KeyOrder(cache') : rowq' = rowq \o first
  BY DEF ListObserve
<1>4. cache' \in SUBSET Msg
  BY DEF TypeOK, SyncTypeOK
<1>5. RowFeed' = RowFeed \o first
  BY <1>1, <1>2, <1>3, <1>4, KeyOrderSeq, ConcatAssoc DEF RowFeed
<1>6. ASSUME NEW i \in 1..MaxId
      PROVE  Debt(i, RowFeed', rowObs', cache') = Debt(i, RowFeed, rowObs, cache) + 1
  <2>1. Debt(i, RowFeed', rowObs', cache') = Debt(i, RowFeed, rowObs, cache') + 1
    BY <1>1, <1>2, <1>4, <1>5, DebtOpens
  <2>2. Debt(i, RowFeed, rowObs, cache') = Debt(i, RowFeed, rowObs, cache)
    <3>1. CASE rowObs > 0
      BY <1>2, <3>1, RowFacts
    <3>2. CASE ~(rowObs > 0)
      <4>1. rowObs = 0
        BY <1>1, <3>2
      <4>2. QED
        BY <1>1, <4>1, DebtUnobserved
    <3>3. QED
      BY <3>1, <3>2
  <2>3. QED
    BY <2>1, <2>2
<1>7. \A i \in 1..MaxId : Debt(i, RowFeed, rowObs, cache) \in Nat
  BY <1>1, DebtType
<1>8. \A i \in 1..MaxId :
        /\ Debt(i, RowFeed', rowObs', cache') <= rows'
        /\ rowObs' = rows' => Debt(i, RowFeed', rowObs', cache') = rows'
  BY <1>1, <1>2, <1>6, <1>7 DEF RowOwes
<1>9. QED
  BY <1>8 DEF RowOwes, Debt, Owed, TimesIn, Ids

LEMMA RowOwesViewDidAppear ==
  ASSUME IInv, RowOwes, ViewDidAppear
  PROVE  RowOwes'
<1>1. UNCHANGED <<row, rowq, rows>>
  BY Zenon DEF ViewDidAppear
<1>2. RowFeed' = RowFeed
  BY <1>1 DEF RowFeed
<1>3. CASE joined
  <2>1. rowObs' = 0
    BY <1>3, Zenon DEF ViewDidAppear
  <2>2. /\ RowFeed \in Seq(Msg) /\ rowObs \in Nat /\ rows \in Nat /\ rowObs <= rows
    BY RowFacts
  <2>3. ASSUME NEW i \in 1..MaxId
        PROVE  /\ Debt(i, RowFeed', rowObs', cache') <= rows'
               /\ rowObs' = rows' => Debt(i, RowFeed', rowObs', cache') = rows'
    <3>1. Debt(i, RowFeed', rowObs', cache') = TimesIn(i, RowFeed)
      BY <1>2, <2>1, <2>2, DebtUnobserved
    <3>2. /\ TimesIn(i, RowFeed) \in Nat
          /\ Debt(i, RowFeed, rowObs, cache) \in Nat
          /\ TimesIn(i, RowFeed) <= Debt(i, RowFeed, rowObs, cache)
      BY <2>2, DebtType
    <3>3. Debt(i, RowFeed, rowObs, cache) <= rows
      BY DEF RowOwes
    <3>4. QED
      BY <1>1, <2>1, <2>2, <3>1, <3>2, <3>3
  <2>4. QED
    BY <2>3 DEF RowOwes, Debt, Owed, TimesIn, Ids
<1>4. CASE ~joined
  <2>1. UNCHANGED <<syncVars, rowObs>>
    BY <1>4, Zenon DEF ViewDidAppear
  <2>2. QED
    BY <1>1, <1>2, <2>1, RowDebtSame DEF syncVars
<1>5. QED
  BY <1>3, <1>4

LEMMA RowOwesStep == IInv /\ RowOwes /\ [Next]_vars => RowOwes'
<1> SUFFICES ASSUME IInv, RowOwes, [Next]_vars PROVE RowOwes'
  OBVIOUS
<1>1. TypeOK'
  BY TypeStep DEF IInv
<1>2. CASE ListObserve
  BY <1>1, <1>2, RowOwesListObserve
<1>3. CASE ViewDidAppear
  BY <1>3, RowOwesViewDidAppear
<1>4. CASE RowEvent
  <2>1. RowFeed' = RowFeed
    BY <1>4, RowFacts, HeadMoves DEF RowEvent, RowFeed
  <2>2. UNCHANGED <<cache, rowObs, rows>>
    BY <1>4 DEF RowEvent, syncVars
  <2>3. QED
    BY <2>1, <2>2, RowDebtSame
<1>5. CASE \/ OpenFromSearch \/ ExistsRead \/ ExistsAnswer \/ AppendEvent \/ OnlyNewEvent
           \/ Close \/ RoomCommit \/ AnotherRoom \/ PeerSends \/ ServerCommits \/ OpenFromList
           \/ UNCHANGED vars
  <2>1. UNCHANGED <<row, rowq, rowObs, rows>>
    BY <1>5 DEF OpenFromSearch, ExistsRead, ExistsAnswer, AppendEvent, OnlyNewEvent, Close,
                RoomCommit, AnotherRoom, PeerSends, ServerCommits, OpenFromList, vars, listVars
  <2>2. rowObs > 0 => cache' = cache
    <3>1. CASE OpenFromList
      BY <3>1, RowFacts DEF OpenFromList, Register
    <3>2. CASE ~OpenFromList
      BY <1>5, <3>2 DEF OpenFromSearch, ExistsRead, ExistsAnswer, AppendEvent, OnlyNewEvent, Close,
                        RoomCommit, AnotherRoom, PeerSends, PeerCommit, ServerCommits, Commit,
                        vars, syncVars
    <3>3. QED
      BY <3>1, <3>2
  <2>3. RowFeed' = RowFeed
    BY <2>1 DEF RowFeed
  <2>4. QED
    BY <2>1, <2>2, <2>3, RowDebtSame
<1>6. CASE (\E i \in 1..MaxId : Send(i) /\ SendMessage(i)) \/ DataArrives \/ WriteAcked
  <2>1. /\ cache \in SUBSET Msg /\ cache' \in SUBSET Msg
        /\ Raise
        /\ Wide => Ids(cache) \subseteq Ids(cache')
    BY <1>6, RaisedKeys
  <2>2. PICK all \in KeyOrder(Added(cache, cache')) : rowq' = rowq \o Copies(all, rowObs)
    BY <2>1 DEF Raise
  <2>3. UNCHANGED <<row, rowObs, rows>>
    BY <1>6 DEF DataArrives, WriteAcked, Send
  <2>4. rowObs > 0 => Ids(cache) \subseteq Ids(cache')
    BY <2>1, RowFacts
  <2>5. QED
    BY <2>1, <2>2, <2>3, <2>4, RowDebtPaid
<1>7. CASE \E i \in 1..MaxId : Send(i) /\ StartChatAndSend(i)
  <2>1. PICK i \in 1..MaxId : Send(i) /\ StartChatAndSend(i)
    BY <1>7
  <2>2. PICK held \in SUBSET Msg :
           /\ held = IF Viewed THEN cache ELSE pend
           /\ cache' \in SUBSET Msg /\ Ids(held) \subseteq Ids(cache')
           /\ \E first \in KeyOrder(held), new \in KeyOrder(Added(held, cache')) :
                rowq' = rowq \o Copies(new, rowObs)
    BY <2>1, StartedKeys
  <2>3. PICK new \in KeyOrder(Added(held, cache')) : rowq' = rowq \o Copies(new, rowObs)
    BY <2>2
  <2>4. UNCHANGED <<row, rowObs, rows>>
    BY <2>1 DEF Send
  <2>5. rowObs > 0 => held = cache
    BY <2>2, RowFacts
  <2>6. QED
    BY <2>2, <2>3, <2>4, <2>5, RowDebtPaid
<1>8. CASE Restart
  <2>1. rows' = 0 /\ rowObs' = 0 /\ row' = <<>> /\ rowq' = <<>>
    BY <1>8 DEF Restart
  <2>2. RowFeed' = <<>> /\ <<>> \in Seq(Msg)
    BY <2>1 DEF RowFeed
  <2>3. \A i \in 1..MaxId : Debt(i, RowFeed', rowObs', cache') = 0
    BY <2>1, <2>2, DebtUnobserved, TimesInEmpty
  <2>4. \A i \in 1..MaxId :
          /\ Debt(i, RowFeed', rowObs', cache') <= rows'
          /\ rowObs' = rows' => Debt(i, RowFeed', rowObs', cache') = rows'
    BY <2>1, <2>3
  <2>5. QED
    BY <2>4 DEF RowOwes, Debt, Owed, TimesIn, Ids
<1>9. QED
  BY <1>2, <1>3, <1>4, <1>5, <1>6, <1>7, <1>8 DEF Next, Send

LEMMA RowOwesInit == Init => RowOwes
<1> SUFFICES ASSUME Init PROVE RowOwes
  OBVIOUS
<1>1. RowFeed = <<>> /\ <<>> \in Seq(Msg) /\ rows = 0 /\ rowObs = 0
  BY DEF Init, RowFeed
<1>2. \A i \in 1..MaxId : Debt(i, RowFeed, rowObs, cache) = 0
  BY <1>1, DebtUnobserved, TimesInEmpty
<1>3. QED
  BY <1>1, <1>2 DEF RowOwes

\* OncePerRow: for any number of rows, messages and commits the first row holds each
\* message once for each row of the list (chatRoomsIDs' willSet fetches newValue.first
\* once per entry), no more, and no fewer while no observer of the list was removed.
THEOREM RowHoldsOncePerRow == Spec => []OncePerRow
<1>1. IInv /\ RowOwes => OncePerRow
  <2> SUFFICES ASSUME IInv, RowOwes, NEW i \in 1..MaxId
               PROVE  /\ TimesIn(i, RowFeed) <= rows
                      /\ rowObs = rows /\ i \in Ids(cache) => TimesIn(i, RowFeed) = rows
    BY DEF OncePerRow
  <2>1. RowFeed \in Seq(Msg) /\ rowObs \in Nat /\ rows \in Nat
    BY RowFacts
  <2>2. /\ TimesIn(i, RowFeed) \in Nat
        /\ Debt(i, RowFeed, rowObs, cache) \in Nat
        /\ TimesIn(i, RowFeed) <= Debt(i, RowFeed, rowObs, cache)
    BY <2>1, DebtType
  <2>3. /\ Debt(i, RowFeed, rowObs, cache) <= rows
        /\ rowObs = rows => Debt(i, RowFeed, rowObs, cache) = rows
    BY DEF RowOwes
  <2>4. i \in Ids(cache) => Debt(i, RowFeed, rowObs, cache) = TimesIn(i, RowFeed)
    BY <2>2 DEF Debt, Owed
  <2>5. QED
    BY <2>1, <2>2, <2>3, <2>4
<1>2. Spec => []RowOwes
  <2>1. QED
    BY Invariant, RowOwesInit, RowOwesStep, PTL DEF Spec
<1>3. QED
  BY <1>1, <1>2, Invariant, PTL

-----------------------------------------------------------------------------
(* The chat screen opened from the search. *)

\* What the screen shows or is about to show.
Shown == transcript \o chatq

\* A screen that is not open knows of no chat; only one opened from the search
\* observes the whole path; one still asking has not started the chat.
ScreenAsks ==
  /\ screen = "none" => ~joined
  /\ screen # "search" => chatAll = 0
  /\ query = "asked" => ~joined

Blank == screen = "none" => transcript = <<>> /\ chatq = <<>>

\* How often the screen may still start the chat: once if it does not know that
\* the chat exists, and once more if the answer to come may make it forget.
StartsLeft ==
  (IF query \in {"asked", "nil"} THEN 1 ELSE 0) + (IF joined THEN 0 ELSE 1)

\* Every start of the chat registers once, so the copies of a key shown, those
\* still owed, and the starts that are left are together at most two.
ScreenOwes ==
  screen = "search" =>
    \A i \in 1..MaxId : Debt(i, Shown, chatAll, cache) + StartsLeft <= 2

SInv == IInv /\ ScreenInv /\ ScreenAsks /\ Blank /\ ScreenOwes

LEMMA ScreenAsksStep == TypeOK /\ ScreenInv /\ ScreenAsks /\ [Next]_vars => ScreenAsks'
<1> SUFFICES ASSUME TypeOK, ScreenInv, ScreenAsks, [Next]_vars PROVE ScreenAsks'
  OBVIOUS
<1> USE DEF ScreenInv, ScreenAsks
<1>1. CASE UNCHANGED <<screen, joined, query, chatAll>>
  BY <1>1
<1>2. CASE OpenFromList
  BY <1>2 DEF OpenFromList
<1>3. CASE OpenFromSearch
  BY <1>3 DEF OpenFromSearch, obsVars
<1>4. CASE ExistsRead \/ ExistsAnswer
  BY <1>4 DEF ExistsRead, ExistsAnswer, obsVars
<1>5. CASE ViewDidAppear
  <2>1. UNCHANGED <<screen, joined, query>>
    BY <1>5, Zenon DEF ViewDidAppear
  <2>2. chatAll' = 0 \/ chatAll' = chatAll
    BY <1>5, Zenon DEF ViewDidAppear
  <2>3. QED
    BY <2>1, <2>2
<1>6. ASSUME NEW i \in 1..MaxId, Send(i) PROVE ScreenAsks'
  <2>1. screen # "none" /\ screen' = screen
    BY <1>6 DEF Send
  <2>2. CASE SendMessage(i)
    BY <2>1, <2>2 DEF SendMessage
  <2>3. CASE StartChatAndSend(i)
    <3>1. ~joined /\ joined' = TRUE /\ query' # "asked"
      BY <2>3 DEF StartChatAndSend
    <3>2. screen = "search"
      BY <3>1, <2>1 DEF TypeOK
    <3>3. QED
      BY <2>1, <3>1, <3>2
  <2>4. QED
    BY <1>6, <2>2, <2>3 DEF Send
<1>7. CASE Close
  BY <1>7 DEF Close
<1>8. CASE Restart
  BY <1>8 DEF Restart
<1>9. QED
  BY <1>1, <1>2, <1>3, <1>4, <1>5, <1>6, <1>7, <1>8
  DEF Next, ListObserve, RowEvent, AnotherRoom, AppendEvent, OnlyNewEvent, RoomCommit,
      PeerSends, ServerCommits, DataArrives, WriteAcked, vars, screenVars, obsVars

LEMMA ScreenFacts ==
  ASSUME SInv
  PROVE  /\ Shown \in Seq(Msg) /\ transcript \in Seq(Msg) /\ chatq \in Seq(Msg)
         /\ chatAll \in Nat
         /\ cache \in SUBSET Msg /\ pend \in SUBSET Msg
         /\ chatAll > 0 => Wide /\ Viewed
         /\ screen # "list" => ~chatLast
         /\ screen # "search" => chatAll = 0
BY PendType DEF SInv, IInv, TypeOK, SyncTypeOK, Shown, Wide, Viewed, ScreenInv, ScreenAsks,
                LastObserverHasScreen

\* The screen shows and is owed no more than before, and may start no more often.
LEMMA ScreenDebtKept ==
  ASSUME ScreenOwes, screen' = "search" => screen = "search", StartsLeft' <= StartsLeft,
         StartsLeft \in Int, StartsLeft' \in Int,
         \A i \in 1..MaxId :
           /\ Debt(i, Shown', chatAll', cache') <= Debt(i, Shown, chatAll, cache)
           /\ Debt(i, Shown', chatAll', cache') \in Int
           /\ Debt(i, Shown, chatAll, cache) \in Int
  PROVE  ScreenOwes'
<1>1. screen' = "search" =>
        \A i \in 1..MaxId : Debt(i, Shown', chatAll', cache') + StartsLeft' <= 2
  BY DEF ScreenOwes
<1>2. QED
  BY <1>1 DEF ScreenOwes, Debt, Owed, TimesIn, Ids

LEMMA StartsInt == StartsLeft \in 0..2 /\ StartsLeft' \in 0..2
BY DEF StartsLeft

LEMMA ScreenDebtSame ==
  ASSUME SInv, screen' = screen, Shown' = Shown, chatAll' = chatAll, StartsLeft' <= StartsLeft,
         chatAll > 0 => cache' = cache
  PROVE  ScreenOwes'
<1>1. ASSUME NEW i \in 1..MaxId
      PROVE  /\ Debt(i, Shown', chatAll', cache') = Debt(i, Shown, chatAll, cache)
             /\ Debt(i, Shown, chatAll, cache) \in Nat
  <2>1. Debt(i, Shown, chatAll, cache) \in Nat
    BY ScreenFacts, DebtType
  <2>2. CASE chatAll > 0
    BY <2>1, <2>2
  <2>3. CASE ~(chatAll > 0)
    <3>1. chatAll = 0 /\ Shown \in Seq(Msg)
      BY <2>3, ScreenFacts
    <3>2. QED
      BY <2>1, <3>1, DebtUnobserved
  <2>4. QED
    BY <2>2, <2>3
<1>2. QED
  BY <1>1, StartsInt, ScreenDebtKept DEF SInv

\* Where no observer of the last message is registered, what is new in the view
\* goes to the observers of the whole path only.
LEMMA ScreenDebtPaid ==
  ASSUME SInv, Raise, cache' \in SUBSET Msg, Wide => Ids(cache) \subseteq Ids(cache'),
         UNCHANGED <<screen, transcript, chatAll, joined, query>>
  PROVE  Blank' /\ ScreenOwes'
<1>1. PICK all \in KeyOrder(Added(cache, cache')),
           last \in KeyOrder(Added(Last1(cache), Last1(cache'))) :
        chatq' = (IF chatLast THEN chatq \o last ELSE chatq) \o Copies(all, chatAll)
  BY DEF Raise
<1>2. screen # "list" => chatq' = chatq \o Copies(all, chatAll)
  BY <1>1, ScreenFacts
<1>3. Added(cache, cache') \in SUBSET Msg
  BY DEF Added
<1>4. all \in Seq(Msg) /\ Copies(all, chatAll) \in Seq(Msg) /\ Copies(all, 0) = <<>>
  BY <1>3, KeyOrderSeq, CopiesSeq, CopiesFew, ScreenFacts
<1>5. Blank'
  <2> SUFFICES ASSUME screen = "none" PROVE transcript = <<>> /\ chatq' = <<>>
    BY DEF Blank
  <2>1. chatAll = 0 /\ transcript = <<>> /\ chatq = <<>>
    BY ScreenFacts DEF SInv, Blank
  <2>2. QED
    BY <1>2, <1>4, <2>1
<1>6. ScreenOwes'
  <2>1. CASE screen # "search"
    BY <2>1 DEF ScreenOwes
  <2>2. CASE screen = "search"
    <3>0. /\ Shown \in Seq(Msg) /\ transcript \in Seq(Msg) /\ chatq \in Seq(Msg)
          /\ chatAll \in Nat /\ cache \in SUBSET Msg /\ (chatAll > 0 => Wide)
      BY ScreenFacts
    <3>1. Shown' = Shown \o Copies(all, chatAll)
      <4>1. chatq' = chatq \o Copies(all, chatAll)
        BY <1>2, <2>2
      <4>2. transcript \o (chatq \o Copies(all, chatAll)) = Shown \o Copies(all, chatAll)
        BY <1>4, <3>0, ConcatAssoc DEF Shown
      <4>3. QED
        BY <4>1, <4>2 DEF Shown
    <3>2. ASSUME NEW i \in 1..MaxId
          PROVE  /\ Debt(i, Shown', chatAll', cache') = Debt(i, Shown, chatAll, cache)
                 /\ Debt(i, Shown, chatAll, cache) \in Nat
      <4>1. Debt(i, Shown \o Copies(all, chatAll), chatAll, cache')
              = Debt(i, Shown, chatAll, cache)
        BY <3>0, DebtPaid
      <4>2. Debt(i, Shown, chatAll, cache) \in Nat
        BY <3>0, DebtType
      <4>3. QED
        BY <3>1, <4>1, <4>2
    <3>3. StartsLeft' = StartsLeft
      BY DEF StartsLeft
    <3>4. QED
      BY <3>2, <3>3, StartsInt, ScreenDebtKept DEF SInv
  <2>3. QED
    BY <2>1, <2>2
<1>7. QED
  BY <1>5, <1>6

\* Starting the chat registers once more, and is one start less to come.
LEMMA ScreenDebtStarted ==
  ASSUME SInv, NEW i \in 1..MaxId, Send(i), StartChatAndSend(i)
  PROVE  Blank' /\ ScreenOwes'
<1>1. PICK held \in SUBSET Msg :
        /\ held = IF Viewed THEN cache ELSE pend
        /\ cache' \in SUBSET Msg /\ Ids(held) \subseteq Ids(cache')
        /\ chatAll' = chatAll + 1
        /\ \E first \in KeyOrder(held), new \in KeyOrder(Added(held, cache')) :
             chatq' = chatq \o first \o Copies(new, chatAll')
  BY StartedKeys DEF SInv
<1>2. PICK first \in KeyOrder(held), new \in KeyOrder(Added(held, cache')) :
        chatq' = chatq \o first \o Copies(new, chatAll')
  BY <1>1
<1>3. screen # "none" /\ screen' = screen /\ transcript' = transcript
  BY DEF Send
<1>4. StartsLeft' + 1 <= StartsLeft
  BY DEF StartChatAndSend, StartsLeft
<1>5. /\ Shown \in Seq(Msg) /\ transcript \in Seq(Msg) /\ chatq \in Seq(Msg)
      /\ chatAll \in Nat /\ chatAll' \in Nat
  BY <1>1, ScreenFacts
<1>6. first \in Seq(Msg) /\ Copies(new, chatAll') \in Seq(Msg)
  <2>1. Added(held, cache') \in SUBSET Msg
    BY <1>1 DEF Added
  <2>2. new \in Seq(Msg)
    BY <2>1, KeyOrderSeq
  <2>3. QED
    BY <1>5, <2>2, KeyOrderSeq, CopiesSeq
<1> DEFINE told == Shown \o first
<1>7. told \in Seq(Msg) /\ Shown' = told \o Copies(new, chatAll')
  <2> DEFINE late == chatq \o first
             more == Copies(new, chatAll')
  <2>1. told \in Seq(Msg) /\ late \in Seq(Msg)
    BY <1>5, <1>6
  <2>2. told = transcript \o late
    BY <1>5, <1>6, ConcatAssoc, Zenon DEF Shown
  <2>3. Shown' = transcript \o (late \o more)
    BY <1>2, <1>3 DEF Shown
  <2>4. more \in Seq(Msg)
    BY <1>6
  <2> HIDE DEF late, more
  <2>5. transcript \o (late \o more) = (transcript \o late) \o more
    BY <1>5, <2>1, <2>4, ConcatAssoc, Zenon
  <2>6. Shown' = told \o more
    BY <2>2, <2>3, <2>5
  <2>7. QED
    BY <2>1, <2>6 DEF more
<1>8. ASSUME NEW k \in 1..MaxId
      PROVE  /\ Debt(k, Shown', chatAll', cache') = Debt(k, Shown, chatAll, cache) + 1
             /\ Debt(k, Shown, chatAll, cache) \in Nat
  <2>1. Debt(k, told, chatAll', held) = Debt(k, Shown, chatAll, held) + 1
    BY <1>1, <1>5, DebtOpens
  <2>2. Debt(k, Shown', chatAll', cache') = Debt(k, told, chatAll', held)
    <3> HIDE DEF told
    <3>1. QED
      BY <1>1, <1>2, <1>5, <1>7, DebtPaid
  <2>3. Debt(k, Shown, chatAll, held) = Debt(k, Shown, chatAll, cache)
    <3>1. CASE chatAll > 0
      BY <1>1, <3>1, ScreenFacts
    <3>2. CASE ~(chatAll > 0)
      <4>1. chatAll = 0
        BY <1>5, <3>2
      <4>2. QED
        BY <1>5, <4>1, DebtUnobserved
    <3>3. QED
      BY <3>1, <3>2
  <2>4. Debt(k, Shown, chatAll, cache) \in Nat
    BY <1>5, DebtType
  <2>5. QED
    BY <2>1, <2>2, <2>3, <2>4
<1> HIDE DEF told
<1>9. screen' = "search" =>
        \A k \in 1..MaxId : Debt(k, Shown', chatAll', cache') + StartsLeft' <= 2
  <2>1. screen = "search" =>
          \A k \in 1..MaxId : Debt(k, Shown, chatAll, cache) + StartsLeft <= 2
    BY DEF SInv, ScreenOwes
  <2>2. StartsLeft \in Int /\ StartsLeft' \in Int
    BY StartsInt
  <2>3. ASSUME screen = "search", NEW k \in 1..MaxId
        PROVE  Debt(k, Shown', chatAll', cache') + StartsLeft' <= 2
    <3>1. Debt(k, Shown, chatAll, cache) + StartsLeft <= 2
      BY <2>1, <2>3
    <3>2. /\ Debt(k, Shown', chatAll', cache') = Debt(k, Shown, chatAll, cache) + 1
          /\ Debt(k, Shown, chatAll, cache) \in Nat
      BY <1>8
    <3> DEFINE d == Debt(k, Shown, chatAll, cache)
               e == Debt(k, Shown', chatAll', cache')
               n == StartsLeft
               q == StartsLeft'
    <3>3. /\ d + n <= 2
          /\ e = d + 1 /\ d \in Int
          /\ q + 1 <= n
          /\ n \in Int /\ q \in Int
      <4>1. d + n <= 2
        BY <3>1
      <4>2. e = d + 1 /\ d \in Int
        BY <3>2
      <4>3. q + 1 <= n
        BY <1>4
      <4>4. n \in Int /\ q \in Int
        BY <2>2
      <4>5. QED
        BY <4>1, <4>2, <4>3, <4>4
    <3> HIDE DEF d, e, n, q
    <3>4. e + q <= 2
      BY <3>3
    <3>5. QED
      BY <3>4 DEF e, q
  <2>4. QED
    BY <1>3, <2>3
<1>10. ScreenOwes'
  BY <1>9 DEF ScreenOwes, Debt, Owed, TimesIn, Ids
<1>11. Blank'
  BY <1>3 DEF Blank
<1>12. QED
  BY <1>10, <1>11

LEMMA ScreenOwesStep == SInv /\ [Next]_vars => Blank' /\ ScreenOwes'
<1> SUFFICES ASSUME SInv, [Next]_vars PROVE Blank' /\ ScreenOwes'
  OBVIOUS
<1>1. /\ Shown \in Seq(Msg) /\ transcript \in Seq(Msg) /\ chatq \in Seq(Msg)
      /\ chatAll \in Nat
      /\ cache \in SUBSET Msg /\ pend \in SUBSET Msg
      /\ chatAll > 0 => Wide /\ Viewed
      /\ screen # "search" => chatAll = 0
  BY ScreenFacts
<1>2. UNCHANGED <<screen, transcript, chatq>> => Blank' /\ Shown' = Shown
  BY DEF SInv, Blank, Shown
<1>3. UNCHANGED <<joined, query>> => StartsLeft' = StartsLeft
  BY DEF StartsLeft
<1>4. CASE \/ ListObserve \/ RowEvent \/ AnotherRoom \/ RoomCommit \/ PeerSends \/ ServerCommits
           \/ UNCHANGED vars
  <2>1. UNCHANGED <<screen, transcript, chatq, chatAll, joined, query>>
    BY <1>4 DEF ListObserve, RowEvent, AnotherRoom, RoomCommit, PeerSends, ServerCommits, vars,
                screenVars, obsVars
  <2>2. chatAll > 0 => cache' = cache
    <3>1. CASE ListObserve
      BY <1>1, <3>1 DEF ListObserve, Register
    <3>2. CASE ~ListObserve
      BY <1>4, <3>2 DEF RowEvent, AnotherRoom, RoomCommit, PeerSends, PeerCommit, ServerCommits,
                        Commit, vars, syncVars
    <3>3. QED
      BY <3>1, <3>2
  <2>3. QED
    BY <1>2, <1>3, <2>1, <2>2, StartsInt, ScreenDebtSame
<1>5. CASE ExistsRead \/ ExistsAnswer
  <2>1. UNCHANGED <<screen, transcript, chatq, chatAll, cache>>
    BY <1>5 DEF ExistsRead, ExistsAnswer, obsVars, syncVars
  <2>2. StartsLeft' <= StartsLeft
    <3>1. CASE ExistsRead
      BY <3>1 DEF ExistsRead, StartsLeft
    <3>2. CASE ExistsAnswer
      <4>1. query' = "idle" /\ (query = "nil" \/ query = "found")
        BY <3>2 DEF ExistsAnswer
      <4>2. query = "found" => joined'
        BY <3>2, Zenon DEF ExistsAnswer
      <4>3. QED
        BY <4>1, <4>2 DEF StartsLeft
    <3>3. QED
      BY <1>5, <3>1, <3>2
  <2>3. QED
    BY <1>2, <2>1, <2>2, ScreenDebtSame
<1>6. CASE OpenFromList \/ OnlyNewEvent
  BY <1>6 DEF OpenFromList, OnlyNewEvent, Blank, ScreenOwes
<1>7. CASE OpenFromSearch
  <2>1. /\ screen = "none" /\ screen' = "search" /\ query' = "asked"
        /\ UNCHANGED <<joined, transcript, chatq, chatAll>>
    BY <1>7 DEF OpenFromSearch, obsVars
  <2>2. Shown' = <<>> /\ chatAll' = 0
    BY <1>1, <2>1 DEF SInv, Blank, Shown
  <2>3. StartsLeft' <= 2 /\ StartsLeft' \in Int
    BY StartsInt
  <2>4. \A i \in 1..MaxId : Debt(i, Shown', chatAll', cache') = 0
    <3>1. <<>> \in Seq(Msg)
      OBVIOUS
    <3>2. QED
      BY <2>2, <3>1, DebtUnobserved, TimesInEmpty
  <2>5. \A i \in 1..MaxId : Debt(i, Shown', chatAll', cache') + StartsLeft' <= 2
    BY <2>3, <2>4
  <2>6. ScreenOwes'
    BY <2>5 DEF ScreenOwes, Debt, Owed, TimesIn, Ids
  <2>7. QED
    BY <2>1, <2>6 DEF Blank
<1>8. CASE ViewDidAppear
  <2>1. UNCHANGED <<screen, transcript, chatq, joined, query>>
    BY <1>8, Zenon DEF ViewDidAppear
  <2>2. Blank' /\ Shown' = Shown /\ StartsLeft' = StartsLeft
    BY <1>2, <1>3, <2>1
  <2>3. CASE joined
    <3>1. chatAll' = 0
      BY <1>8, <2>3, Zenon DEF ViewDidAppear
    <3>2. ASSUME NEW i \in 1..MaxId
          PROVE  /\ Debt(i, Shown', chatAll', cache') <= Debt(i, Shown, chatAll, cache)
                 /\ Debt(i, Shown', chatAll', cache') \in Int
                 /\ Debt(i, Shown, chatAll, cache) \in Int
      <4>1. Debt(i, Shown', chatAll', cache') = TimesIn(i, Shown)
        BY <1>1, <2>2, <3>1, DebtUnobserved
      <4>2. QED
        BY <1>1, <4>1, DebtType
    <3>3. QED
      BY <2>1, <2>2, <3>2, StartsInt, ScreenDebtKept DEF SInv
  <2>4. CASE ~joined
    <3>1. UNCHANGED <<syncVars, chatAll>>
      BY <1>8, <2>4, Zenon DEF ViewDidAppear
    <3>2. QED
      BY <2>1, <2>2, <3>1, StartsInt, ScreenDebtSame DEF syncVars
  <2>5. QED
    BY <2>3, <2>4
<1>9. CASE AppendEvent
  <2>1. Shown' = Shown
    BY <1>1, <1>9, HeadMoves DEF AppendEvent, Shown
  <2>2. UNCHANGED <<screen, joined, query, chatAll, cache>> /\ screen = "search"
    BY <1>9 DEF AppendEvent, syncVars
  <2>3. Blank'
    BY <2>2 DEF Blank
  <2>4. QED
    BY <1>3, <2>1, <2>2, <2>3, StartsInt, ScreenDebtSame
<1>10. CASE Close \/ Restart
  BY <1>10 DEF Close, Restart, Blank, ScreenOwes
<1>11. CASE (\E i \in 1..MaxId : Send(i) /\ SendMessage(i)) \/ DataArrives \/ WriteAcked
  <2>1. /\ cache' \in SUBSET Msg /\ Raise
        /\ Wide => Ids(cache) \subseteq Ids(cache')
    BY <1>11, RaisedKeys DEF SInv
  <2>2. UNCHANGED <<screen, transcript, chatAll, joined, query>>
    BY <1>11 DEF Send, SendMessage, DataArrives, WriteAcked, screenVars
  <2>3. QED
    BY <2>1, <2>2, ScreenDebtPaid
<1>12. CASE \E i \in 1..MaxId : Send(i) /\ StartChatAndSend(i)
  BY <1>12, ScreenDebtStarted
<1>13. QED
  BY <1>4, <1>5, <1>6, <1>7, <1>8, <1>9, <1>10, <1>11, <1>12 DEF Next, Send

\* The inductive invariant of the chat screen.
THEOREM ScreenInvariant == Spec => []SInv
<1>1. Init => SInv
  BY InvInit, ScreenInit DEF Init, SInv, ScreenAsks, Blank, ScreenOwes
<1>2. SInv /\ [Next]_vars => SInv'
  <2>1. SInv /\ [Next]_vars => TypeOK
    BY DEF SInv, IInv
  <2>2. QED
    BY <2>1, InvStep, ScreenStep, ScreenAsksStep, ScreenOwesStep DEF SInv
<1>3. QED
  BY <1>1, <1>2, PTL DEF Spec

\* NoThirdCopy: however late the one answer to whether the chat exists, a screen
\* opened from the search starts the chat at most once too often, so no message is
\* shown, or waits to be shown, more than twice (ChatViewModel.isChatExists).
THEOREM ShownAtMostTwice == Spec => []NoThirdCopy
<1>1. SInv => NoThirdCopy
  <2> SUFFICES ASSUME SInv, screen = "search", NEW i \in 1..MaxId
               PROVE  TimesIn(i, Shown) <= 2
    BY DEF NoThirdCopy, Shown
  <2>1. Shown \in Seq(Msg) /\ chatAll \in Nat
    BY ScreenFacts
  <2>2. /\ TimesIn(i, Shown) \in Nat
        /\ Debt(i, Shown, chatAll, cache) \in Nat
        /\ TimesIn(i, Shown) <= Debt(i, Shown, chatAll, cache)
    BY <2>1, DebtType
  <2>3. Debt(i, Shown, chatAll, cache) + StartsLeft <= 2 /\ StartsLeft \in 0..2
    BY StartsInt DEF SInv, ScreenOwes
  <2>4. QED
    BY <2>2, <2>3
<1>2. QED
  BY <1>1, ScreenInvariant, PTL

-----------------------------------------------------------------------------
(* The observer of the last message. *)

\* The screen was opened from a list that still has all of its observers and
\* has the messages of its first row in key order.
Unremoved == screen = "list" /\ rowObs = rows /\ InKeyOrder(RowFeed)

\* What the closure is called with is not older than anything the transcript
\* holds, and what it may find there is the transcript's last message.
NewestWaits ==
  /\ Ids(ToSet(transcript)) \cup Ids(ToSet(chatq)) \subseteq Ids(cache)
  /\ InKeyOrder(chatq)
  /\ \A i \in 1..Len(transcript), j \in 1..Len(chatq) :
       /\ transcript[i].id <= chatq[j].id
       /\ transcript[i].id = chatq[j].id => i = Len(transcript)

\* That is so until viewDidAppear removes the list's observers.
NewestOnly ==
  /\ screen = "list" => rows > 0
  /\ screen = "list" /\ rowObs = rows => ~appeared
  /\ Unremoved => NewestWaits

LEMMA OrderJoins ==
  ASSUME NEW f \in Seq(Msg), NEW g \in Seq(Msg), InKeyOrder(f), InKeyOrder(g),
         \A i \in 1..Len(f), j \in 1..Len(g) : f[i].id < g[j].id
  PROVE  InKeyOrder(f \o g)
<1> DEFINE h == f \o g
<1>1. /\ Len(h) = Len(f) + Len(g) /\ Len(f) \in Nat /\ Len(g) \in Nat
      /\ \A n \in 1..Len(f) : h[n] = f[n]
      /\ \A n \in 1..Len(g) : h[Len(f) + n] = g[n]
  OBVIOUS
<1> HIDE DEF h
<1> SUFFICES ASSUME NEW i \in 1..Len(h), NEW j \in 1..Len(h), i < j
             PROVE  h[i].id < h[j].id
  BY DEF InKeyOrder, h
<1>2. CASE j <= Len(f)
  BY <1>1, <1>2 DEF InKeyOrder
<1>3. CASE j > Len(f)
  <2> DEFINE d == j - Len(f)
  <2>1. d \in 1..Len(g) /\ h[j] = g[d]
    BY <1>1, <1>3
  <2> HIDE DEF d
  <2>2. CASE i <= Len(f)
    BY <1>1, <2>1, <2>2
  <2>3. CASE i > Len(f)
    <3> DEFINE c == i - Len(f)
    <3>1. c \in 1..Len(g) /\ h[i] = g[c] /\ c < d
      BY <1>1, <2>3 DEF d
    <3> HIDE DEF c
    <3>2. QED
      BY <2>1, <3>1 DEF InKeyOrder
  <2>4. QED
    BY <1>1, <2>2, <2>3
<1>4. QED
  BY <1>1, <1>2, <1>3

LEMMA OrderPrefix ==
  ASSUME NEW f \in Seq(Msg), NEW g \in Seq(Msg), InKeyOrder(f \o g)
  PROVE  InKeyOrder(f)
<1> DEFINE h == f \o g
<1>1. /\ Len(h) = Len(f) + Len(g) /\ Len(f) \in Nat /\ Len(g) \in Nat
      /\ \A n \in 1..Len(f) : h[n] = f[n]
  OBVIOUS
<1>2. InKeyOrder(h)
  OBVIOUS
<1> HIDE DEF h
<1>3. QED
  BY <1>1, <1>2 DEF InKeyOrder

\* What the observer of the last message is told of a view that loses no key is
\* newer than all that the view had.
LEMMA LastIsNewest ==
  ASSUME NEW old \in SUBSET Msg, NEW new \in SUBSET Msg, Ids(old) \subseteq Ids(new),
         NEW m \in Added(Last1(old), Last1(new))
  PROVE  m \in new /\ m.id \in Ids(new) /\ \A k \in Ids(old) : k < m.id
<1>1. /\ m \in new /\ \A x \in new : x.id <= m.id
      /\ m.id \notin Ids(Last1(old))
  BY DEF Added, Last1
<1>2. \A k \in Ids(new) : k <= m.id
  BY <1>1 DEF Ids
<1>3. m.id \notin Ids(old)
  <2> SUFFICES ASSUME NEW x \in old, x.id = m.id PROVE FALSE
    BY DEF Ids
  <2>1. \A y \in old : y.id <= x.id
    BY <1>2 DEF Ids
  <2>2. x.id \in Ids(Last1(old))
    BY <2>1 DEF Last1, Ids
  <2>3. QED
    BY <1>1, <2>2
<1>4. m.id \in Int /\ Ids(old) \subseteq Int
  BY <1>1, MsgId DEF Ids
<1>5. m.id \in Ids(new)
  BY <1>1 DEF Ids
<1>6. QED
  BY <1>1, <1>2, <1>3, <1>4, <1>5

LEMMA NewestOpens ==
  ASSUME SInv, OpenFromList, Unremoved'
  PROVE  NewestWaits'
<1>1. /\ row \in Seq(Msg) /\ rowq \in Seq(Msg) /\ rowObs \in Nat /\ rows \in Nat
      /\ cache \in SUBSET Msg /\ (rowObs > 0 => Viewed)
  BY RowFacts DEF SInv
<1>2. /\ rows > 0 /\ UNCHANGED <<row, rowq, rowObs, rows>>
      /\ cache' = IF Viewed THEN cache ELSE IF Wide THEN pend ELSE Last1(pend)
      /\ transcript' = row \/ transcript' = <<>>
  BY DEF OpenFromList, Register, listVars
<1>3. rowObs = rows /\ rowObs > 0 /\ InKeyOrder(row \o rowq)
  BY <1>1, <1>2 DEF Unremoved, RowFeed, InKeyOrder
<1>4. cache' = cache
  BY <1>1, <1>2, <1>3
<1>5. PICK first \in KeyOrder(Last1(cache')) : chatq' = first
  BY DEF OpenFromList
<1>6. /\ first \in Seq(Msg)
      /\ \A j \in 1..Len(first) : first[j] \in cache /\ \A x \in cache : x.id <= first[j].id
      /\ InKeyOrder(first)
      /\ Ids(ToSet(first)) \subseteq Ids(cache)
  <2>1. Last1(cache') \in SUBSET Msg
    BY <1>1, <1>4, Last1Part
  <2>2. /\ first \in Seq(Msg)
        /\ \A j \in 1..Len(first) : first[j] \in Last1(cache)
        /\ InKeyOrder(first)
    BY <1>4, <2>1, KeyOrderSeq DEF InKeyOrder
  <2>3. Ids(ToSet(first)) = {first[j].id : j \in 1..Len(first)}
    BY <2>2, FeedIds
  <2>4. QED
    BY <2>2, <2>3 DEF Last1, Ids
<1>7. InKeyOrder(row)
  BY <1>1, <1>3, OrderPrefix
<1>8. /\ \A i \in 1..Len(row) : row[i].id \in Ids(cache)
      /\ Ids(ToSet(row)) \subseteq Ids(cache)
  <2>1. Ids(ToSet(row \o rowq)) = Ids(cache)
    BY <1>3 DEF SInv, IInv, RowTracksView, RowFeed
  <2>2. Ids(ToSet(row)) \subseteq Ids(cache)
    BY <1>1, <2>1, ConcatIds
  <2>3. QED
    BY <1>1, <2>2, FeedIds
<1>9. ASSUME NEW i \in 1..Len(row), NEW j \in 1..Len(first)
      PROVE  /\ row[i].id <= first[j].id
             /\ row[i].id = first[j].id => i = Len(row)
  <2>1. \A k \in Ids(cache) : k <= first[j].id
    BY <1>6 DEF Ids
  <2>2. row[i].id <= first[j].id
    BY <1>8, <2>1
  <2>3. ASSUME i # Len(row) PROVE row[i].id # first[j].id
    <3>1. Len(row) \in 1..Len(row) /\ i < Len(row)
      BY <1>1, <2>3
    <3>2. row[i].id < row[Len(row)].id /\ row[Len(row)].id <= first[j].id
      BY <1>7, <1>8, <2>1, <3>1 DEF InKeyOrder
    <3>3. row[i].id \in Int /\ row[Len(row)].id \in Int /\ first[j].id \in Int
      BY <1>1, <1>6, <3>1, MsgId
    <3>4. QED
      BY <3>2, <3>3
  <2>4. QED
    BY <2>2, <2>3
<1>10. CASE transcript' = row
  BY <1>4, <1>5, <1>6, <1>8, <1>9, <1>10 DEF NewestWaits, InKeyOrder
<1>11. CASE transcript' = <<>>
  <2>1. Ids(ToSet(<<>>)) = {}
    BY DEF Ids, ToSet
  <2>2. QED
    BY <1>4, <1>5, <1>6, <1>11, <2>1 DEF NewestWaits, InKeyOrder
<1>12. QED
  BY <1>2, <1>10, <1>11

\* New in the view: at most one message more waits, newer than the others.
LEMMA NewestRaised ==
  ASSUME SInv, screen = "list", NewestWaits, Raise, transcript' = transcript,
         cache' \in SUBSET Msg, Ids(cache) \subseteq Ids(cache')
  PROVE  NewestWaits'
<1>1. PICK all \in KeyOrder(Added(cache, cache')),
           last \in KeyOrder(Added(Last1(cache), Last1(cache'))) :
        chatq' = (IF chatLast THEN chatq \o last ELSE chatq) \o Copies(all, chatAll)
  BY DEF Raise
<1>2. /\ transcript \in Seq(Msg) /\ chatq \in Seq(Msg) /\ chatAll = 0
      /\ cache \in SUBSET Msg
  BY ScreenFacts
<1>3. Copies(all, 0) = <<>>
  <2>1. Added(cache, cache') \in SUBSET Msg
    BY DEF Added
  <2>2. QED
    BY <2>1, KeyOrderSeq, CopiesFew
<1>4. /\ last \in Seq(Msg) /\ InKeyOrder(last)
      /\ \A j \in 1..Len(last) :
           last[j].id \in Ids(cache') /\ \A k \in Ids(cache) : k < last[j].id
  <2>1. Added(Last1(cache), Last1(cache')) \in SUBSET Msg
    BY DEF Added, Last1
  <2>2. /\ last \in Seq(Msg) /\ InKeyOrder(last)
        /\ \A j \in 1..Len(last) : last[j] \in Added(Last1(cache), Last1(cache'))
    BY <2>1, KeyOrderSeq DEF InKeyOrder
  <2>3. QED
    BY <1>2, <2>2, LastIsNewest
<1>5. chatq' = chatq \/ chatq' = chatq \o last
  <2>1. chatq' = (IF chatLast THEN chatq \o last ELSE chatq) \o <<>>
    BY <1>1, <1>2, <1>3
  <2>2. chatq \o <<>> = chatq /\ (chatq \o last) \o <<>> = chatq \o last
    BY <1>2, <1>4
  <2>3. QED
    BY <2>1, <2>2
<1>6. CASE chatq' = chatq
  BY <1>6 DEF NewestWaits, InKeyOrder
<1>7. CASE chatq' = chatq \o last
  <2> DEFINE q == chatq \o last
  <2>1. \A j \in 1..Len(chatq) : chatq[j].id \in Ids(cache)
    BY <1>2, FeedIds DEF NewestWaits
  <2>2. \A i \in 1..Len(transcript) : transcript[i].id \in Ids(cache)
    BY <1>2, FeedIds DEF NewestWaits
  <2>3. InKeyOrder(q)
    BY <1>2, <1>4, <2>1, OrderJoins DEF NewestWaits
  <2>4. Ids(ToSet(transcript)) \cup Ids(ToSet(q)) \subseteq Ids(cache')
    <3>1. Ids(ToSet(q)) = Ids(ToSet(chatq)) \cup Ids(ToSet(last))
      BY <1>2, <1>4, ConcatIds
    <3>2. Ids(ToSet(last)) \subseteq Ids(cache')
      BY <1>4, FeedIds
    <3>3. QED
      BY <3>1, <3>2 DEF NewestWaits
  <2>5. /\ Len(q) = Len(chatq) + Len(last) /\ Len(chatq) \in Nat /\ Len(last) \in Nat
        /\ \A n \in 1..Len(chatq) : q[n] = chatq[n]
        /\ \A n \in 1..Len(last) : q[Len(chatq) + n] = last[n]
    BY <1>2, <1>4
  <2> HIDE DEF q
  <2>6. ASSUME NEW i \in 1..Len(transcript), NEW j \in 1..Len(q)
        PROVE  /\ transcript[i].id <= q[j].id
               /\ transcript[i].id = q[j].id => i = Len(transcript)
    <3>1. CASE j <= Len(chatq)
      BY <2>5, <3>1 DEF NewestWaits
    <3>2. CASE j > Len(chatq)
      <4> DEFINE d == j - Len(chatq)
      <4>1. d \in 1..Len(last) /\ q[j] = last[d]
        BY <2>5, <3>2
      <4> HIDE DEF d
      <4>2. transcript[i].id < q[j].id
        BY <1>4, <2>2, <4>1
      <4>3. transcript[i].id \in Int /\ q[j].id \in Int
        BY <1>2, <1>4, <4>1, MsgId
      <4>4. QED
        BY <4>2, <4>3
    <3>3. QED
      BY <2>5, <3>1, <3>2
  <2>7. chatq' = q
    BY <1>7 DEF q
  <2>8. QED
    BY <2>3, <2>4, <2>6, <2>7 DEF NewestWaits, InKeyOrder
<1>8. QED
  BY <1>5, <1>6, <1>7

\* The closure runs: what it takes off, if anything, is what it appends.
LEMMA NewestTaken ==
  ASSUME TypeOK, NewestWaits, OnlyNewEvent
  PROVE  transcript' = transcript \/ transcript' = Append(transcript, Head(chatq))
<1> DEFINE m == Head(chatq)
           n == Len(transcript)
<1>1. /\ transcript \in Seq(Msg) /\ n \in Nat /\ chatq \in Seq(Msg) /\ chatq # <<>>
      /\ m = chatq[1] /\ 1 \in 1..Len(chatq) /\ m \in Msg
  BY DEF TypeOK, OnlyNewEvent
<1>2. transcript' = Append(IF Contains(transcript, m) THEN SubSeq(transcript, 1, n - 1)
                                                      ELSE transcript, m)
  BY DEF OnlyNewEvent
<1> HIDE DEF m
<1>3. CASE Contains(transcript, m)
  <2>1. PICK i \in 1..n : transcript[i] = m
    BY <1>3 DEF Contains
  <2>2. i = n
    BY <1>1, <2>1 DEF NewestWaits
  <2>3. transcript' = Append(SubSeq(transcript, 1, n - 1), transcript[n])
    BY <1>2, <1>3, <2>1, <2>2
  <2>4. n > 0
    BY <1>1, <2>1
  <2>5. Append(SubSeq(transcript, 1, n - 1), transcript[n]) = transcript
    BY <1>1, <2>4
  <2>6. QED
    BY <2>3, <2>5
<1>4. CASE ~Contains(transcript, m)
  BY <1>2, <1>4 DEF m
<1>5. QED
  BY <1>3, <1>4

LEMMA NewestKept ==
  ASSUME SInv, NewestWaits, OnlyNewEvent
  PROVE  NewestWaits'
<1>0. TypeOK
  BY DEF SInv, IInv
<1>1. /\ transcript \in Seq(Msg) /\ Len(transcript) \in Nat
      /\ chatq \in Seq(Msg) /\ chatq # <<>> /\ Len(chatq) \in Nat
      /\ cache' = cache /\ chatq' = Tail(chatq)
  BY <1>0 DEF TypeOK, OnlyNewEvent, syncVars
<1> DEFINE m == Head(chatq)
           t == transcript'
           q == Tail(chatq)
<1>2. /\ m = chatq[1] /\ 1 \in 1..Len(chatq) /\ m \in Msg
      /\ q \in Seq(Msg) /\ Len(q) = Len(chatq) - 1
      /\ \A j \in 1..Len(q) : q[j] = chatq[j + 1] /\ j + 1 \in 1..Len(chatq)
  BY <1>1
<1>3. /\ t \in Seq(Msg)
      /\ \A i \in 1..Len(t) :
           t[i] = m \/ \E k \in 1..Len(transcript) : t[i] = transcript[k]
  <2>1. t = transcript \/ t = Append(transcript, m)
    BY <1>0, NewestTaken
  <2> HIDE DEF t, m
  <2>2. CASE t = transcript
    BY <1>1, <2>2
  <2>3. CASE t = Append(transcript, m)
    <3>1. /\ t \in Seq(Msg) /\ Len(t) = Len(transcript) + 1
          /\ \A i \in 1..Len(transcript) : t[i] = transcript[i]
          /\ t[Len(transcript) + 1] = m
      BY <1>1, <1>2, <2>3, AppendFacts
    <3>2. QED
      BY <1>1, <3>1
  <2>4. QED
    BY <2>1, <2>2, <2>3
<1> HIDE DEF m, t, q
<1>4. InKeyOrder(q)
  BY <1>2 DEF NewestWaits, InKeyOrder
<1>5. ASSUME NEW i \in 1..Len(t), NEW j \in 1..Len(q)
      PROVE  t[i].id < q[j].id
  <2>1. m.id < q[j].id
    BY <1>2 DEF NewestWaits, InKeyOrder
  <2>2. \A k \in 1..Len(transcript) : transcript[k].id <= m.id
    BY <1>2 DEF NewestWaits
  <2>3. /\ m.id \in Int /\ q[j].id \in Int
        /\ \A k \in 1..Len(transcript) : transcript[k].id \in Int
    BY <1>1, <1>2, MsgId
  <2>4. CASE t[i] = m
    BY <2>1, <2>4
  <2>5. ASSUME NEW k \in 1..Len(transcript), t[i] = transcript[k]
        PROVE  t[i].id < q[j].id
    BY <2>1, <2>2, <2>3, <2>5
  <2>6. QED
    BY <1>3, <2>4, <2>5
<1>6. Ids(ToSet(t)) \cup Ids(ToSet(q)) \subseteq Ids(cache)
  <2>1. \A k \in 1..Len(transcript) : transcript[k].id \in Ids(cache)
    BY <1>1, FeedIds DEF NewestWaits
  <2>2. \A k \in 1..Len(chatq) : chatq[k].id \in Ids(cache)
    BY <1>1, FeedIds DEF NewestWaits
  <2>3. \A i \in 1..Len(t) : t[i].id \in Ids(cache)
    BY <1>2, <1>3, <2>1, <2>2
  <2>4. \A j \in 1..Len(q) : q[j].id \in Ids(cache)
    BY <1>2, <2>2
  <2>5. /\ Ids(ToSet(t)) = {t[i].id : i \in 1..Len(t)}
        /\ Ids(ToSet(q)) = {q[j].id : j \in 1..Len(q)}
    BY <1>2, <1>3, FeedIds
  <2>6. QED
    BY <2>3, <2>4, <2>5
<1>7. \A i \in 1..Len(t), j \in 1..Len(q) : t[i].id # q[j].id /\ t[i].id <= q[j].id
  <2>1. \A i \in 1..Len(t) : t[i].id \in Int
    BY <1>3, MsgId
  <2>2. \A j \in 1..Len(q) : q[j].id \in Int
    BY <1>2, MsgId
  <2>3. QED
    BY <1>5, <2>1, <2>2
<1>8. chatq' = q /\ transcript' = t
  BY <1>1 DEF q, t
<1>9. QED
  BY <1>1, <1>4, <1>6, <1>7, <1>8 DEF NewestWaits, InKeyOrder

\* A screen that was and stays open from the list: what could end Unremoved, does,
\* and the row's feed only grows.
LEMMA UnremovedBefore ==
  ASSUME SInv, [Next]_vars, NewestOnly, screen = "list", Unremoved'
  PROVE  /\ Unremoved /\ rowObs > 0 /\ Wide /\ Viewed /\ ~appeared /\ joined
         /\ ~ViewDidAppear /\ ~Restart
<1>1. rowObs \in Nat /\ rows \in Nat /\ rowObs <= rows /\ rows > 0
  BY RowFacts DEF SInv, NewestOnly
<1>f. RowFeed \in Seq(Msg)
  BY RowFacts DEF SInv
<1>j. joined
  BY DEF SInv, ScreenInv
<1>2. screen' = "list" /\ rowObs' = rows'
  BY DEF Unremoved
<1>o. InKeyOrder(RowFeed')
  BY DEF Unremoved, InKeyOrder
<1>3. ~Restart
  BY <1>2 DEF Restart
<1>4. ~ViewDidAppear
  <2> SUFFICES ASSUME ViewDidAppear PROVE FALSE
    OBVIOUS
  <2>1. rowObs' = 0 /\ rows' = rows
    BY <1>j, Zenon DEF ViewDidAppear
  <2>2. rows # 0
    BY <1>1
  <2>3. QED
    BY <1>2, <2>1, <2>2, Zenon
<1>5. rowObs = rows
  <2>1. ListObserve \/ UNCHANGED <<rowObs, rows>>
    BY <1>3, <1>4 DEF Next, RowEvent, AnotherRoom, OpenFromList, OpenFromSearch, ExistsRead,
                      ExistsAnswer, AppendEvent, OnlyNewEvent, Close, Send, RoomCommit, PeerSends,
                      ServerCommits, DataArrives, WriteAcked, vars, listVars
  <2>2. CASE ListObserve
    <3>1. rowObs' = rowObs + 1 /\ rows' = rows + 1
      BY <2>2 DEF ListObserve
    <3>2. rowObs + 1 = rows + 1
      BY <1>2, <3>1, Zenon
    <3>3. QED
      BY <1>1, <3>2
  <2>3. CASE UNCHANGED <<rowObs, rows>>
    BY <1>2, <2>3, Zenon
  <2>4. QED
    BY <2>1, <2>2, <2>3
<1>6. InKeyOrder(RowFeed)
  <2>1. RowFeed' = RowFeed \/ (\E s \in Seq(Msg) : RowFeed' = RowFeed \o s) \/ rows' = 0
    BY RowStep DEF SInv, RowMove
  <2>2. rows' # 0
    <3>1. rows' = rows \/ rows' = rows + 1
      BY <1>3, <1>4
      DEF Next, ListObserve, RowEvent, AnotherRoom, OpenFromList, OpenFromSearch, ExistsRead,
          ExistsAnswer, AppendEvent, OnlyNewEvent, Close, Send, RoomCommit, PeerSends,
          ServerCommits, DataArrives, WriteAcked, vars, listVars
    <3>2. QED
      BY <1>1, <3>1
  <2>3. CASE RowFeed' = RowFeed
    BY <1>o, <2>3
  <2>4. CASE \E s \in Seq(Msg) : RowFeed' = RowFeed \o s
    <3>1. PICK s \in Seq(Msg) : RowFeed' = RowFeed \o s
      BY <2>4
    <3>2. InKeyOrder(RowFeed \o s)
      BY <1>o, <3>1
    <3>3. QED
      BY <1>f, <3>2, OrderPrefix
  <2>5. QED
    BY <2>1, <2>2, <2>3, <2>4
<1>7. QED
  BY <1>1, <1>j, <1>3, <1>4, <1>5, <1>6 DEF Unremoved, NewestOnly, Wide, Viewed

LEMMA NewestStep == SInv /\ NewestOnly /\ [Next]_vars => NewestOnly'
<1> SUFFICES ASSUME SInv, NewestOnly, [Next]_vars PROVE NewestOnly'
  OBVIOUS
<1>1. (screen' = "list" => rows' > 0) /\ (screen' = "list" /\ rowObs' = rows' => ~appeared')
  <2>0. rows \in Nat /\ rowObs \in Nat /\ rowObs <= rows /\ ScreenInv
    BY RowFacts DEF SInv
  <2>1. CASE UNCHANGED <<screen, appeared, rows, rowObs>>
    BY <2>1 DEF NewestOnly
  <2>2. CASE ListObserve
    <3>1. rows' = rows + 1 /\ rowObs' = rowObs + 1 /\ UNCHANGED <<screen, appeared>>
      BY <2>2 DEF ListObserve, screenVars
    <3>2. QED
      BY <2>0, <3>1 DEF NewestOnly
  <2>3. CASE OpenFromList
    BY <2>0, <2>3 DEF OpenFromList, ScreenInv, listVars
  <2>4. CASE OpenFromSearch \/ Close \/ Restart
    BY <2>4 DEF OpenFromSearch, Close, Restart
  <2>5. CASE ViewDidAppear
    <3>1. rows' = rows /\ screen' = screen
      BY <2>5, Zenon DEF ViewDidAppear
    <3>2. screen = "list" => joined /\ rows > 0
      BY <2>0 DEF ScreenInv, NewestOnly
    <3>3. joined => rowObs' = 0
      BY <2>5, Zenon DEF ViewDidAppear
    <3>4. QED
      BY <3>1, <3>2, <3>3
  <2>6. QED
    BY <2>1, <2>2, <2>3, <2>4, <2>5
    DEF Next, RowEvent, AnotherRoom, ExistsRead, ExistsAnswer, AppendEvent, OnlyNewEvent, Send,
        RoomCommit, PeerSends, ServerCommits, DataArrives, WriteAcked, vars, listVars, screenVars
<1>2. ASSUME Unremoved' PROVE NewestWaits'
  <2>1. CASE OpenFromList
    BY <1>2, <2>1, NewestOpens
  <2>2. CASE ~OpenFromList
    <3>1. screen = "list"
      <4>1. screen' = screen \/ OpenFromSearch \/ Close \/ Restart
        BY <2>2, Zenon
        DEF Next, ListObserve, RowEvent, AnotherRoom, ExistsRead, ExistsAnswer, ViewDidAppear,
            AppendEvent, OnlyNewEvent, Send, RoomCommit, PeerSends, ServerCommits, DataArrives,
            WriteAcked, vars, screenVars
      <4>2. screen' = "list"
        BY <1>2 DEF Unremoved
      <4>3. QED
        BY <4>1, <4>2 DEF OpenFromSearch, Close, Restart
    <3>2. /\ Unremoved /\ rowObs > 0 /\ Wide /\ Viewed /\ ~appeared /\ joined
          /\ ~ViewDidAppear /\ ~Restart
      BY <1>2, <3>1, UnremovedBefore
    <3>3. NewestWaits
      BY <3>2 DEF NewestOnly
    <3>4. CASE OnlyNewEvent
      BY <3>3, <3>4, NewestKept
    <3>5. CASE DataArrives \/ WriteAcked
      <4>1. /\ cache' \in SUBSET Msg /\ Raise /\ Ids(cache) \subseteq Ids(cache')
        BY <3>2, <3>5, RaisedKeys DEF SInv
      <4>2. transcript' = transcript
        BY <3>5 DEF DataArrives, WriteAcked, screenVars
      <4>3. QED
        BY <3>1, <3>3, <4>1, <4>2, NewestRaised
    <3>6. CASE UNCHANGED <<transcript, chatq, cache>>
      BY <3>3, <3>6 DEF NewestWaits, InKeyOrder
    <3>7. CASE ListObserve
      BY <3>2, <3>6, <3>7 DEF ListObserve, Register, screenVars, obsVars
    <3>8. ~OpenFromSearch /\ ~AppendEvent /\ ~Close /\ (\A i \in 1..MaxId : ~Send(i))
      BY <3>1, <3>2 DEF OpenFromSearch, AppendEvent, Close, Send
    <3>9. QED
      BY <2>2, <3>2, <3>4, <3>5, <3>6, <3>7, <3>8
      DEF Next, RowEvent, AnotherRoom, ExistsRead, ExistsAnswer, RoomCommit, PeerSends, PeerCommit,
          ServerCommits, Commit, vars, syncVars, screenVars, obsVars
  <2>3. QED
    BY <2>1, <2>2
<1>3. QED
  BY <1>1, <1>2 DEF NewestOnly

\* OrderedTranscriptOnlyGrows: while no observer of the list was removed and its row is
\* in key order, the closure that removes "duplicates" (ChatViewModel's removeLast)
\* takes no message out of the transcript but the one it appends.
THEOREM OrderedTranscriptGrows == Spec => OrderedTranscriptOnlyGrows
<1>1. Init => NewestOnly
  BY DEF Init, NewestOnly, Unremoved
<1>2. SInv /\ NewestOnly /\ [Next]_vars =>
        [OnlyNewEvent /\ rowObs = rows /\ InKeyOrder(RowFeed)
           => IsPrefix(transcript, transcript')]_vars
  <2> SUFFICES ASSUME SInv, NewestOnly, OnlyNewEvent, rowObs = rows, InKeyOrder(RowFeed)
               PROVE  IsPrefix(transcript, transcript')
    OBVIOUS
  <2>1. NewestWaits
    BY DEF NewestOnly, Unremoved, OnlyNewEvent
  <2>2. TypeOK /\ transcript \in Seq(Msg) /\ Head(chatq) \in Msg
    BY DEF SInv, IInv, TypeOK, OnlyNewEvent
  <2>3. transcript' = transcript \/ transcript' = Append(transcript, Head(chatq))
    BY <2>1, <2>2, NewestTaken
  <2>4. QED
    BY <2>2, <2>3 DEF IsPrefix
<1>3. QED
  BY <1>1, <1>2, ScreenInvariant, NewestStep, PTL DEF Spec, OrderedTranscriptOnlyGrows
=============================================================================

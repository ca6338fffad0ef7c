-------------------------- MODULE ConnectionProofs --------------------------
(***************************************************************************)
(* The connection, for any queries and any number of writes, requests      *)
(* under way and failures: type correctness, OneWayUp, UnackedCounts,      *)
(* SubscribedAsRemembered, CallbackAfterListens, LastWriteStands, and that *)
(* it implements the outbox.                                               *)
(*                                                                         *)
(* The invariant says what the requests of a connection are: the writes    *)
(* that have no answer, all of them and in order once the token has been   *)
(* checked; and what the server will listen for when it has dealt with     *)
(* them.                                                                   *)
(***************************************************************************)
EXTENDS Connection, FiniteSetTheorems, SequenceTheorems, FunctionTheorems, TLAPS

\* The positions of a sequence of requests that hold writes, listens, or what
\* concerns one query.
Puts(s) == {i \in 1..Len(s) : s[i].op = "put"}
Listening(s) == {i \in 1..Len(s) : s[i].op = "listen"}
About(s, q) == {i \in 1..Len(s) : s[i].op \in {"listen", "unlisten"} /\ s[i].arg = q}

\* Without a connection nothing is under way on it, and with one nothing of the
\* connection before.
OneLine ==
  /\ ~Connected => line = <<>>
  /\ Connected => old = <<>>

\* The check a connection begins with is the first request on it while it lasts.
CheckIsFirst ==
  /\ state = "authenticating" => line # <<>> /\ line[1].op = "authRestore" /\ Puts(line) = {}
  /\ \A i \in 1..Len(line) : line[i].op = "authRestore" => i = 1 /\ state = "authenticating"

\* The writes without an answer are kept, and the server took those that have one.
Kept ==
  /\ out = (answered + 1)..issued
  /\ answered <= at /\ at <= issued
  /\ told \cup ToSet(putsToAck) = 1..answered

\* The writes on the connection are those without an answer, in order, and those
\* the server has dealt with are not beyond the last it took.
InLine ==
  /\ \A i \in Puts(line) : line[i].arg \in (answered + 1)..issued
  /\ \A i, j \in Puts(line) : i < j => line[i].arg < line[j].arg
  /\ state = "connected" => \A n \in (answered + 1)..issued : \E i \in Puts(line) : line[i].arg = n
  /\ \A i \in Puts(line) : i <= served => line[i].arg <= at

\* What still arrives of a lost connection is in order, begins at most behind the
\* last write taken and leaves none out.
InOld ==
  /\ \A i \in Puts(old) : old[i].arg \in (answered + 1)..issued
  /\ \A i, j \in Puts(old) : i < j => old[i].arg < old[j].arg
  /\ \A i \in Puts(old) :
       \/ old[i].arg <= at + 1 /\ \A j \in Puts(old) : i <= j
       \/ \E j \in Puts(old) : j < i /\ old[j].arg = old[i].arg - 1

\* When the server has dealt with what is under way, it listens for a query if and
\* only if the client does; before the token is checked, only if.
Will(q) ==
  /\ (\A i \in About(line, q) : i <= served) => (q \in subs <=> q \in listens)
  /\ \A i \in About(line, q) :
       i > served /\ (\A j \in About(line, q) : j <= i)
         => (line[i].op = "listen" <=> q \in listens)

Agreed ==
  Connected => \A q \in Queries : state = "connected" \/ q \notin listens => Will(q)

\* An attempt that was given up may still get its token, but no later state has one
\* on its way.
FetchIsBefore == fetching => state \in {"disconnected", "token"}

\* What is remembered, what is on its way and what the server has, together.
Wire ==
  /\ IsFiniteSet(listens) /\ UnackedCounts /\ OneLine /\ CheckIsFirst
  /\ Kept /\ InLine /\ InOld /\ Agreed

IInv == TypeOK /\ FetchIsBefore /\ OneWayUp /\ Wire

-----------------------------------------------------------------------------
(* Requests and their positions. *)

LEMMA RequestKinds ==
  /\ \A q \in Queries : Req("listen", q) \in Request /\ Req("unlisten", q) \in Request
  /\ \A n \in Nat : Req("put", n) \in Request
  /\ \A op \in {"auth", "authRestore", "unauth"} : Req(op, none) \in Request
BY DEF Request, Req

LEMMA TailOf ==
  ASSUME NEW s \in Seq(Request), s # <<>>
  PROVE  /\ Len(s) \in Nat \ {0} /\ Head(s) = s[1] /\ s[1] \in Request
         /\ Tail(s) \in Seq(Request) /\ Len(Tail(s)) = Len(s) - 1
         /\ \A i \in 1..Len(s) - 1 : Tail(s)[i] = s[i + 1]
<1>1. Len(s) \in Nat \ {0}
  BY EmptySeq
<1>2. s[1] \in Request
  BY <1>1, ElementOfSeq
<1>3. Tail(s) \in Seq(Request) /\ Len(Tail(s)) = Len(s) - 1
      /\ \A i \in 1..Len(Tail(s)) : Tail(s)[i] = s[i + 1]
  BY HeadTailProperties
<1>4. Head(s) = s[1]
  BY <1>1
<1>5. QED
  BY <1>1, <1>2, <1>3, <1>4

LEMMA ListeningFinite ==
  ASSUME NEW s \in Seq(Request)
  PROVE  /\ IsFiniteSet(Listening(s)) /\ Cardinality(Listening(s)) \in Nat
         /\ Cardinality({i \in DOMAIN s : s[i].op = "listen"}) = Cardinality(Listening(s))
<1>1. Len(s) \in Nat /\ DOMAIN s = 1..Len(s)
  BY LenProperties
<1>2. IsFiniteSet(1..Len(s)) /\ Listening(s) \subseteq 1..Len(s)
  BY <1>1, FS_Interval DEF Listening
<1>3. IsFiniteSet(Listening(s))
  BY <1>2, FS_Subset
<1>4. {i \in DOMAIN s : s[i].op = "listen"} = Listening(s)
  BY <1>1 DEF Listening
<1>5. QED
  BY <1>3, <1>4, FS_CardinalityType

LEMMA ListeningTail ==
  ASSUME NEW s \in Seq(Request), s # <<>>
  PROVE  Cardinality(Listening(s)) =
           Cardinality(Listening(Tail(s))) + (IF s[1].op = "listen" THEN 1 ELSE 0)
<1> DEFINE t == Tail(s)
           f == [i \in Listening(t) |-> i + 1]
           R == Listening(s) \ {1}
<1>1. /\ Len(s) \in Nat \ {0} /\ t \in Seq(Request) /\ Len(t) = Len(s) - 1
      /\ \A i \in 1..Len(s) - 1 : t[i] = s[i + 1]
  BY TailOf
<1> HIDE DEF t
<1>2. \A i \in Listening(t) : i \in 1..Len(t) /\ i + 1 \in R
  BY <1>1 DEF Listening
<1>3. \A j \in R : j - 1 \in Listening(t) /\ (j - 1) + 1 = j
  BY <1>1 DEF Listening
<1>4. f \in [Listening(t) -> R]
  BY <1>2
<1>5. \A i, j \in Listening(t) : f[i] = f[j] => i = j
  BY <1>2
<1>6. \A j \in R : \E i \in Listening(t) : f[i] = j
  <2>1. TAKE j \in R
  <2>2. j - 1 \in Listening(t) /\ f[j - 1] = j
    BY <1>3
  <2>3. QED
    BY <2>2
<1>7. f \in Bijection(Listening(t), R)
  BY <1>4, <1>5, <1>6 DEF Bijection, Injection, Surjection, IsInjective
<1>8. ExistsBijection(Listening(t), R)
  BY <1>7 DEF ExistsBijection
<1>9. IsFiniteSet(Listening(t)) /\ IsFiniteSet(Listening(s))
      /\ Cardinality(Listening(t)) \in Nat /\ Cardinality(Listening(s)) \in Nat
  BY <1>1, ListeningFinite
<1>10. Cardinality(R) = Cardinality(Listening(t))
  BY <1>8, <1>9, FS_Bijection
<1>11. 1 \in Listening(s) <=> s[1].op = "listen"
  BY <1>1 DEF Listening
<1>12. Cardinality(R) = IF 1 \in Listening(s) THEN Cardinality(Listening(s)) - 1
                        ELSE Cardinality(Listening(s))
  BY <1>9, FS_RemoveElement
<1>13. QED
  BY <1>9, <1>10, <1>11, <1>12 DEF t

LEMMA AppendOf ==
  ASSUME NEW s \in Seq(Request), NEW r \in Request
  PROVE  /\ Len(s) \in Nat /\ Append(s, r) \in Seq(Request) /\ Len(Append(s, r)) = Len(s) + 1
         /\ \A i \in 1..Len(s) : Append(s, r)[i] = s[i]
         /\ Append(s, r)[Len(s) + 1] = r
         /\ Append(s, r) # <<>>
BY AppendProperties, LenProperties

LEMMA ListeningAppend ==
  ASSUME NEW s \in Seq(Request), NEW r \in Request
  PROVE  Cardinality(Listening(Append(s, r))) =
           Cardinality(Listening(s)) + (IF r.op = "listen" THEN 1 ELSE 0)
<1> DEFINE t == Append(s, r)
<1>1. /\ Len(s) \in Nat /\ Len(t) = Len(s) + 1
      /\ \A i \in 1..Len(s) : t[i] = s[i]
      /\ t[Len(s) + 1] = r
  BY AppendOf
<1> HIDE DEF t
<1>2. Listening(t) = IF r.op = "listen" THEN Listening(s) \cup {Len(s) + 1} ELSE Listening(s)
  <2>1. \A i \in 1..Len(t) : i \in 1..Len(s) \/ i = Len(s) + 1
    BY <1>1
  <2>2. \A i \in 1..Len(s) : i \in 1..Len(t)
    BY <1>1
  <2>3. Len(s) + 1 \in 1..Len(t)
    BY <1>1
  <2>4. QED
    BY <1>1, <2>1, <2>2, <2>3 DEF Listening
<1>3. Len(s) + 1 \notin Listening(s)
  BY <1>1 DEF Listening
<1>4. IsFiniteSet(Listening(s)) /\ Cardinality(Listening(s)) \in Nat
  BY ListeningFinite
<1>5. Cardinality(Listening(s) \cup {Len(s) + 1}) = Cardinality(Listening(s)) + 1
  BY <1>3, <1>4, FS_AddElement
<1>6. QED
  BY <1>2, <1>4, <1>5 DEF t

-----------------------------------------------------------------------------
(* What restoreState sends. *)

LEMMA IntervalSize ==
  ASSUME NEW a \in Nat, NEW b \in Nat, a <= b
  PROVE  Cardinality((a + 1)..b) = b - a
<1>1. a + 1 \in Int /\ b \in Int
  OBVIOUS
<1>2. Cardinality((a + 1)..b) = IF a + 1 > b THEN 0 ELSE b - (a + 1) + 1
  BY <1>1, FS_Interval
<1>3. QED
  BY <1>2

LEMMA SortedRange ==
  ASSUME NEW a \in Nat, NEW b \in Nat, a <= b
  PROVE  /\ Sorted((a + 1)..b) \in [1..(b - a) -> (a + 1)..b]
         /\ \A i \in 1..(b - a) : Sorted((a + 1)..b)[i] = a + i
<1> DEFINE S == (a + 1)..b
           Below(n) == {m \in S : m < n}
<1>1. Cardinality(S) = b - a
  BY IntervalSize
<1>2. \A n \in S : Cardinality(Below(n)) = n - 1 - a
  <2>1. TAKE n \in S
  <2>2. n - 1 \in Nat /\ a <= n - 1 /\ Below(n) = (a + 1)..(n - 1)
    OBVIOUS
  <2>3. QED
    BY <2>2, IntervalSize
<1>3. \A i \in 1..(b - a) : (CHOOSE n \in S : Cardinality(Below(n)) = i - 1) = a + i
  <2>1. TAKE i \in 1..(b - a)
  <2>2. a + i \in S /\ i \in Int /\ \A n \in S : n \in Int
    OBVIOUS
  <2> HIDE DEF S, Below
  <2>3. \A n \in S : Cardinality(Below(n)) = i - 1 <=> n = a + i
    BY <1>2, <2>2
  <2>4. QED
    BY <2>2, <2>3
<1>4. Sorted(S) = [i \in 1..(b - a) |-> CHOOSE n \in S : Cardinality(Below(n)) = i - 1]
  BY <1>1 DEF Sorted
<1>5. \A i \in 1..(b - a) : a + i \in S
  OBVIOUS
<1> HIDE DEF S, Below
<1>6. Sorted(S) \in [1..(b - a) -> S] /\ \A i \in 1..(b - a) : Sorted(S)[i] = a + i
  BY <1>3, <1>4, <1>5
<1>7. QED
  BY <1>6 DEF S

LEMMA IntervalEnd ==
  ASSUME NEW m \in Nat, NEW n \in Nat, 1..m = 1..n
  PROVE  m = n
<1>1. CASE m = 0
  <2>1. n \notin 1..m
    BY <1>1
  <2>2. QED
    BY <2>1, <1>1
<1>2. CASE m # 0
  <2>1. m \in 1..n
    BY <1>2
  <2>2. n \in 1..m
    BY <2>1
  <2>3. QED
    BY <2>1, <2>2
<1>3. QED
  BY <1>1, <1>2

LEMMA FunctionIsSeq ==
  ASSUME NEW n \in Nat, NEW S, NEW g \in [1..n -> S]
  PROVE  g \in Seq(S) /\ Len(g) = n
<1>1. g \in Seq(S)
  BY SeqDef
<1>2. Len(g) \in Nat /\ DOMAIN g = 1..Len(g)
  BY <1>1, LenProperties
<1>3. DOMAIN g = 1..n
  OBVIOUS
<1>4. QED
  BY <1>1, <1>2, <1>3, IntervalEnd

LEMMA PutsSent ==
  ASSUME NEW a \in Nat, NEW b \in Nat, a <= b
  PROVE  /\ PutRequests(Sorted((a + 1)..b)) \in Seq(Request)
         /\ Len(PutRequests(Sorted((a + 1)..b))) = b - a
         /\ \A i \in 1..(b - a) : PutRequests(Sorted((a + 1)..b))[i] = Req("put", a + i)
<1> DEFINE p == Sorted((a + 1)..b)
<1>1. DOMAIN p = 1..(b - a) /\ \A i \in 1..(b - a) : p[i] = a + i
  BY SortedRange
<1> HIDE DEF p
<1>2. /\ PutRequests(p) = [i \in 1..(b - a) |-> Req("put", p[i])]
      /\ \A i \in 1..(b - a) : Req("put", p[i]) \in Request
  BY <1>1, RequestKinds DEF PutRequests
<1>3. PutRequests(p) \in [1..(b - a) -> Request]
  BY <1>2
<1>4. \A i \in 1..(b - a) : PutRequests(p)[i] = Req("put", a + i)
  BY <1>1, <1>2
<1>5. PutRequests(p) \in Seq(Request) /\ Len(PutRequests(p)) = b - a
  <2>1. b - a \in Nat
    OBVIOUS
  <2>2. QED
    BY <2>1, <1>3, FunctionIsSeq
<1>6. QED
  BY <1>4, <1>5 DEF p

LEMMA ListensSent ==
  ASSUME NEW S \in SUBSET Queries, IsFiniteSet(S), NEW q \in SetToSeqs(S)
  PROVE  /\ Cardinality(S) \in Nat
         /\ ListenRequests(q) \in Seq(Request) /\ Len(ListenRequests(q)) = Cardinality(S)
         /\ \A i \in 1..Cardinality(S) :
              q[i] \in S /\ ListenRequests(q)[i] = Req("listen", q[i])
         /\ \A x \in S : \E i \in 1..Cardinality(S) : q[i] = x
<1> DEFINE n == Cardinality(S)
<1>1. n \in Nat
  BY FS_CardinalityType
<1>2. IsFiniteSet(1..n) /\ Cardinality(1..n) = n
  <2>1. Cardinality(1..n) = IF 1 > n THEN 0 ELSE n - 1 + 1
    BY <1>1, FS_Interval
  <2>2. QED
    BY <1>1, <2>1, FS_Interval
<1>3. q \in [1..n -> S] /\ \A i, j \in 1..n : i # j => q[i] # q[j]
  BY DEF SetToSeqs
<1>4. q \in Injection(1..n, S)
  BY <1>3 DEF Injection, IsInjective
<1>5. q \in Surjection(1..n, S)
  BY <1>2, <1>4, FS_Injection
<1>6. \A x \in S : \E i \in 1..n : q[i] = x
  BY <1>5 DEF Surjection
<1> HIDE DEF n
<1>7. /\ ListenRequests(q) = [i \in 1..n |-> Req("listen", q[i])]
      /\ \A i \in 1..n : q[i] \in S /\ Req("listen", q[i]) \in Request
  BY <1>3, RequestKinds DEF ListenRequests
<1>8. ListenRequests(q) \in [1..n -> Request]
  BY <1>7
<1>9. ListenRequests(q) \in Seq(Request) /\ Len(ListenRequests(q)) = n
  BY <1>1, <1>8, FunctionIsSeq
<1>10. QED
  BY <1>1, <1>6, <1>7, <1>9 DEF n

LEMMA ConcatOf ==
  ASSUME NEW s \in Seq(Request), NEW t \in Seq(Request)
  PROVE  /\ Len(s) \in Nat /\ Len(t) \in Nat
         /\ s \o t \in Seq(Request) /\ Len(s \o t) = Len(s) + Len(t)
         /\ \A i \in 1..Len(s) : (s \o t)[i] = s[i]
         /\ \A i \in 1..Len(t) : (s \o t)[Len(s) + i] = t[i]
<1> DEFINE c == s \o t
<1>1. Len(s) \in Nat /\ Len(t) \in Nat
  OBVIOUS
<1>2. /\ c \in Seq(Request) /\ Len(c) = Len(s) + Len(t)
      /\ \A i \in 1..Len(s) + Len(t) : c[i] = IF i <= Len(s) THEN s[i] ELSE t[i - Len(s)]
  BY ConcatProperties
<1> HIDE DEF c
<1>3. \A i \in 1..Len(s) : c[i] = s[i]
  BY <1>1, <1>2
<1>4. \A i \in 1..Len(t) : c[Len(s) + i] = t[i]
  <2>1. TAKE i \in 1..Len(t)
  <2>2. Len(s) + i \in 1..Len(s) + Len(t) /\ ~(Len(s) + i <= Len(s)) /\ Len(s) + i - Len(s) = i
    BY <1>1
  <2>3. QED
    BY <1>2, <2>2
<1>5. QED
  BY <1>1, <1>2, <1>3, <1>4 DEF c

\* What is sent behind the requests before: the listens of S, each once, and the
\* writes from a + 1 to b.
Restoration(r, before, S, a, b) ==
  LET n == Len(before)  k == Cardinality(S)
  IN /\ n \in Nat /\ k \in Nat
     /\ r \in Seq(Request) /\ Len(r) = n + k + (b - a)
     /\ \A i \in 1..n : r[i] = before[i]
     /\ \A i \in 1..k : r[n + i].op = "listen" /\ r[n + i].arg \in S
     /\ \A x \in S : \E i \in 1..k : r[n + i].arg = x
     /\ \A i \in 1..(b - a) : r[n + k + i].op = "put" /\ r[n + k + i].arg = a + i

\* Three sequences one behind the other.
LEMMA ThreeParts ==
  ASSUME NEW s \in Seq(Request), NEW t \in Seq(Request), NEW u \in Seq(Request)
  PROVE  /\ Len(s) \in Nat /\ Len(t) \in Nat /\ Len(u) \in Nat
         /\ s \o t \o u \in Seq(Request) /\ Len(s \o t \o u) = Len(s) + Len(t) + Len(u)
         /\ \A i \in 1..Len(s) : (s \o t \o u)[i] = s[i]
         /\ \A i \in 1..Len(t) : (s \o t \o u)[Len(s) + i] = t[i]
         /\ \A i \in 1..Len(u) : (s \o t \o u)[Len(s) + Len(t) + i] = u[i]
<1> DEFINE n == Len(s)
           k == Len(t)
           m == Len(u)
           c == s \o t
           r == c \o u
<1>1. /\ n \in Nat /\ k \in Nat
      /\ c \in Seq(Request) /\ Len(c) = n + k
      /\ \A i \in 1..n : c[i] = s[i]
      /\ \A i \in 1..k : c[n + i] = t[i]
  BY ConcatOf
<1> HIDE DEF c
<1>2. /\ Len(c) \in Nat /\ Len(u) \in Nat
      /\ c \o u \in Seq(Request) /\ Len(c \o u) = Len(c) + Len(u)
      /\ \A i \in 1..Len(c) : (c \o u)[i] = c[i]
      /\ \A i \in 1..Len(u) : (c \o u)[Len(c) + i] = u[i]
  BY <1>1, ConcatOf
<1> HIDE DEF n, k, m, r
<1>3. /\ m \in Nat
      /\ r \in Seq(Request) /\ Len(r) = n + k + m
  BY <1>1, <1>2 DEF m, r
<1>4. \A i \in 1..n + k : r[i] = c[i]
  BY <1>1, <1>2, Zenon DEF r
<1>5. \A i \in 1..m : r[n + k + i] = u[i]
  BY <1>1, <1>2, Zenon DEF m, r
<1>6. \A i \in 1..n : i \in 1..n + k
  BY <1>1
<1>7. \A i \in 1..k : n + i \in 1..n + k
  BY <1>1
<1>8. \A i \in 1..n : r[i] = s[i]
  BY <1>1, <1>4, <1>6
<1>9. \A i \in 1..k : r[n + i] = t[i]
  BY <1>1, <1>4, <1>7
<1>10. QED
  BY <1>1, <1>3, <1>5, <1>8, <1>9, Zenon DEF r, c, n, k, m

LEMMA Restored ==
  ASSUME NEW before \in Seq(Request), NEW S \in SUBSET Queries, IsFiniteSet(S),
         NEW q \in SetToSeqs(S), NEW a \in Nat, NEW b \in Nat, a <= b
  PROVE  Restoration(before \o ListenRequests(q) \o PutRequests(Sorted((a + 1)..b)),
                     before, S, a, b)
<1> DEFINE t == ListenRequests(q)
           u == PutRequests(Sorted((a + 1)..b))
           r == before \o t \o u
           n == Len(before)
           k == Cardinality(S)
           m == b - a
<1>1. u \in Seq(Request) /\ Len(u) = m /\ \A i \in 1..m : u[i] = Req("put", a + i)
  BY PutsSent
<1>2. /\ t \in Seq(Request) /\ Len(t) = k
      /\ \A i \in 1..k : q[i] \in S /\ t[i] = Req("listen", q[i])
      /\ \A x \in S : \E i \in 1..k : q[i] = x
  BY ListensSent
<1> HIDE DEF t, u, k, m, r
<1>3. before \in Seq(Request) /\ t \in Seq(Request) /\ u \in Seq(Request)
  BY <1>1, <1>2
<1>4. /\ Len(before) \in Nat /\ Len(t) \in Nat /\ Len(u) \in Nat
      /\ before \o t \o u \in Seq(Request)
      /\ Len(before \o t \o u) = Len(before) + Len(t) + Len(u)
      /\ \A i \in 1..Len(before) : (before \o t \o u)[i] = before[i]
      /\ \A i \in 1..Len(t) : (before \o t \o u)[Len(before) + i] = t[i]
      /\ \A i \in 1..Len(u) : (before \o t \o u)[Len(before) + Len(t) + i] = u[i]
  BY <1>3, ThreeParts
<1> HIDE DEF n
<1>5. /\ n \in Nat /\ k \in Nat /\ m \in Nat
      /\ r \in Seq(Request) /\ Len(r) = n + k + m
      /\ \A i \in 1..n : r[i] = before[i]
  BY <1>1, <1>2, <1>4, Zenon DEF r, n
<1>6. \A i \in 1..k : r[n + i] = t[i]
  BY <1>2, <1>4, Zenon DEF r, n
<1>7. \A i \in 1..m : r[n + k + i] = u[i]
  BY <1>1, <1>2, <1>4, Zenon DEF r, n
<1>8. \A i \in 1..k : r[n + i].op = "listen" /\ r[n + i].arg = q[i] /\ q[i] \in S
  <2>1. \A x : Req("listen", x).op = "listen" /\ Req("listen", x).arg = x
    BY DEF Req
  <2>2. TAKE i \in 1..k
  <2>3. r[n + i] = t[i] /\ t[i] = Req("listen", q[i]) /\ q[i] \in S
    BY <1>2, <1>6
  <2>4. r[n + i] = Req("listen", q[i])
    BY <2>3
  <2>5. QED
    BY <2>1, <2>3, <2>4
<1>9. \A i \in 1..m : r[n + k + i].op = "put" /\ r[n + k + i].arg = a + i
  <2>1. \A x : Req("put", x).op = "put" /\ Req("put", x).arg = x
    BY DEF Req
  <2>2. TAKE i \in 1..m
  <2>3. r[n + k + i] = u[i] /\ u[i] = Req("put", a + i)
    BY <1>1, <1>7
  <2>4. r[n + k + i] = Req("put", a + i)
    BY <2>3
  <2>5. QED
    BY <2>1, <2>4
<1>10. \A x \in S : \E i \in 1..k : r[n + i].arg = x
  <2>1. TAKE x \in S
  <2>2. PICK i \in 1..k : q[i] = x
    BY <1>2
  <2>3. r[n + i].arg = x
    BY <1>8, <2>2
  <2>4. QED
    BY <2>3
<1>11. \A i \in 1..k : r[n + i].op = "listen" /\ r[n + i].arg \in S
  <2>1. TAKE i \in 1..k
  <2>2. QED
    BY <1>8
<1>12. Restoration(r, before, S, a, b)
  BY <1>5, <1>9, <1>10, <1>11, Zenon DEF Restoration, n, k, m
<1>13. QED
  BY <1>12 DEF r, t, u

LEMMA RestorationCounts ==
  ASSUME NEW before \in Seq(Request), NEW S, NEW a \in Nat, NEW b \in Nat, a <= b,
         NEW r, Restoration(r, before, S, a, b)
  PROVE  Cardinality(Listening(r)) = Cardinality(Listening(before)) + Cardinality(S)
<1> DEFINE n == Len(before)
           k == Cardinality(S)
           N == (n + 1)..(n + k)
<1>1. /\ n \in Nat /\ k \in Nat
      /\ r \in Seq(Request) /\ Len(r) = n + k + (b - a)
      /\ \A i \in 1..n : r[i] = before[i]
      /\ \A i \in 1..k : r[n + i].op = "listen"
      /\ \A i \in 1..(b - a) : r[n + k + i].op = "put"
  BY DEF Restoration
<1> HIDE DEF n, k
<1>2. Listening(before) = {i \in 1..n : before[i].op = "listen"}
  BY DEF n, Listening
<1>3. \A i \in N : r[i].op = "listen"
  <2>1. TAKE i \in N
  <2>2. i - n \in 1..k /\ n + (i - n) = i
    BY <1>1
  <2>3. QED
    BY <1>1, <2>2
<1>4. \A i \in 1..Len(r) : i \in 1..n \/ i \in N \/ r[i].op = "put"
  <2>1. TAKE i \in 1..Len(r)
  <2>2. SUFFICES ASSUME i \notin 1..n, i \notin N PROVE r[i].op = "put"
    OBVIOUS
  <2>3. i - n - k \in 1..(b - a) /\ n + k + (i - n - k) = i
    BY <1>1, <2>2
  <2>4. QED
    BY <1>1, <2>3
<1>5. 1..n \subseteq 1..Len(r) /\ N \subseteq 1..Len(r) /\ 1..n \cap N = {}
  BY <1>1
<1> HIDE DEF N
<1>6. Listening(r) = Listening(before) \cup N /\ Listening(before) \cap N = {}
  BY <1>1, <1>2, <1>3, <1>4, <1>5 DEF Listening
<1>7. IsFiniteSet(N) /\ Cardinality(N) = k
  <2>1. n + k \in Nat /\ n <= n + k /\ n + 1 \in Int /\ n + k - n = k
    BY <1>1
  <2>2. IsFiniteSet(N)
    BY <2>1, FS_Interval DEF N
  <2>3. QED
    BY <1>1, <2>1, <2>2, IntervalSize DEF N
<1>8. IsFiniteSet(Listening(before))
  BY ListeningFinite
<1>9. Cardinality(Listening(r)) =
        Cardinality(Listening(before)) + Cardinality(N)
          - Cardinality(Listening(before) \cap N)
  BY <1>6, <1>7, <1>8, FS_Union
<1>10. Cardinality(Listening(before)) \in Nat /\ Cardinality(Listening(before) \cap N) = 0
  BY <1>6, ListeningFinite, FS_EmptySet
<1>11. QED
  BY <1>1, <1>7, <1>9, <1>10 DEF k

-----------------------------------------------------------------------------
(* The positions of writes, and of what concerns a query, in what changes.   *)

LEMMA TailParts ==
  ASSUME NEW s \in Seq(Request), s # <<>>
  PROVE  /\ \A i \in Puts(Tail(s)) : i \in Int /\ i + 1 \in Puts(s) /\ Tail(s)[i] = s[i + 1]
         /\ \A i \in Puts(s) : i # 1 => i - 1 \in Puts(Tail(s)) /\ Tail(s)[i - 1] = s[i]
         /\ \A q : \A i \in About(Tail(s), q) :
              i \in Int /\ i + 1 \in About(s, q) /\ Tail(s)[i] = s[i + 1]
         /\ \A q : \A i \in About(s, q) :
              i # 1 => i - 1 \in About(Tail(s), q) /\ Tail(s)[i - 1] = s[i]
<1> DEFINE t == Tail(s)
<1>1. /\ Len(s) \in Nat \ {0} /\ t \in Seq(Request) /\ Len(t) = Len(s) - 1
      /\ \A i \in 1..Len(s) - 1 : t[i] = s[i + 1]
  BY TailOf
<1> HIDE DEF t
<1>2. \A i \in 1..Len(t) : i \in Int /\ i + 1 \in 1..Len(s) /\ t[i] = s[i + 1]
  BY <1>1
<1>3. \A i \in 1..Len(s) : i # 1 => i - 1 \in 1..Len(t) /\ t[i - 1] = s[i]
  <2>1. TAKE i \in 1..Len(s)
  <2>2. HAVE i # 1
  <2>3. i - 1 \in 1..Len(s) - 1 /\ i - 1 + 1 = i
    BY <1>1, <2>2
  <2>4. QED
    BY <1>1, <2>3
<1>4. \A i \in Puts(t) : i \in Int /\ i + 1 \in Puts(s) /\ t[i] = s[i + 1]
  BY <1>2, Zenon DEF Puts
<1>5. \A i \in Puts(s) : i # 1 => i - 1 \in Puts(t) /\ t[i - 1] = s[i]
  BY <1>3, Zenon DEF Puts
<1>6. \A q : \A i \in About(t, q) : i \in Int /\ i + 1 \in About(s, q) /\ t[i] = s[i + 1]
  BY <1>2, Zenon DEF About
<1>7. \A q : \A i \in About(s, q) : i # 1 => i - 1 \in About(t, q) /\ t[i - 1] = s[i]
  BY <1>3, Zenon DEF About
<1>8. QED
  BY <1>4, <1>5, <1>6, <1>7 DEF t

LEMMA AppendParts ==
  ASSUME NEW s \in Seq(Request), NEW r \in Request
  PROVE  /\ \A i \in Puts(s) : i \in Puts(Append(s, r)) /\ Append(s, r)[i] = s[i]
         /\ \A i \in Puts(Append(s, r)) :
              i \in Puts(s) \/ (i = Len(s) + 1 /\ r.op = "put")
         /\ r.op = "put" => Len(s) + 1 \in Puts(Append(s, r))
         /\ \A q : \A i \in About(s, q) : i \in About(Append(s, r), q) /\ Append(s, r)[i] = s[i]
         /\ \A q : \A i \in About(Append(s, r), q) :
              \/ i \in About(s, q)
              \/ i = Len(s) + 1 /\ r.op \in {"listen", "unlisten"} /\ r.arg = q
         /\ \A q : r.op \in {"listen", "unlisten"} /\ r.arg = q
              => Len(s) + 1 \in About(Append(s, r), q)
<1> DEFINE t == Append(s, r)
<1>1. /\ Len(s) \in Nat /\ Len(t) = Len(s) + 1
      /\ \A i \in 1..Len(s) : t[i] = s[i]
      /\ t[Len(s) + 1] = r
  BY AppendOf
<1> HIDE DEF t
<1>2. \A i \in 1..Len(s) : i \in 1..Len(t) /\ t[i] = s[i]
  BY <1>1
<1>3. \A i \in 1..Len(t) : i \in 1..Len(s) \/ i = Len(s) + 1
  BY <1>1
<1>4. Len(s) + 1 \in 1..Len(t)
  BY <1>1
<1>5. \A i \in Puts(s) : i \in Puts(t) /\ t[i] = s[i]
  BY <1>2, Zenon DEF Puts
<1>6. \A i \in Puts(t) : i \in Puts(s) \/ (i = Len(s) + 1 /\ r.op = "put")
  BY <1>1, <1>2, <1>3, Zenon DEF Puts
<1>7. r.op = "put" => Len(s) + 1 \in Puts(t)
  BY <1>1, <1>4, Zenon DEF Puts
<1>8. \A q : \A i \in About(s, q) : i \in About(t, q) /\ t[i] = s[i]
  BY <1>2, Zenon DEF About
<1>9. \A q : \A i \in About(t, q) :
        \/ i \in About(s, q)
        \/ i = Len(s) + 1 /\ r.op \in {"listen", "unlisten"} /\ r.arg = q
  BY <1>1, <1>2, <1>3, Zenon DEF About
<1>10. \A q : r.op \in {"listen", "unlisten"} /\ r.arg = q => Len(s) + 1 \in About(t, q)
  BY <1>1, <1>4, Zenon DEF About
<1>11. QED
  BY <1>5, <1>6, <1>7, <1>8, <1>9, <1>10, Zenon DEF t

\* What a lost connection leaves: the requests behind the first m.
LEMMA RestParts ==
  ASSUME NEW s \in Seq(Request), NEW m \in 0..Len(s)
  PROVE  /\ SubSeq(s, m + 1, Len(s)) \in Seq(Request)
         /\ \A i \in Puts(SubSeq(s, m + 1, Len(s))) :
              i \in Int /\ m + i \in Puts(s) /\ m + i > m
              /\ SubSeq(s, m + 1, Len(s))[i] = s[m + i]
         /\ \A i \in Puts(s) : i > m => /\ i - m \in Puts(SubSeq(s, m + 1, Len(s)))
                                        /\ SubSeq(s, m + 1, Len(s))[i - m] = s[i]
<1> DEFINE t == SubSeq(s, m + 1, Len(s))
           k == Len(s)
<1>1. k \in Nat /\ m \in Nat /\ m <= k
  BY LenProperties
<1>2. t \in Seq(Request) /\ Len(t) = k - m /\ \A i \in 1..k - m : t[i] = s[m + i]
  <2>1. CASE m = k
    <3>1. t = <<>>
      BY <1>1, <2>1, SubSeqProperties
    <3>2. QED
      BY <1>1, <2>1, <3>1
  <2>2. CASE m < k
    <3>1. m + 1 \in 1..k /\ k \in (m + 1)..k
      BY <1>1, <2>2
    <3>2. /\ t \in Seq(Request) /\ Len(t) = k - (m + 1) + 1
          /\ \A i \in 1..k - (m + 1) + 1 : t[i] = s[(m + 1) + i - 1]
      BY <1>1, <3>1, SubSeqProperties
    <3>3. QED
      BY <1>1, <3>2
  <2>3. QED
    BY <1>1, <2>1, <2>2
<1> HIDE DEF t, k
<1>3. \A i \in 1..Len(t) : i \in Int /\ m + i \in 1..k /\ m + i > m /\ t[i] = s[m + i]
  BY <1>1, <1>2
<1>4. \A i \in 1..k : i > m => i - m \in 1..Len(t) /\ t[i - m] = s[i]
  <2>1. TAKE i \in 1..k
  <2>2. HAVE i > m
  <2>3. i - m \in 1..k - m /\ m + (i - m) = i
    BY <1>1, <2>2
  <2>4. QED
    BY <1>2, <2>3
<1>5. \A i \in Puts(t) : i \in Int /\ m + i \in Puts(s) /\ m + i > m /\ t[i] = s[m + i]
  BY <1>3, Zenon DEF Puts, k
<1>6. \A i \in Puts(s) : i > m => i - m \in Puts(t) /\ t[i - m] = s[i]
  BY <1>4, Zenon DEF Puts, k
<1>7. QED
  BY <1>2, <1>5, <1>6 DEF t, k

LEMMA NoParts == Puts(<<>>) = {} /\ Listening(<<>>) = {} /\ \A q : About(<<>>, q) = {}
BY DEF Puts, Listening, About

-----------------------------------------------------------------------------
(* The beginning, and steps that leave the requests alone. *)

LEMMA InvInit == Init => IInv
<1> SUFFICES ASSUME Init PROVE IInv
  OBVIOUS
<1> USE DEF Init
<1>1. TypeOK
  <2>1. Len(<<>>) = 0 /\ <<>> \in Seq(Request) /\ <<>> \in Seq(1..MaxPuts) /\ 0 \in 0..0
    OBVIOUS
  <2>2. 0 \in 0..MaxPuts /\ 0 \in 0..MaxFails
    BY ConnectionBounds
  <2>3. state \in States /\ reasons \subseteq Reasons /\ retry \in {"none", "plain", "forced"}
    BY DEF States, Reasons
  <2>4. QED
    BY <2>1, <2>2, <2>3 DEF TypeOK
<1>2. FetchIsBefore /\ OneWayUp
  BY DEF FetchIsBefore, OneWayUp
<1>3. IsFiniteSet(listens)
  BY FS_EmptySet
<1>4. UnackedCounts
  <2>1. {i \in DOMAIN line : line[i].op = "listen"} = {}
    OBVIOUS
  <2>2. QED
    BY <2>1, FS_EmptySet DEF UnackedCounts
<1>5. OneLine
  BY DEF OneLine
<1>6. CheckIsFirst
  BY DEF CheckIsFirst
<1>7. Kept
  <2>1. ToSet(putsToAck) = {}
    BY DEF ToSet
  <2>2. (0 + 1)..0 = {} /\ 1..0 = {}
    OBVIOUS
  <2>3. QED
    BY <2>1, <2>2 DEF Kept
<1>8. InLine
  BY NoParts DEF InLine
<1>9. InOld
  BY NoParts DEF InOld
<1>10. Agreed
  BY DEF Agreed, Connected
<1>11. QED
  BY <1>1, <1>2, <1>3, <1>4, <1>5, <1>6, <1>7, <1>8, <1>9, <1>10 DEF IInv, Wire

\* A step that changes neither requests nor what is remembered, and neither begins
\* nor ends a connection.
LEMMA Steady ==
  ASSUME IInv, UNCHANGED <<listens, putVars, wireVars>>,
         state' = state \/ (~Connected /\ ~Connected')
  PROVE  Wire'
<1> USE DEF putVars, wireVars
<1>1. Wire
  BY DEF IInv
<1>2. CASE state' = state
  <2>1. IsFiniteSet(listens)' /\ UnackedCounts' /\ OneLine' /\ CheckIsFirst'
    BY <1>1, <1>2 DEF Wire, UnackedCounts, OneLine, CheckIsFirst, Connected
  <2>2. Kept' /\ InLine' /\ InOld'
    BY <1>1, <1>2 DEF Wire, Kept, InLine, InOld
  <2>3. Agreed'
    BY <1>1, <1>2 DEF Wire, Agreed, Will, Connected
  <2>4. QED
    BY <2>1, <2>2, <2>3 DEF Wire
<1>3. CASE ~Connected /\ ~Connected'
  <2>1. line = <<>> /\ state' # "authenticating" /\ state' # "connected"
    BY <1>1, <1>3 DEF Wire, OneLine, Connected
  <2>2. IsFiniteSet(listens)' /\ UnackedCounts' /\ OneLine'
    BY <1>1, <1>3, <2>1 DEF Wire, UnackedCounts, OneLine, Connected
  <2>3. CheckIsFirst'
    BY <2>1 DEF CheckIsFirst
  <2>4. Kept' /\ InLine' /\ InOld'
    BY <1>1, <2>1 DEF Wire, Kept, InLine, InOld
  <2>5. Agreed'
    BY <1>3 DEF Agreed
  <2>6. QED
    BY <2>2, <2>3, <2>4, <2>5 DEF Wire
<1>4. QED
  BY <1>2, <1>3

\* What the connecting steps do keeps the types and the way up.
LEMMA ResumeKeeps ==
  ASSUME IInv, NEW r \in Reasons, Resume(r)
  PROVE  IInv'
<1>1. TypeOK'
  BY DEF IInv, TypeOK, Resume, TryScheduleReconnect, putVars, wireVars
<1>2. FetchIsBefore' /\ OneWayUp'
  BY DEF IInv, FetchIsBefore, OneWayUp, Resume, TryScheduleReconnect
<1>3. Wire'
  BY Steady DEF Resume
<1>4. QED
  BY <1>1, <1>2, <1>3 DEF IInv

LEMMA ForegroundKeeps ==
  ASSUME IInv, Foreground
  PROVE  IInv'
<1>1. TypeOK'
  BY DEF IInv, TypeOK, Foreground, TryScheduleReconnect, putVars, wireVars
<1>2. FetchIsBefore' /\ OneWayUp'
  BY DEF IInv, FetchIsBefore, OneWayUp, Foreground, TryScheduleReconnect
<1>3. Wire'
  BY Steady DEF Foreground
<1>4. QED
  BY <1>1, <1>2, <1>3 DEF IInv

LEMMA FetchTokenKeeps ==
  ASSUME IInv, FetchToken
  PROVE  IInv'
<1>1. TypeOK'
  BY DEF IInv, TypeOK, FetchToken, States, putVars, wireVars
<1>2. FetchIsBefore' /\ OneWayUp'
  BY DEF IInv, FetchIsBefore, OneWayUp, FetchToken
<1>3. ~Connected /\ ~Connected'
  BY DEF IInv, OneWayUp, FetchToken, Connected
<1>4. Wire'
  BY <1>3, Steady DEF FetchToken
<1>5. QED
  BY <1>1, <1>2, <1>4 DEF IInv

LEMMA TokenFetchedKeeps ==
  ASSUME IInv, NEW t \in BOOLEAN, TokenFetched(t)
  PROVE  IInv'
<1>1. TypeOK'
  BY DEF IInv, TypeOK, TokenFetched, States, putVars, wireVars
<1>2. FetchIsBefore' /\ OneWayUp'
  BY DEF IInv, FetchIsBefore, OneWayUp, TokenFetched
<1>3. state' = state \/ (~Connected /\ ~Connected')
  BY DEF TokenFetched, Connected
<1>4. Wire'
  BY <1>3, Steady DEF TokenFetched
<1>5. QED
  BY <1>1, <1>2, <1>4 DEF IInv

\* A failure more is still one of those there may be.
LEMMA FailureCounts ==
  ASSUME TypeOK, Failure
  PROVE  fails' \in 0..MaxFails
BY ConnectionBounds DEF TypeOK, Failure

LEMMA TokenFailsKeeps ==
  ASSUME IInv, TokenFails
  PROVE  IInv'
<1>1. fails' \in 0..MaxFails
  BY FailureCounts DEF IInv, TokenFails
<1>2. TypeOK'
  BY <1>1 DEF IInv, TypeOK, TokenFails, TryScheduleReconnect, States, putVars, wireVars
<1>3. FetchIsBefore' /\ OneWayUp'
  BY DEF IInv, FetchIsBefore, OneWayUp, TokenFails, TryScheduleReconnect
<1>4. ~Connected /\ ~Connected'
  BY DEF IInv, FetchIsBefore, TokenFails, Connected
<1>5. Wire'
  BY <1>4, Steady DEF TokenFails
<1>6. QED
  BY <1>2, <1>3, <1>5 DEF IInv

-----------------------------------------------------------------------------
(* A connection ends. *)

\* The writes it had under way are the next ones, in order.
LEMMA LeftInOrder ==
  ASSUME IInv, Connected, DropLine, UNCHANGED <<putVars, at>>
  PROVE  old' \in Seq(Request) /\ InOld'
<1> DEFINE t == SubSeq(line, served + 1, Len(line))
<1>1. old' = t /\ answered' = answered /\ issued' = issued /\ at' = at
  BY DEF DropLine, putVars
<1>2. line \in Seq(Request) /\ served \in 0..Len(line) /\ served \in Int
  BY DEF IInv, TypeOK
<1>3. answered \in Int /\ issued \in Int /\ at \in Int /\ answered <= at
  BY DEF IInv, TypeOK, Wire, Kept
<1>4. /\ t \in Seq(Request)
      /\ \A i \in Puts(t) : /\ i \in Int /\ served + i \in Puts(line) /\ served + i > served
                            /\ t[i] = line[served + i]
      /\ \A i \in Puts(line) : i > served => i - served \in Puts(t) /\ t[i - served] = line[i]
  BY <1>2, RestParts
<1> HIDE DEF t
<1>5. /\ \A i \in Puts(line) : line[i].arg \in (answered + 1)..issued
      /\ \A i, j \in Puts(line) : i < j => line[i].arg < line[j].arg
      /\ \A i \in Puts(line) : i <= served => line[i].arg <= at
  BY DEF IInv, Wire, InLine
<1>6. \A i \in Puts(t) : t[i].arg \in (answered + 1)..issued
  BY <1>4, <1>5
<1>7. \A i, j \in Puts(t) : i < j => t[i].arg < t[j].arg
  <2>1. TAKE i, j \in Puts(t)
  <2>2. HAVE i < j
  <2>3. /\ served + i \in Puts(line) /\ served + j \in Puts(line) /\ served + i < served + j
        /\ t[i] = line[served + i] /\ t[j] = line[served + j]
    BY <1>2, <1>4, <2>2
  <2>4. QED
    BY <1>5, <2>3
<1>8. ASSUME NEW i \in Puts(t)
      PROVE  \/ t[i].arg <= at + 1 /\ \A j \in Puts(t) : i <= j
             \/ \E j \in Puts(t) : j < i /\ t[j].arg = t[i].arg - 1
  <2> DEFINE p == served + i
             n == line[p].arg
  <2>1. i \in Int /\ p \in Puts(line) /\ p > served /\ t[i] = line[p] /\ p \in Int
    BY <1>2, <1>4
  <2>2. n \in (answered + 1)..issued /\ n \in Int
    BY <1>5, <2>1
  <2> HIDE DEF n
  <2>3. state = "connected"
    <3>1. state # "authenticating"
      BY <2>1 DEF IInv, Wire, CheckIsFirst
    <3>2. QED
      BY <3>1 DEF Connected
  <2>4. CASE n = answered + 1
    <3>1. \A j \in Puts(t) : i <= j
      <4>1. TAKE j \in Puts(t)
      <4>2. /\ j \in Int /\ served + j \in Puts(line)
            /\ line[served + j].arg \in (answered + 1)..issued
        BY <1>4, <1>5
      <4>3. ~(served + j < p)
        <5>1. SUFFICES ASSUME served + j < p PROVE FALSE
          OBVIOUS
        <5>2. line[served + j].arg < n
          BY <1>5, <2>1, <4>2, <5>1 DEF n
        <5>3. QED
          BY <1>3, <2>4, <4>2, <5>2
      <4>4. QED
        BY <1>2, <2>1, <4>2, <4>3
    <3>2. n <= at + 1
      BY <1>3, <2>4
    <3>3. QED
      BY <2>1, <3>1, <3>2 DEF n
  <2>5. CASE n # answered + 1
    <3>1. n - 1 \in (answered + 1)..issued
      BY <1>3, <2>2, <2>5
    <3>2. PICK j \in Puts(line) : line[j].arg = n - 1
      BY <2>3, <3>1 DEF IInv, Wire, InLine
    <3>3. j \in Int
      BY <1>2, LenProperties DEF Puts
    <3>4. j < p
      <4>1. ~(p < j)
        BY <1>5, <2>1, <2>2, <3>2 DEF n
      <4>2. j # p
        BY <2>2, <3>2 DEF n
      <4>3. QED
        BY <2>1, <3>3, <4>1, <4>2
    <3>5. CASE j > served
      <4>1. j - served \in Puts(t) /\ t[j - served] = line[j] /\ j - served < i
        BY <1>2, <1>4, <2>1, <3>3, <3>4, <3>5
      <4>2. t[j - served].arg = t[i].arg - 1
        BY <2>1, <3>2, <4>1 DEF n
      <4>3. QED
        BY <4>1, <4>2
    <3>6. CASE j <= served
      <4>1. n <= at + 1
        BY <1>3, <1>5, <2>2, <3>2, <3>6
      <4>2. \A h \in Puts(t) : i <= h
        <5>1. TAKE h \in Puts(t)
        <5>2. h \in Int /\ served + h \in Puts(line) /\ j < served + h
              /\ line[served + h].arg \in Int
          <6>1. h \in Int /\ served + h \in Puts(line) /\ served + h > served
            BY <1>4
          <6>2. line[served + h].arg \in (answered + 1)..issued
            BY <1>5, <6>1
          <6>3. QED
            BY <1>2, <3>3, <3>6, <6>1, <6>2
        <5>3. n - 1 < line[served + h].arg
          BY <1>5, <3>2, <5>2
        <5>4. ~(served + h < p)
          <6>1. SUFFICES ASSUME served + h < p PROVE FALSE
            OBVIOUS
          <6>2. line[served + h].arg < n
            BY <1>5, <2>1, <5>2, <6>1 DEF n
          <6>3. QED
            BY <2>2, <5>2, <5>3, <6>2
        <5>5. QED
          BY <1>2, <2>1, <5>2, <5>4
      <4>3. QED
        BY <2>1, <4>1, <4>2 DEF n
    <3>7. j > served \/ j <= served
      BY <1>2, <3>3
    <3>8. QED
      BY <3>5, <3>6, <3>7
  <2>6. QED
    BY <2>4, <2>5
<1>9. InOld'
  BY <1>1, <1>6, <1>7, <1>8, Zenon DEF InOld
<1>10. QED
  BY <1>1, <1>4, <1>9

LEMMA Dropped ==
  ASSUME IInv, Realtime, DropLine, UNCHANGED <<listens, putVars, subs, at>>
  PROVE  /\ Wire' /\ old' \in Seq(Request) /\ line' \in Seq(Request)
         /\ served' \in 0..Len(line') /\ unacked' \in Nat /\ state' = "disconnected"
<1>1. line' = <<>> /\ served' = 0 /\ unacked' = 0 /\ state' = "disconnected" /\ ~Connected'
  BY DEF DropLine, Connected
<1>2. old' \in Seq(Request) /\ InOld'
  <2>1. CASE Connected
    BY <2>1, LeftInOrder
  <2>2. CASE ~Connected
    BY <2>2 DEF DropLine, IInv, TypeOK, Wire, InOld, putVars
  <2>3. QED
    BY <2>1, <2>2
<1>3. IsFiniteSet(listens)' /\ Kept'
  BY DEF IInv, Wire, Kept, putVars
<1>4. UnackedCounts'
  <2>1. {i \in DOMAIN line' : line'[i].op = "listen"} = {}
    BY <1>1
  <2>2. QED
    BY <1>1, <2>1, FS_EmptySet DEF UnackedCounts
<1>5. OneLine' /\ CheckIsFirst' /\ InLine' /\ Agreed'
  BY <1>1, NoParts DEF OneLine, CheckIsFirst, InLine, Agreed
<1>6. line' \in Seq(Request) /\ served' \in 0..Len(line') /\ unacked' \in Nat
  <2>1. Len(<<>>) = 0 /\ <<>> \in Seq(Request) /\ 0 \in 0..0
    OBVIOUS
  <2>2. QED
    BY <1>1, <2>1
<1>7. QED
  BY <1>1, <1>2, <1>3, <1>4, <1>5, <1>6 DEF Wire

LEMMA LostKeeps ==
  ASSUME IInv, Lost
  PROVE  IInv'
<1>1. /\ Wire' /\ old' \in Seq(Request) /\ line' \in Seq(Request)
      /\ served' \in 0..Len(line') /\ unacked' \in Nat /\ state' = "disconnected"
  BY Dropped DEF Lost, OnDisconnect
<1>2. fails' \in 0..MaxFails
  BY FailureCounts DEF IInv, Lost
<1>3. TypeOK'
  BY <1>1, <1>2 DEF IInv, TypeOK, Lost, OnDisconnect, TryScheduleReconnect, States, putVars
<1>4. FetchIsBefore' /\ OneWayUp'
  BY <1>1 DEF IInv, FetchIsBefore, OneWayUp, Lost, OnDisconnect, TryScheduleReconnect, Realtime
<1>5. QED
  BY <1>1, <1>3, <1>4 DEF IInv

LEMMA AuthFailsKeeps ==
  ASSUME IInv, AuthFails
  PROVE  IInv'
<1>1. Realtime
  BY DEF AuthFails, Connected, Realtime
<1>2. /\ Wire' /\ old' \in Seq(Request) /\ line' \in Seq(Request)
      /\ served' \in 0..Len(line') /\ unacked' \in Nat /\ state' = "disconnected"
  BY <1>1, Dropped DEF AuthFails, OnDisconnect
<1>3. fails' \in 0..MaxFails
  BY FailureCounts DEF IInv, AuthFails
<1>4. TypeOK'
  BY <1>2, <1>3 DEF IInv, TypeOK, AuthFails, OnDisconnect, TryScheduleReconnect, States, putVars
<1>5. FetchIsBefore' /\ OneWayUp'
  BY <1>1, <1>2
     DEF IInv, FetchIsBefore, OneWayUp, AuthFails, OnDisconnect, TryScheduleReconnect, Realtime
<1>6. QED
  BY <1>2, <1>4, <1>5 DEF IInv

LEMMA InterruptKeeps ==
  ASSUME IInv, NEW r \in Reasons, Interrupt(r)
  PROVE  IInv'
<1>1. fails' \in 0..MaxFails
  BY FailureCounts DEF IInv, Interrupt
<1>2. CASE Realtime
  <2>1. /\ Wire' /\ old' \in Seq(Request) /\ line' \in Seq(Request)
        /\ served' \in 0..Len(line') /\ unacked' \in Nat /\ state' = "disconnected"
    BY <1>2, Dropped DEF Interrupt
  <2>2. TypeOK'
    BY <1>1, <1>2, <2>1 DEF IInv, TypeOK, Interrupt, States, putVars
  <2>3. FetchIsBefore' /\ OneWayUp'
    BY <1>2, <2>1 DEF IInv, FetchIsBefore, OneWayUp, Interrupt, Realtime
  <2>4. QED
    BY <2>1, <2>2, <2>3 DEF IInv
<1>3. CASE ~Realtime
  <2>1. ~Connected /\ ~Connected'
    BY <1>3 DEF Interrupt, Connected, Realtime
  <2>2. Wire'
    BY <1>3, <2>1, Steady DEF Interrupt, wireVars
  <2>3. TypeOK'
    BY <1>1, <1>3 DEF IInv, TypeOK, Interrupt, States, putVars
  <2>4. FetchIsBefore' /\ OneWayUp'
    BY <1>3 DEF IInv, FetchIsBefore, OneWayUp, Interrupt
  <2>5. QED
    BY <2>2, <2>3, <2>4 DEF IInv
<1>4. QED
  BY <1>2, <1>3

-----------------------------------------------------------------------------
(* A connection begins: what is remembered is sent again. *)

LEMMA RestorationParts ==
  ASSUME NEW before \in Seq(Request), NEW S, NEW a \in Nat, NEW b \in Nat, a <= b,
         NEW r, Restoration(r, before, S, a, b), Puts(before) = {}
  PROVE  /\ \A i \in Puts(r) : i > Len(before) /\ r[i].arg \in (a + 1)..b
         /\ \A i, j \in Puts(r) : i < j => r[i].arg < r[j].arg
         /\ \A x \in (a + 1)..b : \E i \in Puts(r) : r[i].arg = x
         /\ \A q : \A i \in About(before, q) : i \in About(r, q) /\ r[i] = before[i]
         /\ \A q : \A i \in About(r, q) :
              i \in About(before, q) \/ (i > Len(before) /\ r[i].op = "listen" /\ q \in S)
         /\ \A q \in S : \E i \in About(r, q) : i > Len(before)
         /\ \A i \in 1..Len(r) : r[i].op = "authRestore" => i \in 1..Len(before)
<1> DEFINE n == Len(before)
           k == Cardinality(S)
<1>1. /\ n \in Nat /\ k \in Nat
      /\ r \in Seq(Request) /\ Len(r) = n + k + (b - a)
      /\ \A i \in 1..n : r[i] = before[i]
      /\ \A i \in 1..k : r[n + i].op = "listen" /\ r[n + i].arg \in S
      /\ \A x \in S : \E i \in 1..k : r[n + i].arg = x
      /\ \A i \in 1..(b - a) : r[n + k + i].op = "put" /\ r[n + k + i].arg = a + i
  BY DEF Restoration
<1>2. \A i \in 1..n : before[i].op # "put"
  BY DEF Puts
<1> HIDE DEF n, k
<1>3. ASSUME NEW i \in 1..Len(r)
      PROVE  \/ i \in 1..n /\ r[i] = before[i]
             \/ i > n /\ r[i].op = "listen" /\ r[i].arg \in S
             \/ i > n /\ r[i].op = "put" /\ r[i].arg = i - n - k + a /\ i - n - k \in 1..(b - a)
  <2>1. CASE i <= n
    BY <1>1, <2>1
  <2>2. CASE i > n /\ i <= n + k
    <3>1. i - n \in 1..k /\ n + (i - n) = i
      BY <1>1, <2>2
    <3>2. r[i].op = "listen" /\ r[i].arg \in S
      BY <1>1, <3>1
    <3>3. QED
      BY <2>2, <3>2
  <2>3. CASE i > n + k
    <3>1. i - n - k \in 1..(b - a) /\ n + k + (i - n - k) = i /\ i > n
      BY <1>1, <2>3
    <3>2. r[i].op = "put" /\ r[i].arg = a + (i - n - k)
      BY <1>1, <3>1
    <3>3. a + (i - n - k) = i - n - k + a
      BY <1>1, <3>1
    <3>4. QED
      BY <3>1, <3>2, <3>3
  <2>4. QED
    BY <1>1, <2>1, <2>2, <2>3
<1>4. \A i \in Puts(r) :
        i \in Int /\ i > n /\ r[i].arg = i - n - k + a /\ i - n - k \in 1..(b - a)
  <2>1. TAKE i \in Puts(r)
  <2>2. i \in 1..Len(r) /\ i \in Int /\ r[i].op = "put"
    BY <1>1 DEF Puts
  <2>3. ~(i \in 1..n /\ r[i] = before[i])
    BY <1>2, <2>2
  <2>4. QED
    BY <1>3, <2>2, <2>3
<1>5. \A i \in Puts(r) : i > n /\ r[i].arg \in (a + 1)..b
  <2>1. TAKE i \in Puts(r)
  <2>2. i \in Int /\ i > n /\ r[i].arg = i - n - k + a /\ i - n - k \in 1..(b - a)
    BY <1>4
  <2>3. i - n - k + a \in (a + 1)..b
    BY <1>1, <2>2
  <2>4. QED
    BY <2>2, <2>3
<1>6. \A i, j \in Puts(r) : i < j => r[i].arg < r[j].arg
  <2>1. TAKE i, j \in Puts(r)
  <2>2. HAVE i < j
  <2>3. i \in Int /\ j \in Int /\ r[i].arg = i - n - k + a /\ r[j].arg = j - n - k + a
    BY <1>4
  <2>4. i - n - k + a < j - n - k + a
    BY <1>1, <2>2, <2>3
  <2>5. QED
    BY <2>3, <2>4
<1>7. \A x \in (a + 1)..b : \E i \in Puts(r) : r[i].arg = x
  <2>1. TAKE x \in (a + 1)..b
  <2>2. x - a \in 1..(b - a) /\ a + (x - a) = x /\ n + k + (x - a) \in 1..Len(r)
    BY <1>1
  <2>3. r[n + k + (x - a)].op = "put" /\ r[n + k + (x - a)].arg = a + (x - a)
    BY <1>1, <2>2
  <2>4. n + k + (x - a) \in Puts(r)
    BY <2>2, <2>3 DEF Puts
  <2>5. QED
    BY <2>2, <2>3, <2>4
<1>8. \A i \in 1..n : i \in 1..Len(r)
  BY <1>1
<1>9. \A q : \A i \in About(before, q) : i \in About(r, q) /\ r[i] = before[i]
  BY <1>1, <1>8, Zenon DEF About, n
<1>10. \A q : \A i \in About(r, q) :
         i \in About(before, q) \/ (i > n /\ r[i].op = "listen" /\ q \in S)
  <2>1. TAKE q
  <2>2. TAKE i \in About(r, q)
  <2>3. i \in 1..Len(r) /\ r[i].op \in {"listen", "unlisten"} /\ r[i].arg = q
    BY DEF About
  <2>4. CASE i \in 1..n /\ r[i] = before[i]
    BY <2>3, <2>4 DEF About, n
  <2>5. CASE i > n /\ r[i].op = "listen" /\ r[i].arg \in S
    BY <2>3, <2>5
  <2>6. r[i].op # "put"
    BY <2>3
  <2>7. QED
    BY <1>3, <2>3, <2>4, <2>5, <2>6
<1>11. \A q \in S : \E i \in About(r, q) : i > n
  <2>1. TAKE q \in S
  <2>2. PICK i \in 1..k : r[n + i].arg = q
    BY <1>1
  <2>3. i \in Int /\ 1 <= i /\ i <= k
    BY <1>1
  <2>4. n + i \in 1..Len(r) /\ n + i > n
    BY <1>1, <2>3
  <2>5. r[n + i].op = "listen"
    BY <1>1
  <2>6. n + i \in About(r, q)
    BY <2>2, <2>4, <2>5 DEF About
  <2>7. QED
    BY <2>4, <2>6
<1>12. \A i \in 1..Len(r) : r[i].op = "authRestore" => i \in 1..n
  <2>1. TAKE i \in 1..Len(r)
  <2>2. HAVE r[i].op = "authRestore"
  <2>3. QED
    BY <1>3, <2>2
<1>13. QED
  BY <1>5, <1>6, <1>7, <1>9, <1>10, <1>11, <1>12 DEF n

LEMMA AfterRestore ==
  ASSUME IInv, NEW before \in Seq(Request), RestoreState(before), state' = "connected",
         UNCHANGED <<listens, putVars, at>>, old' = <<>>, served' \in 0..Len(before),
         Puts(before) = {}, unacked = Cardinality(Listening(before)),
         \A i \in 1..Len(before) : before[i].op # "authRestore",
         \A q \in Queries \ listens :
           /\ (\A i \in About(before, q) : i <= served') => q \notin subs'
           /\ \A i \in About(before, q) :
                i > served' /\ (\A j \in About(before, q) : j <= i) => before[i].op # "listen"
  PROVE  Wire' /\ line' \in Seq(Request) /\ served' \in 0..Len(line') /\ unacked' \in Nat
<1>1. /\ answered \in Nat /\ issued \in Nat /\ answered <= issued
      /\ out = (answered + 1)..issued /\ listens \in SUBSET Queries /\ IsFiniteSet(listens)
      /\ at \in Nat /\ answered <= at
  <2>1. answered \in Nat /\ issued \in Nat /\ at \in Nat
    BY ConnectionBounds DEF IInv, TypeOK
  <2>2. QED
    BY <2>1 DEF IInv, TypeOK, Wire, Kept
<1>2. PICK q0 \in SetToSeqs(listens) :
        line' = before \o ListenRequests(q0) \o PutRequests(Sorted((answered + 1)..issued))
  BY <1>1 DEF RestoreState
<1>3. Restoration(line', before, listens, answered, issued)
  BY <1>1, <1>2, Restored
<1>4. /\ \A i \in Puts(line') : i > Len(before) /\ line'[i].arg \in (answered + 1)..issued
      /\ \A i, j \in Puts(line') : i < j => line'[i].arg < line'[j].arg
      /\ \A x \in (answered + 1)..issued : \E i \in Puts(line') : line'[i].arg = x
      /\ \A q : \A i \in About(before, q) : i \in About(line', q) /\ line'[i] = before[i]
      /\ \A q : \A i \in About(line', q) :
           \/ i \in About(before, q)
           \/ i > Len(before) /\ line'[i].op = "listen" /\ q \in listens
      /\ \A q \in listens : \E i \in About(line', q) : i > Len(before)
      /\ \A i \in 1..Len(line') : line'[i].op = "authRestore" => i \in 1..Len(before)
  BY <1>1, <1>3, RestorationParts
<1>5. Len(before) \in Nat /\ line' \in Seq(Request) /\ Len(before) <= Len(line')
      /\ \A i \in 1..Len(before) : line'[i] = before[i]
  BY <1>1, <1>3 DEF Restoration
<1>6. served' \in 0..Len(line') /\ served' \in Int /\ served' <= Len(before)
  <2>1. Len(line') \in Nat
    BY <1>5, LenProperties
  <2>2. QED
    BY <1>5, <2>1
<1>7. unacked' = Cardinality(Listening(line')) /\ unacked' \in Nat
  <2>1. Cardinality(Listening(line')) = Cardinality(Listening(before)) + Cardinality(listens)
    BY <1>1, <1>3, RestorationCounts
  <2>2. Cardinality(Listening(line')) \in Nat
    BY <1>5, ListeningFinite
  <2>3. QED
    BY <2>1, <2>2 DEF RestoreState
<1>8. IsFiniteSet(listens)' /\ Kept' /\ OneLine'
  BY DEF IInv, Wire, Kept, OneLine, Connected, putVars
<1>9. UnackedCounts'
  BY <1>5, <1>7, ListeningFinite DEF UnackedCounts
<1>10. CheckIsFirst'
  BY <1>4, <1>5 DEF CheckIsFirst
<1>11. InOld'
  BY NoParts DEF InOld
<1>12. InLine'
  <2>1. answered' = answered /\ issued' = issued
    BY DEF putVars
  <2>2. \A i \in Puts(line') : i \in Int
    <3>1. Len(line') \in Nat
      BY <1>5, LenProperties
    <3>2. QED
      BY <3>1 DEF Puts
  <2>3. \A i \in Puts(line') : ~(i <= served')
    BY <1>4, <1>5, <1>6, <2>2
  <2>4. QED
    BY <1>4, <2>1, <2>3 DEF InLine
<1>13. ASSUME NEW q \in Queries PROVE Will(q)'
  <2>1. \A i \in About(line', q) : i \in Int
    <3>1. Len(line') \in Nat
      BY <1>5, LenProperties
    <3>2. QED
      BY <3>1 DEF About
  <2>2. CASE q \in listens
    <3>1. PICK i \in About(line', q) : i > Len(before)
      BY <1>4, <2>2
    <3>2. ~(i <= served')
      BY <1>5, <1>6, <2>1, <3>1
    <3>3. \A j \in About(line', q) :
            (\A h \in About(line', q) : h <= j) => line'[j].op = "listen"
      <4>1. TAKE j \in About(line', q)
      <4>2. HAVE \A h \in About(line', q) : h <= j
      <4>3. i <= j
        BY <4>2
      <4>4. j > Len(before)
        BY <1>5, <2>1, <3>1, <4>3
      <4>5. j \notin About(before, q)
        BY <1>5, <4>4 DEF About
      <4>6. QED
        BY <1>4, <4>5
    <3>4. QED
      BY <2>2, <3>2, <3>3 DEF Will
  <2>3. CASE q \notin listens
    <3>1. \A i : i \in About(line', q) <=> i \in About(before, q)
      BY <1>4, <2>3
    <3>2. \A i \in About(before, q) : line'[i] = before[i]
      BY <1>4
    <3>3. (\A i \in About(line', q) : i <= served') => q \notin subs'
      BY <2>3, <3>1
    <3>4. \A i \in About(line', q) :
            i > served' /\ (\A j \in About(line', q) : j <= i) => line'[i].op # "listen"
      <4>1. TAKE i \in About(line', q)
      <4>2. HAVE i > served' /\ (\A j \in About(line', q) : j <= i)
      <4>3. i \in About(before, q) /\ \A j \in About(before, q) : j <= i
        BY <3>1, <4>2
      <4>4. before[i].op # "listen"
        BY <2>3, <4>2, <4>3
      <4>5. QED
        BY <3>2, <4>3, <4>4
    <3>5. QED
      BY <2>3, <3>3, <3>4 DEF Will
  <2>4. QED
    BY <2>2, <2>3
<1>14. Agreed'
  BY <1>13 DEF Agreed
<1>15. QED
  BY <1>5, <1>6, <1>7, <1>8, <1>9, <1>10, <1>11, <1>12, <1>14 DEF Wire

LEMMA OnReadyKeeps ==
  ASSUME IInv, OnReady
  PROVE  IInv'
<1>1. ~Connected /\ state = "connecting" /\ fetching = FALSE
  BY DEF IInv, FetchIsBefore, OnReady, Connected
<1>2. line = <<>> /\ unacked = 0
  <2>1. line = <<>>
    BY <1>1 DEF IInv, Wire, OneLine
  <2>2. {i \in DOMAIN line : line[i].op = "listen"} = {}
    BY <2>1
  <2>3. QED
    BY <2>1, <2>2, FS_EmptySet DEF IInv, Wire, UnackedCounts
<1>3. Wire' /\ line' \in Seq(Request) /\ served' \in 0..Len(line') /\ unacked' \in Nat
  <2>1. CASE token
    <3>1. state' = "authenticating" /\ line' = <<Req("authRestore", none)>> /\ unacked' = 0
      BY <1>2, <2>1 DEF OnReady
    <3>2. line'[1].op = "authRestore" /\ Len(line') = 1
      BY <3>1 DEF Req
    <3>3. line' \in Seq(Request)
      <4>1. Req("authRestore", none) \in Request
        BY RequestKinds
      <4>2. QED
        BY <3>1, <4>1
    <3>4. Puts(line') = {} /\ \A q : About(line', q) = {}
      <4>1. \A i \in 1..Len(line') : line'[i].op = "authRestore"
        BY <3>2
      <4>2. QED
        BY <4>1 DEF Puts, About
    <3>5. UnackedCounts'
      <4>1. DOMAIN line' = 1..1
        BY <3>1
      <4>2. {i \in DOMAIN line' : line'[i].op = "listen"} = {}
        BY <3>2, <4>1
      <4>3. QED
        BY <3>1, <4>2, FS_EmptySet DEF UnackedCounts
    <3>6. OneLine' /\ CheckIsFirst'
      <4>1. line' # <<>>
        BY <3>1
      <4>2. \A i \in 1..Len(line') : i = 1
        BY <3>2
      <4>3. QED
        BY <3>1, <3>2, <3>4, <4>1, <4>2 DEF OneLine, CheckIsFirst, Connected, OnReady
    <3>7. IsFiniteSet(listens)' /\ Kept'
      BY DEF IInv, Wire, Kept, OnReady, putVars
    <3>8. InLine' /\ InOld'
      BY <3>1, <3>4, NoParts DEF InLine, InOld, OnReady
    <3>9. Agreed'
      BY <3>1, <3>4 DEF Agreed, Will, OnReady
    <3>10. served' \in 0..Len(line') /\ unacked' \in Nat
      BY <3>1, <3>2 DEF OnReady
    <3>11. QED
      BY <3>3, <3>5, <3>6, <3>7, <3>8, <3>9, <3>10 DEF Wire
  <2>2. CASE ~token
    <3>1. /\ RestoreState(<<>>) /\ state' = "connected" /\ UNCHANGED <<listens, putVars, at>>
          /\ old' = <<>> /\ served' = 0 /\ subs' = {}
      BY <2>2 DEF OnReady
    <3>2. <<>> \in Seq(Request) /\ Len(<<>>) = 0 /\ 0 \in 0..0 /\ 1..0 = {}
      OBVIOUS
    <3>3. served' \in 0..Len(<<>>) /\ \A i \in 1..Len(<<>>) : <<>>[i].op # "authRestore"
      BY <3>1, <3>2
    <3>4. unacked = Cardinality(Listening(<<>>)) /\ Puts(<<>>) = {}
      BY <1>2, NoParts, FS_EmptySet
    <3>5. \A q \in Queries \ listens :
            /\ (\A i \in About(<<>>, q) : i <= served') => q \notin subs'
            /\ \A i \in About(<<>>, q) :
                 i > served' /\ (\A j \in About(<<>>, q) : j <= i) => <<>>[i].op # "listen"
      BY <3>1, NoParts
    <3>6. QED
      BY <3>1, <3>2, <3>3, <3>4, <3>5, AfterRestore
  <2>3. QED
    BY <2>1, <2>2
<1>4. state' \in {"authenticating", "connected"}
  BY DEF OnReady
<1>5. TypeOK'
  BY <1>3, <1>4 DEF IInv, TypeOK, OnReady, States, putVars
<1>6. FetchIsBefore' /\ OneWayUp'
  BY <1>1, <1>4 DEF IInv, FetchIsBefore, OneWayUp, OnReady
<1>7. QED
  BY <1>3, <1>5, <1>6 DEF IInv

-----------------------------------------------------------------------------
(* A request is made. *)

\* What does not concern a query leaves what the server will listen for.
LEMMA OthersWill ==
  ASSUME IInv, NEW q \in Queries, NEW r \in Request, line' = Append(line, r),
         ~(r.op \in {"listen", "unlisten"} /\ r.arg = q),
         served' = served, subs' = subs, q \in listens' <=> q \in listens, Will(q)
  PROVE  Will(q)'
<1>1. line \in Seq(Request)
  BY DEF IInv, TypeOK
<1>2. \A i : i \in About(line', q) <=> i \in About(line, q)
  BY <1>1, AppendParts
<1>3. \A i \in About(line, q) : line'[i] = line[i]
  <2>1. \A i \in 1..Len(line) : line'[i] = line[i]
    BY <1>1, AppendOf
  <2>2. QED
    BY <2>1 DEF About
<1>4. (\A i \in About(line', q) : i <= served') => (q \in subs' <=> q \in listens')
  BY <1>2 DEF Will
<1>5. \A i \in About(line', q) :
        i > served' /\ (\A j \in About(line', q) : j <= i)
          => (line'[i].op = "listen" <=> q \in listens')
  BY <1>2, <1>3 DEF Will
<1>6. QED
  BY <1>4, <1>5 DEF Will

\* The last of what concerns a query decides.
LEMMA LastDecides ==
  ASSUME IInv, NEW q \in Queries, NEW op \in {"listen", "unlisten"},
         line' = Append(line, Req(op, q)), served' = served, q \in listens' <=> op = "listen"
  PROVE  Will(q)'
<1>1. line \in Seq(Request) /\ Req(op, q) \in Request /\ Req(op, q).op = op
      /\ Req(op, q).arg = q /\ served \in 0..Len(line) /\ Len(line) \in Nat
  <2>1. Req(op, q).op = op /\ Req(op, q).arg = q
    BY DEF Req
  <2>2. line \in Seq(Request) /\ served \in 0..Len(line)
    BY DEF IInv, TypeOK
  <2>3. QED
    BY <2>1, <2>2, RequestKinds, LenProperties
<1>2. /\ Len(line) + 1 \in About(line', q) /\ Len(line') = Len(line) + 1
      /\ line'[Len(line) + 1] = Req(op, q)
  BY <1>1, AppendParts, AppendOf
<1>3. ~(Len(line) + 1 <= served')
  BY <1>1
<1>4. \A i \in About(line', q) : (\A j \in About(line', q) : j <= i) => i = Len(line) + 1
  <2>1. TAKE i \in About(line', q)
  <2>2. HAVE \A j \in About(line', q) : j <= i
  <2>3. i \in 1..Len(line) + 1 /\ Len(line) + 1 <= i
    BY <1>2, <2>2 DEF About
  <2>4. QED
    BY <1>1, <2>3
<1>5. ~(\A i \in About(line', q) : i <= served')
  BY <1>2, <1>3
<1>6. \A i \in About(line', q) :
        (\A j \in About(line', q) : j <= i) => (line'[i].op = "listen" <=> q \in listens')
  BY <1>1, <1>2, <1>4
<1>7. QED
  BY <1>5, <1>6 DEF Will

\* A request behind the others, other than a write.
LEMMA Asked ==
  ASSUME IInv, Connected, NEW r \in Request, r.op \notin {"put", "authRestore"},
         line' = Append(line, r), UNCHANGED <<state, putVars, served, old, at>>,
         unacked' = unacked + (IF r.op = "listen" THEN 1 ELSE 0),
         IsFiniteSet(listens'), Agreed'
  PROVE  Wire' /\ line' \in Seq(Request) /\ served' \in 0..Len(line') /\ unacked' \in Nat
<1>1. /\ line \in Seq(Request) /\ served \in 0..Len(line) /\ served \in Int /\ unacked \in Nat
      /\ served' = served /\ answered' = answered /\ issued' = issued /\ at' = at
  BY DEF IInv, TypeOK, putVars
<1>2. /\ Len(line) \in Nat /\ line' \in Seq(Request) /\ Len(line') = Len(line) + 1
      /\ \A i \in 1..Len(line) : line'[i] = line[i]
      /\ line'[Len(line) + 1] = r
      /\ line' # <<>>
  BY <1>1, AppendOf
<1>3. served' \in 0..Len(line') /\ unacked' \in Nat
  BY <1>1, <1>2
<1>4. /\ \A i : i \in Puts(line') <=> i \in Puts(line)
      /\ \A i \in Puts(line) : line'[i] = line[i]
  BY <1>1, AppendParts
<1>5. UnackedCounts'
  <2>1. unacked = Cardinality(Listening(line))
    BY <1>1, ListeningFinite DEF IInv, Wire, UnackedCounts
  <2>2. Cardinality(Listening(line')) =
          Cardinality(Listening(line)) + (IF r.op = "listen" THEN 1 ELSE 0)
    BY <1>1, ListeningAppend
  <2>3. QED
    BY <1>2, <2>1, <2>2, ListeningFinite DEF UnackedCounts
<1>6. OneLine'
  BY DEF IInv, Wire, OneLine, Connected
<1>7. CheckIsFirst'
  <2>1. state = "authenticating" => line # <<>> /\ line[1].op = "authRestore" /\ Puts(line) = {}
    BY DEF IInv, Wire, CheckIsFirst
  <2>2. state' = "authenticating" => line'[1].op = "authRestore" /\ Puts(line') = {}
    <3>1. HAVE state' = "authenticating"
    <3>2. line # <<>> /\ line[1].op = "authRestore" /\ Puts(line) = {}
      BY <2>1, <3>1
    <3>3. 1 \in 1..Len(line)
      BY <1>1, <1>2, <3>2, EmptySeq
    <3>4. QED
      BY <1>2, <1>4, <3>2, <3>3
  <2>3. \A i \in 1..Len(line') : i \in 1..Len(line) \/ i = Len(line) + 1
    BY <1>2
  <2>4. \A i \in 1..Len(line') : line'[i].op = "authRestore" => i = 1 /\ state' = "authenticating"
    BY <1>2, <2>3 DEF IInv, Wire, CheckIsFirst
  <2>5. QED
    BY <1>2, <2>2, <2>4 DEF CheckIsFirst
<1>8. Kept' /\ InOld'
  BY DEF IInv, Wire, Kept, InOld, putVars
<1>9. InLine'
  <2>1. /\ \A i \in Puts(line') : line'[i].arg \in (answered + 1)..issued
        /\ \A i, j \in Puts(line') : i < j => line'[i].arg < line'[j].arg
        /\ \A i \in Puts(line') : i <= served => line'[i].arg <= at
    BY <1>4 DEF IInv, Wire, InLine
  <2>2. state = "connected" =>
          \A n \in (answered + 1)..issued : \E i \in Puts(line') : line'[i].arg = n
    BY <1>4 DEF IInv, Wire, InLine
  <2>3. QED
    BY <1>1, <2>1, <2>2 DEF InLine
<1>10. QED
  BY <1>2, <1>3, <1>5, <1>6, <1>7, <1>8, <1>9 DEF Wire

\* A step of a client without a connection that changes what it listens to.
LEMMA Remembered ==
  ASSUME IInv, ~Connected, UNCHANGED <<state, putVars, wireVars>>, IsFiniteSet(listens')
  PROVE  Wire'
<1>1. UnackedCounts' /\ OneLine' /\ CheckIsFirst'
  BY DEF IInv, Wire, UnackedCounts, OneLine, CheckIsFirst, Connected, wireVars
<1>2. Kept' /\ InLine' /\ InOld'
  BY DEF IInv, Wire, Kept, InLine, InOld, putVars, wireVars
<1>3. Agreed'
  BY DEF Agreed, Connected
<1>4. QED
  BY <1>1, <1>2, <1>3 DEF Wire

LEMMA ListenKeeps ==
  ASSUME IInv, NEW q \in Queries, Listen(q)
  PROVE  IInv'
<1> DEFINE r == Req("listen", q)
<1>1. r \in Request /\ r.op = "listen" /\ r.arg = q
  <2>1. r.op = "listen" /\ r.arg = q
    BY DEF Req
  <2>2. QED
    BY <2>1, RequestKinds
<1>2. IsFiniteSet(listens')
  BY FS_AddElement DEF IInv, Wire, Listen
<1>3. Wire' /\ line' \in Seq(Request) /\ served' \in 0..Len(line') /\ unacked' \in Nat
  <2>1. CASE Connected
    <3>1. line' = Append(line, Req("listen", q)) /\ unacked' = unacked + 1
      BY <2>1 DEF Listen
    <3> HIDE DEF r
    <3>2. UNCHANGED <<state, putVars, served, old, subs, at>> /\ listens' = listens \cup {q}
      BY DEF Listen, stateVars
    <3>3. Agreed'
      <4>1. SUFFICES ASSUME NEW p \in Queries, state' = "connected" \/ p \notin listens'
                     PROVE  Will(p)'
        BY DEF Agreed
      <4>2. CASE p = q
        <5>1. q \in listens' <=> "listen" = "listen"
          BY <3>2
        <5>2. served' = served /\ "listen" \in {"listen", "unlisten"}
          BY <3>2
        <5>3. Will(q)'
          BY <3>1, <5>1, <5>2, LastDecides
        <5>4. QED
          BY <4>2, <5>3
      <4>3. CASE p # q
        <5>1. (p \in listens' <=> p \in listens) /\ served' = served /\ subs' = subs
          BY <3>2, <4>3
        <5>2. Will(p)
          BY <2>1, <3>2, <4>1, <5>1 DEF IInv, Wire, Agreed
        <5>3. line' = Append(line, r) /\ ~(r.op \in {"listen", "unlisten"} /\ r.arg = p)
          BY <1>1, <3>1, <4>3 DEF r
        <5>4. QED
          BY <1>1, <5>1, <5>2, <5>3, OthersWill
      <4>4. QED
        BY <4>2, <4>3
    <3>4. line' = Append(line, r) /\ unacked' = unacked + (IF r.op = "listen" THEN 1 ELSE 0)
      BY <1>1, <3>1 DEF r
    <3>5. r.op \notin {"put", "authRestore"}
      BY <1>1
    <3>6. QED
      BY <1>1, <1>2, <2>1, <3>2, <3>3, <3>4, <3>5, Asked
  <2>2. CASE ~Connected
    <3>1. UNCHANGED <<line, unacked, served, old, subs, at>>
      BY <2>2 DEF Listen
    <3>2. Wire'
      BY <1>2, <2>2, <3>1, Remembered DEF Listen, wireVars, stateVars
    <3>3. QED
      BY <3>1, <3>2 DEF IInv, TypeOK
  <2>3. QED
    BY <2>1, <2>2
<1>4. TypeOK'
  BY <1>3 DEF IInv, TypeOK, Listen, stateVars, putVars
<1>5. FetchIsBefore' /\ OneWayUp'
  BY DEF IInv, FetchIsBefore, OneWayUp, Listen, stateVars
<1>6. QED
  BY <1>3, <1>4, <1>5 DEF IInv

LEMMA UnlistenKeeps ==
  ASSUME IInv, NEW q \in Queries, Unlisten(q)
  PROVE  IInv'
<1> DEFINE r == Req("unlisten", q)
<1>1. r \in Request /\ r.op = "unlisten" /\ r.arg = q
  <2>1. r.op = "unlisten" /\ r.arg = q
    BY DEF Req
  <2>2. QED
    BY <2>1, RequestKinds
<1>2. IsFiniteSet(listens')
  BY FS_RemoveElement DEF IInv, Wire, Unlisten
<1>3. Wire' /\ line' \in Seq(Request) /\ served' \in 0..Len(line') /\ unacked' \in Nat
  <2>1. CASE Connected
    <3>1. line' = Append(line, Req("unlisten", q)) /\ unacked' = unacked
      BY <2>1 DEF Unlisten
    <3> HIDE DEF r
    <3>2. UNCHANGED <<state, putVars, served, old, subs, at>> /\ listens' = listens \ {q}
      BY DEF Unlisten, stateVars
    <3>3. Agreed'
      <4>1. SUFFICES ASSUME NEW p \in Queries, state' = "connected" \/ p \notin listens'
                     PROVE  Will(p)'
        BY DEF Agreed
      <4>2. CASE p = q
        <5>1. q \in listens' <=> "unlisten" = "listen"
          BY <3>2
        <5>2. served' = served /\ "unlisten" \in {"listen", "unlisten"}
          BY <3>2
        <5>3. Will(q)'
          BY <3>1, <5>1, <5>2, LastDecides
        <5>4. QED
          BY <4>2, <5>3
      <4>3. CASE p # q
        <5>1. (p \in listens' <=> p \in listens) /\ served' = served /\ subs' = subs
          BY <3>2, <4>3
        <5>2. Will(p)
          BY <2>1, <3>2, <4>1, <5>1 DEF IInv, Wire, Agreed
        <5>3. line' = Append(line, r) /\ ~(r.op \in {"listen", "unlisten"} /\ r.arg = p)
          BY <1>1, <3>1, <4>3 DEF r
        <5>4. QED
          BY <1>1, <5>1, <5>2, <5>3, OthersWill
      <4>4. QED
        BY <4>2, <4>3
    <3>4. line' = Append(line, r) /\ unacked' = unacked + (IF r.op = "listen" THEN 1 ELSE 0)
      <4>1. unacked \in Nat
        BY DEF IInv, TypeOK
      <4>2. QED
        BY <1>1, <3>1, <4>1 DEF r
    <3>5. r.op \notin {"put", "authRestore"}
      BY <1>1
    <3>6. QED
      BY <1>1, <1>2, <2>1, <3>2, <3>3, <3>4, <3>5, Asked
  <2>2. CASE ~Connected
    <3>1. UNCHANGED <<line, unacked, served, old, subs, at>>
      BY <2>2 DEF Unlisten
    <3>2. Wire'
      BY <1>2, <2>2, <3>1, Remembered DEF Unlisten, wireVars, stateVars
    <3>3. QED
      BY <3>1, <3>2 DEF IInv, TypeOK
  <2>3. QED
    BY <2>1, <2>2
<1>4. TypeOK'
  BY <1>3 DEF IInv, TypeOK, Unlisten, stateVars, putVars
<1>5. FetchIsBefore' /\ OneWayUp'
  BY DEF IInv, FetchIsBefore, OneWayUp, Unlisten, stateVars
<1>6. QED
  BY <1>3, <1>4, <1>5 DEF IInv

LEMMA RefreshKeeps ==
  ASSUME IInv, NEW t \in BOOLEAN, RefreshAuthToken(t)
  PROVE  IInv'
<1> DEFINE r == Req(IF t THEN "auth" ELSE "unauth", none)
<1>1. r \in Request /\ r.op \in {"auth", "unauth"}
  <2>1. CASE t
    BY <2>1, RequestKinds DEF Req
  <2>2. CASE ~t
    BY <2>2, RequestKinds DEF Req
  <2>3. QED
    BY <2>1, <2>2
<1>2. UNCHANGED <<state, putVars, served, old, subs, at, listens, unacked>>
  BY DEF RefreshAuthToken
<1>3. IsFiniteSet(listens')
  BY <1>2 DEF IInv, Wire
<1>4. Wire' /\ line' \in Seq(Request) /\ served' \in 0..Len(line') /\ unacked' \in Nat
  <2>1. CASE Connected
    <3>1. line' = Append(line, r)
      BY <2>1 DEF RefreshAuthToken
    <3> HIDE DEF r
    <3>2. Agreed'
      <4>1. SUFFICES ASSUME NEW p \in Queries, state' = "connected" \/ p \notin listens'
                     PROVE  Will(p)'
        BY DEF Agreed
      <4>2. (p \in listens' <=> p \in listens) /\ served' = served /\ subs' = subs
        BY <1>2
      <4>3. Will(p)
        BY <1>2, <2>1, <4>1 DEF IInv, Wire, Agreed
      <4>4. ~(r.op \in {"listen", "unlisten"} /\ r.arg = p)
        BY <1>1
      <4>5. QED
        BY <1>1, <3>1, <4>2, <4>3, <4>4, OthersWill
    <3>3. unacked' = unacked + (IF r.op = "listen" THEN 1 ELSE 0)
      <4>1. unacked \in Nat /\ r.op # "listen"
        BY <1>1 DEF IInv, TypeOK
      <4>2. QED
        BY <1>2, <4>1
    <3>4. r.op \notin {"put", "authRestore"}
      BY <1>1
    <3>5. QED
      BY <1>1, <1>2, <1>3, <2>1, <3>1, <3>2, <3>3, <3>4, Asked
  <2>2. CASE ~Connected
    <3>1. UNCHANGED <<line, unacked, served, old, subs, at>>
      BY <1>2, <2>2 DEF RefreshAuthToken
    <3>2. Wire'
      BY <1>2, <1>3, <2>2, <3>1, Remembered DEF wireVars
    <3>3. QED
      BY <3>1, <3>2 DEF IInv, TypeOK
  <2>3. QED
    BY <2>1, <2>2
<1>5. TypeOK'
  BY <1>4 DEF IInv, TypeOK, RefreshAuthToken, putVars
<1>6. FetchIsBefore' /\ OneWayUp'
  BY DEF IInv, FetchIsBefore, OneWayUp, RefreshAuthToken
<1>7. QED
  BY <1>4, <1>5, <1>6 DEF IInv

LEMMA PutKeeps ==
  ASSUME IInv, Put
  PROVE  IInv'
<1> DEFINE n == issued + 1
           r == Req("put", issued + 1)
<1>1. /\ issued' = n /\ out' = out \cup {n} /\ issued < MaxPuts
      /\ UNCHANGED <<state, listens, putsToAck, told, answered, served, old, subs, at, unacked>>
  BY DEF Put, stateVars
<1>2. /\ issued \in Nat /\ n \in Nat /\ n \in 1..MaxPuts /\ answered \in Int /\ at \in Int
      /\ answered <= at /\ at <= issued /\ out = (answered + 1)..issued
      /\ line \in Seq(Request) /\ served \in 0..Len(line) /\ served \in Int /\ Len(line) \in Nat
  <2>1. issued \in Nat /\ n \in Nat /\ n \in 1..MaxPuts /\ answered \in Int /\ at \in Int
    BY <1>1, ConnectionBounds DEF IInv, TypeOK
  <2>2. line \in Seq(Request) /\ served \in 0..Len(line) /\ Len(line) \in Nat
    BY LenProperties DEF IInv, TypeOK
  <2>3. QED
    BY <2>1, <2>2 DEF IInv, Wire, Kept
<1>3. r \in Request /\ r.op = "put" /\ r.arg = n
  <2>1. r.op = "put" /\ r.arg = n
    BY DEF Req
  <2>2. QED
    BY <1>2, <2>1, RequestKinds
<1> HIDE DEF r
<1>4. \A x \in (answered + 1)..issued : x \in (answered + 1)..n /\ x < n
  BY <1>2
<1>5. out' = (answered + 1)..n
  BY <1>1, <1>2
<1> HIDE DEF n
<1>6. IsFiniteSet(listens)' /\ Kept'
  <2>1. at <= n
    BY <1>2 DEF n
  <2>2. QED
    BY <1>1, <1>2, <1>5, <2>1 DEF IInv, Wire, Kept
<1>7. InOld'
  BY <1>1, <1>4 DEF IInv, Wire, InOld
<1>8. /\ UnackedCounts' /\ OneLine' /\ CheckIsFirst' /\ InLine' /\ Agreed'
      /\ line' \in Seq(Request) /\ served' \in 0..Len(line')
  <2>1. CASE CanSendWrites
    <3>1. line' = Append(line, r) /\ state = "connected"
      BY <2>1 DEF Put, CanSendWrites, r, n
    <3>2. /\ line' \in Seq(Request) /\ Len(line') = Len(line) + 1
          /\ \A i \in 1..Len(line) : line'[i] = line[i]
          /\ line'[Len(line) + 1] = r
      BY <1>2, <1>3, <3>1, AppendOf
    <3>3. served' \in 0..Len(line')
      BY <1>1, <1>2, <3>2
    <3>4. UnackedCounts'
      <4>1. unacked = Cardinality(Listening(line)) /\ unacked \in Nat
        BY <1>2, ListeningFinite DEF IInv, Wire, UnackedCounts
      <4>2. Cardinality(Listening(line')) =
              Cardinality(Listening(line)) + (IF r.op = "listen" THEN 1 ELSE 0)
        BY <1>2, <1>3, <3>1, ListeningAppend
      <4>3. QED
        BY <1>1, <1>3, <3>2, <4>1, <4>2, ListeningFinite DEF UnackedCounts
    <3>5. OneLine'
      BY <1>1, <3>1 DEF IInv, Wire, OneLine, Connected
    <3>6. CheckIsFirst'
      <4>1. \A i \in 1..Len(line') : i \in 1..Len(line) \/ i = Len(line) + 1
        BY <1>2, <3>2
      <4>2. \A i \in 1..Len(line) : line[i].op # "authRestore"
        BY <3>1 DEF IInv, Wire, CheckIsFirst
      <4>3. \A i \in 1..Len(line') : line'[i].op # "authRestore"
        BY <1>3, <3>2, <4>1, <4>2
      <4>4. QED
        BY <1>1, <3>1, <4>3 DEF CheckIsFirst
    <3>7. InLine'
      <4>1. /\ \A i \in Puts(line) : i \in Puts(line') /\ line'[i] = line[i] /\ i \in 1..Len(line)
            /\ \A i \in Puts(line') : i \in Puts(line) \/ i = Len(line) + 1
            /\ Len(line) + 1 \in Puts(line')
        <5>1. \A i \in Puts(line) : i \in 1..Len(line)
          BY DEF Puts
        <5>2. \A i \in Puts(line) : i \in Puts(line')
          BY <1>2, <1>3, <3>1, AppendParts
        <5>3. /\ \A i \in Puts(line') : i \in Puts(line) \/ i = Len(line) + 1
              /\ Len(line) + 1 \in Puts(line')
          BY <1>2, <1>3, <3>1, AppendParts
        <5>4. QED
          BY <3>2, <5>1, <5>2, <5>3
      <4>2. /\ \A i \in Puts(line) : line[i].arg \in (answered + 1)..issued
            /\ \A i, j \in Puts(line) : i < j => line[i].arg < line[j].arg
            /\ \A x \in (answered + 1)..issued : \E i \in Puts(line) : line[i].arg = x
            /\ \A i \in Puts(line) : i <= served => line[i].arg <= at
        BY <3>1 DEF IInv, Wire, InLine
      <4>3. n \in (answered + 1)..n
        BY <1>2 DEF n
      <4>4. \A i \in Puts(line') : line'[i].arg \in (answered + 1)..n
        BY <1>3, <1>4, <3>2, <4>1, <4>2, <4>3
      <4>5. \A i, j \in Puts(line') : i < j => line'[i].arg < line'[j].arg
        <5>1. TAKE i, j \in Puts(line')
        <5>2. HAVE i < j
        <5>3. j \in 1..Len(line) + 1 /\ i \in Int
          BY <1>2, <3>2, <4>1
        <5>4. i \in Puts(line)
          BY <1>2, <4>1, <5>2, <5>3
        <5>5. CASE j \in Puts(line)
          BY <4>1, <4>2, <5>2, <5>4, <5>5
        <5>6. CASE j = Len(line) + 1
          BY <1>3, <1>4, <3>2, <4>1, <4>2, <5>4, <5>6
        <5>7. QED
          BY <4>1, <5>5, <5>6
      <4>6. \A x \in (answered + 1)..n : \E i \in Puts(line') : line'[i].arg = x
        <5>1. TAKE x \in (answered + 1)..n
        <5>2. x = n \/ x \in (answered + 1)..issued
          BY <1>2 DEF n
        <5>3. CASE x = n
          BY <1>3, <3>2, <4>1, <5>3
        <5>4. CASE x \in (answered + 1)..issued
          BY <4>1, <4>2, <5>4
        <5>5. QED
          BY <5>2, <5>3, <5>4
      <4>7. \A i \in Puts(line') : i <= served => line'[i].arg <= at
        <5>1. TAKE i \in Puts(line')
        <5>2. HAVE i <= served
        <5>3. i # Len(line) + 1
          BY <1>2, <5>2
        <5>4. QED
          BY <4>1, <4>2, <5>2, <5>3
      <4>8. QED
        BY <1>1, <4>4, <4>5, <4>6, <4>7 DEF InLine
    <3>8. Agreed'
      <4>1. SUFFICES ASSUME NEW p \in Queries PROVE Will(p)'
        BY DEF Agreed
      <4>2. Will(p)
        BY <3>1 DEF IInv, Wire, Agreed, Connected
      <4>3. ~(r.op \in {"listen", "unlisten"} /\ r.arg = p)
        BY <1>3
      <4>4. QED
        BY <1>1, <1>3, <3>1, <4>2, <4>3, OthersWill
    <3>9. QED
      BY <3>2, <3>3, <3>4, <3>5, <3>6, <3>7, <3>8
  <2>2. CASE ~CanSendWrites
    <3>1. line' = line /\ state # "connected"
      BY <2>2 DEF Put, CanSendWrites
    <3>2. UnackedCounts' /\ OneLine' /\ CheckIsFirst'
      BY <1>1, <3>1 DEF IInv, Wire, UnackedCounts, OneLine, CheckIsFirst, Connected
    <3>3. InLine'
      BY <1>1, <1>4, <3>1 DEF IInv, Wire, InLine
    <3>4. Agreed'
      BY <1>1, <3>1 DEF IInv, Wire, Agreed, Will, Connected
    <3>5. QED
      BY <1>1, <1>2, <3>1, <3>2, <3>3, <3>4
  <2>3. QED
    BY <2>1, <2>2
<1>9. TypeOK'
  <2>1. issued' \in 0..MaxPuts /\ out' \subseteq 1..MaxPuts
    BY <1>1, <1>2 DEF IInv, TypeOK
  <2>2. QED
    BY <1>8, <2>1 DEF IInv, TypeOK, Put, stateVars
<1>10. FetchIsBefore' /\ OneWayUp'
  BY DEF IInv, FetchIsBefore, OneWayUp, Put, stateVars
<1>11. QED
  BY <1>6, <1>7, <1>8, <1>9, <1>10 DEF IInv, Wire

-----------------------------------------------------------------------------
(* The server. *)

LEMMA ServeKeeps ==
  ASSUME IInv, Serve
  PROVE  IInv'
<1> DEFINE p == served + 1
           r == line[served + 1]
<1>1. /\ served < Len(line) /\ served' = p
      /\ at' = (IF r.op = "put" THEN r.arg ELSE at)
      /\ UNCHANGED <<state, listens, out, putsToAck, told, issued, answered, line, old, unacked>>
  BY DEF Serve, stateVars, putVars
<1>2. /\ r.op = "listen" => subs' = subs \cup {r.arg}
      /\ r.op = "unlisten" => subs' = subs \ {r.arg}
      /\ r.op \notin {"listen", "unlisten"} => subs' = subs
  BY DEF Serve
<1>3. /\ line \in Seq(Request) /\ Len(line) \in Nat /\ served \in 0..Len(line) /\ served \in Int
      /\ answered \in Int /\ at \in Int /\ issued \in 0..MaxPuts /\ issued \in Int
      /\ answered \in 0..MaxPuts /\ answered <= at /\ at <= issued
  BY LenProperties DEF IInv, TypeOK, Wire, Kept
<1>4. p \in 1..Len(line) /\ p \in Int /\ served' \in 0..Len(line) /\ p > served
  BY <1>1, <1>3
<1>5. r \in Request
  BY <1>3, <1>4, ElementOfSeq
<1> HIDE DEF p
<1>6. r = line[p]
  BY DEF p
<1> HIDE DEF r
<1>7. Connected /\ old = <<>>
  <2>1. line # <<>>
    BY <1>1, <1>3
  <2>2. QED
    BY <2>1 DEF IInv, Wire, OneLine
<1>8. r.op = "put" => p \in Puts(line) /\ r.arg \in (answered + 1)..issued
  BY <1>4, <1>6 DEF Puts, IInv, Wire, InLine
<1>9. at' \in Int /\ answered <= at' /\ at' <= issued /\ at' \in 0..MaxPuts
  <2>1. CASE r.op = "put"
    <3>1. at' = r.arg /\ r.arg \in (answered + 1)..issued
      BY <1>1, <1>8, <2>1
    <3>2. QED
      BY <1>3, <3>1, ConnectionBounds
  <2>2. CASE r.op # "put"
    <3>1. at' = at
      BY <1>1, <2>2
    <3>2. QED
      BY <1>3, <3>1, ConnectionBounds
  <2>3. QED
    BY <2>1, <2>2
<1>10. IsFiniteSet(listens)' /\ UnackedCounts' /\ OneLine' /\ CheckIsFirst'
  BY <1>1 DEF IInv, Wire, UnackedCounts, OneLine, CheckIsFirst, Connected
<1>11. Kept' /\ InOld'
  BY <1>1, <1>7, <1>9, NoParts DEF IInv, Wire, Kept, InOld
<1>12. InLine'
  <2>1. \A i \in Puts(line) : i <= p => line[i].arg <= at'
    <3>1. TAKE i \in Puts(line)
    <3>2. HAVE i <= p
    <3>3. i \in Int /\ line[i].arg \in (answered + 1)..issued
      BY <1>3 DEF IInv, Wire, InLine, Puts
    <3>4. CASE r.op = "put"
      <4>1. at' = r.arg /\ p \in Puts(line) /\ r.arg \in Int
        BY <1>1, <1>3, <1>8, <3>4
      <4>2. CASE i = p
        BY <1>6, <4>1, <4>2
      <4>3. CASE i < p
        <5>1. line[i].arg < line[p].arg
          BY <4>1, <4>3 DEF IInv, Wire, InLine
        <5>2. QED
          BY <1>3, <1>6, <3>3, <4>1, <5>1
      <4>4. QED
        BY <1>4, <3>2, <3>3, <4>2, <4>3
    <3>5. CASE r.op # "put"
      <4>1. i # p
        BY <1>6, <3>5 DEF Puts
      <4>2. i <= served
        BY <1>3, <3>2, <3>3, <4>1 DEF p
      <4>3. QED
        BY <1>1, <3>5, <4>2 DEF IInv, Wire, InLine
    <3>6. QED
      BY <3>4, <3>5
  <2>2. QED
    BY <1>1, <2>1 DEF IInv, Wire, InLine
<1>13. Agreed'
  <2>1. SUFFICES ASSUME NEW q \in Queries, state = "connected" \/ q \notin listens
                 PROVE  Will(q)'
    BY <1>1 DEF Agreed
  <2>2. Will(q)
    BY <1>7, <2>1 DEF IInv, Wire, Agreed
  <2>3. \A i \in About(line, q) : i \in Int
    BY <1>3 DEF About
  <2>4. \A i \in About(line, q) :
          i > p /\ (\A j \in About(line, q) : j <= i) => (line[i].op = "listen" <=> q \in listens)
    <3>1. TAKE i \in About(line, q)
    <3>2. HAVE i > p /\ (\A j \in About(line, q) : j <= i)
    <3>3. i > served
      BY <1>3, <1>4, <2>3, <3>2
    <3>4. QED
      BY <2>2, <3>2, <3>3 DEF Will
  <2>5. (\A i \in About(line, q) : i <= p) => (q \in subs' <=> q \in listens)
    <3>1. HAVE \A i \in About(line, q) : i <= p
    <3>2. CASE p \in About(line, q)
      <4>1. r.op = "listen" <=> q \in listens
        BY <1>4, <1>6, <2>2, <3>1, <3>2 DEF Will
      <4>2. r.op \in {"listen", "unlisten"} /\ r.arg = q
        BY <1>6, <3>2 DEF About
      <4>3. CASE r.op = "listen"
        BY <1>2, <4>1, <4>2, <4>3
      <4>4. CASE r.op = "unlisten"
        <5>1. subs' = subs \ {r.arg}
          BY <1>2, <4>4
        <5>2. QED
          BY <4>1, <4>2, <4>4, <5>1
      <4>5. QED
        BY <4>2, <4>3, <4>4
    <3>3. CASE p \notin About(line, q)
      <4>1. \A i \in About(line, q) : i <= served
        <5>1. TAKE i \in About(line, q)
        <5>2. i \in Int /\ i <= p /\ i # p
          BY <2>3, <3>1, <3>3
        <5>3. QED
          BY <1>3, <5>2 DEF p
      <4>2. q \in subs <=> q \in listens
        BY <2>2, <4>1 DEF Will
      <4>3. ~(r.op \in {"listen", "unlisten"} /\ r.arg = q)
        BY <1>4, <1>6, <3>3 DEF About
      <4>4. q \in subs' <=> q \in subs
        <5>1. CASE r.op = "listen"
          BY <1>2, <4>3, <5>1
        <5>2. CASE r.op = "unlisten"
          <6>1. subs' = subs \ {r.arg}
            BY <1>2, <5>2
          <6>2. QED
            BY <4>3, <5>2, <6>1
        <5>3. CASE r.op \notin {"listen", "unlisten"}
          <6>1. subs' = subs
            BY <1>2, <5>3
          <6>2. QED
            BY <6>1
        <5>4. QED
          BY <5>1, <5>2, <5>3
      <4>5. QED
        BY <4>2, <4>4
    <3>4. QED
      BY <3>2, <3>3
  <2>6. QED
    BY <1>1, <2>4, <2>5 DEF Will
<1>14. TypeOK'
  <2>1. subs' \subseteq Queries
    <3>1. r.op \in {"listen", "unlisten"} => r.arg \in Queries
      BY <1>5 DEF Request
    <3>2. subs \subseteq Queries
      BY DEF IInv, TypeOK
    <3>3. CASE r.op = "listen"
      BY <1>2, <3>1, <3>2, <3>3
    <3>4. CASE r.op = "unlisten"
      <4>1. subs' = subs \ {r.arg}
        BY <1>2, <3>4
      <4>2. QED
        BY <3>2, <4>1
    <3>5. CASE r.op \notin {"listen", "unlisten"}
      <4>1. subs' = subs
        BY <1>2, <3>5
      <4>2. QED
        BY <3>2, <4>1
    <3>6. QED
      BY <3>3, <3>4, <3>5
  <2>2. QED
    BY <1>1, <1>4, <1>9, <2>1 DEF IInv, TypeOK, Serve, stateVars
<1>15. FetchIsBefore' /\ OneWayUp'
  BY DEF IInv, FetchIsBefore, OneWayUp, Serve, stateVars
<1>16. QED
  BY <1>10, <1>11, <1>12, <1>13, <1>14, <1>15 DEF IInv, Wire

LEMMA ServeOldKeeps ==
  ASSUME IInv, ServeOld
  PROVE  IInv'
<1> DEFINE t == Tail(old)
<1>1. /\ old # <<>> /\ old' = t
      /\ at' = (IF Head(old).op = "put" THEN Head(old).arg ELSE at)
      /\ UNCHANGED <<state, listens, out, putsToAck, told, issued, answered, line, served>>
      /\ UNCHANGED <<subs, unacked>>
  BY DEF ServeOld, stateVars, putVars
<1>2. /\ old \in Seq(Request) /\ answered \in 0..MaxPuts /\ answered \in Int /\ at \in 0..MaxPuts
      /\ at \in Int /\ issued \in 0..MaxPuts /\ issued \in Int
      /\ answered <= at /\ at <= issued
  BY ConnectionBounds DEF IInv, TypeOK, Wire, Kept
<1>3. /\ Len(old) \in Nat \ {0} /\ Head(old) = old[1] /\ t \in Seq(Request)
  BY <1>1, <1>2, TailOf
<1>4. /\ \A i \in Puts(t) : i \in Int /\ i + 1 \in Puts(old) /\ t[i] = old[i + 1]
      /\ \A i \in Puts(old) : i # 1 => i - 1 \in Puts(t) /\ t[i - 1] = old[i]
  BY <1>1, <1>2, TailParts
<1> HIDE DEF t
<1>5. /\ \A i \in Puts(old) : i \in 1..Len(old)
      /\ 1 \in Puts(old) <=> Head(old).op = "put"
  BY <1>3 DEF Puts
<1>6. /\ \A i \in Puts(old) : old[i].arg \in (answered + 1)..issued
      /\ \A i, j \in Puts(old) : i < j => old[i].arg < old[j].arg
      /\ \A i \in Puts(old) :
           \/ old[i].arg <= at + 1 /\ \A j \in Puts(old) : i <= j
           \/ \E j \in Puts(old) : j < i /\ old[j].arg = old[i].arg - 1
  BY DEF IInv, Wire, InOld
<1>7. ~Connected /\ line = <<>>
  BY <1>1 DEF IInv, Wire, OneLine
<1>8. at' \in Int /\ answered <= at' /\ at' <= issued /\ at' \in 0..MaxPuts
  <2>1. CASE Head(old).op = "put"
    <3>1. at' = old[1].arg /\ old[1].arg \in (answered + 1)..issued
      BY <1>1, <1>3, <1>5, <1>6, <2>1
    <3>2. QED
      BY <1>2, <3>1, ConnectionBounds
  <2>2. CASE Head(old).op # "put"
    <3>1. at' = at
      BY <1>1, <2>2
    <3>2. QED
      BY <1>2, <3>1
  <2>3. QED
    BY <2>1, <2>2
<1>9. InOld'
  <2>1. \A i \in Puts(t) : t[i].arg \in (answered + 1)..issued
    BY <1>4, <1>6
  <2>2. \A i, j \in Puts(t) : i < j => t[i].arg < t[j].arg
    <3>1. TAKE i, j \in Puts(t)
    <3>2. HAVE i < j
    <3>3. /\ i + 1 \in Puts(old) /\ j + 1 \in Puts(old) /\ i + 1 < j + 1
          /\ t[i] = old[i + 1] /\ t[j] = old[j + 1]
      BY <1>4, <3>2
    <3>4. QED
      BY <1>6, <3>3
  <2>3. ASSUME NEW i \in Puts(t)
        PROVE  \/ t[i].arg <= at' + 1 /\ \A j \in Puts(t) : i <= j
               \/ \E j \in Puts(t) : j < i /\ t[j].arg = t[i].arg - 1
    <3>1. i \in Int /\ i + 1 \in Puts(old) /\ t[i] = old[i + 1]
      BY <1>4
    <3>2. t[i].arg \in Int
      BY <1>2, <1>6, <3>1
    <3>3. CASE old[i + 1].arg <= at + 1 /\ \A j \in Puts(old) : i + 1 <= j
      <4>1. 1 \notin Puts(old)
        <5>1. SUFFICES ASSUME 1 \in Puts(old) PROVE FALSE
          OBVIOUS
        <5>2. i + 1 <= 1
          BY <3>3, <5>1
        <5>3. i + 1 \in 1..Len(old) /\ i + 1 = 1
          BY <1>3, <1>5, <3>1, <5>2
        <5>4. i = 0 /\ i \in 1..Len(t)
          BY <3>1, <5>3 DEF Puts
        <5>5. QED
          BY <5>4
      <4>2. at' = at
        BY <1>1, <1>5, <4>1
      <4>3. \A j \in Puts(t) : i <= j
        <5>1. TAKE j \in Puts(t)
        <5>2. j \in Int /\ i + 1 <= j + 1
          BY <1>4, <3>3
        <5>3. QED
          BY <3>1, <5>2
      <4>4. QED
        BY <3>1, <3>3, <4>2, <4>3
    <3>4. CASE \E j \in Puts(old) : j < i + 1 /\ old[j].arg = old[i + 1].arg - 1
      <4>1. PICK j \in Puts(old) : j < i + 1 /\ old[j].arg = old[i + 1].arg - 1
        BY <3>4
      <4>2. j \in Int
        BY <1>3, <1>5
      <4>3. CASE j = 1
        <5>1. at' = old[1].arg /\ old[1].arg = t[i].arg - 1
          BY <1>1, <1>3, <1>5, <3>1, <4>1, <4>3
        <5>2. t[i].arg <= at' + 1
          BY <3>2, <5>1
        <5>3. \A h \in Puts(t) : i <= h
          <6>1. TAKE h \in Puts(t)
          <6>2. h \in Int /\ h + 1 \in Puts(old) /\ h \in 1..Len(t)
            BY <1>4 DEF Puts
          <6>3. 1 < h + 1 /\ 1 \in Puts(old)
            BY <6>2, <4>3
          <6>4. old[1].arg < old[h + 1].arg /\ old[h + 1].arg \in Int
            BY <1>2, <1>6, <6>2, <6>3
          <6>5. ~(h + 1 < i + 1)
            <7>1. SUFFICES ASSUME h + 1 < i + 1 PROVE FALSE
              OBVIOUS
            <7>2. old[h + 1].arg < t[i].arg
              BY <1>6, <3>1, <6>2, <7>1
            <7>3. QED
              BY <3>2, <5>1, <6>4, <7>2
          <6>6. QED
            BY <3>1, <6>2, <6>5
        <5>4. QED
          BY <5>2, <5>3
      <4>4. CASE j # 1
        <5>1. j - 1 \in Puts(t) /\ t[j - 1] = old[j] /\ j - 1 < i
          BY <1>4, <3>1, <4>1, <4>2, <4>4
        <5>2. t[j - 1].arg = t[i].arg - 1
          BY <3>1, <4>1, <5>1
        <5>3. QED
          BY <5>1, <5>2
      <4>5. QED
        BY <4>3, <4>4
    <3>5. QED
      BY <1>6, <3>1, <3>3, <3>4
  <2>4. QED
    BY <1>1, <2>1, <2>2, <2>3, Zenon DEF InOld
<1>10. IsFiniteSet(listens)' /\ UnackedCounts' /\ OneLine' /\ CheckIsFirst' /\ Agreed'
  BY <1>1, <1>7
     DEF IInv, Wire, UnackedCounts, OneLine, CheckIsFirst, Agreed, Will, Connected
<1>11. Kept'
  BY <1>1, <1>8 DEF IInv, Wire, Kept
<1>12. InLine'
  BY <1>1, <1>7, NoParts DEF IInv, Wire, InLine, Connected
<1>13. TypeOK'
  BY <1>1, <1>3, <1>8 DEF IInv, TypeOK, ServeOld, stateVars
<1>14. FetchIsBefore' /\ OneWayUp'
  BY DEF IInv, FetchIsBefore, OneWayUp, ServeOld, stateVars
<1>15. QED
  BY <1>9, <1>10, <1>11, <1>12, <1>13, <1>14 DEF IInv, Wire

-----------------------------------------------------------------------------
(* Answers. *)

\* An answer that is not the check a connection begins with is taken on a connection
\* that is ready.
LEMMA AnswerReady ==
  ASSUME IInv, served > 0, Head(line).op # "authRestore"
  PROVE  /\ line # <<>> /\ state = "connected" /\ line \in Seq(Request)
         /\ served - 1 \in 0..Len(Tail(line)) /\ Head(line) = line[1] /\ 1 \in 1..Len(line)
         /\ Tail(line) \in Seq(Request) /\ Len(Tail(line)) = Len(line) - 1
         /\ Head(line) \in Request /\ served \in Int /\ Len(line) \in Nat
<1>1. line \in Seq(Request) /\ served \in 0..Len(line) /\ Len(line) \in Nat
  BY LenProperties DEF IInv, TypeOK
<1>2. line # <<>>
  BY <1>1
<1>3. /\ Len(line) \in Nat \ {0} /\ Head(line) = line[1] /\ line[1] \in Request
      /\ Tail(line) \in Seq(Request) /\ Len(Tail(line)) = Len(line) - 1
  BY <1>1, <1>2, TailOf
<1>4. state = "connected"
  BY <1>2, <1>3 DEF IInv, Wire, OneLine, CheckIsFirst, Connected
<1>5. QED
  BY <1>1, <1>2, <1>3, <1>4

\* With the first request gone, the positions of the others are one less. What holds
\* of the requests goes on to hold of them.
LEMMA Taken ==
  ASSUME IInv, served > 0, line \in Seq(Request), line # <<>>,
         NEW t, t = Tail(line), NEW q \in Queries, Will(q)
  PROVE  /\ (\A i \in About(t, q) : i <= served - 1) => (q \in subs <=> q \in listens)
         /\ \A i \in About(t, q) :
              i > served - 1 /\ (\A j \in About(t, q) : j <= i)
                => (t[i].op = "listen" <=> q \in listens)
<1>1. /\ \A i \in About(t, q) : i \in Int /\ i + 1 \in About(line, q) /\ t[i] = line[i + 1]
      /\ \A i \in About(line, q) : i # 1 => i - 1 \in About(t, q) /\ t[i - 1] = line[i]
  BY TailParts
<1>2. served \in Int /\ \A i \in About(line, q) : i \in Int /\ 1 <= i
  BY LenProperties DEF IInv, TypeOK, About
<1>3. ASSUME \A i \in About(t, q) : i <= served - 1
      PROVE  q \in subs <=> q \in listens
  <2>1. \A i \in About(line, q) : i <= served
    <3>1. TAKE i \in About(line, q)
    <3>2. CASE i = 1
      BY <1>2, <3>2
    <3>3. CASE i # 1
      <4>1. i - 1 <= served - 1
        BY <1>1, <1>3, <3>3
      <4>2. QED
        BY <1>2, <4>1
    <3>4. QED
      BY <3>2, <3>3
  <2>2. QED
    BY <2>1 DEF Will
<1>4. ASSUME NEW i \in About(t, q), i > served - 1, \A j \in About(t, q) : j <= i
      PROVE  t[i].op = "listen" <=> q \in listens
  <2>1. i \in Int /\ i + 1 \in About(line, q) /\ t[i] = line[i + 1]
    BY <1>1
  <2>2. i + 1 > served
    BY <1>2, <1>4, <2>1
  <2>3. \A j \in About(line, q) : j <= i + 1
    <3>1. TAKE j \in About(line, q)
    <3>2. CASE j = 1
      BY <1>2, <2>1, <3>2
    <3>3. CASE j # 1
      <4>1. j - 1 <= i
        BY <1>1, <1>4, <3>3
      <4>2. QED
        BY <1>2, <2>1, <4>1
    <3>4. QED
      BY <3>2, <3>3
  <2>4. QED
    BY <2>1, <2>2, <2>3 DEF Will
<1>5. QED
  BY <1>3, <1>4

\* The first write on the connection is the next one, and the server took it.
LEMMA FirstWrite ==
  ASSUME IInv, served > 0, Head(line).op = "put"
  PROVE  Head(line).arg = answered + 1 /\ answered + 1 <= at /\ answered + 1 <= issued
<1>1. /\ state = "connected" /\ Head(line) = line[1] /\ 1 \in 1..Len(line)
      /\ Len(line) \in Nat /\ served \in Int
  BY AnswerReady
<1>2. 1 \in Puts(line)
  BY <1>1 DEF Puts
<1>3. answered \in Int /\ issued \in Int /\ at \in Int
  BY DEF IInv, TypeOK
<1>4. line[1].arg \in (answered + 1)..issued
  BY <1>2 DEF IInv, Wire, InLine
<1>5. answered + 1 \in (answered + 1)..issued
  BY <1>3, <1>4
<1>6. PICK i \in Puts(line) : line[i].arg = answered + 1
  BY <1>1, <1>5 DEF IInv, Wire, InLine
<1>7. i = 1
  <2>1. SUFFICES ASSUME i # 1 PROVE FALSE
    OBVIOUS
  <2>2. 1 < i
    BY <1>1, <2>1 DEF Puts
  <2>3. line[1].arg < answered + 1
    BY <1>2, <1>6, <2>2 DEF IInv, Wire, InLine
  <2>4. QED
    BY <1>3, <1>4, <2>3
<1>8. line[1].arg <= at
  BY <1>1, <1>2 DEF IInv, Wire, InLine
<1>9. QED
  BY <1>1, <1>3, <1>5, <1>6, <1>7, <1>8

LEMMA Answering ==
  ASSUME IInv, served > 0, Head(line).op # "authRestore", TakeAnswer,
         UNCHANGED <<state, listens, subs, at, old, issued>>,
         unacked' = unacked - (IF Head(line).op = "listen" THEN 1 ELSE 0),
         answered' = answered + (IF Head(line).op = "put" THEN 1 ELSE 0), Kept'
  PROVE  Wire' /\ line' \in Seq(Request) /\ served' \in 0..Len(line') /\ unacked' \in Nat
<1>1. /\ line # <<>> /\ state = "connected" /\ line \in Seq(Request)
      /\ served - 1 \in 0..Len(Tail(line)) /\ Head(line) = line[1] /\ 1 \in 1..Len(line)
      /\ Tail(line) \in Seq(Request) /\ Len(Tail(line)) = Len(line) - 1
      /\ served \in Int /\ Len(line) \in Nat
  BY AnswerReady
<1>2. line' = Tail(line) /\ served' = served - 1 /\ state' = state
  BY DEF TakeAnswer
<1>3. /\ \A i \in Puts(line') : i \in Int /\ i + 1 \in Puts(line) /\ line'[i] = line[i + 1]
      /\ \A i \in Puts(line) : i # 1 => i - 1 \in Puts(line') /\ line'[i - 1] = line[i]
  BY <1>1, <1>2, TailParts
<1>4. line' \in Seq(Request) /\ served' \in 0..Len(line')
  BY <1>1, <1>2
<1>5. unacked' = Cardinality(Listening(line')) /\ unacked' \in Nat
  <2>1. unacked = Cardinality(Listening(line))
    BY <1>1, ListeningFinite DEF IInv, Wire, UnackedCounts
  <2>2. Cardinality(Listening(line)) =
          Cardinality(Listening(Tail(line))) + (IF line[1].op = "listen" THEN 1 ELSE 0)
    BY <1>1, ListeningTail
  <2>3. Cardinality(Listening(Tail(line))) \in Nat
    BY <1>1, ListeningFinite
  <2>4. QED
    BY <1>1, <1>2, <2>1, <2>2, <2>3
<1>6. UnackedCounts'
  BY <1>4, <1>5, ListeningFinite DEF UnackedCounts
<1>7. IsFiniteSet(listens)' /\ InOld' /\ OneLine'
  <2>1. old = <<>> /\ old' = <<>>
    BY <1>1 DEF IInv, Wire, OneLine, Connected
  <2>2. QED
    BY <1>1, <1>2, <2>1, NoParts DEF IInv, Wire, OneLine, InOld, Connected
<1>8. CheckIsFirst'
  <2>1. \A i \in 1..Len(line) : line[i].op # "authRestore"
    BY <1>1 DEF IInv, Wire, CheckIsFirst
  <2>2. \A i \in 1..Len(line') : line'[i].op # "authRestore"
    <3>1. TAKE i \in 1..Len(line')
    <3>2. i + 1 \in 1..Len(line) /\ line'[i] = line[i + 1]
      <4>1. \A j \in 1..Len(line) - 1 : Tail(line)[j] = line[j + 1]
        BY <1>1, TailOf
      <4>2. QED
        BY <1>1, <1>2, <4>1
    <3>3. QED
      BY <2>1, <3>2
  <2>3. QED
    BY <1>1, <1>2, <2>2 DEF CheckIsFirst
<1>9. InLine'
  <2>1. /\ \A i \in Puts(line) : line[i].arg \in (answered + 1)..issued
        /\ \A i, j \in Puts(line) : i < j => line[i].arg < line[j].arg
        /\ \A n \in (answered + 1)..issued : \E i \in Puts(line) : line[i].arg = n
        /\ \A i \in Puts(line) : i <= served => line[i].arg <= at
    BY <1>1 DEF IInv, Wire, InLine
  <2>2. answered \in Int /\ issued \in Int /\ at \in Int
    BY DEF IInv, TypeOK
  <2>3. 1 \in Puts(line) <=> Head(line).op = "put"
    BY <1>1 DEF Puts
  <2>4. \A i \in Puts(line) : i # 1 => line[i].arg \in (answered' + 1)..issued
    <3>1. TAKE i \in Puts(line)
    <3>2. HAVE i # 1
    <3>3. line[i].arg \in (answered + 1)..issued
      BY <2>1
    <3>4. CASE Head(line).op = "put"
      <4>1. line[1].arg = answered + 1 /\ answered' = answered + 1
        BY <1>1, <3>4, FirstWrite
      <4>2. 1 < i
        BY <1>1, <3>2 DEF Puts
      <4>3. line[1].arg < line[i].arg
        BY <2>1, <2>3, <3>4, <4>2
      <4>4. QED
        BY <2>2, <3>3, <4>1, <4>3
    <3>5. CASE Head(line).op # "put"
      <4>1. answered' = answered
        BY <2>2, <3>5
      <4>2. QED
        BY <3>3, <4>1
    <3>6. QED
      BY <3>4, <3>5
  <2>5. \A i \in Puts(line') : line'[i].arg \in (answered' + 1)..issued
    <3>1. TAKE i \in Puts(line')
    <3>2. i \in Int /\ i + 1 \in Puts(line) /\ line'[i] = line[i + 1] /\ i \in 1..Len(line')
      BY <1>3 DEF Puts
    <3>3. i + 1 # 1
      BY <3>2
    <3>4. QED
      BY <2>4, <3>2, <3>3
  <2>6. \A i, j \in Puts(line') : i < j => line'[i].arg < line'[j].arg
    <3>1. TAKE i, j \in Puts(line')
    <3>2. HAVE i < j
    <3>3. /\ i + 1 \in Puts(line) /\ j + 1 \in Puts(line) /\ i + 1 < j + 1
          /\ line'[i] = line[i + 1] /\ line'[j] = line[j + 1]
      BY <1>3, <3>2
    <3>4. QED
      BY <2>1, <3>3
  <2>7. \A n \in (answered' + 1)..issued : \E i \in Puts(line') : line'[i].arg = n
    <3>1. TAKE n \in (answered' + 1)..issued
    <3>2. n \in (answered + 1)..issued /\ (Head(line).op = "put" => n # answered + 1)
      BY <2>2
    <3>3. PICK i \in Puts(line) : line[i].arg = n
      BY <2>1, <3>2
    <3>4. i # 1
      <4>1. Head(line).op = "put" => line[1].arg = answered + 1
        BY <1>1, FirstWrite
      <4>2. QED
        BY <2>3, <3>2, <3>3, <4>1
    <3>5. QED
      BY <1>3, <3>3, <3>4
  <2>8. \A i \in Puts(line') : i <= served' => line'[i].arg <= at
    <3>1. TAKE i \in Puts(line')
    <3>2. HAVE i <= served'
    <3>3. i \in Int /\ i + 1 \in Puts(line) /\ line'[i] = line[i + 1]
      BY <1>3
    <3>4. i + 1 <= served
      BY <1>1, <1>2, <3>2, <3>3
    <3>5. QED
      BY <2>1, <3>3, <3>4
  <2>9. QED
    BY <2>5, <2>6, <2>7, <2>8 DEF InLine
<1>10. Agreed'
  <2>1. SUFFICES ASSUME NEW q \in Queries PROVE Will(q)'
    BY DEF Agreed
  <2>2. Will(q)
    BY <1>1 DEF IInv, Wire, Agreed, Connected
  <2>3. /\ (\A i \in About(line', q) : i <= served - 1) => (q \in subs <=> q \in listens)
        /\ \A i \in About(line', q) :
             i > served - 1 /\ (\A j \in About(line', q) : j <= i)
               => (line'[i].op = "listen" <=> q \in listens)
    BY <1>1, <1>2, <2>2, Taken
  <2>4. QED
    BY <1>2, <2>3 DEF Will
<1>11. QED
  BY <1>4, <1>5, <1>6, <1>7, <1>8, <1>9, <1>10 DEF Wire

LEMMA OtherAnsweredKeeps ==
  ASSUME IInv, OtherAnswered
  PROVE  IInv'
<1>1. served > 0 /\ Head(line).op \in {"unlisten", "unauth"} /\ TakeAnswer
  BY DEF OtherAnswered, Answered
<1>2. UNCHANGED <<state, listens, putVars, old, subs, at, unacked>>
  BY DEF OtherAnswered, stateVars
<1>3. unacked \in Nat /\ answered \in Int
  BY DEF IInv, TypeOK
<1>4. Kept'
  BY <1>2 DEF IInv, Wire, Kept, putVars
<1>5. /\ unacked' = unacked - (IF Head(line).op = "listen" THEN 1 ELSE 0)
      /\ answered' = answered + (IF Head(line).op = "put" THEN 1 ELSE 0)
  BY <1>1, <1>2, <1>3 DEF putVars
<1>6. Wire' /\ line' \in Seq(Request) /\ served' \in 0..Len(line') /\ unacked' \in Nat
  <2>1. Head(line).op # "authRestore"
    BY <1>1
  <2>2. UNCHANGED <<state, listens, subs, at, old, issued>>
    BY <1>2 DEF putVars
  <2>3. QED
    BY <1>1, <1>4, <1>5, <2>1, <2>2, Answering
<1>7. TypeOK'
  BY <1>6 DEF IInv, TypeOK, OtherAnswered, stateVars, putVars
<1>8. FetchIsBefore' /\ OneWayUp'
  BY DEF IInv, FetchIsBefore, OneWayUp, OtherAnswered, stateVars
<1>9. QED
  BY <1>6, <1>7, <1>8 DEF IInv

LEMMA ToSetAppend ==
  ASSUME NEW s \in Seq(1..MaxPuts), NEW x \in 1..MaxPuts
  PROVE  Append(s, x) \in Seq(1..MaxPuts) /\ ToSet(Append(s, x)) = ToSet(s) \cup {x}
<1>1. /\ Len(s) \in Nat /\ Append(s, x) \in Seq(1..MaxPuts) /\ Len(Append(s, x)) = Len(s) + 1
      /\ \A i \in 1..Len(s) : Append(s, x)[i] = s[i]
      /\ Append(s, x)[Len(s) + 1] = x
  BY AppendProperties, LenProperties
<1>2. DOMAIN s = 1..Len(s) /\ DOMAIN Append(s, x) = 1..Len(s) + 1
  BY <1>1, LenProperties
<1>3. \A i \in 1..Len(s) + 1 : i \in 1..Len(s) \/ i = Len(s) + 1
  BY <1>1
<1>4. Len(s) + 1 \in 1..Len(s) + 1 /\ \A i \in 1..Len(s) : i \in 1..Len(s) + 1
  BY <1>1
<1>5. QED
  BY <1>1, <1>2, <1>3, <1>4 DEF ToSet

LEMMA ListenAnsweredKeeps ==
  ASSUME IInv, ListenAnswered
  PROVE  IInv' /\ told' \cup ToSet(putsToAck') = told \cup ToSet(putsToAck)
         /\ (told' = told \/ unacked' = 0)
<1>1. served > 0 /\ Head(line).op = "listen" /\ TakeAnswer /\ unacked' = unacked - 1
  BY DEF ListenAnswered, Answered
<1>2. UNCHANGED <<state, listens, out, issued, answered, old, subs, at>>
  BY DEF ListenAnswered, stateVars
<1>3. /\ told' \cup ToSet(putsToAck') = told \cup ToSet(putsToAck)
      /\ told' = told \/ unacked' = 0
      /\ told' \subseteq 1..MaxPuts /\ putsToAck' \in Seq(1..MaxPuts)
  <2>1. told \subseteq 1..MaxPuts /\ putsToAck \in Seq(1..MaxPuts)
    BY DEF IInv, TypeOK
  <2>2. CASE unacked' = 0
    <3>1. told' = told \cup ToSet(putsToAck) /\ putsToAck' = <<>>
      BY <2>2 DEF ListenAnswered
    <3>2. ToSet(<<>>) = {} /\ <<>> \in Seq(1..MaxPuts)
      BY DEF ToSet
    <3>3. ToSet(putsToAck) \subseteq 1..MaxPuts
      <4>1. DOMAIN putsToAck = 1..Len(putsToAck)
        BY <2>1, LenProperties
      <4>2. \A i \in 1..Len(putsToAck) : putsToAck[i] \in 1..MaxPuts
        BY <2>1, ElementOfSeq
      <4>3. QED
        BY <4>1, <4>2 DEF ToSet
    <3>4. QED
      BY <2>1, <2>2, <3>1, <3>2, <3>3
  <2>3. CASE unacked' # 0
    BY <2>1, <2>3 DEF ListenAnswered
  <2>4. QED
    BY <2>2, <2>3
<1>4. Kept'
  BY <1>2, <1>3 DEF IInv, Wire, Kept
<1>5. /\ unacked' = unacked - (IF Head(line).op = "listen" THEN 1 ELSE 0)
      /\ answered' = answered + (IF Head(line).op = "put" THEN 1 ELSE 0)
  <2>1. answered \in Int
    BY DEF IInv, TypeOK
  <2>2. QED
    BY <1>1, <1>2, <2>1
<1>6. Wire' /\ line' \in Seq(Request) /\ served' \in 0..Len(line') /\ unacked' \in Nat
  <2>1. Head(line).op # "authRestore"
    BY <1>1
  <2>2. QED
    BY <1>1, <1>2, <1>4, <1>5, <2>1, Answering
<1>7. TypeOK'
  BY <1>2, <1>3, <1>6 DEF IInv, TypeOK, ListenAnswered, stateVars
<1>8. FetchIsBefore' /\ OneWayUp'
  BY DEF IInv, FetchIsBefore, OneWayUp, ListenAnswered, stateVars
<1>9. QED
  BY <1>3, <1>6, <1>7, <1>8 DEF IInv

LEMMA PutAnsweredKeeps ==
  ASSUME IInv, PutAnswered
  PROVE  /\ IInv' /\ answered < at /\ answered' = answered + 1
         /\ told' = told \/ (told' = told \cup {answered + 1} /\ unacked = 0)
<1> DEFINE n == answered + 1
<1>1. served > 0 /\ Head(line).op = "put" /\ TakeAnswer
  BY DEF PutAnswered, Answered
<1>2. Head(line).arg = n /\ n <= at /\ n <= issued
  BY <1>1, FirstWrite
<1>3. UNCHANGED <<state, listens, issued, old, subs, at, unacked>>
  BY DEF PutAnswered, stateVars
<1>4. answered' = n /\ out' = out \ {n}
  BY <1>2 DEF PutAnswered
<1>5. /\ answered \in Nat /\ n \in 1..MaxPuts /\ at \in Int /\ issued \in 0..MaxPuts
      /\ out = n..issued /\ at <= issued /\ told \cup ToSet(putsToAck) = 1..answered
      /\ told \subseteq 1..MaxPuts /\ putsToAck \in Seq(1..MaxPuts) /\ unacked \in Nat
  <2>1. /\ answered \in Nat /\ at \in Int /\ issued \in 0..MaxPuts
        /\ told \subseteq 1..MaxPuts /\ putsToAck \in Seq(1..MaxPuts) /\ unacked \in Nat
    BY ConnectionBounds DEF IInv, TypeOK
  <2>2. n \in 1..MaxPuts
    BY <1>2, <2>1, ConnectionBounds
  <2>3. QED
    BY <2>1, <2>2 DEF IInv, Wire, Kept
<1>6. /\ told' \cup ToSet(putsToAck') = (told \cup ToSet(putsToAck)) \cup {n}
      /\ told' = told \/ (told' = told \cup {n} /\ unacked = 0)
      /\ told' \subseteq 1..MaxPuts /\ putsToAck' \in Seq(1..MaxPuts)
  <2>1. CASE unacked = 0
    <3>1. told' = told \cup {n} /\ putsToAck' = putsToAck
      BY <1>2, <2>1 DEF PutAnswered
    <3>2. QED
      BY <1>5, <2>1, <3>1
  <2>2. CASE unacked # 0
    <3>1. putsToAck' = Append(putsToAck, n) /\ told' = told
      BY <1>2, <2>2 DEF PutAnswered
    <3>2. putsToAck' \in Seq(1..MaxPuts) /\ ToSet(putsToAck') = ToSet(putsToAck) \cup {n}
      <4>1. putsToAck \in Seq(1..MaxPuts) /\ n \in 1..MaxPuts
        BY <1>5
      <4>2. putsToAck' = Append(putsToAck, n)
        BY <3>1
      <4> HIDE DEF n
      <4>3. /\ Append(putsToAck, n) \in Seq(1..MaxPuts)
            /\ ToSet(Append(putsToAck, n)) = ToSet(putsToAck) \cup {n}
        BY <4>1, ToSetAppend
      <4>4. QED
        BY <4>2, <4>3
    <3>3. QED
      BY <1>5, <3>1, <3>2
  <2>3. QED
    BY <2>1, <2>2
<1>7. Kept'
  <2>1. out' = (n + 1)..issued
    BY <1>4, <1>5
  <2>2. told' \cup ToSet(putsToAck') = 1..n
    BY <1>5, <1>6
  <2>3. QED
    BY <1>2, <1>3, <1>4, <1>5, <2>1, <2>2 DEF Kept
<1>8. /\ unacked' = unacked - (IF Head(line).op = "listen" THEN 1 ELSE 0)
      /\ answered' = answered + (IF Head(line).op = "put" THEN 1 ELSE 0)
  BY <1>1, <1>3, <1>4, <1>5
<1>9. Wire' /\ line' \in Seq(Request) /\ served' \in 0..Len(line') /\ unacked' \in Nat
  <2>1. Head(line).op # "authRestore"
    BY <1>1
  <2>2. QED
    BY <1>1, <1>3, <1>7, <1>8, <2>1, Answering
<1>10. TypeOK'
  <2>1. answered' \in 0..MaxPuts /\ out' \subseteq 1..MaxPuts
    BY <1>4, <1>5 DEF IInv, TypeOK
  <2>2. QED
    BY <1>3, <1>6, <1>9, <2>1 DEF IInv, TypeOK, PutAnswered, stateVars
<1>11. FetchIsBefore' /\ OneWayUp'
  BY DEF IInv, FetchIsBefore, OneWayUp, PutAnswered, stateVars
<1>12. answered < at
  BY <1>2, <1>5
<1>13. QED
  BY <1>4, <1>6, <1>9, <1>10, <1>11, <1>12 DEF IInv

LEMMA AuthSucceedsKeeps ==
  ASSUME IInv, AuthSucceeds
  PROVE  IInv'
<1>1. /\ served > 0 /\ Head(line).op \in {"auth", "authRestore"}
      /\ state' = "connected" /\ served' = served - 1
      /\ UNCHANGED <<listens, putVars, old, subs, at>>
  BY DEF AuthSucceeds, Answered
<1>2. CASE Head(line).op = "auth"
  <2>1. line' = Tail(line) /\ unacked' = unacked
    BY <1>2 DEF AuthSucceeds
  <2>2. state = "connected"
    BY <1>1, <1>2, AnswerReady
  <2>3. unacked \in Nat /\ answered \in Int
    BY DEF IInv, TypeOK
  <2>4. UNCHANGED <<state, listens, subs, at, old, issued>> /\ TakeAnswer
    BY <1>1, <2>1, <2>2 DEF TakeAnswer, putVars
  <2>5. /\ unacked' = unacked - (IF Head(line).op = "listen" THEN 1 ELSE 0)
        /\ answered' = answered + (IF Head(line).op = "put" THEN 1 ELSE 0)
    BY <1>1, <1>2, <2>1, <2>3 DEF putVars
  <2>6. Kept'
    BY <1>1 DEF IInv, Wire, Kept, putVars
  <2>7. Head(line).op # "authRestore"
    BY <1>2
  <2>8. Wire' /\ line' \in Seq(Request) /\ served' \in 0..Len(line') /\ unacked' \in Nat
    BY <1>1, <2>4, <2>5, <2>6, <2>7, Answering
  <2>9. TypeOK'
    BY <1>1, <2>8 DEF IInv, TypeOK, AuthSucceeds, States, putVars
  <2>10. FetchIsBefore' /\ OneWayUp'
    BY <2>2 DEF IInv, FetchIsBefore, OneWayUp, AuthSucceeds
  <2>11. QED
    BY <2>8, <2>9, <2>10 DEF IInv
<1>3. CASE Head(line).op = "authRestore"
  <2> DEFINE t == Tail(line)
  <2>1. line \in Seq(Request) /\ served \in 0..Len(line) /\ served \in Int /\ Len(line) \in Nat
    BY LenProperties DEF IInv, TypeOK
  <2>2. line # <<>>
    BY <1>1, <2>1
  <2>3. /\ Len(line) \in Nat \ {0} /\ Head(line) = line[1]
        /\ t \in Seq(Request) /\ Len(t) = Len(line) - 1
        /\ \A i \in 1..Len(line) - 1 : t[i] = line[i + 1]
    BY <2>1, <2>2, TailOf
  <2>4. RestoreState(t) /\ state' = "connected" /\ UNCHANGED <<listens, putVars, at>>
    BY <1>1, <1>3 DEF AuthSucceeds
  <2> HIDE DEF t
  <2>5. state = "authenticating" /\ Puts(line) = {} /\ 1 \in 1..Len(line)
    <3>1. 1 \in 1..Len(line) /\ line[1].op = "authRestore"
      BY <1>3, <2>3
    <3>2. QED
      BY <3>1 DEF IInv, Wire, CheckIsFirst
  <2>6. old' = <<>>
    BY <1>1, <2>5 DEF IInv, Wire, OneLine, Connected
  <2>7. served' \in 0..Len(t)
    BY <1>1, <2>1, <2>3
  <2>8. Puts(t) = {}
    <3>1. \A i \in Puts(Tail(line)) : i + 1 \in Puts(line)
      BY <2>1, <2>2, TailParts
    <3>2. QED
      BY <2>5, <3>1 DEF t
  <2>9. unacked = Cardinality(Listening(t))
    <3>1. unacked = Cardinality(Listening(line))
      BY <2>1, ListeningFinite DEF IInv, Wire, UnackedCounts
    <3>2. Cardinality(Listening(line)) =
            Cardinality(Listening(Tail(line))) + (IF line[1].op = "listen" THEN 1 ELSE 0)
      BY <2>1, <2>2, ListeningTail
    <3>3. Cardinality(Listening(t)) \in Nat
      BY <2>3, ListeningFinite
    <3>4. QED
      BY <1>3, <2>3, <3>1, <3>2, <3>3 DEF t
  <2>10. \A i \in 1..Len(t) : t[i].op # "authRestore"
    <3>1. TAKE i \in 1..Len(t)
    <3>2. i + 1 \in 1..Len(line) /\ t[i] = line[i + 1] /\ i + 1 # 1
      BY <2>3
    <3>3. QED
      BY <3>2 DEF IInv, Wire, CheckIsFirst
  <2>11. ASSUME NEW q \in Queries \ listens
         PROVE  /\ (\A i \in About(t, q) : i <= served') => q \notin subs'
                /\ \A i \in About(t, q) :
                     i > served' /\ (\A j \in About(t, q) : j <= i) => t[i].op # "listen"
    <3>1. Will(q)
      BY <2>5 DEF IInv, Wire, Agreed, Connected
    <3>2. t = Tail(line) /\ q \in Queries /\ q \notin listens
      BY DEF t
    <3>3. /\ (\A i \in About(t, q) : i <= served - 1) => (q \in subs <=> q \in listens)
          /\ \A i \in About(t, q) :
               i > served - 1 /\ (\A j \in About(t, q) : j <= i)
                 => (t[i].op = "listen" <=> q \in listens)
      BY <1>1, <2>1, <2>2, <3>1, <3>2, Taken
    <3>4. served' = served - 1 /\ subs' = subs
      BY <1>1
    <3>5. QED
      BY <3>2, <3>3, <3>4
  <2>12. Wire' /\ line' \in Seq(Request) /\ served' \in 0..Len(line') /\ unacked' \in Nat
    BY <2>3, <2>4, <2>6, <2>7, <2>8, <2>9, <2>10, <2>11, AfterRestore
  <2>13. TypeOK'
    BY <1>1, <2>12 DEF IInv, TypeOK, AuthSucceeds, States, putVars
  <2>14. FetchIsBefore' /\ OneWayUp'
    BY <2>5 DEF IInv, FetchIsBefore, OneWayUp, AuthSucceeds
  <2>15. QED
    BY <2>12, <2>13, <2>14 DEF IInv
<1>4. QED
  BY <1>1, <1>2, <1>3

-----------------------------------------------------------------------------
(* The theorems. *)

LEMMA InvStep == IInv /\ [Next]_vars => IInv'
<1> SUFFICES ASSUME IInv, [Next]_vars PROVE IInv'
  OBVIOUS
<1>1. CASE Lost
  BY <1>1, LostKeeps
<1>2. CASE Foreground
  BY <1>2, ForegroundKeeps
<1>3. CASE FetchToken
  BY <1>3, FetchTokenKeeps
<1>4. CASE TokenFails
  BY <1>4, TokenFailsKeeps
<1>5. CASE OnReady
  BY <1>5, OnReadyKeeps
<1>6. CASE Put
  BY <1>6, PutKeeps
<1>7. CASE Serve
  BY <1>7, ServeKeeps
<1>8. CASE ServeOld
  BY <1>8, ServeOldKeeps
<1>9. CASE AuthFails
  BY <1>9, AuthFailsKeeps
<1>10. CASE AuthSucceeds
  BY <1>10, AuthSucceedsKeeps
<1>11. CASE ListenAnswered
  BY <1>11, ListenAnsweredKeeps
<1>12. CASE PutAnswered
  BY <1>12, PutAnsweredKeeps
<1>13. CASE OtherAnswered
  BY <1>13, OtherAnsweredKeeps
<1>14. CASE \E r \in Reasons : Interrupt(r) \/ Resume(r)
  BY <1>14, InterruptKeeps, ResumeKeeps
<1>15. CASE \E t \in BOOLEAN : TokenFetched(t) \/ RefreshAuthToken(t)
  BY <1>15, TokenFetchedKeeps, RefreshKeeps
<1>16. CASE \E q \in Queries : Listen(q) \/ Unlisten(q)
  BY <1>16, ListenKeeps, UnlistenKeeps
<1>17. CASE UNCHANGED vars
  <2>1. TypeOK'
    BY <1>17 DEF vars, stateVars, putVars, wireVars, IInv, TypeOK
  <2>2. FetchIsBefore' /\ OneWayUp'
    BY <1>17 DEF vars, stateVars, IInv, FetchIsBefore, OneWayUp
  <2>3. Wire'
    <3>1. UNCHANGED <<listens, putVars, wireVars>> /\ state' = state
      BY <1>17 DEF vars, stateVars
    <3>2. QED
      BY <3>1, Steady
  <2>4. QED
    BY <2>1, <2>2, <2>3 DEF IInv
<1>18. QED
  BY <1>1, <1>2, <1>3, <1>4, <1>5, <1>6, <1>7, <1>8, <1>9, <1>10, <1>11, <1>12, <1>13, <1>14,
     <1>15, <1>16, <1>17 DEF Next

\* In every behaviour of the connection the invariant holds in every state.
THEOREM ConnectionInvariant == Spec => []IInv
BY InvInit, InvStep, PTL DEF Spec

\* Every variable of the connection stays within its type.
THEOREM ConnectionTypeCorrect == Spec => []TypeOK
<1>1. IInv => TypeOK
  BY DEF IInv
<1>2. QED
  BY <1>1, ConnectionInvariant, PTL

\* However the network, the token and interruptions come and go, a client that may
\* connect has exactly one way to its next connection.
THEOREM OneWayToConnect == Spec => []OneWayUp
<1>1. IInv => OneWayUp
  BY DEF IInv
<1>2. QED
  BY <1>1, ConnectionInvariant, PTL

\* unackedListensCount is the number of listens without an answer, over every restored
\* and every lost connection.
THEOREM UnackedIsTheCount == Spec => []UnackedCounts
<1>1. IInv => UnackedCounts
  BY DEF IInv, Wire
<1>2. QED
  BY <1>1, ConnectionInvariant, PTL

\* A server that has dealt with everything listens to what the client remembers.
THEOREM ServerListensAsRemembered == Spec => []SubscribedAsRemembered
<1>1. IInv => SubscribedAsRemembered
  <2>1. SUFFICES ASSUME IInv, state = "connected", served = Len(line) PROVE subs = listens
    BY DEF SubscribedAsRemembered
  <2>2. \A q \in Queries : q \in subs <=> q \in listens
    <3>1. TAKE q \in Queries
    <3>2. Will(q)
      BY <2>1 DEF IInv, Wire, Agreed, Connected
    <3>3. \A i \in About(line, q) : i <= served
      <4>1. Len(line) \in Nat
        BY LenProperties DEF IInv, TypeOK
      <4>2. QED
        BY <2>1, <4>1 DEF About
    <3>4. QED
      BY <3>2, <3>3 DEF Will
  <2>3. subs \subseteq Queries /\ listens \subseteq Queries
    BY <2>1 DEF IInv, TypeOK
  <2>4. QED
    BY <2>2, <2>3
<1>2. QED
  BY <1>1, ConnectionInvariant, PTL

\* When every write is answered, the server's last write is the phone's last write.
THEOREM LastWriteIsLast == Spec => []LastWriteStands
<1>1. IInv => LastWriteStands
  <2>1. SUFFICES ASSUME IInv, answered = issued PROVE at = issued
    BY DEF LastWriteStands
  <2>2. answered <= at /\ at <= issued /\ at \in Int /\ issued \in Int
    BY <2>1 DEF IInv, TypeOK, Wire, Kept
  <2>3. QED
    BY <2>1, <2>2
<1>2. QED
  BY <1>1, ConnectionInvariant, PTL

\* No write's callback runs while a listen of the connection has no answer.
THEOREM CallbacksComeAfterListens == Spec => CallbackAfterListens
<1>1. ASSUME IInv, [Next]_vars
      PROVE  [told' # told => \A i \in DOMAIN line' : line'[i].op # "listen"]_vars
  <2>1. IInv'
    BY <1>1, InvStep
  <2>2. SUFFICES ASSUME Next, told' # told
                 PROVE  \A i \in DOMAIN line' : line'[i].op # "listen"
    BY <1>1
  <2>3. unacked' = 0
    <3>1. CASE ListenAnswered
      BY <1>1, <2>2, <3>1, ListenAnsweredKeeps
    <3>2. CASE PutAnswered
      <4>1. unacked = 0
        BY <1>1, <2>2, <3>2, PutAnsweredKeeps
      <4>2. QED
        BY <3>2, <4>1 DEF PutAnswered
    <3>3. ListenAnswered \/ PutAnswered
      BY <2>2 DEF Next, Lost, Foreground, FetchToken, TokenFails, OnReady, Put, Serve, ServeOld,
                  AuthFails, AuthSucceeds, OtherAnswered, Interrupt, Resume, TokenFetched,
                  RefreshAuthToken, Listen, Unlisten, putVars
    <3>4. QED
      BY <3>1, <3>2, <3>3
  <2>4. line' \in Seq(Request) /\ unacked' = Cardinality(Listening(line'))
    <3>1. line' \in Seq(Request)
      BY <2>1 DEF IInv, TypeOK
    <3>2. QED
      BY <2>1, <3>1, ListeningFinite DEF IInv, Wire, UnackedCounts
  <2>5. Listening(line') = {}
    BY <2>3, <2>4, ListeningFinite, FS_EmptySet
  <2>6. DOMAIN line' = 1..Len(line')
    BY <2>4, LenProperties
  <2>7. QED
    BY <2>5, <2>6 DEF Listening
<1>2. QED
  BY <1>1, ConnectionInvariant, PTL DEF Spec, CallbackAfterListens

\* The write the server deals with next is at most one behind the last it took.
LEMMA ServeTakes ==
  ASSUME IInv, Serve
  PROVE  Writes!Take \/ at' = at
<1> DEFINE p == served + 1
<1>1. /\ served < Len(line) /\ UNCHANGED <<told, issued, answered>>
      /\ at' = (IF line[p].op = "put" THEN line[p].arg ELSE at)
  BY DEF Serve, putVars
<1>2. /\ line \in Seq(Request) /\ Len(line) \in Nat /\ served \in 0..Len(line) /\ served \in Int
      /\ answered \in Int /\ at \in Int /\ issued \in Int /\ answered <= at
  BY LenProperties DEF IInv, TypeOK, Wire, Kept
<1>3. p \in 1..Len(line) /\ p \in Int /\ p > served /\ \A j \in Int : j < p => j <= served
  BY <1>1, <1>2
<1> HIDE DEF p
<1>4. SUFFICES ASSUME line[p].op = "put" PROVE Writes!Take
  BY <1>1
<1>5. p \in Puts(line)
  BY <1>3, <1>4 DEF Puts
<1>6. line # <<>>
  BY <1>1, <1>2
<1>7. state = "connected"
  BY <1>5, <1>6 DEF IInv, Wire, OneLine, CheckIsFirst, Connected
<1>8. /\ \A i \in Puts(line) : line[i].arg \in (answered + 1)..issued
      /\ \A i, j \in Puts(line) : i < j => line[i].arg < line[j].arg
      /\ \A n \in (answered + 1)..issued : \E i \in Puts(line) : line[i].arg = n
      /\ \A i \in Puts(line) : i <= served => line[i].arg <= at
  BY <1>7 DEF IInv, Wire, InLine
<1>9. PICK n : n = line[p].arg
  OBVIOUS
<1>10. n \in (answered + 1)..issued /\ n \in Int /\ at' = n
  BY <1>1, <1>2, <1>4, <1>5, <1>8, <1>9
<1>11. n <= at + 1
  <2>1. CASE n = answered + 1
    BY <1>2, <2>1
  <2>2. CASE n # answered + 1
    <3>1. n - 1 \in (answered + 1)..issued
      BY <1>2, <1>10, <2>2
    <3>2. PICK j \in Puts(line) : line[j].arg = n - 1
      BY <1>8, <3>1
    <3>3. j \in Int
      BY <1>2 DEF Puts
    <3>4. j < p
      <4>1. j # p
        BY <1>9, <1>10, <3>2
      <4>2. ~(p < j)
        <5>1. SUFFICES ASSUME p < j PROVE FALSE
          OBVIOUS
        <5>2. n < n - 1
          BY <1>5, <1>8, <1>9, <3>2, <5>1
        <5>3. QED
          BY <1>10, <5>2
      <4>3. QED
        BY <1>3, <3>3, <4>1, <4>2
    <3>5. n - 1 <= at
      BY <1>3, <1>8, <3>2, <3>3, <3>4
    <3>6. QED
      BY <1>2, <1>10, <3>5
  <2>3. QED
    BY <2>1, <2>2
<1>12. n \in (answered + 1)..(at + 1) /\ n <= issued
  BY <1>2, <1>10, <1>11
<1>13. QED
  BY <1>1, <1>10, <1>12 DEF Writes!Take

LEMMA ServeOldTakes ==
  ASSUME IInv, ServeOld
  PROVE  Writes!Take \/ at' = at
<1>1. /\ old # <<>> /\ UNCHANGED <<told, issued, answered>>
      /\ at' = (IF Head(old).op = "put" THEN Head(old).arg ELSE at)
  BY DEF ServeOld, putVars
<1>2. old \in Seq(Request) /\ answered \in Int /\ at \in Int /\ issued \in Int
  BY DEF IInv, TypeOK
<1>3. Len(old) \in Nat \ {0} /\ Head(old) = old[1]
  BY <1>1, <1>2, TailOf
<1>4. SUFFICES ASSUME Head(old).op = "put" PROVE Writes!Take
  BY <1>1
<1>5. 1 \in Puts(old) /\ \A j \in Puts(old) : ~(j < 1)
  BY <1>3, <1>4 DEF Puts
<1>6. old[1].arg \in (answered + 1)..issued /\ old[1].arg <= at + 1
  BY <1>5 DEF IInv, Wire, InOld
<1>7. old[1].arg \in (answered + 1)..(at + 1) /\ old[1].arg <= issued
  BY <1>2, <1>6
<1>8. at' = old[1].arg
  BY <1>1, <1>3, <1>4
<1>9. QED
  BY <1>1, <1>7, <1>8 DEF Writes!Take

\* The connection implements the outbox: through token refreshes, lost connections and
\* requests that arrive late, the server takes the writes in order, never one that was
\* answered, and only answered writes have their callbacks.
THEOREM ConnectionImplementsOutbox == Spec => IsOutbox
<1>1. Init => Writes!Init
  BY DEF Init, Writes!Init
<1>2. ASSUME IInv, [Next]_vars
      PROVE  [Writes!Next]_(Writes!vars)
  <2>1. CASE Put
    <3>1. issued' = issued + 1 /\ UNCHANGED <<at, answered, told>>
      BY <2>1 DEF Put
    <3>2. QED
      BY <3>1 DEF Writes!Next, Writes!Issue
  <2>2. CASE Serve
    <3>1. UNCHANGED <<issued, answered, told>>
      BY <2>2 DEF Serve, putVars
    <3>2. QED
      BY <1>2, <2>2, <3>1, ServeTakes DEF Writes!Next, Writes!vars
  <2>3. CASE ServeOld
    <3>1. UNCHANGED <<issued, answered, told>>
      BY <2>3 DEF ServeOld, putVars
    <3>2. QED
      BY <1>2, <2>3, <3>1, ServeOldTakes DEF Writes!Next, Writes!vars
  <2>4. CASE PutAnswered
    <3>1. /\ answered < at /\ answered' = answered + 1
          /\ told' \in {told, told \cup {answered + 1}}
      BY <1>2, <2>4, PutAnsweredKeeps
    <3>2. UNCHANGED <<issued, at>>
      BY <2>4 DEF PutAnswered
    <3>3. QED
      BY <3>1, <3>2 DEF Writes!Next, Writes!Answer
  <2>5. CASE ListenAnswered
    <3>1. UNCHANGED <<issued, at, answered>>
      BY <2>5 DEF ListenAnswered
    <3>2. told' = told \/ told' = 1..answered
      BY <1>2, <2>5 DEF ListenAnswered, IInv, Wire, Kept
    <3>3. QED
      BY <3>1, <3>2 DEF Writes!Next, Writes!Tell, Writes!vars
  <2>6. CASE ~(Put \/ Serve \/ ServeOld \/ PutAnswered \/ ListenAnswered)
    <3>1. UNCHANGED <<issued, at, answered, told>>
      <4>1. CASE UNCHANGED vars
        BY <4>1 DEF vars, putVars, wireVars
      <4>2. CASE Lost \/ Foreground \/ FetchToken \/ TokenFails \/ OnReady
        BY <4>2 DEF Lost, Foreground, FetchToken, TokenFails, OnReady, putVars, wireVars
      <4>3. CASE AuthFails \/ AuthSucceeds \/ OtherAnswered
        BY <4>3 DEF AuthFails, AuthSucceeds, OtherAnswered, putVars
      <4>4. CASE \E r \in Reasons : Interrupt(r) \/ Resume(r)
        BY <4>4 DEF Interrupt, Resume, putVars, wireVars
      <4>5. CASE \E t \in BOOLEAN : TokenFetched(t) \/ RefreshAuthToken(t)
        BY <4>5 DEF TokenFetched, RefreshAuthToken, putVars, wireVars
      <4>6. CASE \E q \in Queries : Listen(q) \/ Unlisten(q)
        BY <4>6 DEF Listen, Unlisten, putVars
      <4>7. QED
        BY <1>2, <2>6, <4>1, <4>2, <4>3, <4>4, <4>5, <4>6 DEF Next
    <3>2. QED
      BY <3>1 DEF Writes!vars
  <2>7. QED
    BY <2>1, <2>2, <2>3, <2>4, <2>5, <2>6
<1>3. QED
  BY <1>1, <1>2, ConnectionInvariant, PTL DEF Spec, IsOutbox, Writes!Spec

=============================================================================

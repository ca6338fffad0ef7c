----------------------------- MODULE Connection -----------------------------
(***************************************************************************)
(* The database client's connection (FPersistentConnection): a phone's     *)
(* writes and listens over a network that comes and goes. Everything runs  *)
(* on one queue of the client, so that each handler is one step.           *)
(*                                                                         *)
(* line holds the requests of this connection that the client has no       *)
(* answer for; the server has dealt with the first served of them. What a  *)
(* lost connection had still under way is in old until the next one is     *)
(* ready: the client names its last session then, and the server drops it. *)
(***************************************************************************)
EXTENDS Integers, Sequences, FiniteSets, SequencesExt

CONSTANTS
  Queries,   \* what can be listened to
  none,      \* no argument of a request
  MaxPuts,   \* bound: writes
  MaxLine,   \* bound: requests under way when a further one is made
  MaxFails   \* bound: failures of the network, the token and the server

ASSUME ConnectionBounds == MaxPuts \in Nat /\ MaxLine \in Nat /\ MaxFails \in Nat

VARIABLES
  state,      \* connectionState
  reasons,    \* interruptReasons
  retry,      \* the scheduled attempt: "none", "plain", or "forced" (a new token)
  force,      \* forceAuthTokenRefresh
  fetching,   \* the latest attempt's token fetch has no answer
  token,      \* there is an authToken
  listens,    \* listens
  out,        \* outstandingPuts
  unacked,    \* unackedListensCount
  putsToAck,  \* putsToAck
  told,       \* the writes whose onComplete was called
  line,       \* requests of this connection without an answer
  served,     \* how many of them the server has dealt with
  old,        \* requests of the connection before, still under way
  subs,       \* the listens of the server's session
  issued,     \* putCounter
  at,         \* the write the server took last
  answered,   \* history: the writes up to this one have been answered
  fails       \* failures so far

stateVars == <<state, reasons, retry, force, fetching, token>>
putVars == <<out, putsToAck, told, issued, answered>>
wireVars == <<line, served, old, subs, at, unacked>>
vars == <<stateVars, listens, putVars, wireVars, fails>>

States == {"disconnected", "token", "connecting", "authenticating", "connected"}
Reasons == {"waiting_for_open", "repo_interrupt", "server_kill"}

Request ==
  [op : {"listen", "unlisten"}, arg : Queries]
  \cup [op : {"put"}, arg : Nat]
  \cup [op : {"auth", "authRestore", "unauth"}, arg : {none}]

Req(op, arg) == [op |-> op, arg |-> arg]

\* connected: listens are sent while the token is being checked, writes are not.
Connected == state \in {"authenticating", "connected"}
CanSendWrites == state = "connected"
Realtime == state \in {"connecting", "authenticating", "connected"}

Init ==
  /\ state = "disconnected" /\ reasons = {"waiting_for_open"} /\ retry = "none"
  /\ force = FALSE /\ fetching = FALSE /\ token = FALSE
  /\ listens = {} /\ out = {} /\ putsToAck = <<>> /\ told = {} /\ issued = 0 /\ answered = 0
  /\ line = <<>> /\ served = 0 /\ old = <<>> /\ subs = {} /\ at = 0 /\ unacked = 0
  /\ fails = 0

Room == Len(line) < MaxLine
Failure == fails < MaxFails /\ fails' = fails + 1

-----------------------------------------------------------------------------
(* Losing a connection and trying for the next one. *)

\* tryScheduleReconnect: an attempt that is scheduled already is replaced. The
\* flag for a new token goes with the attempt.
TryScheduleReconnect(forced) ==
  /\ retry' = IF forced THEN "forced" ELSE "plain"
  /\ force' = FALSE

\* Mutant of DropLine: answers of the lost connection are still waited for.
DropLineKeepsServed ==
  /\ state' = "disconnected"
  /\ old' = IF Connected THEN SubSeq(line, served + 1, Len(line)) ELSE old
  /\ line' = <<>> /\ served' = served /\ unacked' = 0

\* onDisconnect: the answers are not waited for any more.
DropLine ==
  /\ state' = "disconnected"
  /\ old' = IF Connected THEN SubSeq(line, served + 1, Len(line)) ELSE old
  /\ line' = <<>> /\ served' = 0 /\ unacked' = 0

OnDisconnect(forced) ==
  /\ DropLine
  /\ IF reasons = {} THEN TryScheduleReconnect(forced) ELSE force' = forced /\ UNCHANGED retry

\* The network goes, the server closes or resets, or no connection comes about.
Lost ==
  /\ Failure /\ Realtime
  /\ OnDisconnect(force)
  /\ UNCHANGED <<reasons, fetching, token, listens, putVars, subs, at>>

\* Mutant of Interrupt: the scheduled attempt is left.
InterruptKeepsRetry(r) ==
  /\ Failure /\ r \notin reasons
  /\ reasons' = reasons \cup {r}
  /\ IF Realtime
     THEN DropLine /\ UNCHANGED <<retry, force>>
     ELSE state' = "disconnected" /\ UNCHANGED <<retry, force, line, served, old, unacked>>
  /\ UNCHANGED <<fetching, token, listens, putVars, subs, at>>

\* interruptForReason: a connection is closed, an attempt cancelled. A token
\* fetch that is under way goes on.
Interrupt(r) ==
  /\ Failure /\ r \notin reasons
  /\ reasons' = reasons \cup {r}
  /\ IF Realtime
     THEN DropLine /\ UNCHANGED <<retry, force>>
     ELSE /\ state' = "disconnected" /\ retry' = "none"
          /\ UNCHANGED <<force, line, served, old, unacked>>
  /\ UNCHANGED <<fetching, token, listens, putVars, subs, at>>

\* resumeForReason. Nobody resumes a connection the server killed.
Resume(r) ==
  /\ r \in reasons /\ r # "server_kill"
  /\ reasons' = reasons \ {r}
  /\ IF reasons' = {} /\ state = "disconnected"
     THEN TryScheduleReconnect(force)
     ELSE UNCHANGED <<retry, force>>
  /\ UNCHANGED <<state, fetching, token, listens, putVars, wireVars, fails>>

\* The app comes to the foreground, or the network can be reached again.
Foreground ==
  /\ state = "disconnected" /\ reasons = {}
  /\ TryScheduleReconnect(force)
  /\ UNCHANGED <<state, reasons, fetching, token, listens, putVars, wireVars, fails>>

\* The attempt: a token is asked for. Answers to earlier attempts are ignored.
FetchToken ==
  /\ retry # "none"
  /\ retry' = "none" /\ state' = "token" /\ fetching' = TRUE
  /\ UNCHANGED <<reasons, force, token, listens, putVars, wireVars, fails>>

\* A token, or none for nobody signed in, is what the connection is opened with,
\* unless somebody interrupted meanwhile.
TokenFetched(t) ==
  /\ fetching
  /\ fetching' = FALSE
  /\ IF state = "token"
     THEN state' = "connecting" /\ token' = t
     ELSE UNCHANGED <<state, token>>
  /\ UNCHANGED <<reasons, retry, force, listens, putVars, wireVars, fails>>

TokenFails ==
  /\ Failure /\ fetching
  /\ fetching' = FALSE /\ state' = "disconnected"
  /\ IF reasons = {} THEN TryScheduleReconnect(force) ELSE UNCHANGED <<retry, force>>
  /\ UNCHANGED <<reasons, token, listens, putVars, wireVars>>

-----------------------------------------------------------------------------
(* A new connection, and what is sent on it. *)

\* The elements of a set of numbers, smallest first.
Sorted(S) ==
  [i \in 1..Cardinality(S) |-> CHOOSE n \in S : Cardinality({m \in S : m < n}) = i - 1]

ListenRequests(q) == [i \in DOMAIN q |-> Req("listen", q[i])]
PutRequests(p) == [i \in DOMAIN p |-> Req("put", p[i])]

\* Mutant of RestoreState: the listens are not sent again.
RestorePutsOnly(before) ==
  /\ line' = before \o PutRequests(Sorted(out))
  /\ unacked' = unacked

\* restoreState: every listen, in the order of a dictionary, then every write
\* without an answer, in order.
RestoreState(before) ==
  /\ \E q \in SetToSeqs(listens) :
       line' = before \o ListenRequests(q) \o PutRequests(Sorted(out))
  /\ unacked' = unacked + Cardinality(listens)

\* onReady: with a token it is checked first.
OnReady ==
  /\ state = "connecting"
  /\ old' = <<>> /\ subs' = {} /\ served' = 0
  /\ IF token
     THEN state' = "authenticating" /\ line' = <<Req("authRestore", none)>> /\ UNCHANGED unacked
     ELSE state' = "connected" /\ RestoreState(<<>>)
  /\ UNCHANGED <<reasons, retry, force, fetching, token, listens, putVars, at, fails>>

\* listen: remembered, and sent on a connection, even one that will send it again.
Listen(q) ==
  /\ Room /\ q \notin listens
  /\ listens' = listens \cup {q}
  /\ IF Connected
     THEN line' = Append(line, Req("listen", q)) /\ unacked' = unacked + 1
     ELSE UNCHANGED <<line, unacked>>
  /\ UNCHANGED <<stateVars, putVars, served, old, subs, at, fails>>

Unlisten(q) ==
  /\ Room /\ q \in listens
  /\ listens' = listens \ {q}
  /\ line' = IF Connected THEN Append(line, Req("unlisten", q)) ELSE line
  /\ UNCHANGED <<stateVars, putVars, served, old, subs, at, unacked, fails>>

\* Mutant of Put: a write is sent while the token is being checked.
PutEarly ==
  /\ Room /\ issued < MaxPuts
  /\ issued' = issued + 1 /\ out' = out \cup {issued + 1}
  /\ line' = IF Connected THEN Append(line, Req("put", issued + 1)) ELSE line
  /\ UNCHANGED <<stateVars, listens, putsToAck, told, answered, served, old, subs, at>>
  /\ UNCHANGED <<unacked, fails>>

\* putInternal: kept until it is answered, and sent if writes can be sent.
Put ==
  /\ Room /\ issued < MaxPuts
  /\ issued' = issued + 1 /\ out' = out \cup {issued + 1}
  /\ line' = IF CanSendWrites THEN Append(line, Req("put", issued + 1)) ELSE line
  /\ UNCHANGED <<stateVars, listens, putsToAck, told, answered, served, old, subs, at>>
  /\ UNCHANGED <<unacked, fails>>

\* refreshAuthToken: the user signs in or out, or the token was renewed.
RefreshAuthToken(t) ==
  /\ Room
  /\ token' = t
  /\ line' = IF Connected THEN Append(line, Req(IF t THEN "auth" ELSE "unauth", none)) ELSE line
  /\ UNCHANGED <<state, reasons, retry, force, fetching, listens, putVars, served, old, subs>>
  /\ UNCHANGED <<at, unacked, fails>>

-----------------------------------------------------------------------------
(* The server: requests in the order they were sent.                         *)

\* The next request of this connection is dealt with.
Serve ==
  /\ served < Len(line)
  /\ served' = served + 1
  /\ LET r == line[served + 1]
     IN /\ at' = IF r.op = "put" THEN r.arg ELSE at
        /\ subs' = CASE r.op = "listen" -> subs \cup {r.arg}
                     [] r.op = "unlisten" -> subs \ {r.arg}
                     [] OTHER -> subs
  /\ UNCHANGED <<stateVars, listens, putVars, line, old, unacked, fails>>

\* What the lost connection had under way still arrives: the answer has no way back.
ServeOld ==
  /\ old # <<>>
  /\ old' = Tail(old)
  /\ at' = IF Head(old).op = "put" THEN Head(old).arg ELSE at
  /\ UNCHANGED <<stateVars, listens, putVars, line, served, subs, unacked, fails>>

-----------------------------------------------------------------------------
(* Answers, in the order of the requests. That is the server's doing: the   *)
(* client finds an answer's request by its number, in any order.            *)

Answered(ops) == served > 0 /\ Head(line).op \in ops
TakeAnswer == line' = Tail(line) /\ served' = served - 1

\* The token is good: writes can be sent, and the state is restored if this is
\* the check a connection begins with.
AuthSucceeds ==
  /\ Answered({"auth", "authRestore"})
  /\ state' = "connected" /\ served' = served - 1
  /\ IF Head(line).op = "authRestore"
     THEN RestoreState(Tail(line))
     ELSE line' = Tail(line) /\ UNCHANGED unacked
  /\ UNCHANGED <<reasons, retry, force, fetching, token, listens, putVars, old, subs, at>>
  /\ UNCHANGED <<fails>>

\* The token is not good, or is revoked later: the connection is closed, and the
\* next attempt asks for a new token.
AuthFails ==
  /\ Failure
  /\ Connected
  /\ token' = FALSE
  /\ OnDisconnect(TRUE)
  /\ UNCHANGED <<reasons, fetching, listens, putVars, subs, at>>

\* Mutant of ListenAnswered: callbacks run while other listens have no answer.
ListenAnsweredEarly ==
  /\ Answered({"listen"})
  /\ TakeAnswer
  /\ unacked' = 0
  /\ told' = told \cup ToSet(putsToAck) /\ putsToAck' = <<>>
  /\ UNCHANGED <<stateVars, listens, out, issued, answered, old, subs, at, fails>>

\* Mutant of ListenAnswered: the callbacks held back are forgotten.
ListenAnsweredForgets ==
  /\ Answered({"listen"})
  /\ TakeAnswer
  /\ unacked' = unacked - 1
  /\ putsToAck' = IF unacked' = 0 THEN <<>> ELSE putsToAck
  /\ UNCHANGED <<stateVars, listens, out, told, issued, answered, old, subs, at, fails>>

\* A listen is answered. With the last one the callbacks held back run (ackPuts).
ListenAnswered ==
  /\ Answered({"listen"})
  /\ TakeAnswer
  /\ unacked' = unacked - 1
  /\ IF unacked' = 0
     THEN told' = told \cup ToSet(putsToAck) /\ putsToAck' = <<>>
     ELSE UNCHANGED <<told, putsToAck>>
  /\ UNCHANGED <<stateVars, listens, out, issued, answered, old, subs, at, fails>>

\* Mutant of PutAnswered: the callback runs whatever listens are open.
PutAnsweredAtOnce ==
  /\ Answered({"put"}) /\ Head(line).arg \in out
  /\ TakeAnswer
  /\ out' = out \ {Head(line).arg} /\ answered' = Head(line).arg
  /\ told' = told \cup {Head(line).arg} /\ UNCHANGED putsToAck
  /\ UNCHANGED <<stateVars, listens, issued, old, subs, at, unacked, fails>>

\* A write is answered: it is not sent again, and its callback waits for the
\* answers of the listens.
PutAnswered ==
  /\ Answered({"put"}) /\ Head(line).arg \in out
  /\ TakeAnswer
  /\ out' = out \ {Head(line).arg} /\ answered' = Head(line).arg
  /\ IF unacked = 0
     THEN told' = told \cup {Head(line).arg} /\ UNCHANGED putsToAck
     ELSE putsToAck' = Append(putsToAck, Head(line).arg) /\ UNCHANGED told
  /\ UNCHANGED <<stateVars, listens, issued, old, subs, at, unacked, fails>>

\* Answers nobody waits for.
OtherAnswered ==
  /\ Answered({"unlisten", "unauth"})
  /\ TakeAnswer
  /\ UNCHANGED <<stateVars, listens, putVars, old, subs, at, unacked, fails>>

Answers == AuthSucceeds \/ ListenAnswered \/ PutAnswered \/ OtherAnswered

Next ==
  \/ Lost \/ Foreground \/ FetchToken \/ TokenFails \/ OnReady \/ Put \/ Serve \/ ServeOld
  \/ AuthFails \/ AuthSucceeds \/ ListenAnswered \/ PutAnswered \/ OtherAnswered
  \/ \E r \in Reasons : Interrupt(r) \/ Resume(r)
  \/ \E t \in BOOLEAN : TokenFetched(t) \/ RefreshAuthToken(t)
  \/ \E q \in Queries : Listen(q) \/ Unlisten(q)

Spec == Init /\ [][Next]_vars

-----------------------------------------------------------------------------
(* Properties. *)

\* Every value is of its kind.
TypeOK ==
  /\ state \in States /\ reasons \subseteq Reasons
  /\ retry \in {"none", "plain", "forced"}
  /\ force \in BOOLEAN /\ fetching \in BOOLEAN /\ token \in BOOLEAN
  /\ listens \subseteq Queries /\ subs \subseteq Queries
  /\ issued \in 0..MaxPuts /\ at \in 0..MaxPuts /\ answered \in 0..MaxPuts
  /\ out \subseteq 1..MaxPuts /\ told \subseteq 1..MaxPuts /\ putsToAck \in Seq(1..MaxPuts)
  /\ line \in Seq(Request) /\ old \in Seq(Request)
  /\ served \in 0..Len(line) /\ unacked \in Nat
  /\ fails \in 0..MaxFails

\* A phone that is not interrupted never sits there without a way to a connection,
\* or with two: an attempt is scheduled, a token is on its way, or a connection is.
\* (tryScheduleReconnect asserts when the attempt begins that nothing else does.)
OneWayUp ==
  /\ state = "disconnected" /\ reasons = {} => retry # "none"
  /\ retry # "none" => state = "disconnected" /\ reasons = {}
  /\ state = "token" => fetching

\* unackedListensCount counts the listens of this connection that have no answer,
\* those sent twice included, and so never falls below zero (sendListen asserts it).
UnackedCounts ==
  unacked = Cardinality({i \in DOMAIN line : line[i].op = "listen"})

\* When the server has dealt with everything, it listens for the client to just
\* what the client remembers, across tokens, lost connections and unlistens.
SubscribedAsRemembered ==
  state = "connected" /\ served = Len(line) => subs = listens

\* A write's callback, which takes the write off the views, runs only when no
\* listen of the connection waits for an answer: the data is there to replace it.
CallbackAfterListens ==
  [][told' # told => \A i \in DOMAIN line' : line'[i].op # "listen"]_vars

\* The server takes the writes in order, again if need be, and no callback runs
\* for a write it did not take: the connection implements the outbox.
Writes == INSTANCE Outbox

IsOutbox == Writes!Spec

\* When every write is answered, the server's last one is the phone's last one: no
\* write that was sent again is left standing over a later one.
LastWriteStands == answered = issued => at = issued

-----------------------------------------------------------------------------
(* Liveness: failures end, the client's queue and the server run.            *)

FairSpec ==
  /\ Spec
  /\ WF_vars(FetchToken) /\ WF_vars(\E t \in BOOLEAN : TokenFetched(t)) /\ WF_vars(OnReady)
  /\ WF_vars(Serve) /\ WF_vars(Answers)

\* A write is answered in the end and its callback runs, unless the connection is
\* interrupted, or listens are made again and again: each of them holds the callback
\* back. (With nothing listened to any more, a callback that was held back is left
\* for the answer of a listen to come.)
EveryWriteTold ==
  \/ \A n \in 1..MaxPuts :
       n \in out ~> reasons # {} \/ n \in told \/ (n \notin out /\ listens = {})
  \/ []<><<\E q \in Queries : Listen(q)>>_vars
=============================================================================

----------------------------- MODULE ChatStart ------------------------------
(***************************************************************************)
(* Two users start a chat with each other: which rooms come to exist, who  *)
(* has them in userChats, and which room each screen writes to             *)
(* (FBChatService.isExistsChat and createChat, ChatViewModel,              *)
(* ChatRoomsViewModel's list of rooms).                                    *)
(*                                                                         *)
(* The id of a room is the other user's id followed by the creator's, so   *)
(* each of the two may create one of their own: a room is named here by    *)
(* its creator. Nothing makes the writes of createChat one: they are four  *)
(* with the first message, sent in order, and a phone that is killed       *)
(* forgets those not yet sent.                                             *)
(***************************************************************************)
EXTENDS Integers, Sequences, FiniteSets, SequencesExt

CONSTANTS
  a, b,      \* the two users
  none,      \* no room
  MaxTime,   \* bound: the clock, which gives userChats' entries their keys
  MaxSends   \* bound: messages the two users send

ASSUME UsersAssumption == a # b /\ none \notin {a, b}
ASSUME StartBounds == MaxTime \in Nat /\ MaxSends \in Nat

Users == {a, b}
Other(u) == IF u = a THEN b ELSE a

VARIABLES
  chats,    \* the rooms whose chats/<id> the server stores
  list,     \* list[u]: the entries of userChats/<u>, by key
  msgs,     \* the rooms with a message on the server, and who wrote it
  outbox,   \* outbox[u]: the writes of u's phone the server has yet to get
  clock,    \* clock[u]: the key of u's latest entry
  sends,    \* how many messages they have sent
  lost,     \* rooms an entry of which was lost, by a kill or under another's key
  front,    \* front[u]: chatRoomsIDs.first, the room u's list shows
  screen,   \* screen[u]: u's chat screen is open
  joined,   \* isChatExists.value
  roomId,   \* chatRoomId
  first,    \* the question for the room the other user would have created
  second,   \* the question for the room u would have created
  answers   \* queued answers, in the order they run

serverVars == <<chats, list, msgs>>
phoneVars == <<outbox, clock, sends, lost>>
screenVars == <<screen, joined, roomId, first, second, answers>>
vars == <<serverVars, phoneVars, front, screenVars>>

Chat(r) == [kind |-> "chat", room |-> r]
Entry(v, t, r) == [kind |-> "entry", of |-> v, at |-> t, room |-> r]
Message(r) == [kind |-> "message", room |-> r]

Write == [kind : {"chat", "message"}, room : Users]
           \cup [kind : {"entry"}, of : Users, at : 1..MaxTime, room : Users]

Listing == [at : 1..MaxTime, room : Users]

\* chats/<r> as u's phone sees it: the server's, or written there already.
ChatWaits(u, r) == Contains(outbox[u], Chat(r))

Init ==
  /\ chats = {} /\ list = [u \in Users |-> {}] /\ msgs = {}
  /\ outbox = [u \in Users |-> <<>>]
  /\ clock = [u \in Users |-> 0] /\ sends = 0 /\ lost = {}
  /\ front = [u \in Users |-> none]
  /\ screen = [u \in Users |-> "none"]
  /\ joined = [u \in Users |-> FALSE] /\ roomId = [u \in Users |-> none]
  /\ first = [u \in Users |-> "idle"] /\ second = [u \in Users |-> "idle"]
  /\ answers = [u \in Users |-> <<>>]

-----------------------------------------------------------------------------
(* The chat list. *)

\* The entries arrive in key order and the first one decides what is fetched:
\* later ones have the list fetch the same room again.
ListLoads(u) ==
  /\ front[u] = none
  /\ \E e \in list[u] :
       /\ \A f \in list[u] : e.at <= f.at
       /\ front' = [front EXCEPT ![u] = e.room]
  /\ UNCHANGED <<serverVars, phoneVars, screenVars>>

OpenFromList(u) ==
  /\ screen[u] = "none" /\ front[u] # none
  /\ screen' = [screen EXCEPT ![u] = "list"]
  /\ joined' = [joined EXCEPT ![u] = TRUE]
  /\ roomId' = [roomId EXCEPT ![u] = front[u]]
  /\ UNCHANGED <<serverVars, phoneVars, front, first, second, answers>>

(* Whether the chat exists. *)

OpenFromSearch(u) ==
  /\ screen[u] = "none"
  /\ screen' = [screen EXCEPT ![u] = "search"]
  /\ first' = [first EXCEPT ![u] = "asked"]
  /\ second' = [second EXCEPT ![u] = "asked"]
  /\ UNCHANGED <<serverVars, phoneVars, front, joined, roomId, answers>>

\* The first question is answered only when the room exists.
FirstRead(u) ==
  /\ first[u] = "asked"
  /\ first' = [first EXCEPT ![u] = "idle"]
  /\ answers' = IF Other(u) \in chats
                THEN [answers EXCEPT ![u] = Append(@, Other(u))]
                ELSE answers
  /\ UNCHANGED <<serverVars, phoneVars, front, screen, joined, roomId, second>>

\* Mutant of SecondRead: both questions are for one of the two ids.
SecondReadSameId(u) ==
  /\ second[u] = "asked"
  /\ second' = [second EXCEPT ![u] = "idle"]
  /\ answers' = [answers EXCEPT ![u] =
                   Append(@, IF Other(u) \in chats THEN Other(u) ELSE none)]
  /\ UNCHANGED <<serverVars, phoneVars, front, screen, joined, roomId, first>>

\* The second question comes after the first on one connection, but either is
\* answered first when both are asked again on the next one, and a write of this
\* phone to the room answers the second at once.
SecondRead(u) ==
  /\ second[u] = "asked"
  /\ second' = [second EXCEPT ![u] = "idle"]
  /\ answers' = [answers EXCEPT ![u] =
                   Append(@, IF u \in chats \/ ChatWaits(u, u) THEN u ELSE none)]
  /\ UNCHANGED <<serverVars, phoneVars, front, screen, joined, roomId, first>>

\* Mutant of Answer: that no chat exists clears the id and nothing else.
AnswerKeepsJoined(u) ==
  /\ answers[u] # <<>>
  /\ roomId' = [roomId EXCEPT ![u] = Head(answers[u])]
  /\ joined' = [joined EXCEPT ![u] = @ \/ Head(answers[u]) # none]
  /\ answers' = [answers EXCEPT ![u] = Tail(@)]
  /\ UNCHANGED <<serverVars, phoneVars, front, screen, first, second>>

\* The view model believes whatever answer it is given last.
Answer(u) ==
  /\ answers[u] # <<>>
  /\ roomId' = [roomId EXCEPT ![u] = Head(answers[u])]
  /\ joined' = [joined EXCEPT ![u] = (Head(answers[u]) # none)]
  /\ answers' = [answers EXCEPT ![u] = Tail(@)]
  /\ UNCHANGED <<serverVars, phoneVars, front, screen, first, second>>

(* Sending. *)

\* Mutant of SendMessage: sent before it is known whether the chat exists.
SendUnasked(u) ==
  /\ outbox' = [outbox EXCEPT ![u] = Append(@, Message(roomId[u]))]
  /\ UNCHANGED <<clock, front, joined, roomId, second, answers>>

SendMessage(u) ==
  /\ joined[u]
  /\ outbox' = [outbox EXCEPT ![u] = Append(@, Message(roomId[u]))]
  /\ UNCHANGED <<clock, front, joined, roomId, second, answers>>

\* Mutant of StartChatAndSend: the lists are told before the room is written.
StartChatListsFirst(u) ==
  /\ ~joined[u]
  /\ \E t \in 1..MaxTime :
       /\ t > clock[u]
       /\ clock' = [clock EXCEPT ![u] = t]
       /\ outbox' = [outbox EXCEPT ![u] =
                       @ \o <<Entry(u, t, u), Entry(Other(u), t, u), Chat(u), Message(u)>>]
  /\ front' = IF front[u] = none THEN [front EXCEPT ![u] = u] ELSE front
  /\ joined' = [joined EXCEPT ![u] = TRUE]
  /\ roomId' = [roomId EXCEPT ![u] = u]
  /\ second' = [second EXCEPT ![u] = "idle"]
  /\ answers' = IF second[u] = "asked" THEN [answers EXCEPT ![u] = Append(@, u)] ELSE answers

\* Mutant of StartChatAndSend: the other user's list is not told.
StartChatOwnListOnly(u) ==
  /\ ~joined[u]
  /\ \E t \in 1..MaxTime :
       /\ t > clock[u]
       /\ clock' = [clock EXCEPT ![u] = t]
       /\ outbox' = [outbox EXCEPT ![u] = @ \o <<Chat(u), Entry(u, t, u), Message(u)>>]
  /\ front' = IF front[u] = none THEN [front EXCEPT ![u] = u] ELSE front
  /\ joined' = [joined EXCEPT ![u] = TRUE]
  /\ roomId' = [roomId EXCEPT ![u] = u]
  /\ second' = [second EXCEPT ![u] = "idle"]
  /\ answers' = IF second[u] = "asked" THEN [answers EXCEPT ![u] = Append(@, u)] ELSE answers

\* startChat: the room, an entry for either user under one timestamp, and then
\* the message. Its own entry is in the list at once, and its own write of the
\* room answers the second question if that is still open.
StartChatAndSend(u) ==
  /\ ~joined[u]
  /\ \E t \in 1..MaxTime :
       /\ t > clock[u]
       /\ clock' = [clock EXCEPT ![u] = t]
       /\ outbox' = [outbox EXCEPT ![u] =
                       @ \o <<Chat(u), Entry(u, t, u), Entry(Other(u), t, u), Message(u)>>]
  /\ front' = IF front[u] = none THEN [front EXCEPT ![u] = u] ELSE front
  /\ joined' = [joined EXCEPT ![u] = TRUE]
  /\ roomId' = [roomId EXCEPT ![u] = u]
  /\ second' = [second EXCEPT ![u] = "idle"]
  /\ answers' = IF second[u] = "asked" THEN [answers EXCEPT ![u] = Append(@, u)] ELSE answers

Send(u) ==
  /\ screen[u] # "none"
  /\ sends < MaxSends
  /\ sends' = sends + 1
  /\ SendMessage(u) \/ StartChatAndSend(u)
  /\ UNCHANGED <<serverVars, lost, screen, first>>

\* Back: what is asked or queued finds the view model gone.
Close(u) ==
  /\ screen[u] # "none"
  /\ screen' = [screen EXCEPT ![u] = "none"]
  /\ joined' = [joined EXCEPT ![u] = FALSE]
  /\ roomId' = [roomId EXCEPT ![u] = none]
  /\ first' = [first EXCEPT ![u] = "idle"] /\ second' = [second EXCEPT ![u] = "idle"]
  /\ answers' = [answers EXCEPT ![u] = <<>>]
  /\ UNCHANGED <<serverVars, phoneVars, front>>

(* The connection and the server. *)

\* The oldest write of u's phone gets to the server. An entry replaces the one
\* under the same key, which the other user's clock may have given it.
Commit(u) ==
  /\ outbox[u] # <<>>
  /\ LET w == Head(outbox[u]) IN
       \/ /\ w.kind = "chat"
          /\ chats' = chats \cup {w.room}
          /\ UNCHANGED <<list, msgs, lost>>
       \/ /\ w.kind = "entry"
          /\ LET old == {e \in list[w.of] : e.at = w.at} IN
               /\ list' = [list EXCEPT ![w.of] = (@ \ old) \cup {[at |-> w.at, room |-> w.room]}]
               /\ lost' = lost \cup ({e.room : e \in old} \ {w.room})
          /\ UNCHANGED <<chats, msgs>>
       \/ /\ w.kind = "message"
          /\ msgs' = msgs \cup {[room |-> w.room, by |-> u]}
          /\ UNCHANGED <<chats, list, lost>>
  /\ outbox' = [outbox EXCEPT ![u] = Tail(@)]
  /\ UNCHANGED <<clock, sends, front, screenVars>>

\* The rooms of the entries u's phone has yet to send to someone's list.
EntriesWaiting(u, v) == {outbox[u][i].room : i \in {j \in 1..Len(outbox[u]) :
                           outbox[u][j].kind = "entry" /\ outbox[u][j].of = v}}

\* The app is killed and started again: unsent writes are lost.
Restart(u) ==
  /\ lost' = lost \cup EntriesWaiting(u, a) \cup EntriesWaiting(u, b)
  /\ outbox' = [outbox EXCEPT ![u] = <<>>]
  /\ front' = [front EXCEPT ![u] = none]
  /\ screen' = [screen EXCEPT ![u] = "none"]
  /\ joined' = [joined EXCEPT ![u] = FALSE]
  /\ roomId' = [roomId EXCEPT ![u] = none]
  /\ first' = [first EXCEPT ![u] = "idle"] /\ second' = [second EXCEPT ![u] = "idle"]
  /\ answers' = [answers EXCEPT ![u] = <<>>]
  /\ UNCHANGED <<serverVars, clock, sends>>

Next ==
  \E u \in Users :
    \/ ListLoads(u) \/ OpenFromList(u) \/ OpenFromSearch(u)
    \/ FirstRead(u) \/ SecondRead(u) \/ Answer(u)
    \/ Send(u) \/ Close(u) \/ Commit(u) \/ Restart(u)

Spec == Init /\ [][Next]_vars
-----------------------------------------------------------------------------
(* Properties. *)

\* Every value is of its kind.
TypeOK ==
  /\ chats \subseteq Users
  /\ list \in [Users -> SUBSET Listing]
  /\ msgs \subseteq [room : Users, by : Users]
  /\ outbox \in [Users -> Seq(Write)]
  /\ clock \in [Users -> 0..MaxTime] /\ sends \in 0..MaxSends
  /\ lost \subseteq Users
  /\ front \in [Users -> Users \cup {none}]
  /\ screen \in [Users -> {"none", "list", "search"}]
  /\ joined \in [Users -> BOOLEAN]
  /\ roomId \in [Users -> Users \cup {none}]
  /\ first \in [Users -> {"idle", "asked"}] /\ second \in [Users -> {"idle", "asked"}]
  /\ answers \in [Users -> Seq(Users \cup {none})]

\* Whatever is cut off by a kill, an entry of userChats names a room whose
\* chats/<id> is stored: the list's fetch of it gets the two usernames, as the
\* assertion in getChatBy wants (ChatRoomsViewModel.swift:115).
ListEntryResolves == \A u \in Users : \A e \in list[u] : e.room \in chats

\* A room the screen writes to exists, or its creation waits in this phone's
\* outbox ahead of the messages: no message goes to a room nobody created, and
\* sendMessage never lacks the id (ChatViewModel.swift:100).
WritesToRealRoom ==
  \A u \in Users :
    /\ joined[u] <=> roomId[u] # none
    /\ joined[u] => roomId[u] \in chats \/ ChatWaits(u, roomId[u])

Listed(u, r) == \E e \in list[u] : e.room = r

\* A room with a message in it is in both users' lists, or on its way there
\* from a phone that is still running, unless an entry of it was lost.
MessageIsReachable ==
  \A m \in msgs, u \in Users :
    m.room \notin lost =>
      Listed(u, m.room) \/ \E v \in Users : m.room \in EntriesWaiting(v, u)

\* The phones and the server keep what RoomBook promises of the rooms, from what the
\* server stores: no entry or message gets there before its room does, an entry
\* that replaces another is the only thing that takes a room off a list, and a
\* kill loses nothing but what the phone's own createChat had written.
RoomsOf(u) == {e.room : e \in list[u]}

Book == INSTANCE RoomBook
          WITH rooms <- chats, listed <- [u \in Users |-> RoomsOf(u)], posted <- msgs

IsRoomBook == Book!Spec

-----------------------------------------------------------------------------
(* Liveness: a connected phone gets its writes to the server, questions are *)
(* answered and the main queue runs. Users and kills are not fair.          *)

Fairness ==
  \A u \in Users :
    /\ WF_vars(ListLoads(u)) /\ WF_vars(Commit(u))
    /\ WF_vars(FirstRead(u)) /\ WF_vars(SecondRead(u)) /\ WF_vars(Answer(u))

FairSpec == Spec /\ Fairness

\* Whoever writes to a room, both users get it into their lists in the end,
\* unless an entry of it was lost. (Nothing tells the users apart, so that this
\* is said of the room of one of them, and the next property of one of them.)
BothLearn ==
  (\E m \in msgs : m.room = a) ~> (a \in lost \/ \A u \in Users : Listed(u, a))

\* Nothing is asked, and no answer waits to be run.
Settled(u) == first[u] = "idle" /\ second[u] = "idle" /\ answers[u] = <<>>

\* A user who created a room that is stored, and asks from the search, finds the chat to
\* exist: unless the screen is closed, all answers come and have run, in whichever
\* order, and they leave it with a stored room, so that the next message starts no
\* chat. The room may be the other user's, if there are two and that answer ran last.
\* (Of a user who created no room nothing is said: if the other user's room is found first,
\* the nil for their own comes last and clears it, FBChatService.swift:170.)
CreatorRejoins ==
  (second[a] = "asked" /\ a \in chats)
    ~> (screen[a] # "search" \/ (Settled(a) /\ joined[a] /\ roomId[a] \in chats))
=============================================================================

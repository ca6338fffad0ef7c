------------------------------ MODULE ChatRoom ------------------------------
(***************************************************************************)
(* The messages of one room on one phone: the row of the chat list that    *)
(* collects them (ChatRoomsViewModel), the chat screen that shows and      *)
(* sends them (ChatViewController, ChatViewModel), and the observers both  *)
(* put on the one path messages/<room> (FBChatService).                    *)
(*                                                                         *)
(* The room is this user's oldest one, with the id the app gives a chat    *)
(* this user starts. The list fetches and observes the oldest room once    *)
(* for every userChats entry it is told of (chatRoomsIDs' willSet takes    *)
(* newValue.first), so it may get several rows and observers; messages go  *)
(* to the first row. Whose rooms exist, and the writes that create one,    *)
(* are in ChatStart.                                                       *)
(*                                                                         *)
(* A screen is opened from the list, with a copy of the row's messages and *)
(* an observer of the last message only, or from the search, where it asks *)
(* whether the chat exists and observes the whole path only once it        *)
(* created the chat itself. Its viewDidAppear calls stopObservingChat,     *)
(* which removes every observer on the path, the list's included.          *)
(*                                                                         *)
(* Callbacks wait on the main queue: rowq are those of the list's closure, *)
(* chatq those of the open screen's. The closures touch different state,   *)
(* so how the two interleave on the one main queue makes no difference.    *)
(***************************************************************************)
EXTENDS RoomSync

CONSTANT MaxEntries  \* bound: entries of userChats/<user>

ASSUME EntriesAssumption == MaxEntries \in Nat

VARIABLES
  room,        \* chats/<room> is "absent" from the server or on it ("server")
  entries,     \* entries of userChats/<user> the server stores
  creates,     \* startChat's writes not yet stored: the id of the message after
  fetches,     \* entries the list was told of, their chat still being fetched
  rows,        \* rows the list has for the room since the app started
  rowObs,      \* how many of their observers are registered on the path
  row,         \* chatRooms[first row].messages
  rowq,        \* queued callbacks of the list's observers
  screen,      \* how the chat screen was opened; "none": it is not open
  appeared,    \* its viewDidAppear has run
  joined,      \* isChatExists.value; also: chatRoomId is not nil
  query,       \* the screen's pending question whether the chat exists
  transcript,  \* ChatViewModel.messages.value
  chatq,       \* queued callbacks of the screen's observers
  chatAll,     \* how many times the screen observes the whole path
  chatLast,    \* the observer of the last message is registered
  orphan,      \* a closed screen left an observer of the path behind
  lastId       \* the id of this phone's latest message: its clock

roomVars == <<room, entries, creates>>
listVars == <<fetches, rows, rowObs, row, rowq>>
screenVars == <<screen, appeared, joined, query, transcript>>
obsVars == <<chatq, chatAll, chatLast, orphan>>
vars == <<syncVars, roomVars, listVars, screenVars, obsVars, lastId>>

-----------------------------------------------------------------------------
(* The registrations on the path, and the callbacks a change queues. *)

Wide == rowObs > 0 \/ chatAll > 0 \/ orphan
Viewed == Wide \/ chatLast

\* chats/<room> as this phone sees it, its own writes included.
Exists == room = "server" \/ creates # {}

MayAddEntry == entries + Cardinality(creates) < MaxEntries

\* Each event of s once for each of n registrations.
Copies(s, n) == [i \in 1..(n * Len(s)) |-> s[((i - 1) \div n) + 1]]

\* The view changed from cache to cache': every registration is called with
\* each child that is new to the view it is registered on.
Raise ==
  \E all \in KeyOrder(Added(cache, cache')),
     last \in KeyOrder(Added(Last1(cache), Last1(cache'))) :
    /\ rowq' = rowq \o Copies(all, rowObs)
    /\ chatq' = (IF chatLast THEN chatq \o last ELSE chatq) \o Copies(all, chatAll)

-----------------------------------------------------------------------------
Init ==
  /\ SyncInit
  /\ room \in {"absent", "server"}
  /\ entries \in (IF room = "server" THEN 1..MaxEntries ELSE {0})
  /\ creates = {} /\ fetches = entries
  /\ rows = 0 /\ rowObs = 0 /\ row = <<>> /\ rowq = <<>>
  /\ screen = "none" /\ appeared = FALSE /\ joined = FALSE /\ query = "idle"
  /\ transcript = <<>> /\ chatq = <<>>
  /\ chatAll = 0 /\ chatLast = FALSE /\ orphan = FALSE
  /\ lastId = 0

(* The chat list. *)

\* Mutant of ListObserve: a room the list has gets no second row, but it is
\* observed again.
ListObserveAgain ==
  /\ fetches > 0
  /\ chatLast => Wide
  /\ fetches' = fetches - 1
  /\ rows' = 1
  /\ rowObs' = 1
  /\ Register(Viewed, TRUE)
  /\ \E first \in KeyOrder(cache') : rowq' = rowq \o first
  /\ UNCHANGED <<roomVars, row, screenVars, obsVars, lastId>>

\* The chat of the oldest room was fetched, once more for each entry: the list
\* gets a row with no messages, and observes the path (observeMessagesIn). The
\* new registration is told all that its view holds.
\* Left out: an answer between a tap and viewDidAppear, when only the observer
\* of the last message is registered; it would need a second view.
ListObserve ==
  /\ fetches > 0
  /\ chatLast => Wide
  /\ fetches' = fetches - 1
  /\ rows' = rows + 1
  /\ rowObs' = rowObs + 1
  /\ Register(Viewed, TRUE)
  /\ \E first \in KeyOrder(cache') : rowq' = rowq \o first
  /\ UNCHANGED <<roomVars, row, screenVars, obsVars, lastId>>

\* Another user starts a chat with this one: an entry, though of another room,
\* makes the list fetch the oldest room again.
AnotherRoom ==
  /\ room = "server" /\ MayAddEntry
  /\ entries' = entries + 1
  /\ fetches' = fetches + 1
  /\ UNCHANGED <<syncVars, room, creates, rows, rowObs, row, rowq, screenVars, obsVars, lastId>>

\* Mutant of RowEvent: the newest message goes first.
RowEventPrepends ==
  /\ rowq # <<>>
  /\ row' = <<Head(rowq)>> \o row
  /\ rowq' = Tail(rowq)
  /\ UNCHANGED <<syncVars, roomVars, fetches, rows, rowObs, screenVars, obsVars, lastId>>

\* The list's closure appends the message to the row.
RowEvent ==
  /\ rowq # <<>>
  /\ row' = Append(row, Head(rowq))
  /\ rowq' = Tail(rowq)
  /\ UNCHANGED <<syncVars, roomVars, fetches, rows, rowObs, screenVars, obsVars, lastId>>

(* The chat screen. *)

\* A tap on a row: the screen starts from a copy of its messages, none unless
\* it is the first row, and observes the last message.
OpenFromList ==
  /\ screen = "none" /\ rows > 0
  /\ screen' = "list"
  /\ transcript' \in {row} \cup (IF rows > 1 THEN {<<>>} ELSE {})
  /\ joined' = TRUE
  /\ chatLast' = TRUE
  /\ Register(Viewed, Wide)
  /\ \E first \in KeyOrder(Last1(cache')) : chatq' = first
  /\ UNCHANGED <<roomVars, listVars, appeared, query, chatAll, orphan, lastId>>

\* A user was found: the screen asks whether a chat with them exists.
OpenFromSearch ==
  /\ screen = "none"
  /\ screen' = "search"
  /\ query' = "asked"
  /\ UNCHANGED <<syncVars, roomVars, listVars, appeared, joined, transcript, obsVars, lastId>>

\* The answer reaches the phone and waits on the main queue.
ExistsRead ==
  /\ query = "asked"
  /\ query' = IF Exists THEN "found" ELSE "nil"
  /\ UNCHANGED <<syncVars, roomVars, listVars, screen, appeared, joined, transcript, obsVars, lastId>>

\* Mutant of ExistsAnswer: the question is observed, not asked once.
ExistsAnswerObserved ==
  /\ query \in {"nil", "found"}
  /\ joined' = (query = "found")
  /\ query' = "asked"
  /\ UNCHANGED <<syncVars, roomVars, listVars, screen, appeared, transcript, obsVars, lastId>>

\* The view model believes whatever answer it is given last.
ExistsAnswer ==
  /\ query \in {"nil", "found"}
  /\ joined' = (query = "found")
  /\ query' = "idle"
  /\ UNCHANGED <<syncVars, roomVars, listVars, screen, appeared, transcript, obsVars, lastId>>

\* Mutant of ViewDidAppear: it removes only the observers of the whole path.
ViewDidAppearKeepsLast ==
  /\ screen # "none"
  /\ appeared' = TRUE
  /\ IF joined
     THEN /\ Unregister
          /\ rowObs' = 0 /\ chatAll' = 0 /\ orphan' = FALSE
          /\ UNCHANGED chatLast
     ELSE UNCHANGED <<syncVars, rowObs, chatAll, chatLast, orphan>>
  /\ UNCHANGED <<roomVars, fetches, rows, row, rowq, screen, joined, query, transcript, chatq,
                 lastId>>

\* viewDidAppear, which also runs again when a swipe back is cancelled:
\* stopObservingChat removes every observer of the path, when the id is known.
ViewDidAppear ==
  /\ screen # "none"
  /\ appeared' = TRUE
  /\ IF joined
     THEN /\ Unregister
          /\ rowObs' = 0 /\ chatAll' = 0 /\ chatLast' = FALSE /\ orphan' = FALSE
     ELSE UNCHANGED <<syncVars, rowObs, chatAll, chatLast, orphan>>
  /\ UNCHANGED <<roomVars, fetches, rows, row, rowq, screen, joined, query, transcript, chatq,
                 lastId>>

\* Mutant of SendMessage: the phone's own write raises no event.
SendSilently(i) ==
  /\ joined
  /\ Write([id |-> i, by |-> "me"], Viewed)
  /\ UNCHANGED <<rowq, chatq, creates, fetches, joined, query, chatAll>>

\* The send button in a chat that is known to exist.
SendMessage(i) ==
  /\ joined
  /\ Write([id |-> i, by |-> "me"], Viewed)
  /\ Raise
  /\ UNCHANGED <<creates, fetches, joined, query, chatAll>>

\* Mutant of StartChatAndSend: startChat does not note that the chat exists.
StartChatForgets(i) ==
  LET m == [id |-> i, by |-> "me"]
      held == IF Viewed THEN cache ELSE pend
  IN
  /\ ~joined
  /\ MayAddEntry
  /\ creates' = creates \cup {i}
  /\ fetches' = fetches + 1
  /\ query' = IF query = "asked" THEN "found" ELSE query
  /\ chatAll' = chatAll + 1
  /\ pend' = pend \cup {m}
  /\ cache' = Overlay(held, {m})
  /\ UNCHANGED <<joined, versions, pos, synced>>
  /\ \E first \in KeyOrder(held), new \in KeyOrder(Added(held, cache')) :
       /\ chatq' = chatq \o first \o Copies(new, chatAll')
       /\ rowq' = rowq \o Copies(new, rowObs)

\* The send button otherwise: startChat creates the chat, whose entry makes
\* the list fetch, and observes it, and then the message is written. The local
\* write of chats/<room> answers the question if it is still open.
StartChatAndSend(i) ==
  LET m == [id |-> i, by |-> "me"]
      held == IF Viewed THEN cache ELSE pend
  IN
  /\ ~joined
  /\ MayAddEntry
  /\ creates' = creates \cup {i}
  /\ fetches' = fetches + 1
  /\ joined' = TRUE
  /\ query' = IF query = "asked" THEN "found" ELSE query
  /\ chatAll' = chatAll + 1
  /\ pend' = pend \cup {m}
  /\ cache' = Overlay(held, {m})
  /\ UNCHANGED <<versions, pos, synced>>
  /\ \E first \in KeyOrder(held), new \in KeyOrder(Added(held, cache')) :
       /\ chatq' = chatq \o first \o Copies(new, chatAll')
       /\ rowq' = rowq \o Copies(new, rowObs)

Send(i) ==
  /\ screen # "none" /\ appeared
  /\ i > lastId
  /\ HasRoom
  /\ lastId' = i
  /\ SendMessage(i) \/ StartChatAndSend(i)
  /\ UNCHANGED <<room, entries, rows, rowObs, row, screen, appeared, transcript, chatLast, orphan>>

\* The closure of the observer of the whole path.
AppendEvent ==
  /\ screen = "search" /\ chatq # <<>>
  /\ transcript' = Append(transcript, Head(chatq))
  /\ chatq' = Tail(chatq)
  /\ UNCHANGED <<syncVars, roomVars, listVars, screen, appeared, joined, query,
                 chatAll, chatLast, orphan, lastId>>

\* The closure of the observer of the last message: a message the transcript
\* holds already takes the last one off before it is appended.
OnlyNewEvent ==
  /\ screen = "list" /\ chatq # <<>>
  /\ LET m == Head(chatq)
         kept == IF Contains(transcript, m)
                 THEN SubSeq(transcript, 1, Len(transcript) - 1)
                 ELSE transcript
     IN transcript' = Append(kept, m)
  /\ chatq' = Tail(chatq)
  /\ UNCHANGED <<syncVars, roomVars, listVars, screen, appeared, joined, query,
                 chatAll, chatLast, orphan, lastId>>

\* Back: the screen and its view model go; observers still registered stay.
\* Callbacks queued before viewDidAppear have run before the tap is handled;
\* later ones find the view model gone.
Close ==
  /\ screen # "none" /\ appeared
  /\ screen = "list" => chatq = <<>>
  /\ screen' = "none" /\ appeared' = FALSE /\ joined' = FALSE /\ query' = "idle"
  /\ transcript' = <<>> /\ chatq' = <<>>
  /\ chatAll' = 0
  /\ orphan' = (orphan \/ chatAll > 0)
  /\ UNCHANGED <<syncVars, roomVars, listVars, chatLast, lastId>>

(* The database client and the server. *)

\* The connection sends writes in order: a startChat's before the messages that
\* follow it and after those before it.
RoomCommit ==
  \E c \in creates :
    /\ \A x \in creates : c <= x
    /\ \A m \in pend : m.id < c => Committed(m)
    /\ room' = "server"
    /\ entries' = entries + 1
    /\ creates' = creates \ {c}
    /\ UNCHANGED <<syncVars, listVars, screenVars, obsVars, lastId>>

PeerSends ==
  /\ room = "server"
  /\ \E i \in PeerIds : PeerCommit(i)
  /\ UNCHANGED <<roomVars, listVars, screenVars, obsVars, lastId>>

ServerCommits ==
  /\ room = "server"
  /\ \E m \in pend : Commit(m) /\ \A c \in creates : m.id < c
  /\ UNCHANGED <<roomVars, listVars, screenVars, obsVars, lastId>>

DataArrives ==
  /\ Viewed
  /\ \E k \in 1..Len(versions) : Receive(k, Wide)
  /\ Raise
  /\ UNCHANGED <<roomVars, fetches, rows, rowObs, row, screenVars, chatAll, chatLast, orphan,
                 lastId>>

WriteAcked ==
  /\ \E m \in pend : Ack(m, Wide)
  /\ Raise
  /\ UNCHANGED <<roomVars, fetches, rows, rowObs, row, screenVars, chatAll, chatLast, orphan,
                 lastId>>

\* The app is killed and started again.
Restart ==
  /\ ForgetClient
  /\ creates' = {} /\ fetches' = entries
  /\ rows' = 0 /\ rowObs' = 0 /\ row' = <<>> /\ rowq' = <<>>
  /\ screen' = "none" /\ appeared' = FALSE /\ joined' = FALSE /\ query' = "idle"
  /\ transcript' = <<>> /\ chatq' = <<>>
  /\ chatAll' = 0 /\ chatLast' = FALSE /\ orphan' = FALSE
  /\ UNCHANGED <<room, entries, lastId>>

Next ==
  \/ ListObserve \/ RowEvent \/ AnotherRoom
  \/ OpenFromList \/ OpenFromSearch \/ ExistsRead \/ ExistsAnswer
  \/ ViewDidAppear \/ AppendEvent \/ OnlyNewEvent \/ Close
  \/ \E i \in 1..MaxId : Send(i)
  \/ RoomCommit \/ PeerSends \/ ServerCommits \/ DataArrives \/ WriteAcked
  \/ Restart

Spec == Init /\ [][Next]_vars
-----------------------------------------------------------------------------
(* Properties. *)

\* Every value is of its kind.
TypeOK ==
  /\ SyncTypeOK
  /\ room \in {"absent", "server"} /\ entries \in Nat
  /\ creates \subseteq 1..MaxId
  /\ fetches \in Nat /\ rows \in Nat /\ rowObs \in 0..rows
  /\ row \in Seq(Msg) /\ rowq \in Seq(Msg)
  /\ screen \in {"none", "list", "search"} /\ appeared \in BOOLEAN
  /\ joined \in BOOLEAN /\ query \in {"idle", "asked", "nil", "found"}
  /\ transcript \in Seq(Msg) /\ chatq \in Seq(Msg)
  /\ chatAll \in Nat /\ chatLast \in BOOLEAN /\ orphan \in BOOLEAN
  /\ lastId \in 0..MaxId

\* What the row holds or is about to hold.
RowFeed == row \o rowq

InKeyOrder(s) == \A i, j \in 1..Len(s) : i < j => s[i].id < s[j].id

\* While the list observes the path, nothing the database told is missing from
\* the list: the first row holds, shown or queued, the keys of the view, and no
\* other if none of the list's observers was ever removed.
RowTracksView ==
  rowObs > 0 =>
    /\ Ids(cache) \subseteq Ids(ToSet(RowFeed))
    /\ rowObs = rows => Ids(ToSet(RowFeed)) = Ids(cache)

TimesIn(i, s) == Cardinality({n \in 1..Len(s) : s[n].id = i})

\* What the willSet of chatRoomsIDs costs: the first row holds each message
\* once for each row of the list, no more, and no fewer times while all of
\* the list's observers are registered. So a single row never gets a message
\* twice, although the same message reaches the phone as its own write, as
\* server data, in the data of a reconnect and as a write sent twice
\* (observeMessagesIn appends whatever it is told).
OncePerRow ==
  \A i \in 1..MaxId :
    /\ TimesIn(i, RowFeed) <= rows
    /\ rowObs = rows /\ i \in Ids(cache) => TimesIn(i, RowFeed) = rows

\* An observer of the last message never outlives its screen: the assertion
\* of its closure (ChatViewModel.swift:118), which a deallocated view model
\* would meet, is out of reach.
LastObserverHasScreen == chatLast => screen = "list" /\ ~appeared

\* A screen asks once whether the chat exists, so however late the answer is,
\* it can create the chat at most once too often: no message is shown more
\* than twice by a screen opened from the search.
NoThirdCopy ==
  screen = "search" => \A i \in 1..MaxId : TimesIn(i, transcript \o chatq) <= 2

\* While no observer of the list was removed and its row is in key order, the callback of the
\* last message's observer takes nothing out of the transcript: what it
\* removes is the message it appends.
OrderedTranscriptOnlyGrows ==
  [][OnlyNewEvent /\ rowObs = rows /\ InKeyOrder(RowFeed) => IsPrefix(transcript, transcript')]_vars

\* The comment on removeLast in ChatViewModel.startObservingChat, "remove
\* duplicate": no message leaves the transcript that it does not still hold.
RemovesOnlyDuplicates ==
  [][OnlyNewEvent => ToSet(transcript) \subseteq ToSet(transcript')]_vars

\* The row is an exactly-once feed that freezes when the chat screen stops it.
Feed == INSTANCE RoomFeed WITH delivered <- [i \in 1..Len(RowFeed) |-> RowFeed[i].id],
                               live <- rowObs > 0,
                               opened <- rows
RowIsFeed == Feed!FeedSpec

-----------------------------------------------------------------------------
(* Liveness. The main queue runs what is queued, and a connected phone gets *)
(* its writes to the server and the server's data back. What users do, and  *)
(* that the app is killed, is not fair.                                     *)

FairSpec ==
  /\ Spec
  /\ WF_vars(RowEvent) /\ WF_vars(AppendEvent)
  /\ WF_vars(RoomCommit) /\ WF_vars(ServerCommits) /\ WF_vars(DataArrives)

\* A message the server stores or this phone has sent gets to the row, unless
\* the list's observer is removed first.
RowCatchesUp ==
  \A i \in 1..MaxId :
    (rowObs > 0 /\ i \in Ids(versions[Len(versions)]) \cup Ids(pend))
      ~> (i \in Ids(ToSet(row)) \/ rowObs = 0)

\* A message sent in a chat the screen has created appears on the screen,
\* unless the screen's observers are removed first.
OwnSendsAppear ==
  \A i \in 1..MaxId :
    (chatAll > 0 /\ i \in Ids(pend)) ~> (i \in Ids(ToSet(transcript)) \/ chatAll = 0)
=============================================================================

# LChat: a verification project

LChat is a Swift chat application for iOS whose whole server side is Firebase:
phone-number sign-in (FirebaseAuth), a Realtime Database that every phone reads
and writes directly, and a Storage bucket for avatars. There is no server code,
there are no database rules in the repository and there are no tests: what keeps
the phones' views of one conversation consistent is the order in which each
phone issues its writes, registers and removes its observers, and reacts to
callbacks. That is what this project models, checks and proves.

All paths below are relative to `src/LChat/LChat/` unless they say otherwise.

## 1. Inventory

| Component | Code | State it keeps | Operations |
|---|---|---|---|
| Messages of a room | `Services/FBChatService.swift`, `Modules/Chat/*`, `Models/Message.swift` | observers registered on `messages/<room>`; the open screen's `isChatExists`, `chatRoomId`, `messages` | `isChatExists`, `startChat`/`createChat`, `sendMessage`, `startObservingChat`, `stopObservingChat` |
| Chat list | `Modules/Chats/*`, `Models/Chat.swift`, `Services/FBDatabaseService.swift` | `chatRoomsIDs`, `chatRooms` with each row's messages | observe `userChats/<user>`, fetch `chats/<id>`, observe `messages/<id>`, open a chat |
| Database client (third party) | `src/LChat/Pods/FirebaseDatabase` | views with their caches, pending writes, listens; the connection's state, attempts, token and requests | `setValue`, `observe`, `removeAllObservers`, server data, acknowledgement; connect, interrupt, resume, disconnect, restore, refresh the token |
| Search | `Modules/Search/*`, `Services/FBSearchService.swift` | `isSearching`, the search bar's text, `searchResult` (one user), open questions | type, shorten, cancel, an answer, open a chat |
| Sign-up, login, verification | `Services/FBAuthService.swift`, `Modules/Auth/*` | stored verification id, auth listener, code typed so far, checked name | check a name, ask for a code, resend it, log in, sign up |
| Profile | `Modules/Profile/*` | `user`, `isChanged`, `oldModelUser`, the edited field, home's bar buttons | observe the record, edit, return, done, undo, pick an image |
| Settings | `Modules/Settings/*`, `Services/ThemeManager.swift`, `Services/LanguageManager.swift` | stored colour and language and their observers, the language list and its cells, the colour cells' marks | open, choose a colour, choose a language |
| Navigation | `Coordinator/*`, `Modules/Home/*` | the navigation stack | push and pop screens |
| Storage | `Services/FBStorageService.swift` | none | upload and fetch an avatar |
| Assembly, views, extensions | `Assembly/*`, `Views/*`, `Helper/*`, `Extensions/*`, `Bind/*` | none | construction, layout, formatting |

### How they interact

* The **chat list** observes `userChats/<user>`. Each new entry extends
  `chatRoomsIDs`, whose `willSet` fetches the chat of `newValue.first`, which is
  always the *oldest* entry, adds a row for it and observes `messages/<id>`; each
  message that arrives is appended to the first row of that chat.
* A tap on a row gives the **chat screen** a copy of the row's messages and an
  observer of the last message only (`OnlyNewMessage`). A tap on a search result
  gives it no messages; it asks whether a chat exists and observes nothing until
  it has created a chat itself.
* Screen and list share one path in the **database client**, and
  `removeAllObservers(on the path)`, which the screen's `viewDidAppear` calls,
  removes the list's observers too. The client raises `childAdded` for children
  that are new to the view of each registration, in key order; its own writes
  are in the view before the server has them.
* `createChat` is three writes: `chats/<id>`, then an entry in each user's
  `userChats`, keyed by the phone's clock in milliseconds. They are sent in that
  order over one connection and are not atomic.
* `isChatExists` asks two questions, since a room's id is the other user's id followed
  by its creator's and each of the two may have created one, and reports each
  answer as it comes; the last one wins.
* **Sign-in** keeps the verification id in the user defaults, a **listener** for
  auth state pushes home or login through **navigation**, and the profile's
  display name is what the list, the chat and the search go by. A login signs in
  and then looks its name up; a sign-up takes the listener off, signs in, sets
  the name, writes `users/<name>` and puts the listener back.
* The **profile** observes `users/<displayName>` and replaces its model, edits
  included, with each event. `done` writes the model to `users/<its name>`, which
  raises an event at once in the same client, and home's navigation item carries
  the buttons that end the editing.
* The **search** asks for `users/<text>` with each text and shows whatever answer
  arrives; a tap on the row opens a chat screen for that user.
* The **managers** of language and colour tell those who asked: the language's the
  blocks that texts registered, the colour's the observers, each of which repaints the
  part it thinks of; the language screen keeps a copy of the stored language and a list
  in its order.
* All of these share one **connection**: while it is lost, writes and listens are
  remembered; on the next one the listens are sent again, then the writes without
  an answer in order. A write's callback, which also takes the write off the
  views, is held back while a listen has no answer.

### What is hard here

Callbacks on the main queue that were queued before the state they act on
changed; one path with observers of two owners; writes that raise events twice
over (locally, then from the server) and are sent again after a reconnect; a kill
between the writes of one operation; keys taken from the clocks of two phones;
questions whose answers arrive after the screen moved on. Each such place is
listed, at its line, under `hazards` in `PROJECT.json`.

### What makes each component correct

* Messages and list: no message the phone was told of is missing from the list
  while it observes; none is shown twice for one row; what a screen sends appears
  on it; an observer does not outlive the view model its closure asserts.
* Starting a chat: an entry in a list names a chat that exists; a message goes
  to a room that exists and that both users can reach; both users learn of a
  room; the user who created it is not left to create another.
* Search: a chat is opened for a user that exists, with their id; once everything
  asked is answered, the shown user is the one in the search bar.
* Sign-in: a verification id is tried once; the app gets its auth listener back;
  home is shown, once per sign-in and with a name; whoever is found among users
  has a name.
* Profile: `undo` brings back what was there when the changes began; the screen
  ends with what is stored; this phone writes no other user's id to the user's record.
* Settings: the marked language and the marked colour are the stored ones; texts and
  badges follow them.
* Connection: the server takes the writes in order and each is answered; it
  listens to what the client remembers; there is always one way to the next
  connection.

## 2. Modules

| Module | Models | Checked by | Proved in |
|---|---|---|---|
| `RoomSync` | one path of the database client on one phone, and the server's versions of it | through `ChatRoom` | `ChatRoomProofs`, `ChatRoomScreenProofs` |
| `ChatRoom` | list row, chat screen and the observers both put on `messages/<room>` | `ChatRoomMC` and its four configurations | `ChatRoomProofs`, `ChatRoomScreenProofs` |
| `RoomFeed` | the abstract promise of one row: an exactly-once feed | as the property `RowIsFeed` | `ChatRoomProofs` |
| `ChatStart` | two users who look for and create a chat with each other | itself | `ChatStartProofs` |
| `RoomBook` | the abstract promise of the database's rooms, lists and messages | as the property `IsRoomBook` | `ChatStartProofs` |
| `SignIn` | one phone's sign-ups and logins, up to home | itself, with three configurations | `SignInProofs` |
| `Profile` | the profile screen against the record it observes and overwrites | itself | `ProfileProofs` |
| `Search` | the search for a user, its questions and answers | itself | `SearchProofs` |
| `Settings` | language and colour: managers, texts and chat cells, language screen, colour cells | itself | `SettingsProofs` |
| `Connection` | the database client's connection, its attempts, listens, writes and answers | itself | `ConnectionProofs` |
| `Outbox` | the abstract promise of the connection for one phone's writes | as the property `IsOutbox` | `ConnectionProofs` |

`ChatRoom` EXTENDS `RoomSync`; `RowIsFeed` is `RoomFeed` under the mapping
`delivered <- keys of row \o rowq`, `live <- rowObs > 0`, `opened <- rows`.
`IsRoomBook` is `RoomBook` under `rooms <- chats`, `listed[u] <- RoomsOf(u)` (the rooms that
`list[u]` names), `posted <- msgs`.
`IsOutbox` is `Outbox` under the identity on `issued`, `at`, `answered` and `told`:
what the other modules take a write on its way for (`RoomSync.Commit`, which may
commit again, `Profile.Commit` and `Reconnect`, the queues of `ChatStart` and
`SignIn`, sent head first) is what `Connection` is shown to do. `ChatRoomMC` only
adds what a constant cannot give: a state constraint. Operators that are
commented "Mutant of X" are the plausible bugs that `PROJECT.json` lists: put in
X's place, each breaks the property it is listed with.

### RoomSync

`versions` is what the server stored at first and after each commit; `pend` are
this phone's writes without an acknowledgement; `pos` is the version the server
has told this phone; `synced` says the path's views have complete server data;
`cache` is the event cache of the widest view. Messages are `[id, by]`: the id is
the sender's millisecond clock (`FBChatService.swift:31`), so ids of two phones
are committed in any order and may collide. `Receive` may jump over several
versions (a reconnect). `Commit` may commit a pending write again, which is what
the client does with unacknowledged writes after a reconnect. `Ack` computes the
view again without the write's shadow. `ForgetClient` is a kill: persistence is
never enabled, so unsent writes are gone.

### ChatRoom

| Action | Code |
|---|---|
| `ListObserve`, `AnotherRoom` | `ChatRoomsViewModel`: `chatRoomsIDs.willSet`, `fetchChat`, `observeMessagesIn` |
| `RowEvent` | the closure of `observeMessagesIn` |
| `OpenFromList`, `OpenFromSearch` | `didSelectRow` of list and search, `ChatViewModel.init`, `startObservingChat(OnlyNewMessage)` |
| `ExistsRead`, `ExistsAnswer` | `FBChatService.isChatExists`, the view model's closure |
| `ViewDidAppear` | `ChatViewController.viewDidAppear`, `stopObservingChat` |
| `Send` | the send button: `SendMessage` or `StartChatAndSend` |
| `AppendEvent`, `OnlyNewEvent` | the two closures of `startObservingChat` |
| `Close` | back: the view controller and view model are released |
| `RoomCommit`, `PeerSends`, `ServerCommits`, `DataArrives`, `WriteAcked` | the connection and the server |
| `Restart` | the app is killed and launched |

`rowq` and `chatq` are the callbacks queued on the main queue. Every action that
changes the client's view queues the events of that change through `Raise`.

The room is the user's oldest one, with the id the app gives a chat this user
starts. It is the room of interest because the list fetches it again for every
new entry; every other room is never fetched by the list (`newValue.first`).

One thing is left out: the answer of a fetch that arrives between a tap on a row
and `viewDidAppear`, when only the observer of the last message is registered.
The client then has two views on the path for an instant, and the model has one.

### ChatStart

Rooms are named by their creator. `chats` and `list[u]` are `chats/` and the
`userChats` of each user; `outbox[u]` are the writes u's phone has not sent;
`clock` and `sends` bound time and messages; `lost` are the rooms an entry of which
a kill cut off, or an entry with the same clock replaced; `front[u]` is the
room the list opens (`newValue.first`); `screen`, `joined` and `roomId` are the
chat screen; `first`, `second` are its two questions and `answers` the queued
callbacks.

`StartChatAndSend` queues the three writes of `createChat` and the message in the
code's order; `Commit` sends the head of a queue; `Restart` drops the queue
between any two of them. `FirstRead` asks for the room the other user would have
created and reports only that it exists; `SecondRead` asks for this user's own,
which this phone's waiting write answers at once. `Answer` runs a queued
callback on whatever state the screen is in by then.

`RoomBook` is what all of this must come to in the database, without phones, queues,
clocks or screens: `Create`, `Enter` into a list (which may take the place of rooms that
are lost from then on), `Post` and `Kill`.

### SignIn

`users` and `account` are on the server; `signedIn`, `displayName` and `stored` (the
verification id, 0 for none) survive a kill; `outbox` are the records the phone
has yet to send. `stack` is the navigation stack, where a verification screen
has the flow of its delegate and whether a code was typed on it: digits are only
ever appended, so a further code on a screen has more than six digits and cannot
be right. `asks` are the requests for an id, `tries` the attempts with one, each
at the call whose answer it waits for (`signIn`, a login's `name`, `commit` until
the server has the name, `named` until the phone hears of it).

| Action | Code |
|---|---|
| `AuthEvent` | the closure of `startListenAuthChanges`, `AppCoordinator.start` |
| `OpenSignUp`, `Back` | `AuthCoordinator.navigateToSignUp`, UIKit |
| `TypeName`, `NameChecked` | the name field's action, `checkDuplicate` and its answer |
| `AskCode`, `PhoneChecked`, `CodeSent`, `CodeNotSent` | the button, `verifyPhoneNumber`: `isDuplicate`, `verify`, `save`, `navigateToVerification`, `subscribeDelegate` |
| `Resend` | `resendVerificationCode` |
| `ConfirmCode` | the sixth digit: `login` or `signUp` of the delegate's view model |
| `SignedIn`, `TryFails`, `NameFetched`, `NameSet`, `NameAnswered` | the callbacks of `FBAuthService.login` and `signUp`, `setProfileData` |
| `StoreUser`, `OtherTakes`, `Restart` | the connection, other phones, a kill |

`listener` is `"off"`, `"new"` before its first call, or what it reported last: Firebase
calls it once at first and then only for another user (`FIRAuth.m`,
`addAuthStateDidChangeListener`). `notes` are calls waiting on the main queue.
Two sign-ups that overlap (back, another code, while the first is answered
late) both put a listener back and none takes the first away again: `replaced`
counts the listeners whose first call, which pushes home, is still to come then.
A listener left behind after that call stays silent, since nothing signs a user
out.

Left out: mistyped numbers (the user types their own), names of fewer than three
letters, and a sign-up screen opened anew while a popped one still waits for its
id. A failed assertion ends a debug build, which `Restart` covers; the model goes
on as a release build does.

### Profile

`record` is `users/<me>` on the server, with whose id it bears (`mine`, `theirs`) and
a bio, which stands for the fields other than the username; `pend` are this
phone's writes without an acknowledgement, `stored` how many of them the server
has; `told` what the server told the phone. `View` is what the phone's database
shows: its own latest write to the record, or what it was told. `events` wait on
the main queue. The screen's `user`, `changed`, `old`, `bar`, `field` and `typed` are
the code's `user.value`, `isChanged`, `oldModelUser`, the buttons on home's
navigation item, the first responder and whether it has text.

| Action | Code |
|---|---|
| `Open`, `RecordEvent` | `viewDidLoad`, the closure of `observeDataProfile` |
| `TapField`, `TypeText`, `ReturnName`, `ReturnBio` | the text fields' delegate: `shouldChangeCharacters`, `textFieldShouldReturn` |
| `PickImage` | `imagePickerController` |
| `DoneTap`, `UndoTap` | the bar buttons; `updateProfile` |
| `Commit`, `Acknowledged`, `Reconnect`, `Hear` | the connection and the server |
| `OtherPhoneSaves`, `Restart` | the same user's other phone, a kill |

A sign-up that was cut off leaves no record, and somebody else's may be there
under the same name: `Init` starts with each of them.

### Search

`asked` are the names asked for, `answers` the callbacks queued on the main queue.
Two questions for one name that are open together are one listen, so a name is
asked once. `Read` may answer any open question first: a name whose record is
observed already is answered at once, and after a reconnect the listens are
sent in the order of a dictionary. `ShowAnswer` is the closure of `searchUserBy`: it
looks neither at the text nor at `isSearching`. Texts of fewer than three letters
are the one text `none`.

### Settings

`appLang` and `primary` are in the user defaults and survive `Restart`. `texts[v]` is
the language of a view's text (the cells of the settings, the profile's placeholders):
it is made with what is stored (`Load`) and has a block that `Translate` runs. `badges[r]`
and `avatars[r]` are the colours of the two parts of a chat list's cell: `MakeCell` paints
both, the observers that `Repaint` tells paint only the badge (`ChatTableViewCell.swift:36`
and `115-121`). The other observers of the colour (navigation bar, search screen, picture
button of the profile) have one part each and are left out, as are the chat and the auth
screens, which keep the colour they were made with. The language screen has
`currentLang` and `languages` of its view model and `cells` as the table shows them;
`CellsAfter` looks both cells up by row, in the list as it was when the screen was opened, as
`didSelectRowAt` does. The half second before the return to the root is
`popping`, during which further taps are possible. `selected` is the collection
view's own choice, `marked` the cells with a mark.

### Connection and Outbox

`FPersistentConnection` runs on one queue of its own, so that a handler is one
step. `state`, `reasons`, `retry`, `force`, `token`, `listens`, `out`, `unacked` and
`putsToAck` are `connectionState`, `interruptReasons`, what `FIRRetryHelper` has
scheduled, `forceAuthTokenRefresh`, `authToken`, `listens`, `outstandingPuts`,
`unackedListensCount` and `putsToAck`. `line` is the connection as a sequence of
requests, `served` of which the server has dealt with; `old` is what a lost
connection had under way, which may still arrive until the next one is ready.

| Action | Code |
|---|---|
| `Lost`, `AuthFails` | `onDisconnect`, `sendAuthAndRestoreStateAfterComplete` / `onAuthRevoked` |
| `Interrupt`, `Resume`, `Foreground` | `interruptForReason`, `resumeForReason`, `enteringForeground`, reachability |
| `FetchToken`, `TokenFetched`, `TokenFails` | `tryScheduleReconnect` and its callbacks |
| `OnReady`, `AuthSucceeds` | `onReady`, `restoreState` |
| `Listen`, `Unlisten`, `Put`, `RefreshAuthToken` | the calls of the repository |
| `Serve`, `ServeOld` | the server |
| `ListenAnswered`, `PutAnswered`, `OtherAnswered` | the callbacks of the requests, `ackPuts` |

The answers come in the order of the requests. That is an assumption about the
server, which answers one connection's requests one after the other: the client
itself matches an answer to its request by number (`FPersistentConnection.m`,
`requestCBHash`) and would take them in any order. Only `IsOutbox`, whose `Answer` is in
order, needs it.

`Outbox` says what an app relies on: `Take` is the next write or one that has no
answer yet, `Answer` gives answers in order, `Tell` runs the callbacks that were
held back.

## 3. Runs

| Run | Bounds | Shows |
|---|---|---|
| `chat_room` | 3 ids, 2 commits, the peer's clock at 2, 2 list entries | the row: each message once per row, none missing, feed refinement; the observers; the transcript of an ordered row only grows |
| `chat_room_search` | 3 ids, 3 commits, no peer, 3 list entries, one row | a screen opened from the search never shows a message a third time |
| `chat_room_live` | 2 ids, 2 commits, the peer's clock at 2, 2 list entries | stored and sent messages reach row and screen |
| `chat_room_duplicate` | 3 ids, 3 commits, a peer with any clock, 1 list entry | **violated**: `removeLast`, commented "remove duplicate", removes other messages |
| `chat_start` | 2 clock values, 2 messages | entries name rooms, messages go to real rooms and stay reachable; the book of rooms `RoomBook` is kept; both users get the room and its creator is left with a chat that exists |
| `sign_in` | 1 name, 3 ids, 1 name check at a time | ids tried once, the listener comes back, home once per sign-in and in the end, no record without a name |
| `sign_in_unnamed` | 2 names, 2 ids | **violated**: home is shown to a user without a name |
| `sign_in_second_code` | 2 names, 2 ids | **violated**: a typed code has a verification id |
| `profile` | 2 names, 2 bios, 2 writes on their way, 2 waiting events | undo, the record on the screen, whose record it is, and what is stored gets shown |
| `search` | 2 names, 2 ids, 3 questions and answers waiting | found users are records, the settled row is for the text, whoever was asked for is shown |
| `settings` | 3 colours, 2 texts, 2 chat cells, 3 taps on one language screen | marks and stored values agree, texts and badges follow, one screen changes the language once |
| `connection` | 2 listens, 2 writes, 3 requests under way, 1 failure | one way up, counts, subscriptions, callbacks, the outbox refinement, each write is told |

Why the bounds are enough to be worth running:

* Three ids and a peer at 2 give a message older than, newer than and equal to
  the peer's: arrival out of key order, a collision, and a write that shadows
  server data. Two commits allow a peer's message and an own one, or one own
  message that is sent twice; three allow both.
* Two list entries give two rows and two observers for one room, and a fetch
  that is answered after `viewDidAppear` removed the first observer.
* `chat_room_search` asks how often one screen can create its chat: that takes
  three sends and three entries and no peer. Its constraint `OneRow` cuts the
  states with several rows, whose events go to the list and never to the screen.
* In `chat_start`, two clock values let both phones write in the same millisecond
  or one after the other, in either order; two messages allow each user to
  create a room, or one to create it and the other to answer in it.
* In `sign_in`, three ids allow two overlapping sign-ups and a login, or a sign-up
  that is cut off and tried again twice; the number of names bears on none of
  its properties but through the empty and non-empty cases, which one name has.
  The two violations need two names: a login can be answered with either of two
  records of its number.
* In `profile`, two writes allow one to this user's record behind one to another's,
  and a write that is sent again after the other phone saved; two events
  allow one that is older than the record. A second name is what a changed
  username writes to.
* In `search`, three waiting questions allow one that is overtaken by a later one
  and a third typed meanwhile; two ids let a record change between question and
  answer.
* In `settings`, three colours are needed to tell the colour so far, the tapped
  one and a cell that comes back; three taps go one beyond the two that break
  the list; two texts and two cells allow one that is made before a change and one
  after it.
* In `connection`, one failure is one lost connection, refused token or
  interruption, with everything that follows up to the next connection: each of
  the properties is about what one such break leaves behind. Two writes give an
  order, two listens an answer that is not the last. Two
  failures (1,307,092 states) leave the safety properties as they are, and these
  are proved for every bound.
* `CHECK_DEADLOCK` is on everywhere: a phone may always be restarted.

Every property has a mutant of the code that violates it under its own run's
configuration, so none holds by the shape of the model.

### Fairness

`ChatRoom.FairSpec`: weak fairness of the main queue's callbacks (`RowEvent`,
`AppendEvent`), of the connection sending (`RoomCommit`, `ServerCommits`) and of
the server's data arriving (`DataArrives`). UIKit drains the main queue; the
client reconnects by itself and sends its queue in order. Weak is enough, since none
of these is switched off again by another action except where the property
itself allows for it (an observer removed). `ChatStart.FairSpec`: for each user
the same for `ListLoads`, `Commit`, both reads and `Answer`. What users do
(open, send, close) and kills are never fair. `OwnSendsAppear` needs no fairness
of `Close` or `ViewDidAppear`: removing the observer is one of its outcomes.
`SignIn.FairSpec`: weak fairness of the listener's queued calls and of the
attempts going on. Firebase answers each call, with an error if need be, and
errors are among the answers, so nothing is assumed to succeed.

`Profile.FairSpec`: weak fairness of the event callback, of the writes being sent
and of the server's data arriving, strong fairness of the acknowledgement: a
reconnect sends its write again before the acknowledgement got through and so
switches it off, but each connection sends the writes again and
acknowledges them, and connections are not lost for ever. `StoredGetsShown` allows for
phones that replace the record for ever and for a user who edits.
`Search.FairSpec`: each open question is read in the end and each answer shown; both
are steps of a connection and a queue that nothing switches off but leaving the
screen. `Connection.FairSpec`: a token that is due is asked for and arrives or fails,
a connection gets ready, the server deals with requests, and its answers are
handled. Lost connections and refused tokens are bounded (`MaxFails`), so that what is
asked is what follows the last of them; users, interrupts and resumes are never fair, and
`EveryWriteTold` allows for an interrupt that stays.

### Findings

`ChatViewModel.swift:122` says "remove duplicate" where the code removes the *last*
message whenever the transcript *contains* the new one. The two agree when the
row is in key order (`OrderedTranscriptOnlyGrows` holds), but the row is in
arrival order: after a peer's message with an older clock arrives last, a tap on
the row takes that message off the transcript and shows the newest one twice. The
run `chat_room_duplicate` finds it.

`ChatRoomsViewModel.swift:65` asserts that the user at home has a display name.
`FBAuthService.signUp` signs in first and sets the name in a second call; the app
may end between the two, and the next launch's listener finds a user and shows
home (`sign_in_unnamed`). The number is not among `users` then, so a login is
refused, and only another sign-up repairs it.

`LoginViewModel.swift:43` and `SignUpViewModel.swift:48` assert that there is an id for
a typed code. The first attempt deletes it, right or wrong, so a corrected code
is never sent and nothing tells the user (`sign_in_second_code`).

### What the checks say otherwise

* The list's row is exact while the list observes (`OncePerRow`,
  `RowTracksView`, `RowIsFeed`) and it stops for good at the first
  `viewDidAppear` of a screen on that room: that is `RoomFeed.Stop`. Messages that
  arrive from then on are missing from the row, which no property excludes. All
  three compare keys: that a message replaced by another one under its key stays in the
  row is not excluded either, since nobody observes changed children.
* The list shows each message as many times as there are rows for the room
  (`OncePerRow`), because of `newValue.first`.
* A nil answer that was read before `startChat` and runs after it makes the next
  send create the chat and observe it once more. It can happen once per screen,
  so a message is shown twice and never a third time (`NoThirdCopy`).
* The creator of a room who asks from the search is left with a chat that exists once all
  answers have run (`CreatorRejoins`), if both users created one with either of the
  two. Of the other user nothing of the kind holds: their second question answers nil
  after the first one found the room (`FBChatService.swift:170`), and their next message
  creates a second room. No message is lost by this: it stays reachable through
  the lists (`MessageIsReachable`).
* What a kill cuts off, or an entry with the same clock replaces, is recorded in `lost`.
  The properties of `ChatStart` exempt those rooms and bound which they are
  (`RoomBook.Enter`, `RoomBook.Kill`); that they are lost is what the code does.
* `SignIn`: a sign-up that fails leaves the app without its listener
  (`FBAuthService.swift:49`); `ListenerComesBack` and `SignedInReachesHome` exempt it.
* `Profile`: undo brings back the model of the first change unless a picture is
  picked after an edit (`ProfileViewController.swift:417` sets `isChanged` again).
  A changed username is written to `users/<the new name>`, whoever's that is
  (`ProfileViewModel.swift:75`), and replaces what is there. `OwnRecordStays` is about the
  other side only: no late, repeated or undone write of this user's phones puts another
  id into this user's record. Phones of other users are not in the model, and one
  whose user takes this name does replace the record. Of two phones of one user the
  last write wins, and what the other one saved is gone. The record may be
  absent when the profile opens (`ProfileViewModel.swift:99` asserts it is there):
  a kill after the account was named and before `users/<name>` was stored. The bar
  buttons that another screen's done took away are back with the next character
  (`ProfileViewController.swift:299`).
* `Search`: the row may be for a text other than the one in the bar whenever two
  questions are answered in another order than they were asked, and is filled
  again after a cancel; name and id of the row always belong together.
* `Settings`: after a colour was picked the cells of the chat list that are there already
  have two colours, a new badge and an old avatar (`ChatTableViewCell.swift:36`);
  `PartsFollow` promises one only until then. On the very first opening of the
  language screen `currentLang` is nil (`LanguagesViewModel.swift:57`), its assertion
  fails, and in a release build taps do nothing until the screen is opened again. A choice cannot be taken back on the same
  screen (`ChosenOnce`), and from the second tap on, within the half second
  before the return, the checked top cell need not be the stored language.
  A tap on the colour in use unmarks its cell. `MarkedIsPrimary` therefore says
  that no *other* cell is marked.
* `Connection`: a forced refresh of a refused token is lost when a plain attempt takes
  the place of the scheduled one (`FPersistentConnection.m:451`), so that the
  refused token is tried once more, against the comment at lines 625-627. A listen made
  while the token is checked is sent a second time by `restoreState`. A callback
  that is held back for listens waits on when the last listen is removed, and
  new listens can hold it back for ever: both are exceptions in `EveryWriteTold`.

## 4. Proofs

The proof modules prove their results for every value of the constants, under
only the assumptions named in the modules:

| Module | Assumptions |
|---|---|
| `RoomSync`, `ChatRoom` | `BoundsAssumption`, `EntriesAssumption`: bounds are naturals, the peer's ids are ids |
| `ChatStart` | `UsersAssumption`: two users, neither of whom is `none`; `StartBounds` |
| `SignIn` | `NamesAssumption`: `none` is no name; `SignInBounds` |
| `Profile` | `NamesAssumption`: the user's name is a name; `NoneAssumption`: `none` is no record; `ProfileBounds` |
| `Search` | `NoneIsNoName`: `none` is no name, id or user; `WaitBound` |
| `Settings` | `ColorsAssumption`: the default is a colour, `none` is not; `TapsBound`: two taps or more; `NoneIsNoLang` |
| `Connection` | `ConnectionBounds`: bounds are naturals |

### ChatRoomProofs

| Theorem | States |
|---|---|
| `Invariant`, `TypeCorrect` | `Spec => []IInv`, `Spec => []TypeOK` |
| `RowHoldsTheView` | `Spec => []RowTracksView` |
| `RowImplementsFeed` | `Spec => RowIsFeed`, the refinement of `RoomFeed` |
| `LastObserverBelongsToScreen` | `Spec => []LastObserverHasScreen` |

The refinement needs `RowExactlyOnce`, that a single row gets no key twice, and this is
not inductive: that an event is not a repetition follows from what the view held before, so
the row has to be tied to the view, and the view to the server and the pending
writes. The inductive invariant is

    IInv == TypeOK /\ KeysStay /\ CacheKnown /\ NotListed /\ RowExactlyOnce /\ RowTracksView

* `KeysStay`: a key the server stored is in every later version, so data that
  arrives never takes a key out of the view;
* `CacheKnown`: each key of the view is stored in the version the phone was told or
  pending, so a view that is computed anew holds every key the old one did;
* `NotListed`: without rows nothing was delivered and nothing is observed;
* `RowTracksView` then says that a key new to the view is new to the row, which
  is what makes `RowExactlyOnce` inductive.

The proof has one step per action. `Copies` and `KeyOrder` are covered by lemmas
on what they contain and that they repeat no key.

`LastObserverHasScreen` is proved from a second invariant, `ScreenInv`, which ties what
a screen knows, asks and has appeared as to where it was opened from; its lemmas
`ScreenInit` and `ScreenStep` are used again by the next module.

### ChatRoomScreenProofs

| Theorem | States |
|---|---|
| `RowHoldsOncePerRow` | `Spec => []OncePerRow` |
| `ScreenInvariant` | `Spec => []SInv` |
| `ShownAtMostTwice` | `Spec => []NoThirdCopy` |
| `OrderedTranscriptGrows` | `Spec => OrderedTranscriptOnlyGrows` |

These say how often a message is shown, and what `ChatViewModel`'s removal of
"duplicates" does to a transcript. The first two are one argument about any feed.
Every registration on the path is called once with each key: at once with the keys
the view holds, later with the others. So for a feed `f` with `n` registrations

    Debt(i, f, n, S) == TimesIn(i, f) + Owed(i, n, S)

the copies of key `i` it has (`TimesIn`) and those its registrations still owe it
(`Owed`: `n` if the view `S` lacks the key, otherwise none) are together as many as
there were ever registrations. An arrival moves a key from owed to had, a new
registration raises the sum by one (`RaisedKeys`, `StartedKeys`), a removal can only
lower it. `IInv` gives the facts about the view this needs: keys never leave it.

* `RowOwes` is this for the first row, whose observers are one for each row of the
  list. It is inductive next to `IInv` and gives `OncePerRow` at once; the exact count
  while no observer was removed is a part of it, without which a row that was
  opened again could not be compared with the number of rows.
* `SInv == IInv /\ ScreenInv /\ ScreenAsks /\ Blank /\ ScreenOwes` is this for a screen
  opened from the search. `StartsLeft` is how often it may still start the chat: once
  if it does not know of one, and once more if the answer that is to come may make it
  forget. `ScreenOwes` says that the debt of each key and the starts left are at most
  two, so that each start pays for its registration; `ScreenAsks` and `Blank` say
  that a screen that asks has not started and that a new one begins empty.
  `NoThirdCopy` alone is not inductive: it does not know how many registrations a
  late answer may still cause.

`OrderedTranscriptOnlyGrows` speaks of one step of the closure, and needs to know
that what waits for it is never older than what the transcript has. `NewestOnly`
says so as long as the screen came from a list that kept its observers and whose
row is in key order (`Unremoved`): all keys of transcript and queue are in the view,
the queue is in key order, and a key that is in both is the transcript's last
(`NewestWaits`). So `removeLast` takes off just the copy that is appended again. The
row's order is a hypothesis here that the code does not see to, and without which
the finding above is the counterexample; that it held *before* the step if it holds
after it (`UnremovedBefore`) is what makes the induction go through.

TLC found all the strengthenings to hold on 467,099 states (3 ids, 2 commits, 2 entries)
before they were proved.

### ChatStartProofs

| Theorem | States |
|---|---|
| `StartInvariant`, `StartTypeCorrect` | `Spec => []IInv`, `Spec => []TypeOK` |
| `ListedRoomsExist` | `Spec => []ListEntryResolves` |
| `RoomsWrittenToExist` | `Spec => []WritesToRealRoom` |
| `MessagesAreReachable` | `Spec => []MessageIsReachable` |
| `RoomBookIsKept` | `Spec => IsRoomBook`, the refinement of `RoomBook` |

    IInv == TypeOK /\ OutboxInOrder /\ ListEntryResolves /\ KnownIsCreated
            /\ WritesToRealRoom /\ MessagesInRooms /\ RoomsReachable

* `OutboxInOrder`: an entry, or a message, waits behind the write of its room
  unless that is stored;
* `KnownIsCreated`: what a list shows, a question found or a queued answer
  carries is a room that is stored or waits in that phone's queue;
* `MessagesInRooms`, `RoomsReachable`: messages are in stored rooms, and each
  stored room is in each list, on its way to it, or lost.

`TypeOK` alone is not inductive: that a message is addressed to a room and not
to no room needs `WritesToRealRoom`.

`RoomBookIsKept` shows that every step of `ChatStart` is one of `RoomBook`'s or leaves it
alone. `Commit` is `Create`, `Enter` or `Post` by the kind of the write, where
`OutboxInOrder` gives that the room is there; `Restart` is `Kill`. For this one more
invariant is needed, `OwnRooms`: rooms and entries a phone has yet to send are of its
user's own room, so that a kill cannot cost the other user's.

### SignInProofs

| Theorem | States |
|---|---|
| `SignInInvariant`, `SignInTypeCorrect` | `Spec => []IInv`, `Spec => []TypeOK` |
| `IdsTriedOnce` | `Spec => []OneTryPerId` |
| `ListenerIsBack` | `Spec => []ListenerComesBack` |
| `ListedAreNamed` | `Spec => []ListedHasName` |
| `HomeShownOncePerSignIn` | `Spec => []HomeOncePerSignIn` |

`IInv` is `TypeOK` and `Steady`, whose parts are the properties above and

* `StoredIsUntried`: no attempt has the stored id or one beyond the last given;
* `TryStages`: an attempt that waits to hear of its name has the account named, so
  that the record may be stored;
* `OffWhileSigningUp`: a listener that is off has no calls waiting, and while a
  sign-up is under way it is off or somebody is signed in already;
* `HomesOwed`: the homes pushed, the sign-ups that are signed in (`SignUps`), the
  replaced listeners and a listener that has not reported the user together
  are at most the sign-ins. `HomeOncePerSignIn` alone is not inductive: when the
  listener is put back nothing in it says that its sign-in was not shown yet.

One lemma per action shows that it keeps `Steady`; `QuietKeeps` does so at once for
the actions that change neither attempts nor listener nor names, and the
`SignUp` lemmas carry the arithmetic of the cardinality.

### ProfileProofs

| Theorem | States |
|---|---|
| `Invariant`, `ProfileTypeCorrect` | `Spec => []IInv`, `Spec => []TypeOK` |
| `UndoIsWhereChangesBegan` | `Spec => []UndoGoesBack` |
| `IdleScreenShowsRecord` | `Spec => []IdleShowsRecord` |
| `RecordStaysOnesOwn` | `Spec => OwnRecordStays` |

    IInv == TypeOK /\ UndoGoesBack /\ Unheard /\ StoredLeftId /\ OneId
            /\ LastIsSeen /\ IdleShowsRecord

* `LastIsSeen` carries `IdleShowsRecord` over the events on their way: the last one
  waiting is what the phone sees, so that when none waits the screen shows it.
* `OneId` says that everything on the phone, models, writes and events, bears one id, and
  that the server's record bears it too or is hidden by a write of the phone.
  Without it nothing keeps a write that is sent late from carrying another's id
  into the record, which is `OwnRecordStays`.
* `StoredLeftId`: a write that is stored left its id in the record, so that when it is
  acknowledged and no longer hides the record the id is seen without it.

### SearchProofs

| Theorem | States |
|---|---|
| `Invariant`, `SearchTypeCorrect` | `Spec => []IInv`, `Spec => []TypeOK` |
| `FoundAreRecords` | `Spec => []FoundIsARecord` |
| `SettledRowIsText` | `Spec => []SettledShowsText` |

`SettledShowsText` speaks of the moment when nothing is open; its strengthening
`LatestIsText` follows the latest question through the three places it can be in
(asked, answered, shown) and `ListedStays` makes sure that its answer is a user.
`EmptyStays` is the other half, `Known` ties the answers to records there have been.

### SettingsProofs

| Theorem | States |
|---|---|
| `Invariant`, `SettingsTypeCorrect` | `Spec => []IInv`, `Spec => []TypeOK` |
| `TopCellIsStored` | `Spec => []TopIsStored` |
| `ObservingPartsFollow` | `Spec => []PartsFollow` |
| `OnlyPrimaryIsMarked` | `Spec => []MarkedIsPrimary` |
| `LanguageChosenOnce` | `Spec => ChosenOnce` |

`CellOrder` gives the whole table before and after the first tap on the lower row, from
which `TopIsStored` follows; `ListOrder` ties the list to the language known, and
`Marks` the cells' marks, the collection view's own choice and the colour to each
other. `PartsFollow` needs no strengthening but the types.

### ConnectionProofs

| Theorem | States |
|---|---|
| `ConnectionInvariant`, `ConnectionTypeCorrect` | `Spec => []IInv`, `Spec => []TypeOK` |
| `OneWayToConnect` | `Spec => []OneWayUp` |
| `UnackedIsTheCount` | `Spec => []UnackedCounts` |
| `ServerListensAsRemembered` | `Spec => []SubscribedAsRemembered` |
| `LastWriteIsLast` | `Spec => []LastWriteStands` |
| `CallbacksComeAfterListens` | `Spec => CallbackAfterListens` |
| `ConnectionImplementsOutbox` | `Spec => IsOutbox`, the refinement of `Outbox` |

    IInv == TypeOK /\ FetchIsBefore /\ OneWayUp /\ Wire

`Wire` describes the connection as a queue whose front the server has dealt with:

* `OneLine`, `CheckIsFirst`: requests are under way on the connection or on the lost
  one, never on both; while the token is checked it is the first request;
* `Kept`: the writes remembered are those after the last answered one, and the server
  is not behind the answers; answered are exactly those told or held back;
* `InLine`, `InOld`: the writes on the connection are the unanswered ones in order, and
  what a lost connection still delivers begins at most one behind the last write
  taken and leaves none out. This is what makes a write that is sent again harmless:
  the server goes back only to run through the same writes once more;
* `Agreed`: what the server will listen to once it has dealt with the whole line
  is what the client remembers. `SubscribedAsRemembered` is the case of an empty
  rest; it is not inductive, since it says nothing of the listens on their way.

`FetchIsBefore` (a token is only fetched while disconnected) is what `OneWayUp` lacks
to be inductive. TLC found `IInv` to hold for 3 writes, 3 requests and 2 failures
(2,787,842 states) before it was proved.

### Only model-checked

Every invariant and action property that a run checks, and the three refinements,
are theorems above. The liveness properties `RowCatchesUp`, `OwnSendsAppear`, `BothLearn`,
`CreatorRejoins`, `SignedInReachesHome`, `StoredGetsShown`, `AskedIsShown` and
`EveryWriteTold` need fairness, which is out of reach of the proof system: TLC checks them
on the instances above. The findings are counterexamples.

## 5. Not modelled, and why

* Storage, assembly, views: no state of their own, pure input and output; avatars are
  fetched and uploaded, and their outcomes only printed.
* The dark mode switch: one flag in the user defaults that each screen reads as it
  appears.
* What the managers keep alive: `LanguageManager` never lets go of a block, which holds
  its view strongly, and `ThemeManager` of an observer that its deinit should take
  off. The views in `Settings` therefore stay, as they do in the app; memory is not
  modelled.
* The search by phone number (`FBSearchService`): nothing calls it.
* Vendored pods other than the Realtime Database client (leveldb, nanopb,
  GTMSessionFetcher, MessageKit, the headers of FirebaseAuth): third-party code, which the
  app reaches only through Firebase's calls. Of the database client, which is
  Objective-C, what the app depends on is in `RoomSync` and `Connection`. The app itself
  is Swift, so that a count of C and C++ lines says nothing of what is modelled.
* Writes the server rejects: the database's rules are not in the repository. A
  rejected write would leave the view again, while no observer of removals
  exists, so the message would stay on the screen.
* Keys as strings: `childAdded` is in string order, and the ids of the model are numbers.
  A key with one digit more sorts before all others: the keys are milliseconds since 2001,
  which get their thirteenth digit in September 2032. From then on new messages sort
  before the old ones, and an observer of the last message stays with an old one.
* The unseen count and the last-message label of a row: functions of one row
  without state (`Models/Chat.swift:27` compares the sender's name with the
  other user's id).
* The screen's table before the first `bind`: layout.
* Database transactions, merges, persistence and bounded queries other than
  `queryLimited(toLast: 1)`: the app uses none of them on these paths.

## 6. What is left

1. A composition of `ChatStart` with `ChatRoom`: the row of the user who did not
   create the room, and two phones' views of the same messages.
2. A composition of `Connection` with `RoomSync` in one module, in place of the
   correspondence through `Outbox` that section 2 states in words.

------------------------------ MODULE RoomFeed ------------------------------
(***************************************************************************)
(* What the chat list is owed for one room: a feed of message keys that    *)
(* only grows, and only while it is live; that stays as it is once it has  *)
(* stopped, until it is opened anew or the app starts again; and that,     *)
(* opened only once, never delivers a key twice.                           *)
(***************************************************************************)
EXTENDS Integers, Sequences

VARIABLES
  delivered,  \* the keys delivered so far, in the order of delivery
  live,       \* more may be delivered
  opened      \* how many times the feed was opened since the app started

feedVars == <<delivered, live, opened>>

NoKeyTwice(s) == \A i, j \in 1..Len(s) : i # j => s[i] # s[j]

Extends(s, t) == Len(s) <= Len(t) /\ \A i \in 1..Len(s) : t[i] = s[i]

Clean == opened <= 1 => NoKeyTwice(delivered)

FeedInit == delivered = <<>> /\ live = FALSE /\ opened = 0

\* The feed is opened, once more: it delivers what is known already.
Open ==
  /\ opened' = opened + 1
  /\ live' = TRUE
  /\ Extends(delivered, delivered')
  /\ Clean'

Deliver ==
  /\ live /\ live' = TRUE
  /\ Extends(delivered, delivered')
  /\ UNCHANGED opened
  /\ Clean'

Stop == live /\ live' = FALSE /\ UNCHANGED <<delivered, opened>>

\* The app starts again.
Reset == live' = FALSE /\ delivered' = <<>> /\ opened' = 0

FeedNext == Open \/ Deliver \/ Stop \/ Reset

FeedSpec == FeedInit /\ [][FeedNext]_feedVars
=============================================================================

------------------------------- MODULE Outbox -------------------------------
(***************************************************************************)
(* What the connection promises for one phone's writes, numbered as they   *)
(* are issued: the server takes them in order, over and over if need be,   *)
(* but never one whose answer the phone has. The other modules rely on it: *)
(* a write sent again is a commit in RoomSync and a Reconnect in Profile,  *)
(* and the queues of ChatStart and SignIn are sent head first.             *)
(***************************************************************************)
EXTENDS Integers

VARIABLES
  issued,    \* the number of writes so far
  at,        \* the write the server took last
  answered,  \* the writes up to this one have been answered
  told       \* the writes whose callback has run

vars == <<issued, at, answered, told>>

Init == issued = 0 /\ at = 0 /\ answered = 0 /\ told = {}

Issue == issued' = issued + 1 /\ UNCHANGED <<at, answered, told>>

\* The next write, or again one that has no answer yet.
Take ==
  /\ \E n \in (answered + 1)..(at + 1) : n <= issued /\ at' = n
  /\ UNCHANGED <<issued, answered, told>>

\* An answer arrives. Its callback runs at once or is held back.
Answer ==
  /\ answered < at
  /\ answered' = answered + 1
  /\ told' \in {told, told \cup {answered + 1}}
  /\ UNCHANGED <<issued, at>>

\* The callbacks that were held back run.
Tell ==
  /\ told' = 1..answered
  /\ UNCHANGED <<issued, at, answered>>

Next == Issue \/ Take \/ Answer \/ Tell

Spec == Init /\ [][Next]_vars
=============================================================================

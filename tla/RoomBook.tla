------------------------------ MODULE RoomBook ------------------------------
(***************************************************************************)
(* What two users are promised of the rooms they create with each other,   *)
(* each room named by its creator: a list is told only of rooms there are, *)
(* messages are only in rooms there are, a room stays in a list unless it  *)
(* is lost to another that takes its place, nothing else that is stored    *)
(* goes away, and a phone that is killed loses its user's own room and no  *)
(* other. (That a room gets into both lists in the end is BothLearn in     *)
(* ChatStart.)                                                             *)
(***************************************************************************)
CONSTANT Users

VARIABLES
  rooms,   \* the rooms there are
  listed,  \* listed[u]: the rooms in u's list
  posted,  \* the rooms with a message in it, and who wrote it
  lost     \* the rooms that may be missing in a list

vars == <<rooms, listed, posted, lost>>

Init == rooms = {} /\ listed = [u \in Users |-> {}] /\ posted = {} /\ lost = {}

Create(u) == rooms' = rooms \cup {u} /\ UNCHANGED <<listed, posted, lost>>

\* Room r gets into u's list. Those it takes the place of there are lost.
Enter(u, r) ==
  /\ r \in rooms
  /\ r \in listed'[u]
  /\ listed[u] \ lost' \subseteq listed'[u] /\ listed'[u] \subseteq listed[u] \cup {r}
  /\ listed' = [listed EXCEPT ![u] = listed'[u]]
  /\ lost \subseteq lost' /\ lost' \subseteq lost \cup (listed[u] \ {r})
  /\ UNCHANGED <<rooms, posted>>

Post(u, r) ==
  /\ r \in rooms
  /\ posted' = posted \cup {[room |-> r, by |-> u]}
  /\ UNCHANGED <<rooms, listed, lost>>

\* The entries of u's own room that u's phone had yet to send are gone.
Kill(u) == lost' = lost \cup {u} /\ UNCHANGED <<rooms, listed, posted>>

Next == \E u \in Users : Create(u) \/ Kill(u) \/ \E r \in Users : Enter(u, r) \/ Post(u, r)

Spec == Init /\ [][Next]_vars
=============================================================================

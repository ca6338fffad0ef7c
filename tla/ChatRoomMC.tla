----------------------------- MODULE ChatRoomMC -----------------------------
(***************************************************************************)
(* ChatRoom for TLC, with a bound a constant cannot give.                  *)
(***************************************************************************)
EXTENDS ChatRoom

\* At most one row: what several rows do is another run's question.
OneRow == rows <= 1
=============================================================================

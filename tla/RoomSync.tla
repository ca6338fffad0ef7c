------------------------------ MODULE RoomSync ------------------------------
(***************************************************************************)
(* One room's messages, messages/<room>, as one phone's Firebase Realtime  *)
(* Database client sees them: what the server stored after each commit,    *)
(* this phone's unacknowledged writes and the event cache of the views     *)
(* that are registered on the path.                                        *)
(*                                                                         *)
(* The other phones are reduced to what reaches this one: a write of       *)
(* theirs is a commit under an id of their own clock, so ids are committed *)
(* in any order and may even collide (FBChatService.sendMessageBy uses the *)
(* sender's millisecond clock as the key).                                 *)
(*                                                                         *)
(* Firebase runs every operation on one serial queue and only the user's   *)
(* callbacks on the main queue, so an operation is part of the action that *)
(* calls it and the callbacks are queues of the module that extends this.  *)
(***************************************************************************)
EXTENDS Integers, Sequences, FiniteSets, SequencesExt

CONSTANTS
  MaxId,       \* bound: message ids (millisecond timestamps) are 1..MaxId
  MaxCommits,  \* bound: commits the server makes on this path
  PeerIds      \* the ids the other phones' clocks give their messages

ASSUME BoundsAssumption == MaxId \in Nat /\ MaxCommits \in Nat /\ PeerIds \subseteq 1..MaxId

VARIABLES
  versions,  \* what the server stored at first and after each commit
  pend,      \* this phone's writes the server has not acknowledged
  pos,       \* the version the server has told this phone
  synced,    \* the path's views hold complete server data
  cache      \* the event cache of the path's widest view

syncVars == <<versions, pend, pos, synced, cache>>

\* A stored message: its key, and who wrote what is stored under the key.
Msg == [id : 1..MaxId, by : {"me", "peer"}]

Ids(S) == {m.id : m \in S}

-----------------------------------------------------------------------------
(* Operators on sets of messages with distinct keys. *)

\* base with the entries of over written on top of it: setValue replaces the
\* whole child, and a pending write shadows what the server stores.
Overlay(base, over) == {m \in base : m.id \notin Ids(over)} \cup over

\* Mutant of Last1: queryLimited(toFirst: 1).
FirstOne(S) == {m \in S : \A x \in S : m.id <= x.id}

\* The window of queryLimited(toLast: 1): the entry with the greatest key.
Last1(S) == {m \in S : \A x \in S : x.id <= m.id}

\* The entries of new whose key old has not: the only ones childAdded fires
\* for, since a changed child is childChanged and nobody observes that.
Added(old, new) == {m \in new : m.id \notin Ids(old)}

\* S in key order, the order in which the events of one change are raised.
\* (A set of one sequence, written so that nothing recursive is needed.)
KeyOrder(S) ==
  {s \in BoundedSeq(S, MaxId) : /\ \A i, j \in 1..Len(s) : i < j => s[i].id < s[j].id
                                /\ \A m \in S : \E i \in 1..Len(s) : s[i] = m}

-----------------------------------------------------------------------------
(* The server and the connection. *)

SyncInit ==
  /\ versions = <<{}>>
  /\ pend = {}
  /\ pos = 1
  /\ synced = FALSE
  /\ cache = {}

Committed(m) == \E i \in 1..Len(versions) : m \in versions[i]

Store(m) == versions' = Append(versions, Overlay(versions[Len(versions)], {m}))

\* Room is kept below the bound for every write that still has to commit.
HasRoom == Len(versions) + Cardinality({m \in pend : ~Committed(m)}) <= MaxCommits

\* Another phone's write commits, under whatever id its clock gave it.
PeerCommit(i) ==
  /\ HasRoom
  /\ Store([id |-> i, by |-> "peer"])
  /\ UNCHANGED <<pend, pos, synced, cache>>

\* The connection sends this phone's writes in order; the server commits one.
\* After a reconnect it sends every write not yet acknowledged once more, so
\* a write may commit again.
Commit(m) ==
  /\ m \in pend
  /\ \A x \in pend : x.id < m.id => Committed(x)
  /\ Committed(m) => HasRoom
  /\ Store(m)
  /\ UNCHANGED <<pend, pos, synced, cache>>

\* The view's contents out of version k and the writes w. wide: some
\* registration loads all of the path and not only its last child.
ViewOf(k, w, wide) ==
  LET all == Overlay(versions[k], w) IN IF wide THEN all ELSE Last1(all)

\* Mutant of Receive: the phone counts one version more than it was told.
ReceiveAhead(k, wide) ==
  /\ k \in pos..Len(versions)
  /\ synced => k > pos
  /\ pos' = k + 1
  /\ synced' = TRUE
  /\ cache' = ViewOf(k, pend, wide)
  /\ UNCHANGED <<versions, pend>>

\* Mutant of Receive: a view that has its data is never updated.
ReceiveOnce(k, wide) ==
  /\ k \in pos..Len(versions)
  /\ ~synced
  /\ pos' = k
  /\ synced' = TRUE
  /\ cache' = ViewOf(k, pend, wide)
  /\ UNCHANGED <<versions, pend>>

\* Server data arrives: the answer to a listen, an update, or, after a
\* reconnect, several commits at once. What the server sends arrives in the
\* order it sent it, so pos never falls; a synced view has version pos.
Receive(k, wide) ==
  /\ k \in pos..Len(versions)
  /\ synced => k > pos
  /\ pos' = k
  /\ synced' = TRUE
  /\ cache' = ViewOf(k, pend, wide)
  /\ UNCHANGED <<versions, pend>>

\* Mutant of Ack: the write's shadow is lifted before the view has the data.
AckDropsWrite(m, wide) ==
  /\ m \in pend
  /\ \A x \in pend : m.id <= x.id
  /\ pend' = pend \ {m}
  /\ \E i \in 1..Len(versions) :
       /\ m \in versions[i]
       /\ synced => i <= pos
       /\ pos' = IF i > pos THEN i ELSE pos
  /\ cache' = cache \ {m}
  /\ UNCHANGED <<versions, synced>>

\* The server acknowledges the oldest write. To a phone that listens it has
\* sent the data before. With complete server data the view is computed
\* again without the write's shadow; without it the view is left alone.
Ack(m, wide) ==
  /\ m \in pend
  /\ \A x \in pend : m.id <= x.id
  /\ pend' = pend \ {m}
  /\ \E i \in 1..Len(versions) :
       /\ m \in versions[i]
       /\ synced => i <= pos
       /\ pos' = IF i > pos THEN i ELSE pos
  /\ cache' = IF synced THEN ViewOf(pos, pend', wide) ELSE cache
  /\ UNCHANGED <<versions, synced>>

\* setValue: the write is pending at once, and at once in a view that exists.
Write(m, viewed) ==
  /\ pend' = pend \cup {m}
  /\ cache' = IF viewed THEN Overlay(cache, {m}) ELSE cache
  /\ UNCHANGED <<versions, pos, synced>>

\* observe: a first registration opens a view holding the pending writes; one
\* that joins finds the view as it is.
Register(viewed, wide) ==
  /\ cache' = IF viewed THEN cache ELSE IF wide THEN pend ELSE Last1(pend)
  /\ UNCHANGED <<versions, pend, pos, synced>>

\* removeAllObservers: no view is left on the path, and nothing remembers its
\* data (persistence is never enabled).
Unregister ==
  /\ synced' = FALSE
  /\ cache' = {}
  /\ UNCHANGED <<versions, pend, pos>>

\* The process dies: nothing of the client outlives it, unsent writes
\* included. A new connection is told everything from the beginning.
ForgetClient ==
  /\ pend' = {}
  /\ synced' = FALSE
  /\ cache' = {}
  /\ UNCHANGED <<versions, pos>>

SyncTypeOK ==
  /\ versions \in Seq(SUBSET Msg)
  /\ pend \subseteq [id : 1..MaxId, by : {"me"}]
  /\ pos \in 1..Len(versions)
  /\ synced \in BOOLEAN
  /\ cache \subseteq Msg
=============================================================================

------------------------------ MODULE QueueSet -------------------------------
(***************************************************************************)
(* What the intrusive queues promise their users: a few sequences of nodes *)
(* that share no node.  A node is unlinked without naming its queue, and   *)
(* its memory is freed only once it is on none.                            *)
(***************************************************************************)
EXTENDS Queue

CONSTANTS Heads, Nodes

VARIABLES queues, live    \* live: the nodes whose memory is allocated

vars == <<queues, live>>

On(n) == {h \in Heads : n \in Elements(queues[h])}

Init ==
  /\ queues = [h \in Heads |-> <<>>]
  /\ live = {}

New(n) ==
  /\ n \notin live
  /\ live' = live \cup {n}
  /\ UNCHANGED queues

Add(h, n) ==
  /\ n \in live /\ On(n) = {}
  /\ queues' = [queues EXCEPT ![h] = queue_append(@, n)]
  /\ UNCHANGED live

Move(h, n) ==
  /\ h \in On(n)
  /\ \/ queues' = [queues EXCEPT ![h] = queue_move_to_start(@, n)]
     \/ queues' = [queues EXCEPT ![h] = queue_move_to_end(@, n)]
  /\ UNCHANGED live

Unlink(n) == queues' = [h \in Heads |-> queue_remove(queues[h], n)]

Remove(n) == n \in live /\ Unlink(n) /\ UNCHANGED live

Delete(n) == n \in live /\ Unlink(n) /\ live' = live \ {n}

Next ==
  \E n \in Nodes :
    \/ New(n) \/ Remove(n) \/ Delete(n)
    \/ \E h \in Heads : Add(h, n) \/ Move(h, n)

Spec == Init /\ [][Next]_vars
=============================================================================

-------------------------------- MODULE Queue --------------------------------
(***************************************************************************)
(* The intrusive queues of wepoll.c, as sequences of their nodes.  A node  *)
(* holds one prev/next pair, so it is on one queue at a time, and it is    *)
(* unlinked without naming the queue it is on.                             *)
(***************************************************************************)
EXTENDS Sequences, Integers

Elements(q) == {q[i] : i \in DOMAIN q}

\* The first node of a queue is Head(q), the last one:
queue_last(q) == q[Len(q)]

queue_append(q, n)  == Append(q, n)
queue_prepend(q, n) == <<n>> \o q

Position(q, n) == CHOOSE i \in DOMAIN q : q[i] = n

\* q once node n has been unlinked from the queue it is on, q or another.
queue_remove(q, n) ==
  IF n \in Elements(q)
  THEN SubSeq(q, 1, Position(q, n) - 1) \o SubSeq(q, Position(q, n) + 1, Len(q))
  ELSE q

queue_move_to_start(q, n) == queue_prepend(queue_remove(q, n), n)
queue_move_to_end(q, n)   == queue_append(queue_remove(q, n), n)

Distinct(q) == \A i, j \in DOMAIN q : q[i] = q[j] => i = j
=============================================================================

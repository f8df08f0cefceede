--------------------------- MODULE IntrusiveQueue ----------------------------
(***************************************************************************)
(* The queues of wepoll.c as they are stored: a ring through the head of   *)
(* the queue and the nodes embedded in sock_state and poll_group objects.  *)
(* Every operation is a short list of assignments to pointers, each of     *)
(* which reads pointers the one before it may have changed.                *)
(***************************************************************************)
EXTENDS QueueCells, Sequences

VARIABLES
  links,    \* the next and prev pointers of heads and nodes
  live      \* the nodes whose object is allocated

vars == <<links, live>>

Seqs == INSTANCE Queue

----------------------------------------------------------------------------
(* The operations, each as a function from links to links.                 *)

queue_node_init(l, n) == [l EXCEPT !.prev[n] = n, !.next[n] = n]

queue__detach_node(l, n) ==
  LET a == [l EXCEPT !.next[l.prev[n]] = l.next[n]]
  IN  [a EXCEPT !.prev[a.next[n]] = a.prev[n]]

queue_prepend(l, h, n) ==
  LET a == [l EXCEPT !.next[n] = l.next[h], !.prev[n] = h]
      b == [a EXCEPT !.prev[a.next[n]] = n]
  IN  [b EXCEPT !.next[h] = n]

\* Slip: the new node overtakes those that wait.
AppendFirst(l, h, n) == queue_prepend(l, h, n)

queue_append(l, h, n) ==
  LET a == [l EXCEPT !.next[n] = h, !.prev[n] = l.prev[h]]
      b == [a EXCEPT !.next[a.prev[n]] = n]
  IN  [b EXCEPT !.prev[h] = n]

queue_move_to_start(l, h, n) == queue_prepend(queue__detach_node(l, n), h, n)
queue_move_to_end(l, h, n)   == queue_append(queue__detach_node(l, n), h, n)

\* Slip: the node keeps the pointers to its former neighbours.
RemoveOnly(l, n)   == queue__detach_node(l, n)
queue_remove(l, n) == queue_node_init(queue__detach_node(l, n), n)

is_enqueued(n) == links.prev[n] # n

----------------------------------------------------------------------------
(* How wepoll calls them.                                                  *)

\* queue_init is queue_node_init of the head.
Init ==
  /\ links = [next |-> [c \in Cells |-> c], prev |-> [c \in Cells |-> c]]
  /\ live = {}

\* From h along next until h or, in a broken ring, for as many steps as
\* there are nodes.
Follow(h) ==
  LET At[i \in 0 .. Cardinality(Nodes) + 1] ==
        IF i = 0 THEN h ELSE links.next[At[i - 1]]
      Ends == {i \in 1 .. Cardinality(Nodes) + 1 : At[i] = h}
      Size == IF Ends = {} THEN Cardinality(Nodes)
              ELSE (CHOOSE i \in Ends : \A j \in Ends : i <= j) - 1
  IN  [i \in 1 .. Size |-> At[i]]

queues == [h \in Heads |-> Follow(h)]

New(n) ==
  /\ n \notin live
  /\ links' = queue_node_init(links, n)
  /\ live' = live \cup {n}

Add(h, n) ==
  /\ n \in live
  /\ ~is_enqueued(n)
  /\ links' = queue_append(links, h, n)
  /\ UNCHANGED live

\* Only poll groups move, and within their queue.
Move(h, n) ==
  /\ n \in live
  /\ n \in Seqs!Elements(queues[h])
  /\ \/ links' = queue_move_to_start(links, h, n)
     \/ links' = queue_move_to_end(links, h, n)
  /\ UNCHANGED live

Remove(n) ==
  /\ n \in live
  /\ is_enqueued(n)
  /\ links' = queue_remove(links, n)
  /\ UNCHANGED live

\* The object is unlinked if it is enqueued and then freed.
Delete(n) ==
  /\ n \in live
  /\ links' = IF is_enqueued(n) THEN queue_remove(links, n) ELSE links
  /\ live' = live \ {n}

Next ==
  \E n \in Nodes :
    \/ New(n) \/ Remove(n) \/ Delete(n)
    \/ \E h \in Heads : Add(h, n) \/ Move(h, n)

Spec == Init /\ [][Next]_vars

----------------------------------------------------------------------------
TypeOK ==
  /\ links \in [next : [Cells -> Cells], prev : [Cells -> Cells]]
  /\ live \in SUBSET Nodes

(* Walking forward and walking back agree at every cell, and no pointer of *)
(* a head or of an allocated node leads to freed memory: what              *)
(* queue__detach_node writes through.                                      *)
LinksAgree ==
  LET Used == Heads \cup live
  IN  \A c \in Used :
        /\ links.next[c] \in Used /\ links.prev[c] \in Used
        /\ links.prev[links.next[c]] = c
        /\ links.next[links.prev[c]] = c

(* queue_is_enqueued looks at one pointer of the node.  It is true of the  *)
(* nodes that a walk from some head meets, and each is met once in one     *)
(* queue: no ring is cut off from its head.                                *)
EnqueuedIsReachable ==
  /\ \A n \in live :
       is_enqueued(n) <=> \E h \in Heads : n \in Seqs!Elements(queues[h])
  /\ \A g, h \in Heads :
       /\ Seqs!Distinct(queues[g])
       /\ g # h => Seqs!Elements(queues[g]) \cap Seqs!Elements(queues[h]) = {}

(* Both at once: the rings are whole, and none is cut off.                 *)
RingsAreWhole == LinksAgree /\ EnqueuedIsReachable

(* The pointers implement sequences: read from the heads, each operation   *)
(* does what it promises and leaves the other queues alone.                *)
Promise == INSTANCE QueueSet
ImplementsQueueSet == Promise!Spec
=============================================================================

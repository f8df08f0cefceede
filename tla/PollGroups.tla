----------------------------- MODULE PollGroups ------------------------------
(***************************************************************************)
(* Poll groups: up to MaxGroupSize sockets share one AFD device handle.    *)
(* A value pg holds poll_group_queue and the group_size of every group;    *)
(* groups are numbered in the order they are created and live until the    *)
(* port is deleted.  Definitions with the same parameters that follow each *)
(* other without a blank line are a piece of the code, the last of them,   *)
(* and slips of it that the properties must tell apart from it.            *)
(***************************************************************************)
EXTENDS Queue

CONSTANT MaxGroupSize    \* POLL_GROUP__MAX_GROUP_SIZE

ASSUME MaxGroupSizeAssumption == MaxGroupSize \in Nat \ {0}

NoGroups == [queue |-> <<>>, size |-> <<>>]

Full(pg, g) == pg.size[g] >= MaxGroupSize

\* poll_group_acquire has to create a group before it can hand one out.
NeedsNewGroup(pg) == pg.queue = <<>> \/ Full(pg, queue_last(pg.queue))

poll_group__new(pg) ==
  [queue |-> queue_append(pg.queue, Len(pg.size) + 1),
   size  |-> Append(pg.size, 0)]

WithRoom(pg) == IF NeedsNewGroup(pg) THEN poll_group__new(pg) ELSE pg

\* The group that poll_group_acquire returns, and what it leaves behind.
AcquiredGroup(pg) == queue_last(WithRoom(pg).queue)

\* The group goes to the start of the queue with the socket that fills it.
FillsOneLater(n) == n > MaxGroupSize
Fills(n)         == n = MaxGroupSize

poll_group_acquire(pg) ==
  LET w == WithRoom(pg)
      g == AcquiredGroup(pg)
      n == w.size[g] + 1
  IN  [queue |-> IF Fills(n) THEN queue_move_to_start(w.queue, g)
                             ELSE w.queue,
       size  |-> [w.size EXCEPT ![g] = n]]

poll_group_release(pg, g) ==
  [queue |-> queue_move_to_end(pg.queue, g),
   size  |-> [pg.size EXCEPT ![g] = @ - 1]]
=============================================================================

------------------------------ MODULE QueueCells -----------------------------
(***************************************************************************)
(* The memory that the intrusive queues of wepoll.c link.                  *)
(***************************************************************************)
EXTENDS Integers, FiniteSets

CONSTANTS
  Heads,    \* sock_update_queue, sock_deleted_queue, poll_group_queue
  Nodes     \* the memory of queue_node members

ASSUME QueueAssumption == Heads \cap Nodes = {} /\ IsFiniteSet(Nodes)

Cells == Heads \cup Nodes
=============================================================================

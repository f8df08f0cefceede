---------------------------- MODULE MCStructures -----------------------------
(***************************************************************************)
(* A small instance of what wepoll.c keeps its data in: event masks, poll  *)
(* groups, queues, and the resources of the epoll calls.  They share no    *)
(* state, so that each moves while the others stand in their initial       *)
(* state: part is chosen once.                                             *)
(***************************************************************************)
EXTENDS PollGroupPool, QueueCells

CONSTANTS
  Sockets, Port, File, Bad, MaxDeleted, NULL     \* of EpollCalls

VARIABLES
  part,
  mask,
  links, live,
  port, held, open, pc, call, errno

masks      == <<mask>>
pool       == <<groups, member>>
rings      == <<links, live>>
callvars   == <<port, held, open, pc, call, errno>>
structures == <<part, masks, pool, rings, callvars>>

Masks == INSTANCE EpollMasks
Rings == INSTANCE IntrusiveQueue
Calls == INSTANCE EpollCalls

ASSUME StructuresAssumption == Calls!CallsAssumption

StructuresInit ==
  /\ part \in {"masks", "groups", "queues", "calls"}
  /\ Masks!Init /\ Init /\ Rings!Init /\ Calls!Init

StructuresNext ==
  \/ /\ part = "masks" /\ Masks!Next
     /\ UNCHANGED <<part, pool, rings, callvars>>
  \/ /\ part = "groups" /\ Next
     /\ UNCHANGED <<part, masks, rings, callvars>>
  \/ /\ part = "queues" /\ Rings!Next
     /\ UNCHANGED <<part, masks, pool, callvars>>
  \/ /\ part = "calls" /\ Calls!Next
     /\ UNCHANGED <<part, masks, pool, rings>>

StructuresSpec == StructuresInit /\ [][StructuresNext]_structures

----------------------------------------------------------------------------
(* No condition is watched in vain and no armed event goes unwatched.      *)
MasksAgree == part = "masks" => Masks!MasksAgree

(* The pointers of the queues agree, and no node is cut off its queue.     *)
RingsAreWhole == part = "queues" => Rings!RingsAreWhole

(* The pointer operations of the queues do what sequences do.              *)
ImplementsQueueSet ==
  /\ Rings!Promise!Init
  /\ [][part = "queues" => Rings!Promise!Next]_(Rings!Promise!vars)

(* What the epoll calls take they give back, whichever step fails.         *)
ResourcesAreExact == part = "calls" => Calls!ResourcesAreExact

(* EBADF says exactly that one of the handles is bad.                      *)
EBADFIsExact == part = "calls" => Calls!EBADFIsExact
=============================================================================

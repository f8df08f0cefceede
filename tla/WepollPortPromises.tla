-------------------------- MODULE WepollPortPromises --------------------------
(***************************************************************************)
(* What WepollPort promises.  To the threads that wait: every packet is    *)
(* fed once, active_poll_count counts them, and they see every update.  To *)
(* the memory: the sizes of the poll groups count the sock_states, and the *)
(* deleted ones wait for their packets.  And the abstract specification    *)
(* that the port implements, EpollSet, for what its calls do for their     *)
(* callers.                                                                *)
(***************************************************************************)
EXTENDS WepollPortProofs, FiniteSetTheorems

USE PortAssumption

-----------------------------------------------------------------------------
(* Packets: the invariant, by cardinalities.                               *)

LEMMA OccursOnce ==
  ASSUME NEW q, Distinct(q), NEW b
  PROVE  Occurrences(q, b) = IF b \in Elements(q) THEN 1 ELSE 0
<1> DEFINE places == {i \in DOMAIN q : q[i] = b}
<1>1. CASE b \in Elements(q)
  <2>1. PICK i \in DOMAIN q : q[i] = b
    BY <1>1 DEF Elements
  <2>2. places = {i}
    BY <2>1 DEF Distinct
  <2> QED  BY <1>1, <2>2, FS_Singleton DEF Occurrences
<1>2. CASE b \notin Elements(q)
  <2>1. places = {}
    BY <1>2 DEF Elements
  <2> QED  BY <1>2, <2>1, FS_EmptySet DEF Occurrences
<1> QED  BY <1>1, <1>2

LEMMA IndPacketOnce == IndInv => PacketOnce
<1> SUFFICES ASSUME PacketPlaces, PacketKept, NEW b \in Blocks
             PROVE
    LET fed == {t \in Threads : b \in Elements(call[t].batch)} IN
    /\ Occurrences(completions, b) + Cardinality(fed) =<
         IF io[b].request = "completed" THEN 1 ELSE 0
    /\ \A t \in fed : Occurrences(call[t].batch, b) = 1
    /\ iocp_handle /\ io[b].request = "completed" =>
         Occurrences(completions, b) + Cardinality(fed) = 1
  BY DEF IndInv, PacketOnce
<1> DEFINE fed == {t \in Threads : b \in Elements(call[t].batch)}
           inPort == Occurrences(completions, b)
<1>1. inPort = IF b \in Elements(completions) THEN 1 ELSE 0
  BY OccursOnce DEF PacketPlaces
<1>2. \A t \in fed : Occurrences(call[t].batch, b) = 1
  BY OccursOnce DEF PacketPlaces
<1>3. \A t \in fed : /\ io[b].request = "completed"
                     /\ b \notin Elements(completions)
                     /\ fed = {t}
  BY DEF PacketPlaces
<1>4. Cardinality(fed) = IF fed = {} THEN 0 ELSE 1
  <2> HIDE DEF fed
  <2>1. CASE fed = {}
    BY <2>1, FS_EmptySet
  <2>2. CASE fed # {}
    <3>1. \E t : fed = {t}
      BY <1>3, <2>2
    <3> QED  BY <2>2, <3>1, FS_Singleton
  <2> QED  BY <2>1, <2>2
<1>5. b \in Elements(completions) => io[b].request = "completed"
  BY DEF PacketPlaces
<1>6. iocp_handle /\ io[b].request = "completed" =>
        b \in Elements(completions) \/ fed # {}
  BY DEF PacketKept
<1> HIDE DEF fed, inPort
<1>7. inPort + Cardinality(fed) =<
        IF io[b].request = "completed" THEN 1 ELSE 0
  BY <1>1, <1>3, <1>4, <1>5
<1>8. iocp_handle /\ io[b].request = "completed" =>
        inPort + Cardinality(fed) = 1
  BY <1>1, <1>3, <1>4, <1>6
<1> QED  BY <1>2, <1>7, <1>8 DEF fed, inPort

(* GetQueuedCompletionStatusEx and sock_feed_event: the packet of a        *)
(* request is in the IOCP or with one thread, never twice, and is never    *)
(* left over from a request that was fed.                                  *)
THEOREM PacketsAreFedOnce == Spec => []PacketOnce
  BY Inductive, IndPacketOnce, PTL

-----------------------------------------------------------------------------
(* active_poll_count.                                                      *)

Halves == {"gqcs", "relock"}

Pollers == {t \in Threads : pc[t] \in Halves}

\* The three ways a step treats the threads in port__poll.
SamePollers == Pollers' = Pollers /\ active_poll_count' = active_poll_count

Joins(t) ==
  /\ t \notin Pollers
  /\ Pollers' = Pollers \cup {t}
  /\ active_poll_count' = active_poll_count + 1

Quits(t) ==
  /\ t \in Pollers
  /\ Pollers' = Pollers \ {t}
  /\ active_poll_count' = active_poll_count - 1

LEMMA CountMoves ==
  ASSUME ActiveCount, TypeOK,
         SamePollers \/ \E t \in Threads : Joins(t) \/ Quits(t)
  PROVE  ActiveCount'
<1>1. IsFiniteSet(Pollers) /\ active_poll_count = Cardinality(Pollers)
  BY FS_Subset DEF ActiveCount, Pollers, Halves
<1>2. Cardinality(Pollers) \in Int
  BY <1>1 DEF TypeOK, PortType
<1>3. active_poll_count' = Cardinality(Pollers')
  BY <1>1, <1>2, FS_AddElement, FS_RemoveElement DEF SamePollers, Joins, Quits
<1> QED  BY <1>3 DEF ActiveCount, Pollers, Halves

\* A thread moves to label l.
LEMMA GotoPollers ==
  ASSUME TypeOK, NEW t \in Threads, NEW l, Goto(t, l)
  PROVE  Pollers' = IF l \in Halves THEN Pollers \cup {t} ELSE Pollers \ {t}
<1>1. pc'[t] = l /\ \A u \in Threads \ {t} : pc'[u] = pc[u]
  BY DEF Goto, TypeOK, ThreadType
<1> QED  BY <1>1 DEF Pollers

LEMMA ReturnPollers ==
  ASSUME TypeOK, NEW t \in Threads,
         Leave(t) \/ port_update_events_if_polling(t)
  PROVE  Pollers' = Pollers \ {t}
<1>1. Goto(t, "idle") \/ Goto(t, "last_update")
  BY DEF Leave, port_update_events_if_polling
<1> QED  BY <1>1, GotoPollers DEF Halves

LEMMA StayPollers == UNCHANGED <<pc, active_poll_count>> => SamePollers
  BY DEF SamePollers, Pollers

LEMMA CtlPollers ==
  ASSUME TypeOK, NEW t \in Threads, Ctl(t)
  PROVE  SamePollers
<1>1. t \notin Pollers /\ active_poll_count' = active_poll_count
  BY DEF Ctl, CtlAdd, CtlAddFails, CtlAddAborts, CtlMod, CtlDel, CtlFails,
     InCtl, Pollers, Halves
<1>2. Leave(t) \/ port_update_events_if_polling(t) \/ UNCHANGED pc
  BY DEF Ctl, CtlAdd, CtlAddFails, CtlAddAborts, CtlMod, CtlDel, CtlFails
<1>3. CASE UNCHANGED pc
  BY <1>1, <1>3, StayPollers
<1> QED  BY <1>1, <1>2, <1>3, ReturnPollers DEF SamePollers

LEMMA UpdatePollers ==
  ASSUME TypeOK, NEW t \in Threads, Update(t)
  PROVE  SamePollers \/ Joins(t)
<1>1. t \notin Pollers
  BY DEF Update, UpdateNothing, UpdateCancel, UpdateSubmit, UpdateDrop,
     UpdateFirst, UpdateFails, UpdateDone, InUpdate, Pollers, Halves
<1>2. CASE UpdateFails(t)
  <2>1. /\ Leave(t) \/ port_update_events_if_polling(t)
        /\ active_poll_count' = active_poll_count
    BY <1>2 DEF UpdateFails
  <2> QED  BY <1>1, <2>1, ReturnPollers DEF SamePollers
<1>3. CASE UpdateDone(t)
  <2>1. \/ Goto(t, "gqcs") /\ active_poll_count' = active_poll_count + 1
        \/ Leave(t) /\ active_poll_count' = active_poll_count
    BY <1>3 DEF UpdateDone
  <2> QED
    BY <1>1, <2>1, ReturnPollers, GotoPollers DEF SamePollers, Joins, Halves
<1>4. CASE UpdateNothing(t) \/ UpdateCancel(t) \/ UpdateSubmit(t)
             \/ UpdateDrop(t)
  <2>1. UNCHANGED <<pc, active_poll_count>>
    BY <1>4 DEF UpdateNothing, UpdateCancel, UpdateSubmit, UpdateDrop,
       UpdateFirst, portVars
  <2> QED  BY <2>1, StayPollers
<1> QED  BY <1>2, <1>3, <1>4 DEF Update

LEMMA WaitPollers ==
  ASSUME TypeOK, NEW t \in Threads, Wait(t)
  PROVE  SamePollers \/ Quits(t)
<1>1. ASSUME NEW w \in Timeouts, NEW n \in 1 .. MaxEvents, WaitStart(t, w, n)
      PROVE  SamePollers
  <2>1. t \notin Pollers /\ Goto(t, "update")
        /\ active_poll_count' = active_poll_count
    BY <1>1 DEF WaitStart, InCtl, Pollers, Halves
  <2> QED  BY <2>1, GotoPollers DEF SamePollers, Halves
<1>2. CASE GqcsPackets(t) \/ GqcsFails(t)
  <2>1. t \in Pollers /\ Goto(t, "relock")
        /\ active_poll_count' = active_poll_count
    BY <1>2 DEF GqcsPackets, GqcsFails, portVars, Pollers, Halves
  <2> QED  BY <2>1, GotoPollers DEF SamePollers, Halves
<1>3. CASE Relock(t)
  <2>1. t \in Pollers /\ active_poll_count' = active_poll_count - 1
    BY <1>3 DEF Relock, StopPolling, Pollers, Halves
  <2>2. port_update_events_if_polling(t) \/ Goto(t, "feed")
    BY <1>3 DEF Relock
  <2> QED  BY <2>1, <2>2, ReturnPollers, GotoPollers DEF Quits, Halves
<1>4. CASE FeedDelete(t) \/ FeedEvent(t)
  <2>1. UNCHANGED <<pc, active_poll_count>>
    BY <1>4 DEF FeedDelete, FeedEvent, FeedFirst, portVars
  <2> QED  BY <2>1, StayPollers
<1>5. CASE FeedDone(t)
  <2>1. t \notin Pollers /\ active_poll_count' = active_poll_count
    BY <1>5 DEF FeedDone, Pollers, Halves
  <2>2. port_update_events_if_polling(t) \/ Goto(t, "update")
    BY <1>5 DEF FeedDone
  <2> QED  BY <2>1, <2>2, ReturnPollers, GotoPollers DEF SamePollers, Halves
<1> QED  BY <1>1, <1>2, <1>3, <1>4, <1>5 DEF Wait

LEMMA ClosePollers ==
  ASSUME TypeOK, NEW t \in Threads, Enter(t) \/ Close(t)
  PROVE  SamePollers
<1>1. CASE PortDeleteSocket(t)
  BY <1>1, StayPollers DEF PortDeleteSocket, portVars
<1>2. CASE Enter(t) \/ CloseStart(t) \/ PortClose(t) \/ CloseAlone(t)
             \/ PortFree(t)
  <2>1. t \notin Pollers /\ active_poll_count' = active_poll_count
    BY <1>2 DEF Enter, CloseStart, PortClose, CloseReady, CloseAlone, PortFree,
       portVars, Pollers, Halves
  <2>2. \E l \in Labels \ Halves : Goto(t, l)
    BY <1>2 DEF Enter, CloseStart, PortClose, CloseAlone, PortFree, Labels,
       Halves
  <2> QED  BY <2>1, <2>2, GotoPollers DEF SamePollers
<1> QED  BY <1>1, <1>2 DEF Close

LEMMA CountStep ==
  ASSUME TypeOK, ActiveCount, [Next]_vars
  PROVE  ActiveCount'
<1>1. ASSUME NEW t \in Threads,
             Enter(t) \/ Ctl(t) \/ Update(t) \/ Wait(t) \/ Close(t)
      PROVE  SamePollers \/ Joins(t) \/ Quits(t)
  BY <1>1, CtlPollers, UpdatePollers, WaitPollers, ClosePollers
<1>2. ASSUME NEW b \in Blocks, Afd(b)
      PROVE  SamePollers
  BY <1>2, StayPollers DEF Afd, AfdReady, AfdCancelled, AfdLocalClose,
     AfdFails, Complete, portVars
<1>3. ASSUME NEW h \in Sockets, World(h)
      PROVE  SamePollers
  BY <1>3, StayPollers DEF World, SetReady, CloseSocket, OpenSocket, portVars
<1>4. UNCHANGED vars => SamePollers
  BY StayPollers DEF vars, portVars
<1> QED
  BY <1>1, <1>2, <1>3, <1>4, CountMoves DEF Next, Stopped

(* port__poll keeps active_poll_count equal to the number of threads that  *)
(* are in GetQueuedCompletionStatusEx or on their way back to the lock,    *)
(* also when the wait fails or the port is closed.                         *)
THEOREM CountIsExact == Spec => []ActiveCount
<1>1. Init => ActiveCount
  BY FS_EmptySet DEF Init, ActiveCount
<1> QED  BY <1>1, CountStep, TypeCorrect, PTL DEF Spec

-----------------------------------------------------------------------------
(* The threads that wait see every update.                                 *)

LEMMA RemoveFromEmpty == ASSUME NEW b PROVE queue_remove(<<>>, b) = <<>>
  BY DEF queue_remove, Elements

LEMMA DeleteUpdatesNothing ==
  ASSUME NEW b, NEW s, NEW f, sock__delete(b, s, f), sock_update_queue = <<>>
  PROVE  sock_update_queue' = <<>>
  BY RemoveFromEmpty DEF sock__delete, Dequeue, AfterCancelUpdate

LEMMA CancelUpdatesNothing ==
  ASSUME NEW b, NEW f, CancelAndDelete(b, f), sock_update_queue = <<>>
  PROVE  sock_update_queue' = <<>>
  BY DeleteUpdatesNothing DEF CancelAndDelete

\* A step after which PollersSeeUpdates holds again.
Seen ==
  \/ lock' # NULL
  \/ ~active_poll_count' > 0
  \/ sock_update_queue' = <<>>
  \/ UNCHANGED <<lock, active_poll_count, sock_update_queue>>

LEMMA SeenIsEnough ==
  ASSUME PollersSeeUpdates, ~Faults => Seen
  PROVE  PollersSeeUpdates'
  BY DEF PollersSeeUpdates, Seen

LEMMA PollingSees ==
  ASSUME NEW t \in Threads, port_update_events_if_polling(t)
  PROVE  Seen
  BY DEF port_update_events_if_polling, Seen

LEMMA CtlSees ==
  ASSUME PollersSeeUpdates, NEW t \in Threads, Ctl(t), ~Faults
  PROVE  Seen
<1>1. lock = NULL
  BY DEF Ctl, CtlAdd, CtlAddFails, CtlAddAborts, CtlMod, CtlDel, CtlFails,
     InCtl
<1>2. ASSUME NEW h \in Sockets, NEW m \in EventMasks,
             CtlAdd(t, h, m) \/ CtlMod(t, h, m)
      PROVE  Seen
  BY <1>2, PollingSees DEF CtlAdd, CtlMod
<1>3. ASSUME NEW h \in Sockets, CtlDel(t, h)
      PROVE  Seen
  <2>1. sock_update_queue = <<>> => sock_update_queue' = <<>>
    BY <1>3, CancelUpdatesNothing DEF CtlDel
  <2>2. active_poll_count' = active_poll_count
    BY <1>3 DEF CtlDel
  <2> QED  BY <1>1, <2>1, <2>2 DEF PollersSeeUpdates, Seen
<1>4. ASSUME NEW h \in Sockets, CtlAddFails(t, h) \/ CtlAddAborts(t, h)
      PROVE  Seen
  <2>1. UNCHANGED <<active_poll_count, sock_update_queue>>
    BY <1>4 DEF CtlAddFails, CtlAddAborts, sockVars
  <2> QED  BY <1>1, <2>1 DEF PollersSeeUpdates, Seen
<1>5. CASE CtlFails(t)
  <2>1. UNCHANGED <<active_poll_count, sock_update_queue>>
    BY <1>5 DEF CtlFails, sockVars
  <2> QED  BY <1>1, <2>1 DEF PollersSeeUpdates, Seen
<1> QED  BY <1>2, <1>3, <1>4, <1>5 DEF Ctl

LEMMA UpdateSees ==
  ASSUME NEW t \in Threads, Update(t), ~Faults
  PROVE  Seen
<1>1. t # NULL
  OBVIOUS
<1>2. CASE UpdateDone(t)
  BY <1>2 DEF UpdateDone, sockVars, Seen
<1>3. CASE UpdateNothing(t) \/ UpdateCancel(t) \/ UpdateSubmit(t)
             \/ UpdateDrop(t)
  <2>1. lock = t /\ lock' = lock
    BY <1>3 DEF UpdateNothing, UpdateCancel, UpdateSubmit, UpdateDrop,
       UpdateFirst, InUpdate, portVars
  <2> QED  BY <1>1, <2>1 DEF Seen
<1> QED  BY <1>2, <1>3 DEF Update, UpdateFails

LEMMA WaitSees ==
  ASSUME NEW t \in Threads, Wait(t)
  PROVE  Seen
<1>1. t # NULL
  OBVIOUS
<1>2. ASSUME NEW w \in Timeouts, NEW n \in 1 .. MaxEvents, WaitStart(t, w, n)
      PROVE  Seen
  BY <1>1, <1>2 DEF WaitStart, Seen
<1>3. CASE GqcsPackets(t) \/ GqcsFails(t)
  BY <1>3 DEF GqcsPackets, GqcsFails, portVars, sockVars, Seen
<1>4. CASE Relock(t)
  BY <1>1, <1>4, PollingSees DEF Relock, Seen
<1>5. CASE FeedDelete(t) \/ FeedEvent(t)
  <2>1. lock = t /\ lock' = lock
    BY <1>5 DEF FeedDelete, FeedEvent, FeedFirst, portVars
  <2> QED  BY <1>1, <2>1 DEF Seen
<1>6. CASE FeedDone(t)
  BY <1>1, <1>6, PollingSees DEF FeedDone, Seen
<1> QED  BY <1>2, <1>3, <1>4, <1>5, <1>6 DEF Wait

LEMMA CloseSees ==
  ASSUME PollersSeeUpdates, NEW t \in Threads, Enter(t) \/ Close(t), ~Faults
  PROVE  Seen
<1>1. CASE PortDeleteSocket(t)
  <2>1. \E b, f : CancelAndDelete(b, f)
    BY <1>1 DEF PortDeleteSocket
  <2>2. sock_update_queue = <<>> => sock_update_queue' = <<>>
    BY <2>1, CancelUpdatesNothing
  <2>3. UNCHANGED <<lock, active_poll_count>>
    BY <1>1 DEF PortDeleteSocket, portVars
  <2> QED  BY <2>2, <2>3 DEF PollersSeeUpdates, Seen
<1>2. CASE Enter(t) \/ CloseStart(t) \/ PortClose(t) \/ CloseAlone(t)
             \/ PortFree(t)
  BY <1>2 DEF Enter, CloseStart, PortClose, CloseAlone, PortFree, portVars,
     sockVars, Seen
<1> QED  BY <1>1, <1>2 DEF Close

LEMMA SeenStep ==
  ASSUME PollersSeeUpdates, [Next]_vars
  PROVE  PollersSeeUpdates'
<1> SUFFICES ASSUME ~Faults PROVE Seen
  BY SeenIsEnough
<1>1. ASSUME NEW t \in Threads,
             Enter(t) \/ Ctl(t) \/ Update(t) \/ Wait(t) \/ Close(t)
      PROVE  Seen
  BY <1>1, CtlSees, UpdateSees, WaitSees, CloseSees
<1>2. ASSUME NEW b \in Blocks, Afd(b)
      PROVE  Seen
  BY <1>2 DEF Afd, AfdReady, AfdCancelled, AfdLocalClose, AfdFails, Complete,
     portVars, sockVars, Seen
<1>3. ASSUME NEW h \in Sockets, World(h)
      PROVE  Seen
  BY <1>3 DEF World, SetReady, CloseSocket, OpenSocket, portVars, sockVars,
     Seen
<1>4. UNCHANGED vars => Seen
  BY DEF vars, portVars, sockVars, Seen
<1> QED  BY <1>1, <1>2, <1>3, <1>4 DEF Next, Stopped

(* port_update_events_if_polling: whatever epoll_ctl, epoll_wait and the   *)
(* driver do, no update waits on the queue while a thread waits for its    *)
(* completion and nobody holds the lock (as long as every update succeeds).*)
THEOREM PollersSee == Spec => []PollersSeeUpdates
<1>1. Init => PollersSeeUpdates
  BY DEF Init, PollersSeeUpdates
<1> QED  BY <1>1, SeenStep, PTL DEF Spec

-----------------------------------------------------------------------------
(* The places in the poll groups.                                          *)

HeldPlaces(g) == {b \in Blocks : Allocated(b) /\ sock[b].poll_group = g}

(* The inductive invariant of the poll groups of a port: the queue of the  *)
(* groups is in order, which is what the search for a place relies on, the *)
(* group of every sock_state exists, and the sizes count the sock_states,  *)
(* so that a release never finds a group empty.                            *)
PlacesCounted ==
  /\ WellFormed(poll_groups)
  /\ \A b \in Blocks :
       Allocated(b) => sock[b].poll_group \in DOMAIN poll_groups.size
  /\ \A g \in DOMAIN poll_groups.size :
       /\ IsFiniteSet(HeldPlaces(g))
       /\ poll_groups.size[g] = Cardinality(HeldPlaces(g))

GroupInv == lifecycle # "freed" => PlacesCounted

\* The ways a step treats the places.
SamePlaces ==
  /\ UNCHANGED poll_groups
  /\ \A b \in Blocks : /\ sock'[b].socket = sock[b].socket
                       /\ sock'[b].poll_group = sock[b].poll_group

TakesPlace(b) ==
  /\ ~Allocated(b) /\ Allocated(b)'
  /\ sock'[b].poll_group = AcquiredGroup(poll_groups)
  /\ \A c \in Blocks \ {b} : sock'[c] = sock[c]
  /\ poll_groups' = poll_group_acquire(poll_groups)

FreesPlace(b) ==
  /\ Allocated(b) /\ ~Allocated(b)'
  /\ \A c \in Blocks \ {b} : sock'[c] = sock[c]
  /\ poll_groups' = poll_group_release(poll_groups, sock[b].poll_group)

GivesPlaceBack ==
  /\ UNCHANGED sock
  /\ poll_groups' = PlaceGivenBack

LEMMA SameCounts ==
  ASSUME PlacesCounted, SamePlaces
  PROVE  PlacesCounted'
<1>1. \A g : HeldPlaces(g)' = HeldPlaces(g)
  BY DEF SamePlaces, HeldPlaces, Allocated
<1> QED  BY <1>1 DEF SamePlaces, PlacesCounted, Allocated

(* A place is counted in the group poll_group_acquire returns; the group   *)
(* may be new, and then nobody has been in it.                             *)
LEMMA AcquiredPlaces ==
  ASSUME PlacesCounted
  PROVE  LET a == poll_group_acquire(poll_groups)
             g == AcquiredGroup(poll_groups)
         IN  /\ WellFormed(a) /\ g \in DOMAIN a.size
             /\ DOMAIN poll_groups.size \subseteq DOMAIN a.size
             /\ \A f \in DOMAIN a.size :
                  /\ IsFiniteSet(HeldPlaces(f))
                  /\ a.size[f] = Cardinality(HeldPlaces(f))
                                   + (IF f = g THEN 1 ELSE 0)
<1> DEFINE w == WithRoom(poll_groups)
           a == poll_group_acquire(poll_groups)
           g == AcquiredGroup(poll_groups)
<1>1. /\ WellFormed(a) /\ g \in DOMAIN a.size
      /\ DOMAIN a.size = DOMAIN w.size
      /\ a.size[g] = w.size[g] + 1
      /\ \A f \in DOMAIN a.size \ {g} : a.size[f] = w.size[f]
  BY AcquireWellFormed DEF PlacesCounted
<1>2. /\ DOMAIN poll_groups.size \subseteq DOMAIN w.size
      /\ \A f \in DOMAIN poll_groups.size : w.size[f] = poll_groups.size[f]
      /\ \A f \in DOMAIN w.size \ DOMAIN poll_groups.size : w.size[f] = 0
  BY WithRoomWellFormed DEF PlacesCounted
<1> HIDE DEF w, a, g
<1>3. ASSUME NEW f \in DOMAIN w.size
      PROVE  /\ IsFiniteSet(HeldPlaces(f))
             /\ w.size[f] = Cardinality(HeldPlaces(f))
             /\ Cardinality(HeldPlaces(f)) \in Nat
  <2>1. CASE f \in DOMAIN poll_groups.size
    BY <1>2, <2>1, FS_CardinalityType DEF PlacesCounted
  <2>2. CASE f \notin DOMAIN poll_groups.size
    <3>1. HeldPlaces(f) = {}
      BY <2>2 DEF PlacesCounted, HeldPlaces
    <3> QED  BY <1>2, <2>2, <3>1, FS_EmptySet
  <2> QED  BY <2>1, <2>2
<1>4. ASSUME NEW f \in DOMAIN a.size
      PROVE  a.size[f] = Cardinality(HeldPlaces(f)) + (IF f = g THEN 1 ELSE 0)
  <2>1. f \in DOMAIN w.size
    BY <1>1
  <2>2. /\ w.size[f] = Cardinality(HeldPlaces(f))
        /\ Cardinality(HeldPlaces(f)) \in Nat
    BY <1>3, <2>1
  <2>3. CASE f = g
    BY <1>1, <2>2, <2>3
  <2>4. CASE f # g
    BY <1>1, <2>2, <2>4
  <2> QED  BY <2>3, <2>4
<1> QED  BY <1>1, <1>2, <1>3, <1>4 DEF a, g

LEMMA TakenCounts ==
  ASSUME PlacesCounted, NEW b \in Blocks, TakesPlace(b)
  PROVE  PlacesCounted'
<1> DEFINE a == poll_groups'
           g == AcquiredGroup(poll_groups)
<1>1. /\ WellFormed(a) /\ g \in DOMAIN a.size
      /\ DOMAIN poll_groups.size \subseteq DOMAIN a.size
      /\ \A f \in DOMAIN a.size :
           /\ IsFiniteSet(HeldPlaces(f))
           /\ a.size[f] = Cardinality(HeldPlaces(f)) + (IF f = g THEN 1 ELSE 0)
  BY AcquiredPlaces DEF TakesPlace
<1>2. sock'[b].poll_group = g /\ ~Allocated(b) /\ Allocated(b)'
  BY DEF TakesPlace
<1>3. \A c \in Blocks \ {b} : sock'[c] = sock[c]
  BY DEF TakesPlace
<1>4. \A c \in Blocks : Allocated(c)' => sock'[c].poll_group \in DOMAIN a.size
  BY <1>1, <1>2, <1>3 DEF PlacesCounted, Allocated
<1> HIDE DEF g
<1>5. ASSUME NEW f \in DOMAIN a.size
      PROVE  /\ IsFiniteSet(HeldPlaces(f)')
             /\ a.size[f] = Cardinality(HeldPlaces(f)')
  <2>1. CASE f # g
    <3>1. HeldPlaces(f)' = HeldPlaces(f)
      BY <1>2, <1>3, <2>1 DEF HeldPlaces, Allocated
    <3>2. Cardinality(HeldPlaces(f)) \in Nat
      BY <1>1, FS_CardinalityType
    <3> QED  BY <1>1, <2>1, <3>1, <3>2
  <2>2. CASE f = g
    <3>1. HeldPlaces(f)' = HeldPlaces(f) \cup {b} /\ b \notin HeldPlaces(f)
      BY <1>2, <1>3, <2>2 DEF HeldPlaces, Allocated
    <3>2. IsFiniteSet(HeldPlaces(f))
      BY <1>1
    <3>3. /\ IsFiniteSet(HeldPlaces(f) \cup {b})
          /\ Cardinality(HeldPlaces(f) \cup {b})
               = Cardinality(HeldPlaces(f)) + 1
      BY <3>1, <3>2, FS_AddElement
    <3> QED  BY <1>1, <2>2, <3>1, <3>3
  <2> QED  BY <2>1, <2>2
<1> QED  BY <1>1, <1>4, <1>5 DEF PlacesCounted

LEMMA FreedCounts ==
  ASSUME PlacesCounted, NEW b \in Blocks, FreesPlace(b)
  PROVE  PlacesCounted'
<1> DEFINE r == poll_groups'
           g == sock[b].poll_group
<1>1. /\ g \in DOMAIN poll_groups.size /\ WellFormed(poll_groups)
      /\ r = poll_group_release(poll_groups, g)
      /\ ~Allocated(b)'
      /\ \A c \in Blocks \ {b} : sock'[c] = sock[c]
  BY DEF PlacesCounted, FreesPlace
<1>2. /\ IsFiniteSet(HeldPlaces(g)) /\ b \in HeldPlaces(g)
      /\ poll_groups.size[g] = Cardinality(HeldPlaces(g))
  BY <1>1 DEF PlacesCounted, HeldPlaces, FreesPlace
<1>3. /\ IsFiniteSet(HeldPlaces(g) \ {b})
      /\ Cardinality(HeldPlaces(g) \ {b}) = Cardinality(HeldPlaces(g)) - 1
      /\ Cardinality(HeldPlaces(g)) \in Nat
      /\ Cardinality(HeldPlaces(g) \ {b}) \in Nat
  BY <1>2, FS_RemoveElement, FS_CardinalityType
<1>4. poll_groups.size[g] > 0
  BY <1>2, <1>3
<1> HIDE DEF r
<1>5. /\ WellFormed(r)
      /\ DOMAIN r.size = DOMAIN poll_groups.size
      /\ r.size[g] = poll_groups.size[g] - 1
      /\ \A f \in DOMAIN r.size \ {g} : r.size[f] = poll_groups.size[f]
  BY <1>1, <1>4, ReleaseWellFormed
<1>6. \A c \in Blocks : Allocated(c)' => sock'[c].poll_group \in DOMAIN r.size
  BY <1>1, <1>5 DEF PlacesCounted, Allocated
<1>7. ASSUME NEW f \in DOMAIN r.size
      PROVE  /\ IsFiniteSet(HeldPlaces(f)')
             /\ r.size[f] = Cardinality(HeldPlaces(f)')
  <2>1. CASE f # g
    <3>1. HeldPlaces(f)' = HeldPlaces(f)
      BY <1>1, <2>1 DEF HeldPlaces, Allocated
    <3> QED  BY <1>5, <2>1, <3>1 DEF PlacesCounted
  <2>2. CASE f = g
    <3>1. HeldPlaces(f)' = HeldPlaces(f) \ {b}
      BY <1>1, <2>2 DEF HeldPlaces, Allocated
    <3> QED  BY <1>2, <1>3, <1>5, <2>2, <3>1
  <2> QED  BY <2>1, <2>2
<1> QED  BY <1>5, <1>6, <1>7 DEF PlacesCounted, r

LEMMA BackCounts ==
  ASSUME PlacesCounted, GivesPlaceBack
  PROVE  PlacesCounted'
<1> DEFINE a == poll_group_acquire(poll_groups)
           g == AcquiredGroup(poll_groups)
           r == poll_groups'
<1>1. /\ WellFormed(a) /\ g \in DOMAIN a.size
      /\ DOMAIN poll_groups.size \subseteq DOMAIN a.size
      /\ \A f \in DOMAIN a.size :
           /\ IsFiniteSet(HeldPlaces(f))
           /\ a.size[f] = Cardinality(HeldPlaces(f)) + (IF f = g THEN 1 ELSE 0)
  BY AcquiredPlaces
<1>2. \A f \in DOMAIN a.size : Cardinality(HeldPlaces(f)) \in Nat
  BY <1>1, FS_CardinalityType
<1>3. r = poll_group_release(a, g) /\ UNCHANGED sock
  BY DEF GivesPlaceBack, PlaceGivenBack
<1> HIDE DEF a, g, r
<1>4. a.size[g] > 0
  BY <1>1, <1>2
<1>5. /\ WellFormed(r)
      /\ DOMAIN r.size = DOMAIN a.size
      /\ r.size[g] = a.size[g] - 1
      /\ \A f \in DOMAIN r.size \ {g} : r.size[f] = a.size[f]
  BY <1>1, <1>3, <1>4, ReleaseWellFormed
<1>6. \A f : HeldPlaces(f)' = HeldPlaces(f)
  BY <1>3 DEF HeldPlaces, Allocated
<1>7. \A c \in Blocks : Allocated(c)' => sock'[c].poll_group \in DOMAIN r.size
  BY <1>1, <1>3, <1>5 DEF PlacesCounted, Allocated
<1>8. ASSUME NEW f \in DOMAIN r.size
      PROVE  /\ IsFiniteSet(HeldPlaces(f)')
             /\ r.size[f] = Cardinality(HeldPlaces(f)')
  <2>1. CASE f = g
    BY <1>1, <1>2, <1>5, <1>6, <2>1
  <2>2. CASE f # g
    BY <1>1, <1>2, <1>5, <1>6, <2>2
  <2> QED  BY <2>1, <2>2
<1> QED  BY <1>5, <1>7, <1>8 DEF PlacesCounted, r

LEMMA DeleteFreesPlace ==
  ASSUME TypeOK, NEW b \in Blocks, Allocated(b), NEW s, NEW f,
         Deleting(b, s, f)
  PROVE  SamePlaces \/ FreesPlace(b)
<1>1. /\ \A c \in Blocks \ {b} : sock'[c] = sock[c]
      /\ MayFree(s, f) => sock'[b] = FreeBlock
      /\ ~MayFree(s, f) => sock'[b] = [s EXCEPT !.delete_pending = TRUE]
  BY DeleteEffect
<1>2. CASE MayFree(s, f)
  <2>1. poll_groups' = poll_group_release(poll_groups, sock[b].poll_group)
    BY <1>2 DEF Deleting, sock__delete
  <2>2. ~Allocated(b)'
    BY <1>1, <1>2 DEF Allocated, FreeBlock
  <2> QED  BY <1>1, <2>1, <2>2 DEF FreesPlace
<1>3. CASE ~MayFree(s, f)
  <2>1. UNCHANGED poll_groups
    BY <1>3 DEF Deleting, sock__delete
  <2> DEFINE d == [s EXCEPT !.delete_pending = TRUE]
  <2>2. d.socket = sock[b].socket /\ d.poll_group = sock[b].poll_group
    BY DEF Deleting, SockState
  <2> HIDE DEF d
  <2>3. sock'[b] = d
    BY <1>1, <1>3 DEF d
  <2> QED  BY <1>1, <2>1, <2>2, <2>3 DEF SamePlaces
<1> QED  BY <1>2, <1>3

(* Whichever call deletes a sock_state, there is one in the block.         *)
LEMMA DeletedIsAllocated ==
  ASSUME IndInv, NEW t \in Threads,
         \/ \E h \in Sockets : CtlDel(t, h)
         \/ UpdateDrop(t)
         \/ FeedDelete(t)
         \/ PortDeleteSocket(t)
  PROVE  \E b \in Blocks : /\ Allocated(b)
                           /\ \E s, f : Deleting(b, s, f)
<1>1. TypeOK /\ TreeConsistent /\ QueueDiscipline
  BY DEF IndInv
<1>2. ASSUME NEW b \in Blocks, NEW f, CancelAndDelete(b, f)
      PROVE  \E s : Deleting(b, s, f)
  BY <1>1, <1>2, CancelDeletes
<1>3. \A h \in Sockets : sock_tree[h] # NULL =>
        sock_tree[h] \in Blocks /\ Allocated(sock_tree[h])
  BY <1>1 DEF TypeOK, SockType, TreeConsistent, Registered
<1>4. CASE \E h \in Sockets : CtlDel(t, h)
  BY <1>2, <1>3, <1>4 DEF CtlDel
<1>5. CASE UpdateDrop(t)
  <2>1. PICK b \in Blocks :
          UpdateFirst(t, b) /\ sock__delete(b, sock[b], FALSE)
    BY <1>5 DEF UpdateDrop
  <2>2. sock[b] \in SockState
    BY <1>1 DEF TypeOK, SockType
  <2>3. b \in Elements(sock_update_queue)
    <3>1. sock_update_queue \in Seq(Blocks) /\ Distinct(sock_update_queue)
      BY <1>1 DEF TypeOK, SockType, QueueDiscipline
    <3> QED  BY <2>1, <3>1, TailElements DEF UpdateFirst
  <2>4. Allocated(b)
    BY <1>1, <2>3 DEF QueueDiscipline, Registered
  <2> QED  BY <2>1, <2>2, <2>4 DEF Deleting
<1>6. CASE FeedDelete(t)
  <2>1. PICK b \in Blocks :
          FeedFirst(t, b) /\ sock__delete(b, Returned(b), FALSE)
    BY <1>6 DEF FeedDelete
  <2>2. Allocated(b)
    BY <2>1, FedIsAllocated DEF IndInv
  <2>3. Deleting(b, Returned(b), FALSE)
    BY <1>1, <2>1, ReturnedFields DEF Deleting
  <2> QED  BY <2>2, <2>3
<1>7. CASE PortDeleteSocket(t)
  <2>1. CASE \E h \in Sockets :
               sock_tree[h] # NULL /\ CancelAndDelete(sock_tree[h], TRUE)
    BY <1>2, <1>3, <2>1
  <2>2. CASE /\ sock_deleted_queue # <<>>
             /\ CancelAndDelete(Head(sock_deleted_queue), TRUE)
    <3>1. sock_deleted_queue \in Seq(Blocks) /\ Distinct(sock_deleted_queue)
      BY <1>1 DEF TypeOK, SockType, QueueDiscipline
    <3>2. Head(sock_deleted_queue) \in Elements(sock_deleted_queue)
      BY <2>2, <3>1, TailElements
    <3>3. /\ Head(sock_deleted_queue) \in Blocks
          /\ Allocated(Head(sock_deleted_queue))
      BY <1>1, <3>2 DEF QueueDiscipline
    <3> QED  BY <1>2, <2>2, <3>3
  <2> QED  BY <1>7, <2>1, <2>2 DEF PortDeleteSocket
<1> QED  BY <1>4, <1>5, <1>6, <1>7

LEMMA PlacesSteps ==
  ASSUME IndInv, [Next]_vars
  PROVE  \/ SamePlaces \/ GivesPlaceBack
         \/ \E b \in Blocks : TakesPlace(b) \/ FreesPlace(b)
         \/ lifecycle' = "freed"
<1>1. TypeOK
  BY DEF IndInv
<1>2. ASSUME UNCHANGED <<sock, poll_groups>> PROVE SamePlaces
  BY <1>2 DEF SamePlaces
<1>3. ASSUME SameRegistrations, UNCHANGED poll_groups PROVE SamePlaces
  BY <1>3 DEF SameRegistrations, SamePlaces
<1>4. ASSUME NEW t \in Threads, NEW h \in Sockets, NEW m \in EventMasks,
             CtlAdd(t, h, m)
      PROVE  \E b \in Blocks : TakesPlace(b)
  <2>1. PICK b \in Blocks :
          /\ ~Allocated(b) /\ sock'[b].socket = h
          /\ sock'[b].poll_group = AcquiredGroup(poll_groups)
          /\ \A c \in Blocks \ {b} : sock'[c] = sock[c]
    BY <1>1, <1>4, AddEffect
  <2>2. Allocated(b)'
    BY <2>1 DEF Allocated
  <2>3. poll_groups' = poll_group_acquire(poll_groups)
    BY <1>4 DEF CtlAdd
  <2> QED  BY <2>1, <2>2, <2>3 DEF TakesPlace
<1>5. CASE \E t \in Threads : \/ \E h \in Sockets : CtlDel(t, h)
                              \/ UpdateDrop(t) \/ FeedDelete(t)
                              \/ PortDeleteSocket(t)
  BY <1>1, <1>5, DeletedIsAllocated, DeleteFreesPlace
<1>6. ASSUME NEW t \in Threads, Ctl(t)
      PROVE  \/ SamePlaces \/ GivesPlaceBack
             \/ \E b \in Blocks : TakesPlace(b)
             \/ \E h \in Sockets : CtlDel(t, h)
  <2>1. ASSUME NEW h \in Sockets, NEW m \in EventMasks, CtlMod(t, h, m)
        PROVE  SamePlaces
    BY <1>1, <1>3, <2>1, SameRegistrationSteps DEF CtlMod
  <2>2. ASSUME NEW h \in Sockets, CtlAddFails(t, h)
        PROVE  GivesPlaceBack
    BY <2>2 DEF CtlAddFails, GivesPlaceBack
  <2>3. ASSUME NEW h \in Sockets, CtlAddAborts(t, h)
        PROVE  SamePlaces
    BY <1>2, <2>3 DEF CtlAddAborts, sockVars
  <2>4. CtlFails(t) => SamePlaces
    BY <1>2 DEF CtlFails, sockVars
  <2> QED  BY <1>4, <1>6, <2>1, <2>2, <2>3, <2>4 DEF Ctl
<1>7. ASSUME NEW t \in Threads, Update(t)
      PROVE  SamePlaces \/ UpdateDrop(t)
  <2>1. CASE UpdateNothing(t) \/ UpdateCancel(t) \/ UpdateSubmit(t)
    <3>1. UNCHANGED poll_groups
      BY <2>1 DEF UpdateNothing, UpdateCancel, UpdateSubmit
    <3>2. SameRegistrations
      BY <1>1, <2>1, SameRegistrationSteps
    <3> QED  BY <1>3, <3>1, <3>2
  <2>2. CASE UpdateFails(t) \/ UpdateDone(t)
    BY <1>2, <2>2 DEF UpdateFails, UpdateDone, sockVars
  <2> QED  BY <1>7, <2>1, <2>2 DEF Update
<1>8. ASSUME NEW t \in Threads, Wait(t)
      PROVE  SamePlaces \/ FeedDelete(t)
  <2>1. CASE FeedEvent(t)
    <3>1. UNCHANGED poll_groups
      BY <2>1 DEF FeedEvent
    <3>2. SameRegistrations
      BY <1>1, <2>1, SameRegistrationSteps
    <3> QED  BY <1>3, <3>1, <3>2
  <2>2. CASE \/ \E w \in Timeouts, n \in 1 .. MaxEvents : WaitStart(t, w, n)
             \/ GqcsPackets(t) \/ GqcsFails(t) \/ Relock(t) \/ FeedDone(t)
    BY <1>2, <2>2 DEF WaitStart, GqcsPackets, GqcsFails, Relock, FeedDone,
       sockVars
  <2> QED  BY <1>8, <2>1, <2>2 DEF Wait
<1>9. ASSUME NEW t \in Threads, Enter(t) \/ Close(t)
      PROVE  SamePlaces \/ PortDeleteSocket(t) \/ lifecycle' = "freed"
  BY <1>2, <1>9 DEF Enter, Close, CloseStart, PortClose, CloseAlone, PortFree,
     sockVars
<1>10. ASSUME NEW b \in Blocks, Afd(b)
       PROVE  SamePlaces
  BY <1>2, <1>10 DEF Afd, AfdReady, AfdCancelled, AfdLocalClose, AfdFails,
     Complete, sockVars
<1>11. ASSUME NEW h \in Sockets, World(h)
       PROVE  SamePlaces
  BY <1>2, <1>11 DEF World, SetReady, CloseSocket, OpenSocket, sockVars
<1>12. UNCHANGED vars => SamePlaces
  BY <1>2 DEF vars, sockVars
<1>13. ASSUME NEW t \in Threads,
              Enter(t) \/ Ctl(t) \/ Update(t) \/ Wait(t) \/ Close(t)
       PROVE  \/ SamePlaces \/ GivesPlaceBack
              \/ \E b \in Blocks : TakesPlace(b) \/ FreesPlace(b)
              \/ lifecycle' = "freed"
  BY <1>5, <1>6, <1>7, <1>8, <1>9, <1>13
<1> QED
  BY <1>10, <1>11, <1>12, <1>13 DEF Next, Stopped

LEMMA FreedForGood ==
  ASSUME [Next]_vars, lifecycle = "freed"
  PROVE  lifecycle' = "freed"
  BY DEF Next, Running, Stopped, vars, portVars

LEMMA GroupStep ==
  ASSUME IndInv, GroupInv, [Next]_vars
  PROVE  GroupInv'
<1> SUFFICES ASSUME lifecycle' # "freed"
             PROVE  PlacesCounted'
  BY DEF GroupInv
<1>1. PlacesCounted
  BY FreedForGood DEF GroupInv
<1> QED
  BY <1>1, PlacesSteps, SameCounts, TakenCounts, FreedCounts, BackCounts

(* poll_group_acquire and poll_group_release keep the size of every group  *)
(* equal to the number of sock_states that hold a place in it, from        *)
(* sock_new to sock__free, and an epoll_ctl that fails keeps none; so the  *)
(* assertions of poll_group_release hold, and the groups that are full     *)
(* stand in front of those with room.                                      *)
THEOREM GroupsAccounted == Spec => []GroupAccounting
<1>1. Init => GroupInv
  <2> SUFFICES ASSUME Init PROVE PlacesCounted
    BY DEF GroupInv
  <2>1. poll_groups = NoGroups /\ DOMAIN poll_groups.size = {}
    BY DEF Init, NoGroups
  <2>2. \A b \in Blocks : ~Allocated(b)
    BY DEF Init, FreeBlock, Allocated
  <2> QED  BY <2>1, <2>2, NoGroupsWellFormed DEF PlacesCounted
<1>2. IndInv /\ GroupInv /\ [Next]_vars => GroupInv'
  BY GroupStep
<1>3. GroupInv => GroupAccounting
  BY DEF GroupInv, PlacesCounted, GroupAccounting, HeldPlaces
<1> QED  BY <1>1, <1>2, <1>3, Inductive, PTL DEF Spec

-----------------------------------------------------------------------------
(* Deleted sock_state objects: what sock__delete leaves waits for a packet.*)

\* DeletedAwaitPackets, for the request r of a block that holds s.
Awaits(r, s) ==
  s.socket # NULL /\ s.delete_pending =>
    /\ r.request # "none"
    /\ s.poll_status # "IDLE"
    /\ r.request = "pending" => Faults /\ s.poll_status = "PENDING"

AllAwait == \A c \in Blocks : Awaits(io[c], sock[c])

LEMMA DeleteAwaits ==
  ASSUME TypeOK, AllAwait, NEW b \in Blocks, NEW s, NEW f, Deleting(b, s, f),
         \A c \in Blocks \ {b} : io'[c] = io[c],
         ~MayFree(s, f) =>
           /\ io'[b].request # "none"
           /\ io'[b].request = "pending" => Faults /\ s.poll_status = "PENDING"
  PROVE  AllAwait'
<1>1. /\ \A c \in Blocks \ {b} : sock'[c] = sock[c]
      /\ MayFree(s, f) => sock'[b] = FreeBlock
      /\ ~MayFree(s, f) => sock'[b] = [s EXCEPT !.delete_pending = TRUE]
  BY DeleteEffect
<1>2. \A c \in Blocks \ {b} : Awaits(io'[c], sock'[c])
  BY <1>1 DEF AllAwait
<1>3. CASE MayFree(s, f)
  <2>1. sock'[b].socket = NULL
    BY <1>1, <1>3 DEF FreeBlock
  <2> QED  BY <1>2, <2>1 DEF AllAwait, Awaits
<1>4. CASE ~MayFree(s, f)
  <2>1. sock'[b].poll_status = s.poll_status
    BY <1>1, <1>4 DEF Deleting, SockState
  <2>2. s.poll_status # "IDLE"
    BY <1>4 DEF MayFree
  <2>3. Awaits(io'[b], sock'[b])
    BY <1>4, <2>1, <2>2 DEF Awaits
  <2> QED  BY <1>2, <2>3 DEF AllAwait
<1> QED  BY <1>3, <1>4

\* epoll_ctl cancels the request of the socket it removes, if that succeeds.
LEMMA CtlDelAwaits ==
  ASSUME TypeOK, Lifecycle, TreeConsistent, KernelOwnsBlock, RequestState,
         AllAwait, NEW t \in Threads, NEW h \in Sockets, CtlDel(t, h)
  PROVE  AllAwait'
<1> DEFINE b == sock_tree[h]
<1>1. b \in Blocks /\ CancelAndDelete(b, FALSE)
  BY DEF CtlDel, TypeOK, SockType
<1>2. Registered(b)
  BY <1>1 DEF TreeConsistent
<1>3. sock[b].poll_status = "IDLE" <=> io[b].request = "none"
  <2>1. lifecycle \notin {"deleting", "freed"}
    BY InsideLives DEF CtlDel, InCtl
  <2> QED  BY <1>1, <1>2, <2>1 DEF KernelOwnsBlock, Registered
<1>4. io[b].request = "pending" =>
        io[b].Status = "PENDING" /\ sock[b].poll_status # "CANCELLED"
  BY <1>1 DEF RequestState
<1>5. sock[b] \in SockState /\ sock[b].poll_status \in PollStatus
  BY <1>1 DEF TypeOK, SockType, SockState
<1> HIDE DEF b
<1>6. CASE afd_cancel_poll(b) /\ sock[b].poll_status = "PENDING"
             /\ Deleting(b, CancelledPoll(sock[b]), FALSE)
  <2>1. /\ \A c \in Blocks \ {b} : io'[c] = io[c]
        /\ io'[b].request \notin {"none", "pending"}
    BY <1>1, <1>3, <1>4, <1>6, CancelEffect
  <2> QED  BY <1>1, <1>6, <2>1, DeleteAwaits
<1>7. CASE UNCHANGED io /\ (sock[b].poll_status = "PENDING" => Faults)
             /\ Deleting(b, sock[b], FALSE)
  <2>1. ~MayFree(sock[b], FALSE) =>
          /\ io'[b].request # "none"
          /\ io'[b].request = "pending" =>
               Faults /\ sock[b].poll_status = "PENDING"
    BY <1>3, <1>4, <1>5, <1>7 DEF MayFree, PollStatus
  <2> QED  BY <1>1, <1>7, <2>1, DeleteAwaits
<1>8. \/ afd_cancel_poll(b) /\ sock[b].poll_status = "PENDING"
           /\ sock__delete(b, CancelledPoll(sock[b]), FALSE)
      \/ UNCHANGED io /\ (sock[b].poll_status = "PENDING" => Faults)
           /\ sock__delete(b, sock[b], FALSE)
  BY <1>1, <1>2 DEF CancelAndDelete
<1>9. /\ CancelledPoll(sock[b]) \in SockState
      /\ CancelledPoll(sock[b]).socket = sock[b].socket
      /\ CancelledPoll(sock[b]).delete_pending = sock[b].delete_pending
      /\ CancelledPoll(sock[b]).poll_group = sock[b].poll_group
  <2>1. CancelledPoll(sock[b]) \in SockState
    BY <1>5, CancelledType
  <2> QED  BY <1>5, <2>1 DEF CancelledPoll, SockState
<1> QED  BY <1>5, <1>6, <1>7, <1>8, <1>9 DEF Deleting

\* The others that delete free the object at once.
LEMMA OtherDeletesAwait ==
  ASSUME TypeOK, AllAwait, NEW t \in Threads,
         UpdateDrop(t) \/ FeedDelete(t) \/ PortDeleteSocket(t)
  PROVE  AllAwait'
<1>1. CASE UpdateDrop(t)
  <2>1. PICK b \in Blocks : /\ sock__delete(b, sock[b], FALSE) /\ UNCHANGED io
                            /\ MaySubmit(sock[b])
    BY <1>1 DEF UpdateDrop
  <2>2. Deleting(b, sock[b], FALSE) /\ MayFree(sock[b], FALSE)
    BY <2>1 DEF Deleting, MayFree, MaySubmit, TypeOK, SockType
  <2> QED  BY <2>1, <2>2, DeleteAwaits
<1>2. CASE FeedDelete(t)
  <2>1. PICK b \in Blocks :
          FeedFirst(t, b) /\ sock__delete(b, Returned(b), FALSE)
    BY <1>2 DEF FeedDelete
  <2>2. Deleting(b, Returned(b), FALSE) /\ MayFree(Returned(b), FALSE)
    BY <2>1, ReturnedFields DEF Deleting, MayFree
  <2> QED  BY <2>1, <2>2, FeedFirstEffect, DeleteAwaits
<1>3. CASE PortDeleteSocket(t)
  <2>1. sock_deleted_queue # <<>> => Head(sock_deleted_queue) \in Blocks
    BY DEF TypeOK, SockType
  <2>2. PICK b \in Blocks : CancelAndDelete(b, TRUE)
    BY <1>3, <2>1 DEF PortDeleteSocket, TypeOK, SockType
  <2>3. PICK s : Deleting(b, s, TRUE) /\ (UNCHANGED io \/ afd_cancel_poll(b))
    BY <2>2, CancelDeletes
  <2>4. \A c \in Blocks \ {b} : io'[c] = io[c]
    BY <2>3, CancelEffect
  <2> QED  BY <2>3, <2>4, DeleteAwaits DEF MayFree
<1> QED  BY <1>1, <1>2, <1>3

\* The update queue holds no deleted object, so sock_update touches none.
LEMMA UpdateAwaits ==
  ASSUME TypeOK, QueueDiscipline, AllAwait, NEW t \in Threads,
         UpdateNothing(t) \/ UpdateCancel(t) \/ UpdateSubmit(t)
  PROVE  AllAwait'
<1>1. ASSUME NEW b \in Blocks, UpdateFirst(t, b)
      PROVE  ~sock[b].delete_pending
  <2>1. b \in Elements(sock_update_queue)
    BY <1>1 DEF UpdateFirst, Elements, TypeOK, SockType
  <2> QED  BY <2>1 DEF QueueDiscipline, Registered
<1>2. CASE UpdateNothing(t)
  BY <1>2, UpdateNothingEffect DEF AllAwait
<1>3. CASE UpdateCancel(t)
  <2>1. PICK b \in Blocks : /\ UpdateFirst(t, b) /\ Untouched(b)
                            /\ sock'[b] = CancelledPoll(sock[b])
    BY <1>3, UpdateCancelEffect
  <2>2. sock'[b].delete_pending = sock[b].delete_pending
    BY <2>1 DEF CancelledPoll, TypeOK, SockType, SockState
  <2> QED  BY <1>1, <2>1, <2>2 DEF AllAwait, Awaits, Untouched
<1>4. CASE UpdateSubmit(t)
  <2>1. PICK b \in Blocks : /\ UpdateFirst(t, b) /\ Untouched(b)
                            /\ sock'[b] = Polled(sock[b])
    BY <1>4, UpdateSubmitEffect
  <2>2. sock'[b].delete_pending = sock[b].delete_pending
    BY <2>1 DEF Polled, TypeOK, SockType, SockState
  <2> QED  BY <1>1, <2>1, <2>2 DEF AllAwait, Awaits, Untouched
<1> QED  BY <1>2, <1>3, <1>4

LEMMA AwaitStep ==
  ASSUME IndInv, AllAwait, [Next]_vars
  PROVE  AllAwait'
<1>0. /\ TypeOK /\ Lifecycle /\ TreeConsistent /\ QueueDiscipline
      /\ KernelOwnsBlock /\ RequestState
  BY DEF IndInv
<1>1. CASE UNCHANGED registry
  BY <1>1 DEF registry, AllAwait
<1>2. ASSUME NEW t \in Threads, NEW h \in Sockets, NEW m \in EventMasks,
             CtlAdd(t, h, m)
      PROVE  AllAwait'
  <2>1. PICK b \in Blocks : /\ ~sock'[b].delete_pending
                            /\ \A c \in Blocks \ {b} : sock'[c] = sock[c]
    BY <1>0, <1>2, AddEffect
  <2>2. UNCHANGED io
    BY <1>0, <1>2, AddEffect
  <2> QED  BY <2>1, <2>2 DEF AllAwait, Awaits
<1>3. ASSUME NEW t \in Threads, NEW h \in Sockets, NEW m \in EventMasks,
             CtlMod(t, h, m)
      PROVE  AllAwait'
  <2>1. PICK b \in Blocks :
          /\ Untouched(b) /\ UNCHANGED io
          /\ sock'[b] = [sock[b] EXCEPT !.user_events = m \cup AlwaysReported]
    BY <1>0, <1>3, ModEffect DEF Modified
  <2>2. /\ sock'[b].socket = sock[b].socket
        /\ sock'[b].poll_status = sock[b].poll_status
        /\ sock'[b].delete_pending = sock[b].delete_pending
    BY <1>0, <2>1 DEF TypeOK, SockType, SockState
  <2>3. Awaits(io'[b], sock'[b])
    BY <2>1, <2>2 DEF AllAwait, Awaits
  <2> QED  BY <2>1, <2>3 DEF AllAwait, Untouched
<1>4. ASSUME NEW t \in Threads, FeedEvent(t)
      PROVE  AllAwait'
  <2>1. PICK b \in Blocks : Untouched(b) /\ ~sock'[b].delete_pending
    BY <1>0, <1>4, FeedEventEffect
  <2> QED  BY <2>1 DEF AllAwait, Awaits, Untouched
<1>5. ASSUME NEW b \in Blocks, Afd(b)
      PROVE  AllAwait'
  <2>1. UNCHANGED sock /\ io'[b].request = "completed"
        /\ \A c \in Blocks \ {b} : io'[c] = io[c]
    BY <1>0, <1>5, AfdEffect DEF sockVars
  <2>2. Awaits(io'[b], sock'[b])
    BY <2>1 DEF AllAwait, Awaits
  <2> QED  BY <2>1, <2>2 DEF AllAwait
<1>6. ASSUME NEW h \in Sockets, CloseSocket(h)
      PROVE  AllAwait'
  <2>1. UNCHANGED sock
    BY <1>0, <1>6, CloseSocketEffect DEF sockVars
  <2>2. \A c \in Blocks : io'[c] = io[c] \/ io'[c].request = "orphaned"
    BY <1>0, <1>6, CloseSocketEffect
  <2> QED  BY <2>1, <2>2 DEF AllAwait, Awaits
<1> QED
  BY <1>0, <1>1, <1>2, <1>3, <1>4, <1>5, <1>6, Steps, CtlDelAwaits,
     OtherDeletesAwait, UpdateAwaits

(* A deleted sock_state always waits for a request that will come back,    *)
(* whichever call deleted it and whatever the driver answered: it is freed *)
(* with its packet, and nothing deleted stays behind in an open port.      *)
THEOREM DeletedAreAwaited == Spec => []DeletedAwaitPackets
<1>1. Init => AllAwait
  BY DEF Init, AllAwait, Awaits, FreeBlock
<1>2. IndInv /\ AllAwait /\ [Next]_vars => AllAwait'
  BY AwaitStep
<1>3. AllAwait => DeletedAwaitPackets
  BY DEF AllAwait, Awaits, DeletedAwaitPackets, Allocated
<1> QED  BY <1>1, <1>2, <1>3, Inductive, PTL DEF Spec

-----------------------------------------------------------------------------
(* The events that the calls of epoll_wait have collected.                 *)

\* Where a thread may be that holds reports.
Holding == {"feed", "last_update"}

ReportsUse == \A t \in Threads : call[t].events # <<>> => pc[t] \in Holding

Collected == [t \in Threads |-> call[t].events]

\* Thread t alone moves, and keeps its reports or returns them.
KeepsReports(t) ==
  /\ \A u \in Threads \ {t} : pc'[u] = pc[u] /\ call'[u] = call[u]
  /\ call'[t].events \in {<<>>, call[t].events}
  /\ call'[t].events # <<>> => pc'[t] \in Holding

LEMMA GotoKeeps ==
  ASSUME TypeOK, NEW t \in Threads, NEW l, Goto(t, l), UNCHANGED call,
         call[t].events = <<>> \/ l \in Holding
  PROVE  KeepsReports(t)
<1>1. pc'[t] = l /\ \A u \in Threads \ {t} : pc'[u] = pc[u]
  BY DEF Goto, TypeOK, ThreadType
<1> QED  BY <1>1 DEF KeepsReports

LEMMA LeaveKeeps ==
  ASSUME TypeOK, NEW t \in Threads, Leave(t)
  PROVE  KeepsReports(t)
<1>1. /\ pc' = [pc EXCEPT ![t] = "idle"] /\ call' = [call EXCEPT ![t] = NoCall]
      /\ pc \in [Threads -> Labels] /\ call \in [Threads -> Call]
  BY DEF Leave, Goto, TypeOK, ThreadType
<1>2. NoCall.events = <<>>
  BY DEF NoCall
<1>3. /\ \A u \in Threads \ {t} : pc'[u] = pc[u] /\ call'[u] = call[u]
      /\ call'[t] = NoCall
  BY <1>1
<1> QED  BY <1>2, <1>3 DEF KeepsReports

LEMMA PollingKeeps ==
  ASSUME TypeOK, NEW t \in Threads, port_update_events_if_polling(t)
  PROVE  KeepsReports(t)
  BY LeaveKeeps, GotoKeeps DEF port_update_events_if_polling, Holding

\* Only other arguments of the call change.
LEMMA ArgumentsKeep ==
  ASSUME TypeOK, NEW t \in Threads, NEW l, NEW c,
         c.events = call[t].events, call[t].events = <<>> \/ l \in Holding,
         pc' = [pc EXCEPT ![t] = l], call' = [call EXCEPT ![t] = c]
  PROVE  KeepsReports(t)
<1>1. /\ \A u \in Threads \ {t} : pc'[u] = pc[u] /\ call'[u] = call[u]
      /\ call'[t] = c /\ pc'[t] = l
  BY DEF TypeOK, ThreadType
<1> QED  BY <1>1 DEF KeepsReports

LEMMA CtlKeeps ==
  ASSUME TypeOK, NEW t \in Threads, Ctl(t)
  PROVE  KeepsReports(t) \/ UNCHANGED <<pc, call>>
<1>1. \/ Leave(t) \/ port_update_events_if_polling(t)
      \/ UNCHANGED <<pc, call>>
  BY DEF Ctl, CtlAdd, CtlAddFails, CtlAddAborts, CtlMod, CtlDel, CtlFails
<1> QED  BY <1>1, LeaveKeeps, PollingKeeps

LEMMA UpdateKeeps ==
  ASSUME TypeOK, ReportsUse, NEW t \in Threads, Update(t)
  PROVE  KeepsReports(t) \/ UNCHANGED <<pc, call>>
<1>1. CASE UpdateFails(t) \/ UpdateDone(t)
  <2>1. \/ Leave(t) \/ port_update_events_if_polling(t)
        \/ pc[t] = "update" /\ Goto(t, "gqcs") /\ UNCHANGED call
    BY <1>1 DEF UpdateFails, UpdateDone
  <2> QED
    BY <2>1, LeaveKeeps, PollingKeeps, GotoKeeps DEF ReportsUse, Holding
<1>2. CASE UpdateNothing(t) \/ UpdateCancel(t) \/ UpdateSubmit(t)
             \/ UpdateDrop(t)
  BY <1>2 DEF UpdateNothing, UpdateCancel, UpdateSubmit, UpdateDrop,
     UpdateFirst
<1> QED  BY <1>1, <1>2 DEF Update

LEMMA WaitStartKeeps ==
  ASSUME TypeOK, ReportsUse, NEW t \in Threads, NEW w \in Timeouts,
         NEW n \in 1 .. MaxEvents, WaitStart(t, w, n)
  PROVE  KeepsReports(t)
<1> DEFINE c == [call[t] EXCEPT !.timeout = w, !.maxevents = n]
<1>1. call \in [Threads -> Call]
  BY DEF TypeOK, ThreadType
<1>2. c.events = call[t].events
  BY <1>1 DEF Call
<1>3. call[t].events = <<>>
  BY DEF WaitStart, InCtl, ReportsUse, Holding
<1>4. call' = [call EXCEPT ![t] = c] /\ pc' = [pc EXCEPT ![t] = "update"]
  BY <1>1 DEF WaitStart, Goto
<1> HIDE DEF c
<1> QED  BY <1>2, <1>3, <1>4, ArgumentsKeep

LEMMA GqcsKeeps ==
  ASSUME TypeOK, ReportsUse, NEW t \in Threads, GqcsPackets(t) \/ GqcsFails(t)
  PROVE  KeepsReports(t)
<1>1. call \in [Threads -> Call]
  BY DEF TypeOK, ThreadType
<1>2. /\ call[t].events = <<>>
      /\ pc' = [pc EXCEPT ![t] = "relock"]
  BY DEF GqcsPackets, GqcsFails, Goto, ReportsUse, Holding
<1>3. CASE GqcsPackets(t)
  <2>1. PICK q : call' = [call EXCEPT ![t].batch = q]
    BY <1>3 DEF GqcsPackets
  <2> DEFINE c == [call[t] EXCEPT !.batch = q]
  <2>2. c.events = call[t].events
    BY <1>1 DEF Call
  <2>3. call' = [call EXCEPT ![t] = c]
    BY <1>1, <2>1
  <2> HIDE DEF c
  <2> QED  BY <1>2, <2>2, <2>3, ArgumentsKeep
<1>4. CASE GqcsFails(t)
  <2> DEFINE c == [call[t] EXCEPT !.failed = TRUE]
  <2>1. c.events = call[t].events
    BY <1>1 DEF Call
  <2>2. call' = [call EXCEPT ![t] = c]
    BY <1>1, <1>4 DEF GqcsFails
  <2> HIDE DEF c
  <2> QED  BY <1>2, <2>1, <2>2, ArgumentsKeep
<1> QED  BY <1>3, <1>4

LEMMA FeedDeleteKeeps ==
  ASSUME TypeOK, NEW t \in Threads, FeedDelete(t)
  PROVE  /\ KeepsReports(t)
         /\ call'[t].events = call[t].events
<1>1. call \in [Threads -> Call] /\ pc \in [Threads -> Labels]
  BY DEF TypeOK, ThreadType
<1>2. call' = [call EXCEPT ![t].batch = Tail(@)] /\ pc' = pc /\ pc[t] = "feed"
  BY DEF FeedDelete, FeedFirst
<1> DEFINE c == [call[t] EXCEPT !.batch = Tail(@)]
<1>3. c.events = call[t].events
  BY <1>1 DEF Call
<1>4. call' = [call EXCEPT ![t] = c]
  BY <1>1, <1>2
<1> HIDE DEF c
<1>5. pc' = [pc EXCEPT ![t] = "feed"]
  BY <1>1, <1>2
<1>6. call'[t] = c
  BY <1>1, <1>4
<1> QED  BY <1>3, <1>4, <1>5, <1>6, ArgumentsKeep DEF Holding

LEMMA WaitKeeps ==
  ASSUME TypeOK, ReportsUse, NEW t \in Threads, Wait(t)
  PROVE  KeepsReports(t) \/ FeedEvent(t)
<1>1. CASE Relock(t)
  <2>1. \/ port_update_events_if_polling(t)
        \/ Goto(t, "feed") /\ UNCHANGED call
    BY <1>1 DEF Relock
  <2> QED  BY <2>1, PollingKeeps, GotoKeeps DEF Holding
<1>2. CASE FeedDone(t)
  <2>1. \/ port_update_events_if_polling(t)
        \/ call[t].events = <<>> /\ Goto(t, "update") /\ UNCHANGED call
    BY <1>2 DEF FeedDone
  <2> QED  BY <2>1, PollingKeeps, GotoKeeps
<1> QED
  BY <1>1, <1>2, WaitStartKeeps, GqcsKeeps, FeedDeleteKeeps DEF Wait

LEMMA EntryKeeps ==
  ASSUME TypeOK, ReportsUse, NEW t \in Threads, Enter(t) \/ Close(t)
  PROVE  KeepsReports(t) \/ UNCHANGED <<pc, call>>
<1>1. CASE PortDeleteSocket(t)
  BY <1>1 DEF PortDeleteSocket
<1>2. CASE ~PortDeleteSocket(t)
  <2>1. /\ pc[t] \notin Holding /\ UNCHANGED call
        /\ \E l : Goto(t, l)
    BY <1>2 DEF Enter, Close, CloseStart, PortClose, CloseReady, CloseAlone,
       PortFree, Holding
  <2>2. call[t].events = <<>>
    BY <2>1 DEF ReportsUse
  <2> QED  BY <2>1, <2>2, GotoKeeps
<1> QED  BY <1>1, <1>2

LEMMA ReportsSteps ==
  ASSUME TypeOK, ReportsUse, [Next]_vars
  PROVE  \/ UNCHANGED <<pc, call>>
         \/ \E t \in Threads : KeepsReports(t) \/ FeedEvent(t)
<1>1. ASSUME NEW b \in Blocks, Afd(b)
      PROVE  UNCHANGED <<pc, call>>
  BY <1>1 DEF Afd, AfdReady, AfdCancelled, AfdLocalClose, AfdFails, Complete
<1>2. ASSUME NEW h \in Sockets, World(h)
      PROVE  UNCHANGED <<pc, call>>
  BY <1>2 DEF World, SetReady, CloseSocket, OpenSocket
<1>3. UNCHANGED vars => UNCHANGED <<pc, call>>
  BY DEF vars
<1> QED
  BY <1>1, <1>2, <1>3, CtlKeeps, UpdateKeeps, WaitKeeps, EntryKeeps
  DEF Next, Stopped

LEMMA ReportsUseStep ==
  ASSUME TypeOK, ReportsUse, [Next]_vars
  PROVE  ReportsUse'
<1>1. ASSUME NEW t \in Threads, KeepsReports(t) PROVE ReportsUse'
  BY <1>1 DEF KeepsReports, ReportsUse
<1>2. ASSUME NEW t \in Threads, FeedEvent(t) PROVE ReportsUse'
  <2>1. pc' = pc /\ pc[t] = "feed"
    BY <1>2 DEF FeedEvent, FeedFirst
  <2>2. \A u \in Threads \ {t} : call'[u] = call[u]
    BY <1>2 DEF FeedEvent, TypeOK, ThreadType
  <2> QED  BY <2>1, <2>2 DEF ReportsUse, Holding
<1>3. UNCHANGED <<pc, call>> => ReportsUse'
  BY DEF ReportsUse
<1> QED  BY <1>1, <1>2, <1>3, ReportsSteps

-----------------------------------------------------------------------------
(* The set of sockets, as EpollSet has it.                                 *)

InSet == {h \in Sockets : sock_tree[h] # NULL}

LEMMA InterestIs ==
  /\ DOMAIN Interest = InSet
  /\ \A h \in InSet : Interest[h] = sock[sock_tree[h]].user_events
  BY DEF Interest, InSet

\* Functions with the same domain and the same values.
LEMMA InterestEquals ==
  ASSUME NEW S, NEW f, f = [h \in S |-> f[h]], InSet' = S,
         \A h \in S : sock'[sock_tree'[h]].user_events = f[h]
  PROVE  Interest' = f
<1>1. Interest' = [h \in InSet' |-> sock'[sock_tree'[h]].user_events]
  BY DEF Interest, InSet
<1>2. [h \in S |-> sock'[sock_tree'[h]].user_events] = [h \in S |-> f[h]]
  OBVIOUS
<1> QED  BY <1>1, <1>2

LEMMA InterestSame ==
  ASSUME UNCHANGED sock_tree,
         \A h \in InSet : sock'[sock_tree[h]].user_events
                            = sock[sock_tree[h]].user_events
  PROVE  Interest' = Interest
<1>1. Interest = [h \in InSet |-> Interest[h]]
  BY DEF Interest, InSet
<1>2. InSet' = InSet
  BY DEF InSet
<1>3. \A h \in InSet : sock'[sock_tree'[h]].user_events = Interest[h]
  BY InterestIs
<1> QED  BY <1>1, <1>2, <1>3, InterestEquals

LEMMA InterestSet ==
  ASSUME NEW h \in Sockets, NEW m,
         InSet' = InSet \cup {h},
         sock'[sock_tree'[h]].user_events = m,
         \A g \in InSet \ {h} : sock'[sock_tree'[g]].user_events
                                  = sock[sock_tree[g]].user_events
  PROVE  Promise!SetInterest(h, m)
<1> DEFINE S == InSet \cup {h}
           f == [g \in S |-> IF g = h THEN m ELSE Interest[g]]
<1>1. f = [g \in S |-> f[g]]
  OBVIOUS
<1>2. \A g \in S : sock'[sock_tree'[g]].user_events = f[g]
  BY InterestIs
<1>3. InSet' = S
  OBVIOUS
<1>4. DOMAIN Interest \cup {h} = S
  BY InterestIs
<1> HIDE DEF S
<1>5. Interest' = f
  <2> HIDE DEF f
  <2> QED  BY <1>1, <1>2, <1>3, InterestEquals
<1> QED  BY <1>4, <1>5 DEF Promise!SetInterest, Promise!Members

LEMMA InterestDropped ==
  ASSUME NEW h \in Sockets, sock_tree[h] # NULL,
         InSet' = InSet \ {h},
         \A g \in InSet \ {h} : sock'[sock_tree'[g]].user_events
                                  = sock[sock_tree[g]].user_events
  PROVE  /\ h \in DOMAIN Interest
         /\ Interest' = [g \in DOMAIN Interest \ {h} |-> Interest[g]]
<1> DEFINE S == InSet \ {h}
           f == [g \in S |-> Interest[g]]
<1>1. f = [g \in S |-> f[g]]
  OBVIOUS
<1>2. \A g \in S : sock'[sock_tree'[g]].user_events = f[g]
  BY InterestIs
<1>3. InSet' = S
  OBVIOUS
<1>4. DOMAIN Interest \ {h} = S
  BY InterestIs
<1>5. h \in DOMAIN Interest
  BY InterestIs DEF InSet
<1> HIDE DEF S
<1>6. Interest' = f
  <2> HIDE DEF f
  <2> QED  BY <1>1, <1>2, <1>3, InterestEquals
<1> QED  BY <1>4, <1>5, <1>6

(* epoll_ctl(EPOLL_CTL_ADD) arms a socket that was not in the set.         *)
LEMMA AddArms ==
  ASSUME TypeOK, TreeConsistent, NEW t \in Threads, NEW h \in Sockets,
         NEW m \in EventMasks, CtlAdd(t, h, m)
  PROVE  Promise!SetInterest(h, m \cup AlwaysReported)
<1>1. sock_tree \in [Sockets -> Blocks \cup {NULL}]
  BY DEF TypeOK, SockType
<1>2. PICK b \in Blocks :
        /\ ~Allocated(b)
        /\ sock_tree' = [sock_tree EXCEPT ![h] = b]
        /\ sock'[b].user_events = m \cup AlwaysReported
        /\ \A c \in Blocks \ {b} : sock'[c] = sock[c]
  BY AddEffect
<1>3. /\ sock_tree'[h] = b /\ b # NULL
      /\ \A g \in Sockets \ {h} : sock_tree'[g] = sock_tree[g]
  BY <1>1, <1>2
<1>4. \A g \in InSet : sock_tree[g] \in Blocks \ {b}
  BY <1>1, <1>2 DEF InSet, TreeConsistent, Registered
<1>5. InSet' = InSet \cup {h}
  BY <1>3 DEF InSet
<1>6. \A g \in InSet \ {h} : sock'[sock_tree'[g]] = sock[sock_tree[g]]
  BY <1>2, <1>3, <1>4 DEF InSet
<1> QED  BY <1>2, <1>3, <1>5, <1>6, InterestSet

(* epoll_ctl(EPOLL_CTL_MOD) arms a member anew.                            *)
LEMMA ModArms ==
  ASSUME TypeOK, TreeConsistent, NEW t \in Threads, NEW h \in Sockets,
         NEW m \in EventMasks, CtlMod(t, h, m)
  PROVE  Promise!SetInterest(h, m \cup AlwaysReported)
<1>1. sock_tree \in [Sockets -> Blocks \cup {NULL}]
  BY DEF TypeOK, SockType
<1>2. PICK b \in Blocks : Modified(b, h, m)
  BY ModEffect
<1>3. /\ sock_tree[h] = b /\ UNCHANGED sock_tree
      /\ \A c \in Blocks \ {b} : sock'[c] = sock[c]
  BY <1>2 DEF CtlMod, Modified, Untouched
<1>4. sock'[b].user_events = m \cup AlwaysReported
  <2> DEFINE e == m \cup AlwaysReported
  <2>1. sock[b] \in SockState /\ sock'[b] = [sock[b] EXCEPT !.user_events = e]
    BY <1>2 DEF Modified, TypeOK, SockType
  <2> HIDE DEF e
  <2>2. sock'[b].user_events = e
    BY <2>1 DEF SockState
  <2> QED  BY <2>2 DEF e
<1>5. \A g \in InSet \ {h} : sock_tree[g] \in Blocks \ {b}
  BY <1>1, <1>3 DEF InSet, TreeConsistent
<1>6. InSet' = InSet \cup {h}
  BY <1>3 DEF InSet
<1>7. \A g \in InSet \ {h} : sock'[sock_tree'[g]] = sock[sock_tree[g]]
  BY <1>3, <1>5
<1> QED  BY <1>3, <1>4, <1>6, <1>7, InterestSet

(* sock__delete takes a registered socket out of the set; a block that     *)
(* waits for its request has left it before.                               *)
LEMMA DeleteRemoves ==
  ASSUME TypeOK, TreeConsistent, NEW b \in Blocks, Allocated(b),
         NEW s, NEW f, Deleting(b, s, f)
  PROVE  \/ Interest' = Interest
         \/ \E h \in Sockets :
              /\ h \in DOMAIN Interest
              /\ Interest' = [g \in DOMAIN Interest \ {h} |-> Interest[g]]
<1>1. /\ sock_tree \in [Sockets -> Blocks \cup {NULL}]
      /\ sock[b] \in SockState
  BY DEF TypeOK, SockType
<1>2. \A c \in Blocks \ {b} : sock'[c] = sock[c]
  BY DeleteEffect
<1>3. CASE s.delete_pending
  <2>1. UNCHANGED sock_tree
    BY <1>3 DEF Deleting, sock__delete
  <2>2. ~Registered(b)
    BY <1>3 DEF Deleting, Registered
  <2>3. \A g \in InSet : sock_tree[g] \in Blocks \ {b}
    BY <1>1, <2>2 DEF InSet, TreeConsistent
  <2> QED  BY <1>2, <2>1, <2>3, InterestSame
<1>4. CASE ~s.delete_pending
  <2> DEFINE h == sock[b].socket
  <2>1. Registered(b) /\ h \in Sockets
    BY <1>1, <1>4 DEF Deleting, Registered, Allocated, SockState
  <2> HIDE DEF h
  <2>2. sock_tree[h] = b
    BY <2>1 DEF TreeConsistent, h
  <2>3. sock_tree' = [sock_tree EXCEPT ![h] = NULL]
    BY <1>4 DEF Deleting, sock__delete, h
  <2>4. \A g \in InSet \ {h} : sock_tree[g] \in Blocks \ {b}
    BY <1>1 DEF InSet, TreeConsistent, h
  <2>5. /\ sock_tree'[h] = NULL
        /\ \A g \in Sockets \ {h} : sock_tree'[g] = sock_tree[g]
    BY <1>1, <2>1, <2>3
  <2>6. InSet' = InSet \ {h}
    BY <2>5 DEF InSet
  <2>7. \A g \in InSet \ {h} : sock'[sock_tree'[g]] = sock[sock_tree[g]]
    BY <1>2, <2>4, <2>5 DEF InSet
  <2>8. sock_tree[h] # NULL
    BY <2>2
  <2> QED  BY <2>1, <2>6, <2>7, <2>8, InterestDropped
<1> QED  BY <1>3, <1>4

-----------------------------------------------------------------------------
(* What a step does to the set and to the reports.                         *)

SameReports == Collected' = Collected

LEMMA SameCallsReport ==
  ASSUME UNCHANGED call
  PROVE  SameReports
  BY DEF SameReports, Collected

(* A call that had nothing to report, or returns what it had.              *)
LEMMA KeptReports ==
  ASSUME NEW t \in Threads, KeepsReports(t)
  PROVE  SameReports \/ Collected' = [Collected EXCEPT ![t] = <<>>]
<1>1. CASE call'[t].events = call[t].events
  <2>1. \A u \in Threads : call'[u].events = call[u].events
    BY <1>1 DEF KeepsReports
  <2> QED  BY <2>1 DEF SameReports, Collected
<1>2. CASE call'[t].events = <<>>
  <2>1. \A u \in Threads :
          call'[u].events = IF u = t THEN <<>> ELSE call[u].events
    BY <1>2 DEF KeepsReports
  <2> QED  BY <2>1 DEF Collected
<1> QED  BY <1>1, <1>2 DEF KeepsReports

LEMMA EnteredReports ==
  ASSUME ReportsUse, NEW t \in Threads, pc[t] = "entered",
         KeepsReports(t) \/ UNCHANGED <<pc, call>>
  PROVE  SameReports
<1>1. call[t].events = <<>>
  BY DEF ReportsUse, Holding
<1>2. CASE UNCHANGED <<pc, call>>
  BY <1>2, SameCallsReport
<1>3. CASE KeepsReports(t)
  <2>1. \A u \in Threads : call'[u].events = call[u].events
    BY <1>1, <1>3 DEF KeepsReports
  <2> QED  BY <2>1 DEF SameReports, Collected
<1> QED  BY <1>2, <1>3

(* The reports of a step that only moves packets and arguments.            *)
LEMMA FeedDeleteReports ==
  ASSUME TypeOK, NEW t \in Threads, FeedDelete(t)
  PROVE  SameReports
<1>1. \A u \in Threads : call'[u].events = call[u].events
  BY FeedDeleteKeeps DEF KeepsReports
<1> QED  BY <1>1 DEF SameReports, Collected

LEMMA ReturnedEvents ==
  ASSUME TypeOK, NEW b \in Blocks
  PROVE  /\ Returned(b).user_events = sock[b].user_events
         /\ AfterReport(Returned(b)).user_events =
              IF "EPOLLONESHOT" \in sock[b].user_events THEN {}
              ELSE sock[b].user_events
<1> DEFINE r == Returned(b)
<1>1. r \in SockState /\ r.user_events = sock[b].user_events
  BY ReturnedFields
<1> HIDE DEF r
<1>2. AfterReport(r).user_events =
        IF "EPOLLONESHOT" \in r.user_events THEN {} ELSE r.user_events
  BY <1>1 DEF AfterReport, SockState
<1> QED  BY <1>1, <1>2 DEF r

(* A packet that is fed reports events that are armed, or nothing.         *)
LEMMA FeedCollects ==
  ASSUME IndInv, NEW t \in Threads, FeedEvent(t)
  PROVE  \/ Interest' = Interest /\ SameReports
         \/ \E h \in DOMAIN Interest :
              \E events \in SUBSET (Interest[h] \cap KnownEvents) :
                Promise!Collect(t, h, events)
<1>1. /\ TypeOK /\ TreeConsistent
      /\ call \in [Threads -> Call] /\ sock \in [Blocks -> SockState]
      /\ sock_tree \in [Sockets -> Blocks \cup {NULL}]
  BY DEF IndInv, TypeOK, ThreadType, SockType
<1>2. PICK b \in Blocks :
        /\ FeedFirst(t, b) /\ ~Gone(b) /\ UNCHANGED sock_tree
        /\ LET events == Reported(b) \cap sock[b].user_events IN
           IF events = {}
           THEN /\ sock' = [sock EXCEPT ![b] = Returned(b)]
                /\ call' = [call EXCEPT ![t].batch = Tail(@)]
           ELSE /\ sock' = [sock EXCEPT ![b] = AfterReport(Returned(b))]
                /\ call' = [call EXCEPT
                     ![t].batch = Tail(@),
                     ![t].events = Append(@, [socket |-> sock[b].socket,
                                              events |-> events])]
  BY DEF FeedEvent
<1> DEFINE h == sock[b].socket
           events == Reported(b) \cap sock[b].user_events
<1>3. Registered(b) /\ sock[b] \in SockState /\ h \in Sockets
  <2>1. Allocated(b)
    BY <1>2, FedIsAllocated DEF IndInv
  <2> QED  BY <1>1, <1>2, <2>1 DEF Gone, Registered, Allocated, SockState
<1>4. sock_tree[h] = b /\ h \in InSet
  <2>1. sock_tree[h] = b
    BY <1>1, <1>3 DEF TreeConsistent
  <2> QED  BY <1>3, <2>1 DEF InSet
<1>5. h \in DOMAIN Interest /\ Interest[h] = sock[b].user_events
  BY <1>4, InterestIs
<1>6. events \in SUBSET (Interest[h] \cap KnownEvents)
  BY <1>1, <1>5, ReportedType
<1>7. \A u \in Threads \ {t} : call'[u] = call[u]
  BY <1>1, <1>2
<1>8. \A c \in Blocks \ {b} : sock'[c] = sock[c]
  BY <1>1, <1>2
<1>9. CASE events = {}
  <2>1. sock'[b] = Returned(b) /\ call' = [call EXCEPT ![t].batch = Tail(@)]
    BY <1>1, <1>2, <1>9
  <2>2. call'[t].events = call[t].events
    BY <1>1, <2>1 DEF Call
  <2>3. SameReports
    <3>1. \A u \in Threads : call'[u].events = call[u].events
      BY <1>7, <2>2
    <3> QED  BY <3>1 DEF SameReports, Collected
  <2>4. \A c \in Blocks : sock'[c].user_events = sock[c].user_events
    BY <1>1, <1>8, <2>1, ReturnedEvents
  <2>5. Interest' = Interest
    BY <1>1, <1>2, <2>4, InterestSame DEF InSet
  <2> QED  BY <2>3, <2>5
<1>10. CASE events # {}
  <2> DEFINE report == [socket |-> h, events |-> events]
  <2>1. /\ sock'[b] = AfterReport(Returned(b))
        /\ call' = [call EXCEPT ![t].batch = Tail(@),
                                ![t].events = Append(@, report)]
    BY <1>1, <1>2, <1>10
  <2> HIDE DEF events, h, report
  <2>2. call'[t].events = Append(call[t].events, report)
    BY <1>1, <2>1 DEF Call
  <2>3. Collected' = [Collected EXCEPT ![t] = Append(@, report)]
    <3>1. \A u \in Threads : call'[u].events =
            IF u = t THEN Append(call[t].events, report) ELSE call[u].events
      BY <1>7, <2>2
    <3> QED  BY <3>1 DEF Collected
  <2>4. sock'[b].user_events =
          IF "EPOLLONESHOT" \in Interest[h] THEN {} ELSE Interest[h]
    BY <1>1, <1>5, <2>1, ReturnedEvents
  <2>5. IF "EPOLLONESHOT" \in Interest[h] THEN Promise!SetInterest(h, {})
        ELSE UNCHANGED Interest
    <3>1. \A g \in InSet \ {h} : sock_tree[g] \in Blocks \ {b}
      BY <1>1, <1>4 DEF InSet, TreeConsistent, h
    <3>2. InSet' = InSet \cup {h}
      BY <1>2, <1>4 DEF InSet
    <3>3. \A g \in InSet \ {h} : sock'[sock_tree'[g]] = sock[sock_tree[g]]
      BY <1>2, <1>8, <3>1
    <3>4. CASE "EPOLLONESHOT" \in Interest[h]
      BY <1>2, <1>3, <1>4, <2>4, <3>2, <3>3, <3>4, InterestSet
    <3>5. CASE "EPOLLONESHOT" \notin Interest[h]
      <4>1. sock'[sock_tree[h]].user_events = sock[sock_tree[h]].user_events
        BY <1>4, <1>5, <2>4, <3>5
      <4> QED  BY <1>2, <3>3, <3>5, <4>1, InterestSame
    <3> QED  BY <3>4, <3>5
  <2>6. PICK g, e : g = h /\ e = events
    OBVIOUS
  <2>7. Promise!Collect(t, g, e)
    BY <1>10, <2>3, <2>5, <2>6 DEF Promise!Collect, Collected, report, events
  <2>8. g \in DOMAIN Interest /\ e \in SUBSET (Interest[g] \cap KnownEvents)
    BY <1>5, <1>6, <2>6
  <2> QED  BY <2>7, <2>8
<1> QED  BY <1>9, <1>10

-----------------------------------------------------------------------------
(* Every step is a step of EpollSet.                                       *)

\* What an action of the port is to its users.
Promised ==
  \/ Interest' = Interest /\ SameReports
  \/ \E h \in Sockets, m \in EventMasks :
       Promise!SetInterest(h, m \cup AlwaysReported) /\ SameReports
  \/ \E h \in Sockets :
       /\ h \in DOMAIN Interest
       /\ Interest' = [g \in DOMAIN Interest \ {h} |-> Interest[g]]
       /\ SameReports
  \/ \E t \in Threads, h \in DOMAIN Interest :
       \E events \in SUBSET (Interest[h] \cap KnownEvents) :
         Promise!Collect(t, h, events)
  \/ \E t \in Threads :
       Collected' = [Collected EXCEPT ![t] = <<>>] /\ Interest' = Interest

LEMMA SetUnchanged ==
  ASSUME UNCHANGED <<sock_tree, sock>>
  PROVE  Interest' = Interest
  BY InterestSame DEF InSet

LEMMA DeletedPromise ==
  ASSUME IndInv, SameReports, NEW t \in Threads,
         \/ \E h \in Sockets : CtlDel(t, h)
         \/ UpdateDrop(t)
         \/ FeedDelete(t)
         \/ PortDeleteSocket(t)
  PROVE  Promised
<1>1. PICK b \in Blocks : Allocated(b) /\ \E s, f : Deleting(b, s, f)
  BY DeletedIsAllocated
<1>2. \/ Interest' = Interest
      \/ \E h \in Sockets :
           /\ h \in DOMAIN Interest
           /\ Interest' = [g \in DOMAIN Interest \ {h} |-> Interest[g]]
  BY <1>1, DeleteRemoves DEF IndInv
<1> QED  BY <1>2 DEF Promised

LEMMA CtlPromise ==
  ASSUME IndInv, ReportsUse, NEW t \in Threads, Ctl(t)
  PROVE  Promised
<1>1. TypeOK /\ TreeConsistent
  BY DEF IndInv
<1>2. SameReports
  <2>1. pc[t] = "entered"
    BY DEF Ctl, CtlAdd, CtlAddFails, CtlAddAborts, CtlMod, CtlDel, CtlFails,
       InCtl
  <2> QED  BY <1>1, <2>1, CtlKeeps, EnteredReports
<1>3. ASSUME NEW h \in Sockets, NEW m \in EventMasks,
             CtlAdd(t, h, m) \/ CtlMod(t, h, m)
      PROVE  Promised
  <2>1. Promise!SetInterest(h, m \cup AlwaysReported)
    BY <1>1, <1>3, AddArms, ModArms
  <2> QED  BY <1>2, <2>1 DEF Promised
<1>4. ASSUME \/ CtlFails(t)
             \/ \E h \in Sockets : CtlAddFails(t, h) \/ CtlAddAborts(t, h)
      PROVE  Promised
  <2>1. UNCHANGED <<sock_tree, sock>>
    BY <1>4 DEF CtlFails, CtlAddFails, CtlAddAborts, sockVars
  <2> QED  BY <1>2, <2>1, SetUnchanged DEF Promised
<1> QED  BY <1>2, <1>3, <1>4, DeletedPromise DEF Ctl

\* A step that leaves the registry alone.
LEMMA KeptPromise ==
  ASSUME Interest' = Interest,
         \/ UNCHANGED <<pc, call>>
         \/ \E t \in Threads : KeepsReports(t)
  PROVE  Promised
<1>1. SameReports \/ \E t \in Threads :
                       Collected' = [Collected EXCEPT ![t] = <<>>]
  BY SameCallsReport, KeptReports
<1> QED  BY <1>1 DEF Promised

LEMMA UpdatePromise ==
  ASSUME IndInv, ReportsUse, NEW t \in Threads, Update(t)
  PROVE  Promised
<1>1. TypeOK /\ sock \in [Blocks -> SockState]
  BY DEF IndInv, TypeOK, SockType
<1>2. ASSUME NEW b \in Blocks, NEW s \in SockState,
             s.user_events = sock[b].user_events,
             sock' = [sock EXCEPT ![b] = s], UNCHANGED sock_tree
      PROVE  Interest' = Interest
  <2>1. \A c \in Blocks : sock'[c].user_events = sock[c].user_events
    BY <1>1, <1>2
  <2>2. \A h \in InSet : sock_tree[h] \in Blocks
    BY DEF IndInv, TypeOK, SockType, InSet
  <2> QED  BY <1>2, <2>1, <2>2, InterestSame
<1>3. ASSUME UpdateCancel(t) PROVE Interest' = Interest
  <2>1. PICK b \in Blocks :
          sock' = [sock EXCEPT ![b] = CancelledPoll(@)] /\ UNCHANGED sock_tree
    BY <1>3 DEF UpdateCancel
  <2>2. /\ CancelledPoll(sock[b]) \in SockState
        /\ CancelledPoll(sock[b]).user_events = sock[b].user_events
    BY <1>1, CancelledType DEF CancelledPoll, SockState
  <2> QED  BY <1>2, <2>1, <2>2
<1>4. ASSUME UpdateSubmit(t) PROVE Interest' = Interest
  <2>1. PICK b \in Blocks :
          sock' = [sock EXCEPT ![b] = Polled(@)] /\ UNCHANGED sock_tree
    BY <1>4 DEF UpdateSubmit
  <2>2. /\ Polled(sock[b]) \in SockState
        /\ Polled(sock[b]).user_events = sock[b].user_events
    BY <1>1 DEF Polled, SockState, PollStatus
  <2> QED  BY <1>2, <2>1, <2>2
<1>5. ASSUME UpdateNothing(t) \/ UpdateFails(t) \/ UpdateDone(t)
      PROVE  Interest' = Interest
  <2>1. UNCHANGED <<sock_tree, sock>>
    BY <1>5 DEF UpdateNothing, UpdateFails, UpdateDone, sockVars
  <2> QED  BY <2>1, SetUnchanged
<1>6. ASSUME UpdateDrop(t) PROVE Promised
  <2>1. SameReports
    BY <1>6, SameCallsReport DEF UpdateDrop, UpdateFirst
  <2> QED  BY <1>6, <2>1, DeletedPromise
<1> QED
  BY <1>1, <1>3, <1>4, <1>5, <1>6, UpdateKeeps, KeptPromise DEF Update

LEMMA WaitPromise ==
  ASSUME IndInv, ReportsUse, NEW t \in Threads, Wait(t)
  PROVE  Promised
<1>1. TypeOK
  BY DEF IndInv
<1>2. CASE FeedEvent(t)
  BY <1>2, FeedCollects DEF Promised
<1>3. CASE FeedDelete(t)
  BY <1>1, <1>3, FeedDeleteReports, DeletedPromise
<1>4. CASE ~FeedEvent(t) /\ ~FeedDelete(t)
  <2>1. UNCHANGED <<sock_tree, sock>>
    BY <1>4 DEF Wait, WaitStart, GqcsPackets, GqcsFails, Relock, FeedDone,
       sockVars
  <2> QED  BY <1>1, <1>4, <2>1, SetUnchanged, WaitKeeps, KeptPromise
<1> QED  BY <1>2, <1>3, <1>4

LEMMA EntryPromise ==
  ASSUME IndInv, ReportsUse, NEW t \in Threads, Enter(t) \/ Close(t)
  PROVE  Promised
<1>1. CASE PortDeleteSocket(t)
  BY <1>1, SameCallsReport, DeletedPromise DEF PortDeleteSocket
<1>2. CASE ~PortDeleteSocket(t)
  <2>1. UNCHANGED <<sock_tree, sock>>
    BY <1>2 DEF Enter, Close, CloseStart, PortClose, CloseAlone, PortFree,
       sockVars
  <2> QED  BY <2>1, SetUnchanged, EntryKeeps, KeptPromise DEF IndInv
<1> QED  BY <1>1, <1>2

LEMMA Promises ==
  ASSUME IndInv, ReportsUse, [Next]_vars
  PROVE  Promised
<1>1. ASSUME NEW b \in Blocks, Afd(b)
      PROVE  UNCHANGED <<sock_tree, sock, pc, call>>
  BY <1>1 DEF Afd, AfdReady, AfdCancelled, AfdLocalClose, AfdFails, Complete,
     sockVars
<1>2. ASSUME NEW h \in Sockets, World(h)
      PROVE  UNCHANGED <<sock_tree, sock, pc, call>>
  BY <1>2 DEF World, SetReady, CloseSocket, OpenSocket, sockVars
<1>3. ASSUME UNCHANGED vars
      PROVE  UNCHANGED <<sock_tree, sock, pc, call>>
  BY <1>3 DEF vars, sockVars
<1>4. UNCHANGED <<sock_tree, sock, pc, call>> => Promised
  BY SetUnchanged, KeptPromise
<1> QED
  BY <1>1, <1>2, <1>3, <1>4, CtlPromise, UpdatePromise, WaitPromise,
     EntryPromise DEF Next, Stopped

(* The port is a set of sockets to its callers: it reports only events     *)
(* that are armed at the time, never for a socket that was deleted or for  *)
(* an earlier registration of the same SOCKET value, each socket is        *)
(* disarmed with its report when EPOLLONESHOT asks for it, and what a      *)
(* thread found is returned whole: WepollPort implements EpollSet.         *)
THEOREM PortIsASet == Spec => ImplementsEpollSet
<1>1. Init => Promise!Init /\ ReportsUse
  <2> SUFFICES ASSUME Init PROVE Promise!Init /\ ReportsUse
    OBVIOUS
  <2>1. \A t \in Threads : call[t].events = <<>>
    BY DEF Init, NoCall
  <2>2. Interest = <<>>
    <3>1. {g \in Sockets : sock_tree[g] # NULL} = {}
      BY DEF Init
    <3> QED  BY <3>1 DEF Interest
  <2> QED  BY <2>1, <2>2 DEF Promise!Init, ReportsUse
<1>2. TypeOK /\ ReportsUse /\ [Next]_vars => ReportsUse'
  BY ReportsUseStep
<1>3. IndInv /\ ReportsUse /\ [Next]_vars => [Promise!Next]_Promise!vars
  <2> SUFFICES ASSUME IndInv, ReportsUse, [Next]_vars
               PROVE  [Promise!Next]_Promise!vars
    OBVIOUS
  <2>1. CASE Interest' = Interest /\ SameReports
    BY <2>1 DEF SameReports, Collected, Promise!vars
  <2>2. ASSUME NEW h \in Sockets, NEW m \in EventMasks,
               Promise!SetInterest(h, m \cup AlwaysReported), SameReports
        PROVE  Promise!Next
    <3>1. Promise!Arm(h, m)
      BY <2>2 DEF Promise!Arm, SameReports, Collected, AlwaysReported,
         Promise!AlwaysReported
    <3> QED  BY <3>1 DEF Promise!Next
  <2>3. ASSUME NEW h \in Sockets, h \in DOMAIN Interest, SameReports,
               Interest' = [g \in DOMAIN Interest \ {h} |-> Interest[g]]
        PROVE  Promise!Next
    <3>1. Promise!Remove(h)
      BY <2>3 DEF Promise!Remove, Promise!Members, SameReports, Collected
    <3> QED  BY <3>1 DEF Promise!Next
  <2>4. ASSUME NEW t \in Threads, NEW h \in DOMAIN Interest,
               NEW events \in SUBSET (Interest[h] \cap KnownEvents),
               Promise!Collect(t, h, events)
        PROVE  Promise!Next
    BY <2>4 DEF Promise!Next, Promise!Members, KnownEvents, Promise!KnownEvents
  <2>5. ASSUME NEW t \in Threads, Interest' = Interest,
               Collected' = [Collected EXCEPT ![t] = <<>>]
        PROVE  Promise!Next
    <3>1. Promise!Return(t)
      BY <2>5 DEF Promise!Return, Collected
    <3> QED  BY <3>1 DEF Promise!Next
  <2> QED  BY <2>1, <2>2, <2>3, <2>4, <2>5, Promises DEF Promised
<1>4. IndInv => TypeOK
  BY DEF IndInv
<1> QED
  BY <1>1, <1>2, <1>3, <1>4, Inductive, PTL
  DEF Spec, ImplementsEpollSet, Promise!Spec
=============================================================================

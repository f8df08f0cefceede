--------------------------- MODULE WepollPortProofs ---------------------------
(***************************************************************************)
(* The safety of WepollPort, for any sets of threads, sockets and blocks,  *)
(* with and without faults: it is type correct, and IndInv is inductive.   *)
(***************************************************************************)
EXTENDS WepollPort, PollGroupsProofs, SequenceTheorems, TLAPS

-----------------------------------------------------------------------------
(* Types.                                                                  *)

USE PortAssumption

LEMMA GotoType ==
  ASSUME TypeOK, NEW t \in Threads, NEW l \in Labels, Goto(t, l)
  PROVE  pc' \in [Threads -> Labels]
  BY DEF TypeOK, ThreadType, Goto

LEMMA NoCallType == NoCall \in Call
<1>1. <<>> \in Seq(Blocks) /\ <<>> \in Seq(Report) /\ 1 \in 1 .. MaxEvents
  OBVIOUS
<1> QED  BY <1>1 DEF NoCall, Call

LEMMA LeaveType ==
  ASSUME TypeOK, NEW t \in Threads, Leave(t)
  PROVE  ThreadType' /\ lock' \in Threads \cup {NULL}
  BY GotoType, NoCallType DEF TypeOK, ThreadType, Leave, Labels

LEMMA IfPollingType ==
  ASSUME TypeOK, NEW t \in Threads, port_update_events_if_polling(t)
  PROVE  ThreadType' /\ lock' \in Threads \cup {NULL}
<1>1. CASE Leave(t)
  BY <1>1, LeaveType
<1>2. CASE lock' = t /\ Goto(t, "last_update") /\ UNCHANGED call
  BY <1>2, GotoType DEF TypeOK, ThreadType, Labels
<1> QED  BY <1>1, <1>2 DEF port_update_events_if_polling

-----------------------------------------------------------------------------
(* The data the operations compute.                                        *)

GroupsType == [queue : Seq(Nat), size : Seq(Int)]

LEMMA SizeType ==
  ASSUME NEW q \in Seq(Int), NEW g, NEW n, g \in DOMAIN q => n \in Int
  PROVE  [q EXCEPT ![g] = n] \in Seq(Int)
<1>1. CASE g \in DOMAIN q
  <2>1. g \in 1 .. Len(q) /\ n \in Int
    BY <1>1
  <2> QED  BY <2>1, ExceptSeq
<1>2. CASE g \notin DOMAIN q
  <2>1. [q EXCEPT ![g] = n] = q
    BY <1>2
  <2> QED  BY <2>1
<1> QED  BY <1>1, <1>2

LEMMA AcquireType ==
  ASSUME NEW pg \in GroupsType
  PROVE  poll_group_acquire(pg) \in GroupsType /\ AcquiredGroup(pg) \in Nat
<1> DEFINE w == WithRoom(pg)
           g == AcquiredGroup(pg)
<1>1. w \in GroupsType /\ w.queue # <<>>
  <2>1. CASE NeedsNewGroup(pg)
    <3> pg.queue \in Seq(Nat) /\ pg.size \in Seq(Int)
      BY DEF GroupsType
    <3>1. Len(pg.size) + 1 \in Nat
      <4>1. Len(pg.size) \in Nat
        OBVIOUS
      <4> QED  BY <4>1
    <3> DEFINE n == Len(pg.size) + 1
    <3> HIDE DEF n
    <3>2. Append(pg.queue, n) \in Seq(Nat) /\ Append(pg.queue, n) # <<>>
      <4>1. n \in Nat
        BY <3>1 DEF n
      <4> DEFINE r == Append(pg.queue, n)
      <4>2. r \in Seq(Nat) /\ n \in Elements(r)
        BY <4>1, AppendElements DEF queue_append
      <4>3. Elements(<<>>) = {}
        BY DEF Elements
      <4> HIDE DEF r
      <4>4. r # <<>>
        BY <4>2, <4>3
      <4> QED  BY <4>2, <4>4 DEF r
    <3>3. Append(pg.size, 0) \in Seq(Int)
      OBVIOUS
    <3> QED
      BY <2>1, <3>2, <3>3
      DEF WithRoom, poll_group__new, queue_append, GroupsType, n
  <2>2. CASE ~NeedsNewGroup(pg)
    BY <2>2 DEF WithRoom, NeedsNewGroup
  <2> QED  BY <2>1, <2>2
<1>2. g \in Nat
  BY <1>1, LastElement DEF AcquiredGroup, GroupsType
<1>3. w.size[g] + 1 \in Int \/ g \notin DOMAIN w.size
  BY <1>1 DEF GroupsType
<1> HIDE DEF w, g
<1>4. [w.size EXCEPT ![g] = w.size[g] + 1] \in Seq(Int)
  <2>1. w.size \in Seq(Int)
    BY <1>1 DEF GroupsType
  <2> QED  BY <1>3, <2>1, SizeType
<1>5. queue_move_to_start(w.queue, g) \in Seq(Nat)
  BY <1>1, <1>2, MoveElements DEF GroupsType
<1> QED  BY <1>1, <1>2, <1>4, <1>5 DEF poll_group_acquire, GroupsType, w, g

LEMMA ReleaseType ==
  ASSUME NEW pg \in GroupsType, NEW g \in Nat
  PROVE  poll_group_release(pg, g) \in GroupsType
<1>1. queue_move_to_end(pg.queue, g) \in Seq(Nat)
  BY MoveElements DEF GroupsType
<1>2. [pg.size EXCEPT ![g] = @ - 1] \in Seq(Int)
  <2>1. pg.size \in Seq(Int)
    BY DEF GroupsType
  <2>2. g \in DOMAIN pg.size => pg.size[g] - 1 \in Int
    BY <2>1
  <2> QED  BY <2>1, <2>2, SizeType
<1> QED  BY <1>1, <1>2 DEF poll_group_release, GroupsType

LEMMA EventTypes ==
  ASSUME NEW m
  PROVE  EpollToAfd(m) \subseteq AfdEvents /\ AfdToEpoll(m) \subseteq KnownEvents
<1>1. EpollToAfd(m) \subseteq AfdEvents
  BY DEF EpollToAfd, AfdEvents, When
<1>2. AfdToEpoll(m) \subseteq KnownEvents
  BY DEF AfdToEpoll, KnownEvents, When, Disconnected
<1> QED  BY <1>1, <1>2

LEMMA QueueTypes ==
  ASSUME TypeOK, NEW b \in Blocks
  PROVE  /\ queue_remove(sock_update_queue, b) \in Seq(Blocks)
         /\ queue_remove(sock_deleted_queue, b) \in Seq(Blocks)
         /\ queue_append(sock_update_queue, b) \in Seq(Blocks)
  BY RemoveType, AppendElements DEF TypeOK, SockType

LEMMA RequestUpdateType ==
  ASSUME TypeOK, NEW b \in Blocks, port_request_socket_update(b)
  PROVE  /\ sock_update_queue' \in Seq(Blocks)
         /\ sock_deleted_queue' \in Seq(Blocks)
  BY QueueTypes DEF port_request_socket_update, TypeOK, SockType

LEMMA FreeBlockType == FreeBlock \in SockState
  BY DEF FreeBlock, SockState, PollStatus, EpollMask

LEMMA CancelType ==
  ASSUME TypeOK, NEW b \in Blocks, afd_cancel_poll(b)
  PROVE  io' \in [Blocks -> IoBlock]
  BY SMTT(30) DEF afd_cancel_poll, TypeOK, DriverType, IoBlock, Requests

LEMMA CancelledType ==
  ASSUME NEW s \in SockState
  PROVE  CancelledPoll(s) \in SockState
  BY DEF CancelledPoll, SockState, PollStatus, EpollMask

LEMMA PolledType ==
  ASSUME NEW s \in SockState
  PROVE  Polled(s) \in SockState
<1> DEFINE e == s.user_events
<1>1. e \in EpollMask
  BY DEF SockState
<1> HIDE DEF e
<1>2. [s EXCEPT !.poll_status = "PENDING", !.pending_events = e] \in SockState
  BY <1>1 DEF SockState, PollStatus
<1> QED  BY <1>2 DEF Polled, e

LEMMA sock__deleteType ==
  ASSUME TypeOK, NEW b \in Blocks, NEW s \in SockState, NEW f,
         sock__delete(b, s, f)
  PROVE  SockType'
<1>1. /\ sock_tree \in [Sockets -> Blocks \cup {NULL}]
      /\ sock \in [Blocks -> SockState] /\ poll_groups \in GroupsType
  BY DEF TypeOK, SockType, GroupsType
<1>2. sock_tree' \in [Sockets -> Blocks \cup {NULL}]
  BY <1>1 DEF sock__delete
<1>3. CASE MayFree(s, f)
  <2>1. /\ sock_update_queue' \in Seq(Blocks)
        /\ sock_deleted_queue' \in Seq(Blocks)
    BY <1>3, QueueTypes DEF sock__delete, Dequeue
  <2>2. poll_groups' \in GroupsType
    <3>1. s.poll_group \in Nat
      BY DEF SockState
    <3> QED  BY <1>1, <1>3, <3>1, ReleaseType DEF sock__delete
  <2>3. sock' \in [Blocks -> SockState]
    BY <1>1, <1>3, FreeBlockType DEF sock__delete
  <2> QED  BY <1>2, <2>1, <2>2, <2>3 DEF SockType, GroupsType
<1>4. CASE ~MayFree(s, f)
  <2>1. \A q \in Seq(Blocks) :
          /\ AfterCancelUpdate(q, b, s) \in Seq(Blocks)
          /\ queue_append(q, b) \in Seq(Blocks)
    BY RemoveType, AppendElements DEF AfterCancelUpdate
  <2>2. /\ sock_update_queue' \in Seq(Blocks)
        /\ sock_deleted_queue' \in Seq(Blocks)
    BY <1>4, <2>1 DEF sock__delete, TypeOK, SockType
  <2>3. [s EXCEPT !.delete_pending = TRUE] \in SockState
    BY DEF SockState
  <2>4. sock' \in [Blocks -> SockState] /\ poll_groups' = poll_groups
    BY <1>1, <1>4, <2>3 DEF sock__delete
  <2> QED  BY <1>1, <1>2, <2>2, <2>4 DEF SockType, GroupsType
<1> QED  BY <1>3, <1>4

LEMMA CancelAndDeleteType ==
  ASSUME TypeOK, NEW b \in Blocks, NEW f, CancelAndDelete(b, f)
  PROVE  SockType' /\ io' \in [Blocks -> IoBlock]
<1>1. sock[b] \in SockState /\ CancelledPoll(sock[b]) \in SockState
  BY CancelledType DEF TypeOK, SockType
<1>2. CASE afd_cancel_poll(b) /\ sock__delete(b, CancelledPoll(sock[b]), f)
  BY <1>1, <1>2, CancelType, sock__deleteType
<1>3. CASE UNCHANGED io /\ sock__delete(b, sock[b], f)
  BY <1>1, <1>3, sock__deleteType DEF TypeOK, DriverType
<1> QED  BY <1>2, <1>3 DEF CancelAndDelete

-----------------------------------------------------------------------------
(* Each operation.                                                         *)

LEMMA EnterTypes ==
  ASSUME TypeOK, NEW t \in Threads, Enter(t) \/ CloseStart(t)
  PROVE  TypeOK'
<1>1. pc' \in [Threads -> Labels]
  BY GotoType DEF Enter, CloseStart, Labels
<1> QED
  BY <1>1 DEF Enter, CloseStart, TypeOK, PortType, SockType, DriverType,
     WorldType, ThreadType, portVars, sockVars, driverVars, worldVars,
     Lifecycles

LEMMA CtlAddType ==
  ASSUME TypeOK, NEW t \in Threads, NEW h \in Sockets, NEW m \in EventMasks,
         CtlAdd(t, h, m)
  PROVE  TypeOK'
<1>1. ThreadType' /\ lock' \in Threads \cup {NULL}
  BY IfPollingType DEF CtlAdd
<1>2. /\ poll_groups \in GroupsType /\ sock \in [Blocks -> SockState]
      /\ sock_tree \in [Sockets -> Blocks \cup {NULL}]
  BY DEF TypeOK, SockType, GroupsType
<1>3. poll_groups' \in GroupsType /\ AcquiredGroup(poll_groups) \in Nat
  BY <1>2, AcquireType DEF CtlAdd
<1>4. PICK b \in Blocks :
        /\ sock' = [sock EXCEPT ![b] =
             [FreeBlock EXCEPT !.socket = h,
                               !.poll_group = AcquiredGroup(poll_groups),
                               !.user_events = m \cup AlwaysReported]]
        /\ sock_tree' = [sock_tree EXCEPT ![h] = b]
        /\ port_request_socket_update(b)
  BY DEF CtlAdd
<1>5. m \cup AlwaysReported \in EpollMask
  BY PortAssumption DEF EpollMask, AlwaysReported, KnownEvents
<1>6. [FreeBlock EXCEPT !.socket = h,
                        !.poll_group = AcquiredGroup(poll_groups),
                        !.user_events = m \cup AlwaysReported] \in SockState
  BY <1>3, <1>5, FreeBlockType DEF FreeBlock, SockState
<1>7. SockType'
  BY <1>2, <1>3, <1>4, <1>6, RequestUpdateType DEF SockType, GroupsType
<1> QED
  BY <1>1, <1>7 DEF CtlAdd, TypeOK, PortType, DriverType, WorldType,
     driverVars, worldVars

LEMMA CtlAddFailsType ==
  ASSUME TypeOK, NEW t \in Threads, NEW h \in Sockets, CtlAddFails(t, h)
  PROVE  TypeOK'
<1>1. poll_groups \in GroupsType
  BY DEF TypeOK, SockType, GroupsType
<1>2. /\ poll_group_acquire(poll_groups) \in GroupsType
      /\ AcquiredGroup(poll_groups) \in Nat
  BY <1>1, AcquireType
<1>3. poll_groups' \in GroupsType
  BY <1>2, ReleaseType DEF CtlAddFails, PlaceGivenBack
<1>4. ThreadType' /\ lock' \in Threads \cup {NULL}
  BY LeaveType DEF CtlAddFails
<1> QED
  BY <1>3, <1>4 DEF CtlAddFails, TypeOK, PortType, SockType, DriverType,
     WorldType, driverVars, worldVars, GroupsType

LEMMA CtlModType ==
  ASSUME TypeOK, NEW t \in Threads, NEW h \in Sockets, NEW m \in EventMasks,
         CtlMod(t, h, m)
  PROVE  TypeOK'
<1> DEFINE b == sock_tree[h]
<1>1. b \in Blocks /\ sock \in [Blocks -> SockState]
  BY DEF CtlMod, TypeOK, SockType
<1>2. m \cup AlwaysReported \in EpollMask
  BY PortAssumption DEF EpollMask, AlwaysReported, KnownEvents
<1>3. sock' \in [Blocks -> SockState]
  <2>1. [sock[b] EXCEPT !.user_events = m \cup AlwaysReported] \in SockState
    BY ZenonT(40), <1>1, <1>2 DEF SockState
  <2> QED  BY <1>1, <2>1 DEF CtlMod
<1>4. sock_update_queue' \in Seq(Blocks) /\ sock_deleted_queue' \in Seq(Blocks)
  BY <1>1, RequestUpdateType DEF CtlMod, TypeOK, SockType
<1>5. ThreadType' /\ lock' \in Threads \cup {NULL}
  BY IfPollingType DEF CtlMod
<1> QED
  BY <1>3, <1>4, <1>5 DEF CtlMod, TypeOK, PortType, SockType, DriverType,
     WorldType, driverVars, worldVars

LEMMA CtlDelType ==
  ASSUME TypeOK, NEW t \in Threads, NEW h \in Sockets, CtlDel(t, h)
  PROVE  TypeOK'
<1>1. sock_tree[h] \in Blocks
  BY DEF CtlDel, TypeOK, SockType
<1>2. SockType' /\ io' \in [Blocks -> IoBlock]
  BY <1>1, CancelAndDeleteType DEF CtlDel
<1>3. ThreadType' /\ lock' \in Threads \cup {NULL}
  BY LeaveType DEF CtlDel
<1> QED
  BY <1>2, <1>3 DEF CtlDel, TypeOK, PortType, DriverType, WorldType, worldVars

LEMMA CtlOtherType ==
  ASSUME TypeOK, NEW t \in Threads,
         CtlFails(t) \/ \E h \in Sockets : CtlAddAborts(t, h)
  PROVE  TypeOK'
<1>1. CASE CtlFails(t)
  BY <1>1, LeaveType DEF CtlFails, TypeOK, PortType, SockType, DriverType,
     WorldType, sockVars, driverVars, worldVars
<1>2. CASE \E h \in Sockets : CtlAddAborts(t, h)
  BY <1>2 DEF CtlAddAborts, TypeOK, PortType, SockType, DriverType,
     WorldType, ThreadType, sockVars, driverVars, worldVars, Lifecycles
<1> QED  BY <1>1, <1>2

LEMMA UpdateType ==
  ASSUME TypeOK, NEW t \in Threads, Update(t)
  PROVE  TypeOK'
<1> DEFINE Others == PortType' /\ WorldType' /\ ThreadType'
                       /\ completions' \in Seq(Blocks)
<1>1. ASSUME NEW b \in Blocks, UpdateFirst(t, b)
      PROVE  Others
  BY <1>1 DEF UpdateFirst, TypeOK, PortType, WorldType, ThreadType, DriverType,
     portVars, worldVars
<1>2. ASSUME NEW b \in Blocks, Dequeue(b)
      PROVE  /\ sock_update_queue' \in Seq(Blocks)
             /\ sock_deleted_queue' \in Seq(Blocks)
  BY <1>2, QueueTypes DEF Dequeue
<1>3. CASE UpdateNothing(t)
  BY <1>1, <1>2, <1>3 DEF UpdateNothing, TypeOK, SockType, DriverType
<1>4. CASE UpdateCancel(t)
  <2>1. PICK b \in Blocks :
          /\ UpdateFirst(t, b) /\ Dequeue(b) /\ afd_cancel_poll(b)
          /\ sock' = [sock EXCEPT ![b] = CancelledPoll(@)]
          /\ UNCHANGED <<sock_tree, poll_groups>>
    BY <1>4 DEF UpdateCancel
  <2>2. sock' \in [Blocks -> SockState]
    BY <2>1, CancelledType DEF TypeOK, SockType
  <2> QED  BY <1>1, <1>2, <2>1, <2>2, CancelType DEF TypeOK, SockType, DriverType
<1>5. CASE UpdateSubmit(t)
  <2>1. PICK b \in Blocks :
          /\ UpdateFirst(t, b) /\ Dequeue(b)
          /\ io' = [io EXCEPT ![b] =
               [request |-> "pending", Status |-> "PENDING",
                Events |-> EpollToAfd(sock[b].user_events)]]
          /\ sock' = [sock EXCEPT ![b] = Polled(@)]
          /\ UNCHANGED <<sock_tree, poll_groups>>
    BY <1>5 DEF UpdateSubmit
  <2>2. sock' \in [Blocks -> SockState]
    BY <2>1, PolledType DEF TypeOK, SockType
  <2>3. io' \in [Blocks -> IoBlock]
    BY <2>1, EventTypes DEF TypeOK, DriverType, IoBlock, Requests
  <2> QED  BY <1>1, <1>2, <2>1, <2>2, <2>3 DEF TypeOK, SockType, DriverType
<1>6. CASE UpdateDrop(t)
  <2>1. PICK b \in Blocks :
          UpdateFirst(t, b) /\ sock__delete(b, sock[b], FALSE) /\ UNCHANGED io
    BY <1>6 DEF UpdateDrop
  <2>2. SockType'
    BY <2>1, sock__deleteType DEF TypeOK, SockType
  <2> QED  BY <1>1, <2>1, <2>2 DEF TypeOK, DriverType
<1>7. CASE UpdateFails(t)
  <2>1. ThreadType' /\ lock' \in Threads \cup {NULL}
    BY <1>7, LeaveType, IfPollingType DEF UpdateFails
  <2> QED
    BY <1>7, <2>1 DEF UpdateFails, StillInFront, TypeOK, PortType, SockType,
       DriverType, WorldType, sockVars, driverVars, worldVars
<1>8. CASE UpdateDone(t)
  <2>1. ThreadType' /\ lock' \in Threads \cup {NULL}
    <3>1. CASE pc[t] = "update"
      BY <1>8, <3>1, GotoType DEF UpdateDone, TypeOK, ThreadType, Labels
    <3>2. CASE pc[t] # "update"
      BY <1>8, <3>2, LeaveType DEF UpdateDone
    <3> QED  BY <3>1, <3>2
  <2>2. active_poll_count' \in Int
    BY <1>8 DEF UpdateDone, TypeOK, PortType
  <2> QED
    BY <1>8, <2>1, <2>2 DEF UpdateDone, TypeOK, PortType, SockType, DriverType,
       WorldType, sockVars, driverVars, worldVars
<1> QED  BY <1>3, <1>4, <1>5, <1>6, <1>7, <1>8 DEF Update

LEMMA GqcsType ==
  ASSUME TypeOK, NEW t \in Threads, GqcsPackets(t) \/ GqcsFails(t)
  PROVE  TypeOK'
<1>1. pc' \in [Threads -> Labels]
  BY GotoType DEF GqcsPackets, GqcsFails, Labels
<1>2. call[t] \in Call /\ completions \in Seq(Blocks)
  BY DEF TypeOK, ThreadType, DriverType
<1>3. CASE GqcsPackets(t)
  <2> DEFINE n == IF Len(completions) < call[t].maxevents
                  THEN Len(completions) ELSE call[t].maxevents
  <2>1. n \in Nat /\ n <= Len(completions)
    BY <1>2, PortAssumption DEF Call
  <2> HIDE DEF n
  <2>2. /\ SubSeq(completions, 1, n) \in Seq(Blocks)
        /\ SubSeq(completions, n + 1, Len(completions)) \in Seq(Blocks)
    BY <1>2, <2>1
  <2>3. /\ call' = [call EXCEPT ![t].batch = SubSeq(completions, 1, n)]
        /\ completions' = SubSeq(completions, n + 1, Len(completions))
    BY <1>3 DEF GqcsPackets, n
  <2>4. call' \in [Threads -> Call]
    BY ZenonT(40), <2>2, <2>3 DEF TypeOK, ThreadType, Call
  <2> QED
    BY <1>1, <1>3, <2>2, <2>3, <2>4 DEF GqcsPackets, TypeOK, PortType,
       SockType, DriverType, WorldType, ThreadType, portVars, sockVars,
       worldVars
<1>4. CASE GqcsFails(t)
  <2>1. call' \in [Threads -> Call]
    BY ZenonT(40), <1>4 DEF GqcsFails, TypeOK, ThreadType, Call
  <2> QED
    BY <1>1, <1>4, <2>1 DEF GqcsFails, TypeOK, PortType, SockType, DriverType,
       WorldType, ThreadType, portVars, sockVars, driverVars, worldVars
<1> QED  BY <1>3, <1>4

LEMMA WaitStartType ==
  ASSUME TypeOK, NEW t \in Threads, NEW w \in Timeouts,
         NEW n \in 1 .. MaxEvents, WaitStart(t, w, n)
  PROVE  TypeOK'
<1>1. pc' \in [Threads -> Labels]
  BY GotoType DEF WaitStart, Labels
<1>2. call' \in [Threads -> Call]
  BY ZenonT(40) DEF WaitStart, TypeOK, ThreadType, Call
<1> QED
  BY <1>1, <1>2 DEF WaitStart, TypeOK, PortType, SockType, DriverType,
     WorldType, ThreadType, sockVars, driverVars, worldVars

LEMMA RelockType ==
  ASSUME TypeOK, NEW t \in Threads, Relock(t) \/ FeedDone(t)
  PROVE  TypeOK'
<1>1. ThreadType' /\ lock' \in Threads \cup {NULL}
  BY GotoType, IfPollingType DEF Relock, FeedDone, TypeOK, ThreadType, PortType,
     Labels
<1>2. active_poll_count' \in Int
  BY DEF Relock, FeedDone, StopPolling, TypeOK, PortType
<1> QED
  BY <1>1, <1>2 DEF Relock, FeedDone, TypeOK, PortType, SockType, DriverType,
     WorldType, sockVars, driverVars, worldVars

LEMMA ReturnedType ==
  ASSUME TypeOK, NEW b \in Blocks
  PROVE  /\ sock[b] \in SockState
         /\ Returned(b) \in SockState
         /\ AfterReport(Returned(b)) \in SockState
<1>1. sock[b] \in SockState
  BY DEF TypeOK, SockType
<1>2. Returned(b) \in SockState
  BY <1>1 DEF Returned, SockState, PollStatus, EpollMask
<1>3. \A s \in SockState : AfterReport(s) \in SockState
  BY DEF AfterReport, SockState, EpollMask
<1> QED  BY <1>1, <1>2, <1>3

LEMMA ReportedType ==
  ASSUME TypeOK, NEW b \in Blocks
  PROVE  Reported(b) \subseteq KnownEvents
<1>1. {"EPOLLERR"} \subseteq KnownEvents
  BY DEF KnownEvents
<1> QED  BY <1>1, EventTypes DEF Reported

LEMMA FeedType ==
  ASSUME TypeOK, NEW t \in Threads, FeedDelete(t) \/ FeedEvent(t)
  PROVE  TypeOK'
<1>1. PICK b \in Blocks :
        /\ FeedFirst(t, b)
        /\ \/ /\ sock__delete(b, Returned(b), FALSE)
              /\ call' = [call EXCEPT ![t].batch = Tail(@)]
           \/ LET events == Reported(b) \cap sock[b].user_events IN
              /\ port_request_socket_update(b)
              /\ UNCHANGED <<sock_tree, poll_groups>>
              /\ \/ sock' = [sock EXCEPT ![b] = Returned(b)]
                 \/ sock' = [sock EXCEPT ![b] = AfterReport(Returned(b))]
              /\ \/ call' = [call EXCEPT ![t].batch = Tail(@)]
                 \/ call' = [call EXCEPT
                      ![t].batch = Tail(@),
                      ![t].events = Append(@, [socket |-> sock[b].socket,
                                               events |-> events])]
  BY DEF FeedDelete, FeedEvent
<1>2. call[t] \in Call /\ Tail(call[t].batch) \in Seq(Blocks)
  BY <1>1 DEF TypeOK, ThreadType, Call, FeedFirst
<1>3. io' \in [Blocks -> IoBlock] /\ WorldType' /\ PortType'
        /\ completions' \in Seq(Blocks) /\ pc' \in [Threads -> Labels]
  <2>1. io' = [io EXCEPT ![b].request = "none"]
    BY <1>1 DEF FeedFirst
  <2>2. io' \in [Blocks -> IoBlock]
    BY <2>1 DEF TypeOK, DriverType, IoBlock, Requests
  <2> QED
    BY <1>1, <2>2 DEF FeedFirst, TypeOK, DriverType, WorldType, PortType,
       ThreadType, worldVars, portVars
<1>4. SockType'
  <2>1. CASE sock__delete(b, Returned(b), FALSE)
    BY <2>1, ReturnedType, sock__deleteType
  <2>2. CASE /\ port_request_socket_update(b)
             /\ UNCHANGED <<sock_tree, poll_groups>>
             /\ \/ sock' = [sock EXCEPT ![b] = Returned(b)]
                \/ sock' = [sock EXCEPT ![b] = AfterReport(Returned(b))]
    <3>1. sock' \in [Blocks -> SockState]
      BY SMTT(30), <2>2, ReturnedType DEF TypeOK, SockType
    <3> QED  BY <2>2, <3>1, RequestUpdateType DEF TypeOK, SockType
  <2> QED  BY <1>1, <2>1, <2>2
<1>5. call' \in [Threads -> Call]
  <2> DEFINE r == [socket |-> sock[b].socket,
                   events |-> Reported(b) \cap sock[b].user_events]
             tail == Tail(call[t].batch)
             more == Append(call[t].events, r)
  <2>1. r \in Report
    BY ReturnedType, ReportedType DEF Report, SockState
  <2>2. more \in Seq(Report)
    <3> HIDE DEF r
    <3> QED  BY <1>2, <2>1 DEF Call
  <2>3. tail \in Seq(Blocks)
    BY <1>2
  <2>4. \/ call' = [call EXCEPT ![t].batch = tail]
        \/ call' = [call EXCEPT ![t].batch = tail, ![t].events = more]
    BY <1>1
  <2> HIDE DEF r, tail, more
  <2>5. call \in [Threads -> Call]
    BY DEF TypeOK, ThreadType
  <2>6. CASE call' = [call EXCEPT ![t].batch = tail]
    BY ZenonT(40), <2>3, <2>5, <2>6 DEF Call
  <2>7. CASE call' = [call EXCEPT ![t].batch = tail, ![t].events = more]
    BY ZenonT(40), <2>2, <2>3, <2>5, <2>7 DEF Call
  <2> QED  BY <2>4, <2>6, <2>7
<1> QED  BY <1>3, <1>4, <1>5 DEF TypeOK, DriverType, ThreadType

LEMMA CloseType ==
  ASSUME TypeOK, NEW t \in Threads, Close(t)
  PROVE  TypeOK'
<1>1. CASE CloseStart(t)
  BY <1>1, EnterTypes
<1>2. CASE PortClose(t) \/ CloseAlone(t)
  <2>1. pc' \in [Threads -> Labels] /\ <<>> \in Seq(Blocks)
    BY <1>2, GotoType DEF PortClose, CloseAlone, Labels
  <2> QED
    BY <1>2, <2>1 DEF PortClose, CloseAlone, TypeOK, PortType, SockType,
       DriverType, WorldType, ThreadType, sockVars, driverVars, worldVars,
       Lifecycles
<1>3. CASE PortDeleteSocket(t)
  <2>1. PICK b \in Blocks : CancelAndDelete(b, TRUE)
    <3>1. CASE \E h \in Sockets :
                 sock_tree[h] # NULL /\ CancelAndDelete(sock_tree[h], TRUE)
      BY <3>1 DEF TypeOK, SockType
    <3>2. CASE /\ sock_deleted_queue # <<>>
               /\ CancelAndDelete(Head(sock_deleted_queue), TRUE)
      <4>1. Head(sock_deleted_queue) \in Blocks
        BY <3>2 DEF TypeOK, SockType
      <4> QED  BY <3>2, <4>1
    <3> QED  BY <1>3, <3>1, <3>2 DEF PortDeleteSocket
  <2>2. SockType' /\ io' \in [Blocks -> IoBlock]
    BY <2>1, CancelAndDeleteType
  <2> QED
    BY <1>3, <2>2 DEF PortDeleteSocket, TypeOK, PortType, DriverType,
       WorldType, ThreadType, portVars, worldVars
<1>4. CASE PortFree(t)
  <2>1. pc' \in [Threads -> Labels] /\ NoGroups \in GroupsType
    BY <1>4, GotoType DEF PortFree, Labels, NoGroups, GroupsType
  <2> QED
    BY <1>4, <2>1 DEF PortFree, TypeOK, PortType, SockType, DriverType,
       WorldType, ThreadType, driverVars, worldVars, Lifecycles, GroupsType
<1> QED  BY <1>1, <1>2, <1>3, <1>4 DEF Close

LEMMA CompleteType ==
  ASSUME TypeOK, NEW b \in Blocks,
         NEW status \in {"SUCCESS", "CANCELLED", "FAILED"},
         NEW events \in SUBSET AfdEvents, Complete(b, status, events)
  PROVE  TypeOK'
<1>1. io' \in [Blocks -> IoBlock]
  BY DEF Complete, TypeOK, DriverType, IoBlock, Requests
<1>2. completions' \in Seq(Blocks)
  BY DEF Complete, TypeOK, DriverType
<1> QED
  BY <1>1, <1>2 DEF Complete, TypeOK, PortType, SockType, DriverType,
     WorldType, ThreadType, portVars, sockVars, worldVars

LEMMA AfdType ==
  ASSUME TypeOK, NEW b \in Blocks, Afd(b)
  PROVE  TypeOK'
<1>1. io[b].Events \subseteq AfdEvents
  BY DEF TypeOK, DriverType, IoBlock
<1>2. PICK status \in {"SUCCESS", "CANCELLED", "FAILED"},
           events \in SUBSET AfdEvents : Complete(b, status, events)
  <2>1. CASE AfdReady(b)
    BY <1>1, <2>1 DEF AfdReady
  <2>2. CASE AfdCancelled(b) \/ AfdFails(b)
    BY <1>1, <2>2 DEF AfdCancelled, AfdFails
  <2>3. CASE AfdLocalClose(b)
    BY <2>3 DEF AfdLocalClose, AfdEvents
  <2> QED  BY <2>1, <2>2, <2>3 DEF Afd
<1> QED  BY <1>2, CompleteType

LEMMA WorldStepType ==
  ASSUME TypeOK, NEW h \in Sockets, World(h)
  PROVE  TypeOK'
<1>1. io' \in [Blocks -> IoBlock]
  <2>1. CASE CloseSocket(h)
    <3>1. \A b \in Blocks : [io[b] EXCEPT !.request = "orphaned"] \in IoBlock
      BY DEF TypeOK, DriverType, IoBlock, Requests
    <3> QED  BY <2>1, <3>1 DEF CloseSocket, TypeOK, DriverType
  <2>2. CASE SetReady(h) \/ OpenSocket(h)
    BY <2>2 DEF SetReady, OpenSocket, driverVars, TypeOK, DriverType
  <2> QED  BY <2>1, <2>2 DEF World
<1>2. open' \subseteq Sockets /\ ready' \in [Sockets -> SUBSET Conditions]
  BY DEF World, SetReady, CloseSocket, OpenSocket, TypeOK, WorldType
<1> QED
  BY <1>1, <1>2 DEF World, SetReady, CloseSocket, OpenSocket, TypeOK,
     PortType, SockType, DriverType, WorldType, ThreadType, portVars,
     sockVars, driverVars

-----------------------------------------------------------------------------
LEMMA InitType == Init => TypeOK
<1> SUFFICES ASSUME Init PROVE TypeOK
  OBVIOUS
<1>1. <<>> \in Seq(Blocks) /\ NoGroups \in GroupsType
  BY DEF NoGroups, GroupsType
<1>2. NoRequest \in IoBlock
  BY DEF NoRequest, IoBlock, Requests
<1> QED
  BY <1>1, <1>2, FreeBlockType, NoCallType DEF Init, TypeOK, PortType,
     SockType, DriverType, WorldType, ThreadType, Lifecycles, Labels, GroupsType

LEMMA StepType == TypeOK /\ [Next]_vars => TypeOK'
<1> SUFFICES ASSUME TypeOK, [Next]_vars PROVE TypeOK'
  OBVIOUS
<1>1. ASSUME NEW t \in Threads,
             Enter(t) \/ Ctl(t) \/ Update(t) \/ Wait(t) \/ Close(t)
      PROVE  TypeOK'
  <2>1. CASE Enter(t)
    BY <2>1, EnterTypes
  <2>2. CASE Ctl(t)
    BY <2>2, CtlAddType, CtlModType, CtlAddFailsType, CtlDelType, CtlOtherType
    DEF Ctl
  <2>3. CASE Update(t)
    BY <2>3, UpdateType
  <2>4. CASE Wait(t)
    BY <2>4, WaitStartType, GqcsType, RelockType, FeedType DEF Wait
  <2>5. CASE Close(t)
    BY <2>5, CloseType
  <2> QED  BY <1>1, <2>1, <2>2, <2>3, <2>4, <2>5
<1>2. CASE UNCHANGED vars
  BY <1>2 DEF vars, portVars, sockVars, driverVars, worldVars, TypeOK,
     PortType, SockType, DriverType, WorldType, ThreadType
<1> QED  BY <1>1, <1>2, AfdType, WorldStepType DEF Next, Stopped

(* Whatever the number of threads, sockets and blocks, and whichever calls *)
(* and driver operations fail, every variable of the port keeps its type.  *)
THEOREM TypeCorrect == Spec => []TypeOK
  BY InitType, StepType, PTL DEF Spec

-----------------------------------------------------------------------------
(* The life cycle of the port.                                             *)

\* A thread that is inside a call goes on, or the port aborts.
MovesOn(t) ==
  /\ pc[t] \notin {"idle", "deleting"}
  /\ lifecycle' \in {lifecycle, "aborted"}
  /\ \E l \in Labels \ {"deleting"} : pc' = [pc EXCEPT ![t] = l]

LEMMA GotoMoves ==
  ASSUME NEW t \in Threads, NEW l \in Labels \ {"deleting"}, Goto(t, l),
         pc[t] \notin {"idle", "deleting"},
         lifecycle' \in {lifecycle, "aborted"}
  PROVE  MovesOn(t)
  BY DEF Goto, MovesOn

LEMMA ReturnsMove ==
  ASSUME NEW t \in Threads,
         pc[t] \notin {"idle", "deleting"}, lifecycle' = lifecycle,
         Leave(t) \/ port_update_events_if_polling(t)
  PROVE  MovesOn(t)
<1>1. Goto(t, "idle") \/ Goto(t, "last_update")
  BY DEF Leave, port_update_events_if_polling
<1> QED  BY <1>1, GotoMoves DEF Labels

LEMMA CtlMoves ==
  ASSUME TypeOK, NEW t \in Threads, Ctl(t)
  PROVE  MovesOn(t)
<1>1. pc[t] = "entered" /\ pc \in [Threads -> Labels]
  BY DEF Ctl, CtlAdd, CtlAddFails, CtlAddAborts, CtlMod, CtlDel, CtlFails,
     InCtl, TypeOK, ThreadType
<1>2. \/ lifecycle' = lifecycle
         /\ (Leave(t) \/ port_update_events_if_polling(t))
      \/ lifecycle' = "aborted" /\ pc' = pc
  BY DEF Ctl, CtlAdd, CtlAddFails, CtlAddAborts, CtlMod, CtlDel, CtlFails
<1>3. pc' = pc => pc' = [pc EXCEPT ![t] = "entered"]
  BY <1>1
<1> QED  BY <1>1, <1>2, <1>3, ReturnsMove DEF MovesOn, Labels

LEMMA UpdateMoves ==
  ASSUME TypeOK, NEW t \in Threads, Update(t)
  PROVE  UNCHANGED <<lifecycle, pc>> \/ MovesOn(t)
<1>1. ASSUME NEW b \in Blocks, UpdateFirst(t, b)
      PROVE  UNCHANGED <<lifecycle, pc>>
  BY <1>1 DEF UpdateFirst, portVars
<1>2. CASE UpdateFails(t) \/ UpdateDone(t)
  <2>1. pc[t] \in {"update", "last_update"} /\ lifecycle' = lifecycle
    BY <1>2 DEF UpdateFails, UpdateDone, InUpdate
  <2>2. Leave(t) \/ port_update_events_if_polling(t) \/ Goto(t, "gqcs")
    BY <1>2 DEF UpdateFails, UpdateDone
  <2> QED  BY <2>1, <2>2, ReturnsMove, GotoMoves DEF Labels
<1>3. CASE UpdateNothing(t) \/ UpdateCancel(t) \/ UpdateSubmit(t)
             \/ UpdateDrop(t)
  BY <1>1, <1>3 DEF UpdateNothing, UpdateCancel, UpdateSubmit, UpdateDrop
<1> QED  BY <1>2, <1>3 DEF Update

LEMMA WaitMoves ==
  ASSUME TypeOK, NEW t \in Threads, Wait(t)
  PROVE  UNCHANGED <<lifecycle, pc>> \/ MovesOn(t)
<1>1. ASSUME NEW b \in Blocks, FeedFirst(t, b)
      PROVE  UNCHANGED <<lifecycle, pc>>
  BY <1>1 DEF FeedFirst, portVars
<1>2. CASE FeedDelete(t) \/ FeedEvent(t)
  BY <1>1, <1>2 DEF FeedDelete, FeedEvent
<1>3. CASE \E w \in Timeouts, n \in 1 .. MaxEvents : WaitStart(t, w, n)
  BY <1>3, GotoMoves DEF WaitStart, InCtl, Labels
<1>4. CASE GqcsPackets(t) \/ GqcsFails(t)
  BY <1>4, GotoMoves DEF GqcsPackets, GqcsFails, portVars, Labels
<1>5. CASE Relock(t)
  BY <1>5, GotoMoves, ReturnsMove DEF Relock, Labels
<1>6. CASE FeedDone(t)
  BY <1>6, GotoMoves, ReturnsMove DEF FeedDone, Labels
<1> QED  BY <1>2, <1>3, <1>4, <1>5, <1>6 DEF Wait

LEMMA PortMoves ==
  ASSUME TypeOK, [Next]_vars
  PROVE  \/ UNCHANGED <<lifecycle, pc>>
         \/ \E t \in Threads : \/ MovesOn(t) \/ Enter(t) \/ CloseStart(t)
                               \/ CloseAlone(t) \/ PortFree(t)
<1>1. ASSUME NEW t \in Threads, PortClose(t)
      PROVE  MovesOn(t)
  BY <1>1, GotoMoves DEF PortClose, CloseReady, Labels
<1>2. ASSUME NEW t \in Threads, PortDeleteSocket(t)
      PROVE  UNCHANGED <<lifecycle, pc>>
  BY <1>2 DEF PortDeleteSocket, portVars
<1>3. ASSUME NEW b \in Blocks, Afd(b)
      PROVE  UNCHANGED <<lifecycle, pc>>
  BY <1>3 DEF Afd, AfdReady, AfdCancelled, AfdLocalClose, AfdFails, Complete,
     portVars
<1>4. ASSUME NEW h \in Sockets, World(h)
      PROVE  UNCHANGED <<lifecycle, pc>>
  BY <1>4 DEF World, SetReady, CloseSocket, OpenSocket, portVars
<1>5. UNCHANGED vars => UNCHANGED <<lifecycle, pc>>
  BY DEF vars, portVars
<1>6. ASSUME NEW t \in Threads,
             Enter(t) \/ Ctl(t) \/ Update(t) \/ Wait(t) \/ Close(t)
      PROVE  \/ UNCHANGED <<lifecycle, pc>>
             \/ MovesOn(t) \/ Enter(t) \/ CloseStart(t)
             \/ CloseAlone(t) \/ PortFree(t)
  BY <1>1, <1>2, <1>6, CtlMoves, UpdateMoves, WaitMoves DEF Close
<1> QED
  BY <1>3, <1>4, <1>5, <1>6 DEF Next, Stopped

(* Once a thread deletes the port, no other thread is inside a call.       *)
LEMMA LifecycleStep ==
  ASSUME TypeOK, Lifecycle, [Next]_vars
  PROVE  Lifecycle'
<1> pc \in [Threads -> Labels]
  BY DEF TypeOK, ThreadType
<1>1. CASE UNCHANGED <<lifecycle, pc>>
  BY <1>1 DEF Lifecycle
<1>2. ASSUME NEW t \in Threads, MovesOn(t)
      PROVE  Lifecycle'
  <2>1. lifecycle \notin {"deleting", "freed"}
    BY <1>2 DEF MovesOn, Lifecycle
  <2>2. lifecycle' \notin {"deleting", "freed"}
    BY <1>2, <2>1 DEF MovesOn
  <2>3. \A u \in Threads : pc'[u] # "deleting"
    BY <1>2, <2>1 DEF MovesOn, Lifecycle
  <2> QED  BY <2>2, <2>3 DEF Lifecycle
<1>3. ASSUME NEW t \in Threads, Enter(t) \/ CloseStart(t)
      PROVE  Lifecycle'
  <2>1. lifecycle = "open" /\ lifecycle' \in {"open", "closing"}
    BY <1>3 DEF Enter, CloseStart, portVars
  <2>2. \A u \in Threads : pc'[u] # "deleting"
    BY <1>3, <2>1 DEF Enter, CloseStart, Goto, Lifecycle
  <2> QED  BY <2>1, <2>2 DEF Lifecycle
<1>4. ASSUME NEW t \in Threads, CloseAlone(t)
      PROVE  Lifecycle'
  <2>1. lifecycle' = "deleting"
    BY <1>4 DEF CloseAlone
  <2>2. \A u \in Threads : pc'[u] = IF u = t THEN "deleting" ELSE "idle"
    BY <1>4 DEF CloseAlone, Alone, Goto
  <2> QED  BY <2>1, <2>2 DEF Lifecycle
<1>5. ASSUME NEW t \in Threads, PortFree(t)
      PROVE  Lifecycle'
  <2>1. \A u \in Threads : pc'[u] = "idle"
    BY <1>5 DEF PortFree, Goto, Lifecycle
  <2> QED  BY <2>1 DEF Lifecycle
<1> QED  BY <1>1, <1>2, <1>3, <1>4, <1>5, PortMoves

(* A port that is deleted stays so.                                        *)
LEMMA DeletedForGood ==
  ASSUME TypeOK, Lifecycle, [Next]_vars, lifecycle \in {"deleting", "freed"}
  PROVE  lifecycle' \in {"deleting", "freed"}
<1>1. ASSUME NEW t \in Threads, MovesOn(t) \/ Enter(t) \/ CloseStart(t)
      PROVE  FALSE
  BY <1>1 DEF MovesOn, Enter, CloseStart, Lifecycle
<1>2. ASSUME NEW t \in Threads, CloseAlone(t) \/ PortFree(t)
      PROVE  lifecycle' \in {"deleting", "freed"}
  BY <1>2 DEF CloseAlone, PortFree
<1> QED  BY <1>1, <1>2, PortMoves

-----------------------------------------------------------------------------
(* Which steps touch the sock_state objects and their requests.            *)

registry == <<sock_tree, sock_update_queue, sock_deleted_queue, sock, io>>

LEMMA Steps ==
  ASSUME [Next]_vars
  PROVE  \/ UNCHANGED registry
         \/ \E t \in Threads, h \in Sockets, m \in EventMasks :
              CtlAdd(t, h, m) \/ CtlMod(t, h, m)
         \/ \E t \in Threads, h \in Sockets : CtlDel(t, h)
         \/ \E t \in Threads : UpdateNothing(t) \/ UpdateCancel(t)
                                 \/ UpdateSubmit(t) \/ UpdateDrop(t)
         \/ \E t \in Threads : FeedDelete(t) \/ FeedEvent(t)
         \/ \E t \in Threads : PortDeleteSocket(t)
         \/ \E b \in Blocks : Afd(b)
         \/ \E h \in Sockets : CloseSocket(h)
<1>1. ASSUME NEW t \in Threads, Ctl(t)
      PROVE  \/ UNCHANGED registry
             \/ \E h \in Sockets, m \in EventMasks :
                  CtlAdd(t, h, m) \/ CtlMod(t, h, m)
             \/ \E h \in Sockets : CtlDel(t, h)
  <2>1. ASSUME NEW h \in Sockets, CtlAddFails(t, h) \/ CtlAddAborts(t, h)
        PROVE  UNCHANGED registry
    BY <2>1 DEF CtlAddFails, CtlAddAborts, registry, sockVars, driverVars
  <2>2. CtlFails(t) => UNCHANGED registry
    BY DEF CtlFails, registry, sockVars, driverVars
  <2> QED  BY <1>1, <2>1, <2>2 DEF Ctl
<1>2. ASSUME NEW t \in Threads, UpdateFails(t) \/ UpdateDone(t)
      PROVE  UNCHANGED registry
  BY <1>2 DEF UpdateFails, StillInFront, UpdateDone, registry, sockVars,
     driverVars
<1>3. ASSUME NEW t \in Threads, Wait(t)
      PROVE  UNCHANGED registry \/ FeedDelete(t) \/ FeedEvent(t)
  <2>1. ASSUME NEW w \in Timeouts, NEW n \in 1 .. MaxEvents, WaitStart(t, w, n)
        PROVE  UNCHANGED registry
    BY <2>1 DEF WaitStart, registry, sockVars, driverVars
  <2>2. CASE GqcsPackets(t) \/ GqcsFails(t) \/ Relock(t) \/ FeedDone(t)
    BY <2>2 DEF GqcsPackets, GqcsFails, Relock, FeedDone, registry, sockVars,
       driverVars
  <2> QED  BY <1>3, <2>1, <2>2 DEF Wait
<1>4. ASSUME NEW t \in Threads, Enter(t) \/ Close(t)
      PROVE  UNCHANGED registry \/ PortDeleteSocket(t)
  BY <1>4 DEF Enter, Close, CloseStart, PortClose, CloseAlone, PortFree,
     registry, sockVars, driverVars
<1>5. ASSUME NEW h \in Sockets, World(h)
      PROVE  UNCHANGED registry \/ CloseSocket(h)
  BY <1>5 DEF World, SetReady, OpenSocket, registry, sockVars, driverVars
<1>6. UNCHANGED vars => UNCHANGED registry
  BY DEF vars, registry, sockVars, driverVars
<1>7. ASSUME NEW t \in Threads,
             Enter(t) \/ Ctl(t) \/ Update(t) \/ Wait(t) \/ Close(t)
      PROVE  \/ UNCHANGED registry
             \/ \E h \in Sockets, m \in EventMasks :
                  CtlAdd(t, h, m) \/ CtlMod(t, h, m)
             \/ \E h \in Sockets : CtlDel(t, h)
             \/ UpdateNothing(t) \/ UpdateCancel(t)
             \/ UpdateSubmit(t) \/ UpdateDrop(t)
             \/ FeedDelete(t) \/ FeedEvent(t)
             \/ PortDeleteSocket(t)
  <2>1. CASE Ctl(t)
    BY <1>1, <2>1
  <2>2. CASE Update(t)
    BY <1>2, <2>2 DEF Update
  <2>3. CASE Wait(t)
    BY <1>3, <2>3
  <2>4. CASE Enter(t) \/ Close(t)
    BY <1>4, <2>4
  <2> QED  BY <1>7, <2>1, <2>2, <2>3, <2>4
<1>8. CASE \E t \in Threads :
             Enter(t) \/ Ctl(t) \/ Update(t) \/ Wait(t) \/ Close(t)
  <2>1. PICK t \in Threads :
               Enter(t) \/ Ctl(t) \/ Update(t) \/ Wait(t) \/ Close(t)
    BY <1>8
  <2> HIDE DEF registry
  <2> QED  BY <1>7, <2>1
<1>9. CASE \E b \in Blocks : Afd(b)
  BY <1>9
<1>10. CASE \E h \in Sockets : World(h)
  BY <1>5, <1>10
<1>11. CASE UNCHANGED vars
  BY <1>6, <1>11
<1> QED  BY <1>8, <1>9, <1>10, <1>11 DEF Next, Stopped

(* A call that holds the lock, or takes it, finds the port not deleted.    *)
LEMMA InsideLives ==
  ASSUME Lifecycle, NEW t \in Threads, pc[t] \notin {"idle", "deleting"}
  PROVE  lifecycle \notin {"deleting", "freed"}
  BY DEF Lifecycle

(* What the four ways to delete a sock_state have in common.               *)
Deleting(b, s, f) ==
  /\ sock__delete(b, s, f)
  /\ s \in SockState
  /\ s.socket = sock[b].socket
  /\ s.delete_pending = sock[b].delete_pending
  /\ s.poll_group = sock[b].poll_group

LEMMA CancelDeletes ==
  ASSUME TypeOK, NEW b \in Blocks, NEW f, CancelAndDelete(b, f)
  PROVE  \/ UNCHANGED io /\ Deleting(b, sock[b], f)
         \/ /\ Registered(b)
            /\ sock[b].poll_status = "PENDING"
            /\ afd_cancel_poll(b)
            /\ Deleting(b, CancelledPoll(sock[b]), f)
<1>1. sock[b] \in SockState /\ CancelledPoll(sock[b]) \in SockState
  BY CancelledType DEF TypeOK, SockType
<1>2. /\ CancelledPoll(sock[b]).socket = sock[b].socket
      /\ CancelledPoll(sock[b]).delete_pending = sock[b].delete_pending
      /\ CancelledPoll(sock[b]).poll_group = sock[b].poll_group
  BY <1>1 DEF CancelledPoll, SockState
<1> QED  BY <1>1, <1>2 DEF CancelAndDelete, Deleting

LEMMA ReturnedFields ==
  ASSUME TypeOK, NEW b \in Blocks
  PROVE  /\ Returned(b) \in SockState
         /\ Returned(b).socket = sock[b].socket
         /\ Returned(b).delete_pending = sock[b].delete_pending
         /\ Returned(b).poll_group = sock[b].poll_group
         /\ Returned(b).poll_status = "IDLE"
         /\ Returned(b).user_events = sock[b].user_events
<1>1. sock[b] \in SockState
  BY DEF TypeOK, SockType
<1> DEFINE r == [sock[b] EXCEPT !.poll_status = "IDLE", !.pending_events = {}]
<1>2. /\ r.socket = sock[b].socket
      /\ r.delete_pending = sock[b].delete_pending
      /\ r.poll_group = sock[b].poll_group
  BY <1>1 DEF SockState
<1>3. r.poll_status = "IDLE" /\ r.user_events = sock[b].user_events
  BY <1>1 DEF SockState
<1> QED  BY <1>2, <1>3, ReturnedType DEF Returned

LEMMA DeleteSteps ==
  ASSUME TypeOK, NEW t \in Threads,
         \/ \E h \in Sockets : CtlDel(t, h)
         \/ UpdateDrop(t)
         \/ FeedDelete(t)
         \/ PortDeleteSocket(t)
  PROVE  \E b \in Blocks, s \in SockState, f \in BOOLEAN : Deleting(b, s, f)
<1>1. ASSUME NEW b \in Blocks, NEW f \in BOOLEAN, CancelAndDelete(b, f)
      PROVE  \E s \in SockState : Deleting(b, s, f)
  BY <1>1, CancelDeletes DEF Deleting
<1>2. \A h \in Sockets : sock_tree[h] # NULL => sock_tree[h] \in Blocks
  BY DEF TypeOK, SockType
<1>3. CASE \E h \in Sockets : CtlDel(t, h)
  BY <1>1, <1>2, <1>3 DEF CtlDel
<1>4. CASE UpdateDrop(t)
  <2>1. PICK b \in Blocks : sock__delete(b, sock[b], FALSE)
    BY <1>4 DEF UpdateDrop
  <2>2. sock[b] \in SockState
    BY DEF TypeOK, SockType
  <2> QED  BY <2>1, <2>2 DEF Deleting
<1>5. CASE FeedDelete(t)
  <2>1. PICK b \in Blocks : sock__delete(b, Returned(b), FALSE)
    BY <1>5 DEF FeedDelete
  <2> QED  BY <2>1, ReturnedFields DEF Deleting
<1>6. CASE PortDeleteSocket(t)
  <2>1. sock_deleted_queue # <<>> => Head(sock_deleted_queue) \in Blocks
    BY DEF TypeOK, SockType
  <2> QED  BY <1>1, <1>2, <1>6, <2>1 DEF PortDeleteSocket
<1> QED  BY <1>3, <1>4, <1>5, <1>6

-----------------------------------------------------------------------------
(* The tree of registered sockets.                                         *)

SameRegistrations ==
  /\ UNCHANGED sock_tree
  /\ \A b \in Blocks : /\ sock'[b].socket = sock[b].socket
                       /\ sock'[b].delete_pending = sock[b].delete_pending
                       /\ sock'[b].poll_group = sock[b].poll_group

LEMMA DeleteEffect ==
  ASSUME TypeOK, NEW b \in Blocks, NEW s, NEW f, Deleting(b, s, f)
  PROVE  /\ ~Registered(b)'
         /\ \A c \in Blocks \ {b} : sock'[c] = sock[c]
         /\ MayFree(s, f) => sock'[b] = FreeBlock
         /\ ~MayFree(s, f) => sock'[b] = [s EXCEPT !.delete_pending = TRUE]
<1>1. sock \in [Blocks -> SockState]
  BY DEF TypeOK, SockType
<1>2. CASE MayFree(s, f)
  <2>1. sock' = [sock EXCEPT ![b] = FreeBlock]
    BY <1>2 DEF Deleting, sock__delete
  <2>2. sock'[b] = FreeBlock /\ \A c \in Blocks \ {b} : sock'[c] = sock[c]
    BY <1>1, <2>1
  <2> QED  BY <1>2, <2>2 DEF Registered, Allocated, FreeBlock
<1>3. CASE ~MayFree(s, f)
  <2> DEFINE d == [s EXCEPT !.delete_pending = TRUE]
  <2>1. sock' = [sock EXCEPT ![b] = d]
    BY <1>3 DEF Deleting, sock__delete
  <2>2. d.delete_pending = TRUE
    BY DEF Deleting, SockState
  <2> HIDE DEF d
  <2>3. sock'[b] = d /\ \A c \in Blocks \ {b} : sock'[c] = sock[c]
    BY <1>1, <2>1
  <2>4. ~Registered(b)'
    BY <2>2, <2>3 DEF Registered
  <2> QED  BY <1>3, <2>3, <2>4 DEF d
<1> QED  BY <1>2, <1>3

LEMMA SameRegistrationSteps ==
  ASSUME TypeOK,
         \/ \E t \in Threads, h \in Sockets, m \in EventMasks : CtlMod(t, h, m)
         \/ \E t \in Threads : \/ UpdateNothing(t) \/ UpdateCancel(t)
                               \/ UpdateSubmit(t) \/ FeedEvent(t)
         \/ \E b \in Blocks : Afd(b)
         \/ \E h \in Sockets : CloseSocket(h)
  PROVE  SameRegistrations
<1>1. sock \in [Blocks -> SockState]
  BY DEF TypeOK, SockType
<1>2. ASSUME NEW b \in Blocks, NEW s \in SockState,
             s.socket = sock[b].socket,
             s.delete_pending = sock[b].delete_pending,
             s.poll_group = sock[b].poll_group,
             sock' = [sock EXCEPT ![b] = s], UNCHANGED sock_tree
      PROVE  SameRegistrations
  BY <1>1, <1>2 DEF SameRegistrations
<1>3. UNCHANGED <<sock, sock_tree>> => SameRegistrations
  BY DEF SameRegistrations
<1>4. CASE \E t \in Threads, h \in Sockets, m \in EventMasks : CtlMod(t, h, m)
  <2>1. PICK t \in Threads, h \in Sockets, m \in EventMasks : CtlMod(t, h, m)
    BY <1>4
  <2> DEFINE b == sock_tree[h]
             e == m \cup AlwaysReported
             s == [sock[b] EXCEPT !.user_events = e]
  <2>2. b \in Blocks
    BY <2>1 DEF CtlMod, TypeOK, SockType
  <2>3. e \in EpollMask
    BY DEF EpollMask, AlwaysReported, KnownEvents
  <2>4. sock' = [sock EXCEPT ![b] = s] /\ UNCHANGED sock_tree
    BY <2>1 DEF CtlMod
  <2>5. sock[b] \in SockState
    BY <1>1, <2>2
  <2> HIDE DEF b, e
  <2>6. /\ s \in SockState /\ s.socket = sock[b].socket
        /\ s.delete_pending = sock[b].delete_pending
        /\ s.poll_group = sock[b].poll_group
    BY <2>3, <2>5 DEF SockState
  <2> HIDE DEF s
  <2> QED  BY <1>2, <2>2, <2>4, <2>6
<1>5. CASE \E t \in Threads : UpdateNothing(t)
  BY <1>3, <1>5 DEF UpdateNothing
<1>6. CASE \E t \in Threads : UpdateCancel(t) \/ UpdateSubmit(t)
  <2>1. PICK b \in Blocks :
          /\ \/ sock' = [sock EXCEPT ![b] = CancelledPoll(sock[b])]
             \/ sock' = [sock EXCEPT ![b] = Polled(sock[b])]
          /\ UNCHANGED sock_tree
    BY <1>6 DEF UpdateCancel, UpdateSubmit
  <2>2. sock[b] \in SockState
    BY <1>1
  <2>3. /\ CancelledPoll(sock[b]).socket = sock[b].socket
        /\ CancelledPoll(sock[b]).delete_pending = sock[b].delete_pending
        /\ CancelledPoll(sock[b]).poll_group = sock[b].poll_group
    BY <2>2 DEF CancelledPoll, SockState
  <2>4. /\ Polled(sock[b]).socket = sock[b].socket
        /\ Polled(sock[b]).delete_pending = sock[b].delete_pending
        /\ Polled(sock[b]).poll_group = sock[b].poll_group
    BY <2>2 DEF Polled, SockState
  <2> QED  BY <1>2, <2>1, <2>2, <2>3, <2>4, CancelledType, PolledType
<1>7. CASE \E t \in Threads : FeedEvent(t)
  <2>1. PICK b \in Blocks :
          /\ \/ sock' = [sock EXCEPT ![b] = Returned(b)]
             \/ sock' = [sock EXCEPT ![b] = AfterReport(Returned(b))]
          /\ UNCHANGED sock_tree
    BY <1>7 DEF FeedEvent
  <2>2. /\ Returned(b) \in SockState
        /\ Returned(b).socket = sock[b].socket
        /\ Returned(b).delete_pending = sock[b].delete_pending
        /\ Returned(b).poll_group = sock[b].poll_group
    BY ReturnedFields
  <2> DEFINE r == Returned(b)
  <2> HIDE DEF r
  <2>3. /\ r \in SockState => AfterReport(r) \in SockState
        /\ r \in SockState => AfterReport(r).socket = r.socket
        /\ r \in SockState =>
             AfterReport(r).delete_pending = r.delete_pending
        /\ r \in SockState => AfterReport(r).poll_group = r.poll_group
    BY DEF AfterReport, SockState, EpollMask
  <2>4. /\ AfterReport(Returned(b)) \in SockState
        /\ AfterReport(Returned(b)).socket = sock[b].socket
        /\ AfterReport(Returned(b)).delete_pending = sock[b].delete_pending
        /\ AfterReport(Returned(b)).poll_group = sock[b].poll_group
    BY <2>2, <2>3 DEF r
  <2> QED  BY <1>2, <2>1, <2>2, <2>4
<1>8. CASE \E b \in Blocks : Afd(b)
  BY <1>3, <1>8 DEF Afd, AfdReady, AfdCancelled, AfdLocalClose, AfdFails,
     Complete, sockVars
<1>9. CASE \E h \in Sockets : CloseSocket(h)
  BY <1>3, <1>9 DEF CloseSocket, sockVars
<1> QED  BY <1>4, <1>5, <1>6, <1>7, <1>8, <1>9

LEMMA DeleteKeepsTree ==
  ASSUME TypeOK, TreeConsistent, NEW b \in Blocks, NEW s, NEW f,
         Deleting(b, s, f)
  PROVE  TreeConsistent'
<1>1. sock_tree \in [Sockets -> Blocks \cup {NULL}]
  BY DEF TypeOK, SockType
<1>2. /\ sock_tree' = IF s.delete_pending THEN sock_tree
                      ELSE [sock_tree EXCEPT ![s.socket] = NULL]
      /\ s.socket = sock[b].socket
      /\ s.delete_pending = sock[b].delete_pending
  BY DEF Deleting, sock__delete
<1>3. ~Registered(b)' /\ \A c \in Blocks \ {b} : sock'[c] = sock[c]
  BY DeleteEffect
<1> SUFFICES ASSUME NEW h \in Sockets, NEW c \in Blocks
             PROVE  sock_tree'[h] = c <=> Registered(c)' /\ sock'[c].socket = h
  BY DEF TreeConsistent
<1>4. sock_tree[h] = c <=> Registered(c) /\ sock[c].socket = h
  BY DEF TreeConsistent
<1>5. sock_tree[h] = b <=> Registered(b) /\ sock[b].socket = h
  BY DEF TreeConsistent
<1>6. sock_tree'[h] = IF Registered(b) /\ sock[b].socket = h THEN NULL
                      ELSE sock_tree[h]
  <2>1. CASE s.delete_pending
    BY <1>2, <2>1 DEF Registered
  <2>2. CASE ~s.delete_pending
    <3>1. Registered(b) <=> sock[b].socket # NULL
      BY <1>2, <2>2 DEF Registered, Allocated
    <3>2. h # NULL
      OBVIOUS
    <3>3. sock_tree' = [sock_tree EXCEPT ![sock[b].socket] = NULL]
      BY <1>2, <2>2
    <3> QED  BY <1>1, <3>1, <3>2, <3>3
  <2> QED  BY <2>1, <2>2
<1>7. CASE c = b
  <2>1. sock_tree'[h] # b
    BY <1>5, <1>6
  <2> QED  BY <1>3, <1>7, <2>1
<1>8. CASE c # b
  <2>1. Registered(c)' <=> Registered(c)
    BY <1>3, <1>8 DEF Registered, Allocated
  <2>2. sock'[c] = sock[c]
    BY <1>3, <1>8
  <2>3. sock_tree'[h] = c <=> sock_tree[h] = c
    <3>1. c # NULL
      OBVIOUS
    <3> QED  BY <1>5, <1>6, <1>8, <3>1
  <2> QED  BY <1>4, <2>1, <2>2, <2>3
<1> QED  BY <1>7, <1>8

(* epoll_ctl(EPOLL_CTL_ADD): the block that malloc hands out.              *)
LEMMA AddEffect ==
  ASSUME TypeOK, NEW t \in Threads, NEW h \in Sockets, NEW m \in EventMasks,
         CtlAdd(t, h, m)
  PROVE  /\ sock_tree[h] = NULL
         /\ UNCHANGED <<io, lifecycle>>
         /\ \E b \in Blocks :
              /\ ~Allocated(b)
              /\ sock_tree' = [sock_tree EXCEPT ![h] = b]
              /\ port_request_socket_update(b)
              /\ sock'[b].socket = h
              /\ sock'[b].user_events = m \cup AlwaysReported
              /\ sock'[b].poll_status = "IDLE"
              /\ sock'[b].pending_events = {}
              /\ ~sock'[b].delete_pending
              /\ sock'[b].poll_group = AcquiredGroup(poll_groups)
              /\ \A c \in Blocks \ {b} : sock'[c] = sock[c]
<1> DEFINE g == AcquiredGroup(poll_groups)
           e == m \cup AlwaysReported
           s == [FreeBlock EXCEPT !.socket = h, !.poll_group = g,
                                  !.user_events = e]
<1>1. PICK b \in Blocks :
        /\ ~Allocated(b)
        /\ sock_tree' = [sock_tree EXCEPT ![h] = b]
        /\ port_request_socket_update(b)
        /\ sock' = [sock EXCEPT ![b] = s]
  BY DEF CtlAdd
<1> HIDE DEF g, e
<1>2. /\ s.socket = h /\ s.user_events = e /\ s.poll_status = "IDLE"
      /\ s.pending_events = {} /\ ~s.delete_pending /\ s.poll_group = g
  BY DEF FreeBlock
<1> HIDE DEF s
<1>3. sock'[b] = s /\ \A c \in Blocks \ {b} : sock'[c] = sock[c]
  BY <1>1 DEF TypeOK, SockType
<1>4. sock_tree[h] = NULL /\ UNCHANGED <<io, lifecycle>>
  BY DEF CtlAdd, CanRegister, driverVars
<1>5. /\ sock'[b].socket = h
      /\ sock'[b].user_events = m \cup AlwaysReported
      /\ sock'[b].poll_status = "IDLE"
      /\ sock'[b].pending_events = {}
      /\ ~sock'[b].delete_pending
      /\ sock'[b].poll_group = AcquiredGroup(poll_groups)
  BY <1>2, <1>3 DEF e, g
<1> QED  BY <1>1, <1>3, <1>4, <1>5

LEMMA AddKeepsTree ==
  ASSUME TypeOK, TreeConsistent, NEW t \in Threads, NEW h \in Sockets,
         NEW m \in EventMasks, CtlAdd(t, h, m)
  PROVE  TreeConsistent'
<1>1. sock_tree \in [Sockets -> Blocks \cup {NULL}]
  BY DEF TypeOK, SockType
<1>2. PICK b \in Blocks :
        /\ ~Allocated(b)
        /\ sock_tree' = [sock_tree EXCEPT ![h] = b]
        /\ sock'[b].socket = h
        /\ ~sock'[b].delete_pending
        /\ \A c \in Blocks \ {b} : sock'[c] = sock[c]
  BY AddEffect
<1>3. sock_tree[h] = NULL
  BY AddEffect
<1> SUFFICES ASSUME NEW g \in Sockets, NEW c \in Blocks
             PROVE  sock_tree'[g] = c <=> Registered(c)' /\ sock'[c].socket = g
  BY DEF TreeConsistent
<1>4. sock_tree[g] = c <=> Registered(c) /\ sock[c].socket = g
  BY DEF TreeConsistent
<1>5. sock_tree'[g] = IF g = h THEN b ELSE sock_tree[g]
  BY <1>1, <1>2
<1>6. CASE c = b
  <2>1. Registered(c)'
    BY <1>2, <1>6 DEF Registered, Allocated
  <2>2. sock_tree[g] # c
    BY <1>2, <1>4, <1>6 DEF Registered
  <2> QED  BY <1>2, <1>5, <1>6, <2>1, <2>2
<1>7. CASE c # b
  <2>1. (Registered(c)' <=> Registered(c)) /\ sock'[c] = sock[c]
    BY <1>2, <1>7 DEF Registered, Allocated
  <2>2. sock_tree'[g] = c <=> sock_tree[g] = c
    <3>1. c # NULL
      OBVIOUS
    <3> QED  BY <1>3, <1>5, <1>7, <3>1
  <2> QED  BY <1>4, <2>1, <2>2
<1> QED  BY <1>6, <1>7

LEMMA TreeStep ==
  ASSUME TypeOK, TreeConsistent, [Next]_vars
  PROVE  TreeConsistent'
<1>1. ASSUME SameRegistrations
      PROVE  TreeConsistent'
  BY <1>1 DEF SameRegistrations, TreeConsistent, Registered, Allocated
<1>2. CASE UNCHANGED registry
  <2>1. SameRegistrations
    BY <1>2 DEF registry, SameRegistrations
  <2> QED  BY <1>1, <2>1
<1>3. CASE \E t \in Threads, h \in Sockets, m \in EventMasks :
             CtlAdd(t, h, m) \/ CtlMod(t, h, m)
  BY <1>1, <1>3, AddKeepsTree, SameRegistrationSteps
<1>4. CASE \E t \in Threads : \/ \E h \in Sockets : CtlDel(t, h)
                              \/ UpdateDrop(t) \/ FeedDelete(t)
                              \/ PortDeleteSocket(t)
  BY <1>4, DeleteSteps, DeleteKeepsTree
<1>5. CASE \/ \E t \in Threads : \/ UpdateNothing(t) \/ UpdateCancel(t)
                                 \/ UpdateSubmit(t) \/ FeedEvent(t)
           \/ \E b \in Blocks : Afd(b)
           \/ \E h \in Sockets : CloseSocket(h)
  <2>1. SameRegistrations
    BY <1>5, SameRegistrationSteps
  <2> QED  BY <1>1, <2>1
<1> QED  BY <1>2, <1>3, <1>4, <1>5, Steps

-----------------------------------------------------------------------------
(* What each step does to the sock_state and the request of one block.     *)

Untouched(b) == \A c \in Blocks \ {b} : sock'[c] = sock[c] /\ io'[c] = io[c]

LEMMA CancelEffect ==
  ASSUME TypeOK, NEW b \in Blocks, afd_cancel_poll(b)
  PROVE  /\ \A c \in Blocks \ {b} : io'[c] = io[c]
         /\ io'[b].request =
              IF io[b].Status = "PENDING" /\ io[b].request = "pending"
              THEN "cancelling" ELSE io[b].request
         /\ io'[b].Status = io[b].Status
<1>1. io \in [Blocks -> IoBlock] /\ io[b] \in IoBlock
  BY DEF TypeOK, DriverType
<1>2. CASE io[b].Status = "PENDING" /\ io[b].request = "pending"
  <2> DEFINE r == [io[b] EXCEPT !.request = "cancelling"]
  <2>1. io' = [io EXCEPT ![b] = r]
    BY <1>2 DEF afd_cancel_poll
  <2>2. r.request = "cancelling" /\ r.Status = io[b].Status
    BY <1>1 DEF IoBlock
  <2> HIDE DEF r
  <2> QED  BY <1>1, <1>2, <2>1, <2>2
<1>3. CASE ~(io[b].Status = "PENDING" /\ io[b].request = "pending")
  BY <1>3 DEF afd_cancel_poll
<1> QED  BY <1>2, <1>3

\* b is the block of socket h and now wants the events m.
Modified(b, h, m) ==
  /\ sock_tree[h] = b
  /\ Untouched(b)
  /\ UNCHANGED io
  /\ sock'[b] = [sock[b] EXCEPT !.user_events = m \cup AlwaysReported]
  /\ IF Uncovered(sock'[b]) # {} THEN port_request_socket_update(b)
     ELSE UNCHANGED <<sock_update_queue, sock_deleted_queue>>

LEMMA ModEffect ==
  ASSUME TypeOK, NEW t \in Threads, NEW h \in Sockets, NEW m \in EventMasks,
         CtlMod(t, h, m)
  PROVE  \E b \in Blocks : Modified(b, h, m)
<1> DEFINE b == sock_tree[h]
           s == [sock[b] EXCEPT !.user_events = m \cup AlwaysReported]
<1>1. b \in Blocks /\ sock \in [Blocks -> SockState]
  BY DEF CtlMod, TypeOK, SockType
<1>2. /\ sock' = [sock EXCEPT ![b] = s]
      /\ IF Uncovered(s) # {} THEN port_request_socket_update(b)
         ELSE UNCHANGED <<sock_update_queue, sock_deleted_queue>>
      /\ UNCHANGED io
  BY DEF CtlMod, driverVars
<1> HIDE DEF s
<1>3. sock'[b] = s /\ Untouched(b)
  BY <1>1, <1>2 DEF Untouched
<1>4. Modified(b, h, m)
  BY <1>2, <1>3 DEF Modified, s
<1> QED  BY <1>1, <1>4

LEMMA UpdateNothingEffect ==
  ASSUME NEW t \in Threads, UpdateNothing(t)
  PROVE  \E b \in Blocks :
           /\ UpdateFirst(t, b) /\ Dequeue(b)
           /\ UNCHANGED <<sock_tree, sock, io>>
           /\ \/ sock[b].poll_status = "PENDING" /\ Uncovered(sock[b]) = {}
              \/ sock[b].poll_status = "CANCELLED"
  BY DEF UpdateNothing

LEMMA UpdateCancelEffect ==
  ASSUME TypeOK, NEW t \in Threads, UpdateCancel(t)
  PROVE  \E b \in Blocks :
           /\ UpdateFirst(t, b) /\ Dequeue(b) /\ afd_cancel_poll(b)
           /\ Untouched(b)
           /\ UNCHANGED sock_tree
           /\ sock[b].poll_status = "PENDING"
           /\ sock'[b] = CancelledPoll(sock[b])
<1>1. PICK b \in Blocks :
        /\ UpdateFirst(t, b) /\ Dequeue(b) /\ afd_cancel_poll(b)
        /\ sock[b].poll_status = "PENDING"
        /\ UNCHANGED sock_tree
        /\ sock' = [sock EXCEPT ![b] = CancelledPoll(sock[b])]
  BY DEF UpdateCancel
<1>2. sock \in [Blocks -> SockState]
  BY DEF TypeOK, SockType
<1>3. /\ sock'[b] = CancelledPoll(sock[b])
      /\ \A c \in Blocks \ {b} : sock'[c] = sock[c]
  BY <1>1, <1>2
<1>4. Untouched(b)
  BY <1>1, <1>3, CancelEffect DEF Untouched
<1> QED  BY <1>1, <1>3, <1>4

LEMMA UpdateSubmitEffect ==
  ASSUME TypeOK, NEW t \in Threads, UpdateSubmit(t)
  PROVE  \E b \in Blocks :
           /\ UpdateFirst(t, b) /\ Dequeue(b)
           /\ Untouched(b)
           /\ UNCHANGED sock_tree
           /\ Allocated(b)
           /\ sock[b].poll_status = "IDLE"
           /\ sock'[b] = Polled(sock[b])
           /\ io'[b].request = "pending"
           /\ io'[b].Status = "PENDING"
           /\ io'[b].Events = EpollToAfd(sock[b].user_events)
<1>1. PICK b \in Blocks :
        /\ UpdateFirst(t, b) /\ Dequeue(b)
        /\ UNCHANGED sock_tree
        /\ MaySubmit(sock[b]) /\ sock[b].socket \in open
        /\ sock' = [sock EXCEPT ![b] = Polled(sock[b])]
        /\ io' = [io EXCEPT ![b] =
             [request |-> "pending", Status |-> "PENDING",
              Events |-> EpollToAfd(sock[b].user_events)]]
  BY DEF UpdateSubmit
<1>2. sock \in [Blocks -> SockState] /\ io \in [Blocks -> IoBlock]
      /\ open \subseteq Sockets
  BY DEF TypeOK, SockType, DriverType, WorldType
<1>3. Allocated(b) /\ sock[b].poll_status = "IDLE"
  BY <1>1, <1>2 DEF Allocated, MaySubmit
<1> DEFINE e == EpollToAfd(sock[b].user_events)
           p == Polled(sock[b])
<1> HIDE DEF e, p
<1>4. /\ io'[b] = [request |-> "pending", Status |-> "PENDING", Events |-> e]
      /\ \A c \in Blocks \ {b} : io'[c] = io[c]
  BY <1>1, <1>2 DEF e
<1>5. sock'[b] = p /\ \A c \in Blocks \ {b} : sock'[c] = sock[c]
  BY <1>1, <1>2 DEF p
<1> QED  BY <1>1, <1>3, <1>4, <1>5 DEF Untouched, e, p

LEMMA FeedFirstEffect ==
  ASSUME TypeOK, NEW t \in Threads, NEW b \in Blocks, FeedFirst(t, b)
  PROVE  /\ io'[b].request = "none"
         /\ \A c \in Blocks \ {b} : io'[c] = io[c]
<1> DEFINE r == [io[b] EXCEPT !.request = "none"]
<1>1. io \in [Blocks -> IoBlock] /\ io[b] \in IoBlock
  BY DEF TypeOK, DriverType
<1>2. io' = [io EXCEPT ![b] = r]
  BY DEF FeedFirst
<1>3. r.request = "none"
  BY <1>1 DEF IoBlock
<1> HIDE DEF r
<1> QED  BY <1>1, <1>2, <1>3

LEMMA FeedEventEffect ==
  ASSUME TypeOK, NEW t \in Threads, FeedEvent(t)
  PROVE  \E b \in Blocks :
           /\ FeedFirst(t, b)
           /\ Untouched(b)
           /\ UNCHANGED sock_tree
           /\ ~sock[b].delete_pending
           /\ port_request_socket_update(b)
           /\ sock'[b].socket = sock[b].socket
           /\ sock'[b].delete_pending = sock[b].delete_pending
           /\ sock'[b].poll_status = "IDLE"
           /\ io'[b].request = "none"
<1>1. PICK b \in Blocks :
        /\ FeedFirst(t, b)
        /\ ~sock[b].delete_pending
        /\ port_request_socket_update(b)
        /\ UNCHANGED sock_tree
        /\ \/ sock' = [sock EXCEPT ![b] = Returned(b)]
           \/ sock' = [sock EXCEPT ![b] = AfterReport(Returned(b))]
  BY DEF FeedEvent, Gone
<1>2. sock \in [Blocks -> SockState]
  BY DEF TypeOK, SockType
<1> DEFINE r == Returned(b)
<1>3. /\ r \in SockState /\ r.socket = sock[b].socket
      /\ r.delete_pending = sock[b].delete_pending
      /\ r.poll_status = "IDLE"
  BY ReturnedFields
<1> HIDE DEF r
<1>4. /\ AfterReport(r).socket = sock[b].socket
      /\ AfterReport(r).delete_pending = sock[b].delete_pending
      /\ AfterReport(r).poll_status = "IDLE"
  BY <1>3 DEF AfterReport, SockState
<1>5. /\ \A c \in Blocks \ {b} : sock'[c] = sock[c]
      /\ sock'[b] = r \/ sock'[b] = AfterReport(r)
  BY <1>1, <1>2 DEF r
<1>6. io'[b].request = "none" /\ Untouched(b)
  BY <1>1, <1>5, FeedFirstEffect DEF Untouched
<1> QED  BY <1>1, <1>3, <1>4, <1>5, <1>6

LEMMA AfdEffect ==
  ASSUME TypeOK, NEW b \in Blocks, Afd(b)
  PROVE  /\ UNCHANGED <<portVars, sockVars, pc, call>>
         /\ io[b].request \in {"pending", "cancelling", "orphaned"}
         /\ io'[b].request = "completed"
         /\ \A c \in Blocks \ {b} : io'[c] = io[c]
         /\ completions' = IF iocp_handle THEN Append(completions, b)
                           ELSE completions
<1>1. ASSUME NEW s, NEW e, Complete(b, s, e)
      PROVE  /\ UNCHANGED <<portVars, sockVars, pc, call>>
             /\ io'[b].request = "completed"
             /\ \A c \in Blocks \ {b} : io'[c] = io[c]
             /\ completions' = IF iocp_handle THEN Append(completions, b)
                               ELSE completions
  BY <1>1 DEF Complete, TypeOK, DriverType
<1>2. /\ io[b].request \in {"pending", "cancelling", "orphaned"}
      /\ \E s, e : Complete(b, s, e)
  BY DEF Afd, AfdReady, AfdCancelled, AfdLocalClose, AfdFails
<1> QED  BY <1>1, <1>2

LEMMA CloseSocketEffect ==
  ASSUME TypeOK, NEW h \in Sockets, CloseSocket(h)
  PROVE  /\ UNCHANGED <<portVars, sockVars, completions, pc, call>>
         /\ \A b \in Blocks :
              \/ io'[b] = io[b]
              \/ /\ io[b].request \in {"pending", "cancelling"}
                 /\ io'[b].request = "orphaned"
<1>1. io \in [Blocks -> IoBlock]
  BY DEF TypeOK, DriverType
<1>2. ASSUME NEW b \in Blocks
      PROVE  \/ io'[b] = io[b]
             \/ /\ io[b].request \in {"pending", "cancelling"}
                /\ io'[b].request = "orphaned"
  <2>1. [io[b] EXCEPT !.request = "orphaned"].request = "orphaned"
    BY <1>1 DEF IoBlock
  <2> DEFINE r == [io[b] EXCEPT !.request = "orphaned"]
  <2>2. io'[b] = IF /\ sock[b].socket = h
                    /\ io[b].request \in {"pending", "cancelling"}
                 THEN r ELSE io[b]
    BY DEF CloseSocket
  <2> HIDE DEF r
  <2> QED  BY <2>1, <2>2 DEF r
<1>3. UNCHANGED <<portVars, sockVars, completions, pc, call>>
  BY DEF CloseSocket
<1> QED  BY <1>2, <1>3

-----------------------------------------------------------------------------
(* The driver and the memory of the sock_state objects.                    *)

\* poll_status says whether a request is out; a free block has none.
Owned(b) ==
  IF Allocated(b) THEN sock[b].poll_status = "IDLE" <=> io[b].request = "none"
  ELSE io[b].request = "none"

LEMMA DeleteKeepsOwned ==
  ASSUME TypeOK, NEW b \in Blocks, NEW s, Deleting(b, s, FALSE),
         \A c \in Blocks : Owned(c),
         \A c \in Blocks \ {b} : io'[c] = io[c],
         IF Allocated(b) THEN s.poll_status = "IDLE" <=> io'[b].request = "none"
         ELSE io'[b].request = "none"
  PROVE  \A c \in Blocks : Owned(c)'
<1>1. /\ \A c \in Blocks \ {b} : sock'[c] = sock[c]
      /\ MayFree(s, FALSE) => sock'[b] = FreeBlock
      /\ ~MayFree(s, FALSE) => sock'[b] = [s EXCEPT !.delete_pending = TRUE]
  BY DeleteEffect
<1>2. \A c \in Blocks \ {b} : Owned(c)'
  BY <1>1 DEF Owned, Allocated
<1>3. CASE MayFree(s, FALSE)
  <2>1. sock'[b].socket = NULL
    BY <1>1, <1>3 DEF FreeBlock
  <2>2. io'[b].request = "none"
    BY <1>3 DEF MayFree
  <2> QED  BY <1>2, <2>1, <2>2 DEF Owned, Allocated
<1>4. CASE ~MayFree(s, FALSE)
  <2>1. sock'[b] = [s EXCEPT !.delete_pending = TRUE]
    BY <1>1, <1>4
  <2>2. /\ sock'[b].socket = sock[b].socket
        /\ sock'[b].poll_status = s.poll_status
    BY <2>1 DEF Deleting, SockState
  <2> QED  BY <1>2, <2>2 DEF Owned, Allocated
<1> QED  BY <1>3, <1>4

LEMMA CtlDelKeepsOwned ==
  ASSUME TypeOK, NEW t \in Threads, NEW h \in Sockets, CtlDel(t, h),
         \A c \in Blocks : Owned(c)
  PROVE  \A c \in Blocks : Owned(c)'
<1> DEFINE b == sock_tree[h]
<1>1. b \in Blocks /\ CancelAndDelete(b, FALSE)
  BY DEF CtlDel, TypeOK, SockType
<1> HIDE DEF b
<1>2. CASE UNCHANGED io /\ Deleting(b, sock[b], FALSE)
  BY <1>1, <1>2, DeleteKeepsOwned DEF Owned
<1>3. CASE /\ Registered(b)
           /\ sock[b].poll_status = "PENDING"
           /\ afd_cancel_poll(b)
           /\ Deleting(b, CancelledPoll(sock[b]), FALSE)
  <2>1. /\ \A c \in Blocks \ {b} : io'[c] = io[c]
        /\ io'[b].request = "none" <=> io[b].request = "none"
    BY <1>1, <1>3, CancelEffect
  <2>2. CancelledPoll(sock[b]).poll_status = "CANCELLED"
    BY <1>1 DEF CancelledPoll, TypeOK, SockType, SockState
  <2>3. io[b].request # "none" /\ Allocated(b)
    BY <1>1, <1>3 DEF Owned, Registered
  <2> QED  BY <1>1, <1>3, <2>1, <2>2, <2>3, DeleteKeepsOwned
<1> QED  BY <1>1, <1>2, <1>3, CancelDeletes

LEMMA UpdateKeepsOwned ==
  ASSUME TypeOK, NEW t \in Threads,
         \/ UpdateNothing(t) \/ UpdateCancel(t)
         \/ UpdateSubmit(t) \/ UpdateDrop(t),
         \A c \in Blocks : Owned(c)
  PROVE  \A c \in Blocks : Owned(c)'
<1>0. sock \in [Blocks -> SockState]
  BY DEF TypeOK, SockType
<1>1. CASE UpdateNothing(t)
  BY <1>1, UpdateNothingEffect DEF Owned, Allocated
<1>2. CASE UpdateCancel(t)
  <2>1. PICK b \in Blocks :
          /\ afd_cancel_poll(b) /\ Untouched(b)
          /\ sock[b].poll_status = "PENDING"
          /\ sock'[b] = CancelledPoll(sock[b])
    BY <1>2, UpdateCancelEffect
  <2>2. io'[b].request = "none" <=> io[b].request = "none"
    BY <2>1, CancelEffect
  <2>3. /\ sock'[b].poll_status = "CANCELLED"
        /\ sock'[b].socket = sock[b].socket
    BY <1>0, <2>1 DEF CancelledPoll, SockState
  <2>4. Owned(b)'
    BY <2>1, <2>2, <2>3 DEF Owned, Allocated
  <2> QED  BY <2>1, <2>4 DEF Untouched, Owned, Allocated
<1>3. CASE UpdateSubmit(t)
  <2>1. PICK b \in Blocks :
          /\ Untouched(b) /\ Allocated(b)
          /\ sock'[b] = Polled(sock[b])
          /\ io'[b].request = "pending"
    BY <1>3, UpdateSubmitEffect
  <2>2. /\ sock'[b].poll_status = "PENDING"
        /\ sock'[b].socket = sock[b].socket
    BY <1>0, <2>1 DEF Polled, SockState
  <2>3. Owned(b)'
    BY <2>1, <2>2 DEF Owned, Allocated
  <2> QED  BY <2>1, <2>3 DEF Untouched, Owned, Allocated
<1>4. CASE UpdateDrop(t)
  <2>1. PICK b \in Blocks :
          /\ sock__delete(b, sock[b], FALSE) /\ UNCHANGED io
    BY <1>4 DEF UpdateDrop
  <2>2. Deleting(b, sock[b], FALSE)
    BY <1>0, <2>1 DEF Deleting
  <2> QED  BY <2>1, <2>2, DeleteKeepsOwned DEF Owned
<1> QED  BY <1>1, <1>2, <1>3, <1>4

LEMMA FeedKeepsOwned ==
  ASSUME TypeOK, NEW t \in Threads, FeedDelete(t) \/ FeedEvent(t),
         \A c \in Blocks : Owned(c)
  PROVE  \A c \in Blocks : Owned(c)'
<1>1. CASE FeedDelete(t)
  <2>1. PICK b \in Blocks :
          FeedFirst(t, b) /\ sock__delete(b, Returned(b), FALSE)
    BY <1>1 DEF FeedDelete
  <2>2. Deleting(b, Returned(b), FALSE) /\ Returned(b).poll_status = "IDLE"
    BY <2>1, ReturnedFields DEF Deleting
  <2> QED  BY <2>1, <2>2, FeedFirstEffect, DeleteKeepsOwned
<1>2. CASE FeedEvent(t)
  <2>1. PICK b \in Blocks :
          /\ Untouched(b)
          /\ sock'[b].poll_status = "IDLE" /\ io'[b].request = "none"
    BY <1>2, FeedEventEffect
  <2>2. Owned(b)'
    BY <2>1 DEF Owned
  <2> QED  BY <2>1, <2>2 DEF Untouched, Owned, Allocated
<1> QED  BY <1>1, <1>2

LEMMA OwnedStep ==
  ASSUME TypeOK, Lifecycle, KernelOwnsBlock, [Next]_vars
  PROVE  KernelOwnsBlock'
<1> SUFFICES ASSUME lifecycle' \notin {"deleting", "freed"}
             PROVE  \A c \in Blocks : Owned(c)'
  BY DEF KernelOwnsBlock, Owned
<1>1. lifecycle \notin {"deleting", "freed"}
  BY DeletedForGood
<1>2. \A c \in Blocks : Owned(c)
  BY <1>1 DEF KernelOwnsBlock, Owned
<1>3. CASE UNCHANGED registry
  BY <1>2, <1>3 DEF registry, Owned, Allocated
<1>4. ASSUME NEW t \in Threads, NEW h \in Sockets, NEW m \in EventMasks,
             CtlAdd(t, h, m)
      PROVE  \A c \in Blocks : Owned(c)'
  <2>1. PICK b \in Blocks :
          /\ ~Allocated(b) /\ sock'[b].poll_status = "IDLE"
          /\ \A c \in Blocks \ {b} : sock'[c] = sock[c]
    BY <1>4, AddEffect
  <2>2. UNCHANGED io
    BY <1>4, AddEffect
  <2>3. Owned(b)'
    BY <1>2, <2>1, <2>2 DEF Owned
  <2> QED  BY <1>2, <2>1, <2>2, <2>3 DEF Owned, Allocated
<1>5. ASSUME NEW t \in Threads, NEW h \in Sockets, NEW m \in EventMasks,
             CtlMod(t, h, m)
      PROVE  \A c \in Blocks : Owned(c)'
  <2>1. PICK b \in Blocks :
          /\ Untouched(b) /\ UNCHANGED io
          /\ sock'[b] = [sock[b] EXCEPT !.user_events = m \cup AlwaysReported]
    BY <1>5, ModEffect DEF Modified
  <2>2. /\ sock'[b].socket = sock[b].socket
        /\ sock'[b].poll_status = sock[b].poll_status
    BY <2>1 DEF TypeOK, SockType, SockState
  <2>3. Owned(b)'
    BY <1>2, <2>1, <2>2 DEF Owned, Allocated
  <2> QED  BY <1>2, <2>1, <2>3 DEF Untouched, Owned, Allocated
<1>6. ASSUME NEW t \in Threads, PortDeleteSocket(t)
      PROVE  FALSE
  BY <1>1, <1>6 DEF PortDeleteSocket, Lifecycle
<1>7. ASSUME NEW b \in Blocks, Afd(b)
      PROVE  \A c \in Blocks : Owned(c)'
  <2>1. UNCHANGED sock
    BY <1>7, AfdEffect DEF sockVars
  <2> QED  BY <1>2, <1>7, <2>1, AfdEffect DEF Owned, Allocated
<1>8. ASSUME NEW h \in Sockets, CloseSocket(h)
      PROVE  \A c \in Blocks : Owned(c)'
  <2>1. UNCHANGED sock
    BY <1>8, CloseSocketEffect DEF sockVars
  <2>2. ASSUME NEW c \in Blocks
        PROVE  io'[c].request = "none" <=> io[c].request = "none"
    BY <1>8, CloseSocketEffect
  <2> QED  BY <1>2, <2>1, <2>2 DEF Owned, Allocated
<1> QED
  BY <1>2, <1>3, <1>4, <1>5, <1>6, <1>7, <1>8, Steps, CtlDelKeepsOwned,
     UpdateKeepsOwned, FeedKeepsOwned

-----------------------------------------------------------------------------
(* What a sock_state knows of its request.                                 *)

\* RequestState, for the request r of a block that holds the sock_state s.
Knows(r, s) ==
  r.request = "pending" =>
    /\ r.Status = "PENDING"
    /\ s.poll_status # "CANCELLED"
    /\ s.poll_status = "PENDING" => r.Events = EpollToAfd(s.pending_events)

LEMMA DeleteKeepsKnown ==
  ASSUME TypeOK, NEW b \in Blocks, NEW s, NEW f, Deleting(b, s, f),
         \A c \in Blocks : Knows(io[c], sock[c]),
         \A c \in Blocks \ {b} : io'[c] = io[c],
         Knows(io'[b], s)
  PROVE  \A c \in Blocks : Knows(io'[c], sock'[c])
<1>1. /\ \A c \in Blocks \ {b} : sock'[c] = sock[c]
      /\ \/ sock'[b] = FreeBlock
         \/ sock'[b] = [s EXCEPT !.delete_pending = TRUE]
  BY DeleteEffect
<1>2. \A c \in Blocks \ {b} : Knows(io'[c], sock'[c])
  BY <1>1
<1>3. CASE sock'[b] = FreeBlock
  <2>1. sock'[b].poll_status = "IDLE"
    BY <1>3 DEF FreeBlock
  <2> QED  BY <1>2, <2>1 DEF Knows
<1>4. CASE sock'[b] = [s EXCEPT !.delete_pending = TRUE]
  <2>1. /\ sock'[b].poll_status = s.poll_status
        /\ sock'[b].pending_events = s.pending_events
    BY <1>4 DEF Deleting, SockState
  <2>2. Knows(io'[b], sock'[b])
    BY <2>1 DEF Knows
  <2> QED  BY <1>2, <2>2
<1> QED  BY <1>1, <1>3, <1>4

LEMMA CancelAndDeleteKeepsKnown ==
  ASSUME TypeOK, NEW b \in Blocks, NEW f, CancelAndDelete(b, f),
         \A c \in Blocks : Knows(io[c], sock[c])
  PROVE  \A c \in Blocks : Knows(io'[c], sock'[c])
<1>1. CASE UNCHANGED io /\ Deleting(b, sock[b], f)
  BY <1>1, DeleteKeepsKnown
<1>2. CASE afd_cancel_poll(b) /\ Deleting(b, CancelledPoll(sock[b]), f)
  <2>1. io'[b].request # "pending" /\ \A c \in Blocks \ {b} : io'[c] = io[c]
    BY <1>2, CancelEffect DEF Knows
  <2> QED  BY <1>2, <2>1, DeleteKeepsKnown DEF Knows
<1> QED  BY <1>1, <1>2, CancelDeletes

LEMMA UpdateKeepsKnown ==
  ASSUME TypeOK, NEW t \in Threads,
         \/ UpdateNothing(t) \/ UpdateCancel(t)
         \/ UpdateSubmit(t) \/ UpdateDrop(t),
         \A c \in Blocks : Knows(io[c], sock[c])
  PROVE  \A c \in Blocks : Knows(io'[c], sock'[c])
<1>1. CASE UpdateNothing(t)
  BY <1>1, UpdateNothingEffect
<1>2. CASE UpdateCancel(t)
  <2>1. PICK b \in Blocks : afd_cancel_poll(b) /\ Untouched(b)
    BY <1>2, UpdateCancelEffect
  <2>2. io'[b].request # "pending"
    BY <2>1, CancelEffect DEF Knows
  <2> QED  BY <2>1, <2>2 DEF Untouched, Knows
<1>3. CASE UpdateSubmit(t)
  <2>1. PICK b \in Blocks :
          /\ Untouched(b)
          /\ sock'[b] = Polled(sock[b])
          /\ io'[b].Status = "PENDING"
          /\ io'[b].Events = EpollToAfd(sock[b].user_events)
    BY <1>3, UpdateSubmitEffect
  <2>2. /\ sock'[b].poll_status = "PENDING"
        /\ sock'[b].pending_events = sock[b].user_events
    BY <2>1 DEF Polled, TypeOK, SockType, SockState
  <2>3. Knows(io'[b], sock'[b])
    BY <2>1, <2>2 DEF Knows
  <2> QED  BY <2>1, <2>3 DEF Untouched
<1>4. CASE UpdateDrop(t)
  <2>1. PICK b \in Blocks :
          /\ sock__delete(b, sock[b], FALSE) /\ UNCHANGED io
    BY <1>4 DEF UpdateDrop
  <2>2. Deleting(b, sock[b], FALSE)
    BY <2>1 DEF Deleting, TypeOK, SockType
  <2> QED  BY <2>1, <2>2, DeleteKeepsKnown
<1> QED  BY <1>1, <1>2, <1>3, <1>4

LEMMA RequestStep ==
  ASSUME TypeOK, RequestState, [Next]_vars
  PROVE  RequestState'
<1> SUFFICES \A c \in Blocks : Knows(io'[c], sock'[c])
  BY DEF RequestState, Knows
<1>1. \A c \in Blocks : Knows(io[c], sock[c])
  BY DEF RequestState, Knows
<1>2. CASE UNCHANGED registry
  BY <1>1, <1>2 DEF registry
<1>3. ASSUME NEW t \in Threads, NEW h \in Sockets, NEW m \in EventMasks,
             CtlAdd(t, h, m)
      PROVE  \A c \in Blocks : Knows(io'[c], sock'[c])
  <2>1. PICK b \in Blocks :
          /\ ~Allocated(b) /\ sock'[b].poll_status = "IDLE"
          /\ \A c \in Blocks \ {b} : sock'[c] = sock[c]
    BY <1>3, AddEffect
  <2>2. UNCHANGED io
    BY <1>3, AddEffect
  <2>3. Knows(io'[b], sock'[b])
    BY <1>1, <2>1, <2>2 DEF Knows
  <2> QED  BY <1>1, <2>1, <2>2, <2>3
<1>4. ASSUME NEW t \in Threads, NEW h \in Sockets, NEW m \in EventMasks,
             CtlMod(t, h, m)
      PROVE  \A c \in Blocks : Knows(io'[c], sock'[c])
  <2>1. PICK b \in Blocks :
          /\ Untouched(b) /\ UNCHANGED io
          /\ sock'[b] = [sock[b] EXCEPT !.user_events = m \cup AlwaysReported]
    BY <1>4, ModEffect DEF Modified
  <2>2. /\ sock'[b].poll_status = sock[b].poll_status
        /\ sock'[b].pending_events = sock[b].pending_events
    BY <2>1 DEF TypeOK, SockType, SockState
  <2>3. Knows(io'[b], sock'[b])
    BY <1>1, <2>1, <2>2 DEF Knows
  <2> QED  BY <1>1, <2>1, <2>3 DEF Untouched
<1>5. ASSUME NEW t \in Threads,
             (\E h \in Sockets : CtlDel(t, h)) \/ PortDeleteSocket(t)
      PROVE  \A c \in Blocks : Knows(io'[c], sock'[c])
  <2>1. \A h \in Sockets : sock_tree[h] # NULL => sock_tree[h] \in Blocks
    BY DEF TypeOK, SockType
  <2>2. sock_deleted_queue # <<>> => Head(sock_deleted_queue) \in Blocks
    BY DEF TypeOK, SockType
  <2>3. \E b \in Blocks, f \in BOOLEAN : CancelAndDelete(b, f)
    BY <1>5, <2>1, <2>2 DEF CtlDel, PortDeleteSocket
  <2> QED  BY <1>1, <2>3, CancelAndDeleteKeepsKnown
<1>6. ASSUME NEW t \in Threads, FeedDelete(t)
      PROVE  \A c \in Blocks : Knows(io'[c], sock'[c])
  <2>1. PICK b \in Blocks :
          FeedFirst(t, b) /\ sock__delete(b, Returned(b), FALSE)
    BY <1>6 DEF FeedDelete
  <2>2. Deleting(b, Returned(b), FALSE)
    BY <2>1, ReturnedFields DEF Deleting
  <2>3. io'[b].request = "none" /\ \A c \in Blocks \ {b} : io'[c] = io[c]
    BY <2>1, FeedFirstEffect
  <2> QED  BY <1>1, <2>2, <2>3, DeleteKeepsKnown DEF Knows
<1>7. ASSUME NEW t \in Threads, FeedEvent(t)
      PROVE  \A c \in Blocks : Knows(io'[c], sock'[c])
  <2>1. PICK b \in Blocks : Untouched(b) /\ io'[b].request = "none"
    BY <1>7, FeedEventEffect
  <2>2. Knows(io'[b], sock'[b])
    BY <2>1 DEF Knows
  <2> QED  BY <1>1, <2>1, <2>2 DEF Untouched
<1>8. ASSUME NEW b \in Blocks, Afd(b)
      PROVE  \A c \in Blocks : Knows(io'[c], sock'[c])
  <2>1. UNCHANGED sock
    BY <1>8, AfdEffect DEF sockVars
  <2>2. Knows(io'[b], sock'[b])
    BY <1>8, AfdEffect DEF Knows
  <2> QED  BY <1>1, <1>8, <2>1, <2>2, AfdEffect
<1>9. ASSUME NEW h \in Sockets, CloseSocket(h)
      PROVE  \A c \in Blocks : Knows(io'[c], sock'[c])
  <2>1. UNCHANGED sock
    BY <1>9, CloseSocketEffect DEF sockVars
  <2>2. ASSUME NEW c \in Blocks
        PROVE  io'[c] = io[c] \/ io'[c].request = "orphaned"
    BY <1>9, CloseSocketEffect
  <2> QED  BY <1>1, <2>1, <2>2 DEF Knows
<1> QED
  BY <1>1, <1>2, <1>3, <1>4, <1>5, <1>6, <1>7, <1>8, <1>9, Steps,
     UpdateKeepsKnown

-----------------------------------------------------------------------------
(* The batch of packets that a thread holds.                               *)

\* BatchUse, for a thread at label p with the call c.
UseAt(p, c) ==
  /\ c.batch # <<>> => p \in {"relock", "feed"} /\ ~c.failed
  /\ c.failed => p \in {"relock", "last_update"}

\* Thread t alone moves, and no batch changes.
CalmStep(t) ==
  /\ \A u \in Threads \ {t} : pc'[u] = pc[u] /\ call'[u] = call[u]
  /\ UseAt(pc'[t], call'[t])
  /\ call'[t].batch = call[t].batch

LEMMA GotoCalm ==
  ASSUME TypeOK, NEW t \in Threads, NEW l, Goto(t, l), UNCHANGED call,
         call[t].batch = <<>>,
         call[t].failed => l \in {"relock", "last_update"}
  PROVE  CalmStep(t)
<1>1. pc'[t] = l /\ \A u \in Threads \ {t} : pc'[u] = pc[u]
  BY DEF Goto, TypeOK, ThreadType
<1> QED  BY <1>1 DEF CalmStep, UseAt

LEMMA LeaveCalm ==
  ASSUME TypeOK, NEW t \in Threads, Leave(t), call[t].batch = <<>>
  PROVE  CalmStep(t)
<1>1. /\ pc' = [pc EXCEPT ![t] = "idle"] /\ call' = [call EXCEPT ![t] = NoCall]
      /\ pc \in [Threads -> Labels] /\ call \in [Threads -> Call]
  BY DEF Leave, Goto, TypeOK, ThreadType
<1>2. NoCall.batch = <<>> /\ ~NoCall.failed
  BY DEF NoCall
<1>3. /\ \A u \in Threads \ {t} : pc'[u] = pc[u] /\ call'[u] = call[u]
      /\ call'[t] = NoCall
  BY <1>1
<1> QED  BY <1>2, <1>3 DEF CalmStep, UseAt

LEMMA PollingCalm ==
  ASSUME TypeOK, NEW t \in Threads, port_update_events_if_polling(t),
         call[t].batch = <<>>
  PROVE  CalmStep(t)
  BY LeaveCalm, GotoCalm DEF port_update_events_if_polling

LEMMA CtlCalm ==
  ASSUME TypeOK, BatchUse, NEW t \in Threads, Ctl(t), ~UNCHANGED <<pc, call>>
  PROVE  CalmStep(t)
<1>1. pc[t] = "entered"
  BY DEF Ctl, CtlAdd, CtlAddFails, CtlAddAborts, CtlMod, CtlDel, CtlFails, InCtl
<1>2. call[t].batch = <<>>
  BY <1>1 DEF BatchUse
<1>3. \/ Leave(t) \/ port_update_events_if_polling(t)
      \/ UNCHANGED <<pc, call>>
  BY DEF Ctl, CtlAdd, CtlAddFails, CtlAddAborts, CtlMod, CtlDel, CtlFails
<1> QED  BY <1>2, <1>3, LeaveCalm, PollingCalm

LEMMA UpdateCalm ==
  ASSUME TypeOK, BatchUse, NEW t \in Threads, Update(t),
         ~UNCHANGED <<pc, call>>
  PROVE  CalmStep(t)
<1>1. UpdateFails(t) \/ UpdateDone(t)
  BY DEF Update, UpdateNothing, UpdateCancel, UpdateSubmit, UpdateDrop,
     UpdateFirst
<1>2. pc[t] \in {"update", "last_update"}
  BY <1>1 DEF UpdateFails, UpdateDone, InUpdate
<1>3. call[t].batch = <<>> /\ (pc[t] = "update" => ~call[t].failed)
  BY <1>2 DEF BatchUse
<1>4. \/ Leave(t) \/ port_update_events_if_polling(t)
      \/ pc[t] = "update" /\ Goto(t, "gqcs") /\ UNCHANGED call
  BY <1>1 DEF UpdateFails, UpdateDone
<1> QED  BY <1>3, <1>4, LeaveCalm, PollingCalm, GotoCalm

LEMMA WaitStartCalm ==
  ASSUME TypeOK, BatchUse, NEW t \in Threads, NEW w \in Timeouts,
         NEW n \in 1 .. MaxEvents, WaitStart(t, w, n)
  PROVE  CalmStep(t)
<1>1. pc[t] = "entered" /\ call[t].batch = <<>> /\ ~call[t].failed
  BY DEF WaitStart, InCtl, BatchUse
<1> DEFINE c == [call[t] EXCEPT !.timeout = w, !.maxevents = n]
<1>2. call \in [Threads -> Call] /\ pc \in [Threads -> Labels]
  BY DEF TypeOK, ThreadType
<1>3. c.batch = call[t].batch /\ c.failed = call[t].failed
  BY <1>2 DEF Call
<1>4. call' = [call EXCEPT ![t] = c] /\ pc' = [pc EXCEPT ![t] = "update"]
  BY <1>2 DEF WaitStart, Goto
<1> HIDE DEF c
<1>5. /\ \A u \in Threads \ {t} : pc'[u] = pc[u] /\ call'[u] = call[u]
      /\ call'[t] = c
  BY <1>2, <1>4
<1> QED  BY <1>1, <1>3, <1>5 DEF CalmStep, UseAt

LEMMA GqcsFailsCalm ==
  ASSUME TypeOK, BatchUse, NEW t \in Threads, GqcsFails(t)
  PROVE  CalmStep(t)
<1>1. call[t].batch = <<>>
  BY DEF GqcsFails, BatchUse
<1> DEFINE c == [call[t] EXCEPT !.failed = TRUE]
<1>2. call \in [Threads -> Call] /\ pc \in [Threads -> Labels]
  BY DEF TypeOK, ThreadType
<1>3. c.batch = call[t].batch
  BY <1>2 DEF Call
<1>4. call' = [call EXCEPT ![t] = c] /\ pc' = [pc EXCEPT ![t] = "relock"]
  BY DEF GqcsFails, Goto
<1> HIDE DEF c
<1>5. /\ \A u \in Threads \ {t} : pc'[u] = pc[u] /\ call'[u] = call[u]
      /\ call'[t] = c /\ pc'[t] = "relock"
  BY <1>2, <1>4
<1> QED  BY <1>1, <1>3, <1>5 DEF CalmStep, UseAt

LEMMA RelockCalm ==
  ASSUME TypeOK, BatchUse, NEW t \in Threads, Relock(t)
  PROVE  CalmStep(t)
<1>1. CASE call[t].failed
  BY <1>1, PollingCalm DEF Relock, BatchUse
<1>2. CASE ~call[t].failed
  <2>1. /\ pc' = [pc EXCEPT ![t] = "feed"] /\ call' = call
        /\ pc \in [Threads -> Labels]
    BY <1>2 DEF Relock, Goto, TypeOK, ThreadType
  <2> QED  BY <1>2, <2>1 DEF CalmStep, UseAt
<1> QED  BY <1>1, <1>2

LEMMA FeedDoneCalm ==
  ASSUME TypeOK, BatchUse, NEW t \in Threads, FeedDone(t)
  PROVE  CalmStep(t)
<1>1. call[t].batch = <<>> /\ ~call[t].failed
  BY DEF FeedDone, BatchUse
<1>2. \/ Goto(t, "update") /\ UNCHANGED call
      \/ port_update_events_if_polling(t)
  BY DEF FeedDone
<1> QED  BY <1>1, <1>2, GotoCalm, PollingCalm

LEMMA EnterCalm ==
  ASSUME TypeOK, BatchUse, NEW t \in Threads, Enter(t) \/ Close(t),
         ~UNCHANGED <<pc, call>>
  PROVE  CalmStep(t)
<1>1. call[t].batch = <<>> /\ ~call[t].failed
  BY DEF Enter, Close, CloseStart, PortClose, CloseReady, CloseAlone,
     PortDeleteSocket, PortFree, BatchUse
<1>2. \E l \in Labels : Goto(t, l) /\ UNCHANGED call
  BY DEF Enter, Close, CloseStart, PortClose, CloseAlone, PortDeleteSocket,
     PortFree, Labels
<1> QED  BY <1>1, <1>2, GotoCalm

(* Only the two sides of the batch change it.                              *)
LEMMA BatchSteps ==
  ASSUME TypeOK, BatchUse, [Next]_vars
  PROVE  \/ UNCHANGED <<pc, call>>
         \/ \E t \in Threads : \/ CalmStep(t)
                               \/ GqcsPackets(t)
                               \/ FeedDelete(t) \/ FeedEvent(t)
<1>1. ASSUME NEW t \in Threads, Wait(t)
      PROVE  CalmStep(t) \/ GqcsPackets(t) \/ FeedDelete(t) \/ FeedEvent(t)
  BY <1>1, WaitStartCalm, GqcsFailsCalm, RelockCalm, FeedDoneCalm DEF Wait
<1>2. ASSUME NEW b \in Blocks, Afd(b)
      PROVE  UNCHANGED <<pc, call>>
  BY <1>2, AfdEffect
<1>3. ASSUME NEW h \in Sockets, World(h)
      PROVE  UNCHANGED <<pc, call>>
  BY <1>3 DEF World, SetReady, CloseSocket, OpenSocket
<1>4. UNCHANGED vars => UNCHANGED <<pc, call>>
  BY DEF vars
<1> QED
  BY <1>1, <1>2, <1>3, <1>4, CtlCalm, UpdateCalm, EnterCalm DEF Next, Stopped

-----------------------------------------------------------------------------
(* The packets.                                                            *)

\* A step that neither makes, takes nor feeds a packet.
NoPacketMoves ==
  /\ \A t \in Threads : call'[t].batch = call[t].batch
  /\ \A b \in Blocks : io'[b].request = "completed"
                         <=> io[b].request = "completed"
  /\ \/ UNCHANGED completions
     \/ completions' = <<>> /\ ~iocp_handle'
  /\ iocp_handle' => iocp_handle

LEMMA CompletedSteps ==
  ASSUME TypeOK, Lifecycle, KernelOwnsBlock, [Next]_vars
  PROVE  \/ \A b \in Blocks : io'[b].request = "completed"
                                <=> io[b].request = "completed"
         \/ \E t \in Threads : FeedDelete(t) \/ FeedEvent(t)
         \/ \E b \in Blocks : Afd(b)
<1>1. UNCHANGED io => \A b \in Blocks : io'[b].request = "completed"
                                          <=> io[b].request = "completed"
  OBVIOUS
<1>2. ASSUME NEW b \in Blocks, afd_cancel_poll(b), NEW c \in Blocks
      PROVE  io'[c].request = "completed" <=> io[c].request = "completed"
  <2>1. CASE c = b
    BY <1>2, <2>1, CancelEffect
  <2>2. CASE c # b
    <3>1. io'[c] = io[c]
      BY <1>2, <2>2, CancelEffect
    <3> QED  BY <3>1
  <2> QED  BY <2>1, <2>2
<1>3. UNCHANGED registry => UNCHANGED io
  BY DEF registry
<1>4. ASSUME NEW t \in Threads, NEW h \in Sockets, NEW m \in EventMasks,
             CtlAdd(t, h, m) \/ CtlMod(t, h, m)
      PROVE  UNCHANGED io
  BY <1>4 DEF CtlAdd, CtlMod, driverVars
<1>5. ASSUME NEW t \in Threads,
             (\E h \in Sockets : CtlDel(t, h)) \/ PortDeleteSocket(t)
      PROVE  UNCHANGED io \/ \E b \in Blocks : afd_cancel_poll(b)
  <2>1. \A h \in Sockets : sock_tree[h] # NULL => sock_tree[h] \in Blocks
    BY DEF TypeOK, SockType
  <2>2. sock_deleted_queue # <<>> => Head(sock_deleted_queue) \in Blocks
    BY DEF TypeOK, SockType
  <2>3. \E b \in Blocks, f \in BOOLEAN : CancelAndDelete(b, f)
    BY <1>5, <2>1, <2>2 DEF CtlDel, PortDeleteSocket
  <2> QED  BY <2>3 DEF CancelAndDelete
<1>6. ASSUME NEW t \in Threads,
             \/ UpdateNothing(t) \/ UpdateCancel(t) \/ UpdateDrop(t)
      PROVE  UNCHANGED io \/ \E b \in Blocks : afd_cancel_poll(b)
  BY <1>6 DEF UpdateNothing, UpdateCancel, UpdateDrop
<1>7. ASSUME NEW t \in Threads, UpdateSubmit(t), NEW c \in Blocks
      PROVE  io'[c].request = "completed" <=> io[c].request = "completed"
  <2>1. PICK b \in Blocks :
          /\ UpdateFirst(t, b) /\ Untouched(b)
          /\ Allocated(b) /\ sock[b].poll_status = "IDLE"
          /\ io'[b].request = "pending"
    BY <1>7, UpdateSubmitEffect
  <2>2. lifecycle \notin {"deleting", "freed"}
    BY <2>1, InsideLives DEF UpdateFirst, InUpdate
  <2>3. io[b].request = "none"
    BY <2>1, <2>2 DEF KernelOwnsBlock
  <2>4. c # b => io'[c] = io[c]
    BY <2>1 DEF Untouched
  <2> QED  BY <2>1, <2>3, <2>4
<1>8. ASSUME NEW h \in Sockets, CloseSocket(h), NEW c \in Blocks
      PROVE  io'[c].request = "completed" <=> io[c].request = "completed"
  <2>1. \/ io'[c] = io[c]
        \/ /\ io[c].request \in {"pending", "cancelling"}
           /\ io'[c].request = "orphaned"
    BY <1>8, CloseSocketEffect
  <2> QED  BY <2>1
<1> HIDE DEF registry
<1> QED
  BY <1>1, <1>2, <1>3, <1>4, <1>5, <1>6, <1>7, <1>8, Steps

LEMMA CompletionsSteps ==
  ASSUME TypeOK, [Next]_vars
  PROVE  \/ /\ \/ UNCHANGED completions
               \/ completions' = <<>> /\ ~iocp_handle'
            /\ iocp_handle' => iocp_handle
         \/ \E t \in Threads : GqcsPackets(t)
         \/ \E b \in Blocks : Afd(b)
<1> DEFINE Same == UNCHANGED <<completions, iocp_handle>>
<1>1. ASSUME NEW t \in Threads, Ctl(t)
      PROVE  Same
  BY <1>1 DEF Ctl, CtlAdd, CtlAddFails, CtlAddAborts, CtlMod, CtlDel, CtlFails,
     driverVars
<1>2. ASSUME NEW t \in Threads, Update(t)
      PROVE  Same
  BY <1>2 DEF Update, UpdateNothing, UpdateCancel, UpdateSubmit, UpdateDrop,
     UpdateFirst, UpdateFails, UpdateDone, driverVars, portVars
<1>3. ASSUME NEW t \in Threads, Wait(t)
      PROVE  Same \/ GqcsPackets(t)
  BY <1>3 DEF Wait, WaitStart, GqcsFails, Relock, FeedDelete, FeedEvent,
     FeedFirst, FeedDone, driverVars, portVars
<1>4. ASSUME NEW t \in Threads, Enter(t) \/ Close(t), ~PortClose(t)
      PROVE  Same
  BY <1>4 DEF Enter, Close, CloseStart, CloseAlone, PortDeleteSocket, PortFree,
     driverVars, portVars
<1>5. ASSUME NEW t \in Threads, PortClose(t)
      PROVE  completions' = <<>> /\ ~iocp_handle'
  BY <1>5 DEF PortClose
<1>6. ASSUME NEW h \in Sockets, World(h)
      PROVE  Same
  BY <1>6 DEF World, SetReady, CloseSocket, OpenSocket, driverVars, portVars
<1>7. UNCHANGED vars => Same
  BY DEF vars, driverVars, portVars
<1>8. Same => /\ UNCHANGED completions
              /\ iocp_handle' => iocp_handle
  OBVIOUS
<1> HIDE DEF Same
<1>9. ASSUME NEW t \in Threads,
             Enter(t) \/ Ctl(t) \/ Update(t) \/ Wait(t) \/ Close(t)
      PROVE  Same \/ GqcsPackets(t) \/ (completions' = <<>> /\ ~iocp_handle')
  BY <1>1, <1>2, <1>3, <1>4, <1>5, <1>9
<1> QED
  BY <1>6, <1>7, <1>8, <1>9 DEF Next, Stopped

LEMMA PacketSteps ==
  ASSUME TypeOK, Lifecycle, KernelOwnsBlock, BatchUse, [Next]_vars
  PROVE  \/ NoPacketMoves
         \/ \E t \in Threads : GqcsPackets(t)
         \/ \E t \in Threads : FeedDelete(t) \/ FeedEvent(t)
         \/ \E b \in Blocks : Afd(b)
<1>1. \/ \A t \in Threads : call'[t].batch = call[t].batch
      \/ \E t \in Threads : GqcsPackets(t)
      \/ \E t \in Threads : FeedDelete(t) \/ FeedEvent(t)
  BY BatchSteps DEF CalmStep
<1> QED  BY <1>1, CompletedSteps, CompletionsSteps DEF NoPacketMoves

(* GetQueuedCompletionStatusEx moves packets from the IOCP to a batch.     *)
LEMMA GqcsEffect ==
  ASSUME TypeOK, Distinct(completions), NEW t \in Threads, GqcsPackets(t)
  PROVE  /\ UNCHANGED <<io, iocp_handle>>
         /\ pc[t] = "gqcs" /\ pc'[t] = "relock"
         /\ call'[t].failed = call[t].failed
         /\ \A u \in Threads \ {t} : pc'[u] = pc[u] /\ call'[u] = call[u]
         /\ Distinct(completions') /\ Distinct(call'[t].batch)
         /\ Elements(completions') \cup Elements(call'[t].batch)
              = Elements(completions)
         /\ Elements(completions') \cap Elements(call'[t].batch) = {}
<1> DEFINE n == IF Len(completions) < call[t].maxevents THEN Len(completions)
                ELSE call[t].maxevents
           front == SubSeq(completions, 1, n)
           back  == SubSeq(completions, n + 1, Len(completions))
           c == [call[t] EXCEPT !.batch = front]
<1>1. /\ call \in [Threads -> Call] /\ pc \in [Threads -> Labels]
      /\ completions \in Seq(Blocks)
  BY DEF TypeOK, ThreadType, DriverType
<1>2. n \in 0 .. Len(completions)
  <2>1. call[t].maxevents \in 1 .. MaxEvents /\ Len(completions) \in Nat
    BY <1>1 DEF Call
  <2> QED  BY <2>1
<1>3. /\ UNCHANGED <<io, iocp_handle>>
      /\ pc[t] = "gqcs"
      /\ pc' = [pc EXCEPT ![t] = "relock"]
      /\ call' = [call EXCEPT ![t] = c]
      /\ completions' = back
  BY DEF GqcsPackets, Goto, portVars
<1> HIDE DEF n
<1>4. /\ Distinct(front) /\ Distinct(back)
      /\ Elements(front) \cup Elements(back) = Elements(completions)
      /\ Elements(front) \cap Elements(back) = {}
  BY <1>1, <1>2, SplitElements
<1> HIDE DEF front, back
<1>5. c.batch = front /\ c.failed = call[t].failed
  BY <1>1 DEF Call
<1> HIDE DEF c
<1>6. /\ pc'[t] = "relock" /\ call'[t] = c
      /\ \A u \in Threads \ {t} : pc'[u] = pc[u] /\ call'[u] = call[u]
  BY <1>1, <1>3
<1> QED  BY <1>3, <1>4, <1>5, <1>6

(* sock_feed_event takes the first packet of the batch.                    *)
LEMMA FeedEffect ==
  ASSUME TypeOK, NEW t \in Threads, Distinct(call[t].batch),
         FeedDelete(t) \/ FeedEvent(t)
  PROVE  /\ UNCHANGED <<completions, iocp_handle, pc>>
         /\ pc[t] = "feed"
         /\ call'[t].failed = call[t].failed
         /\ \A u \in Threads \ {t} : call'[u] = call[u]
         /\ Distinct(call'[t].batch)
         /\ \E b \in Elements(call[t].batch) :
              /\ \A c \in Blocks \ {b} : io'[c] = io[c]
              /\ io'[b].request = "none"
              /\ Elements(call'[t].batch) = Elements(call[t].batch) \ {b}
<1>1. PICK b \in Blocks :
        /\ FeedFirst(t, b)
        /\ \/ call' = [call EXCEPT ![t].batch = Tail(@)]
           \/ \E e : call' = [call EXCEPT ![t].batch = Tail(@),
                                          ![t].events = e]
  BY DEF FeedDelete, FeedEvent
<1>2. /\ call \in [Threads -> Call] /\ call[t].batch \in Seq(Blocks)
  BY DEF TypeOK, ThreadType, Call
<1>3. /\ UNCHANGED <<completions, iocp_handle, pc>>
      /\ pc[t] = "feed" /\ call[t].batch # <<>> /\ b = Head(call[t].batch)
  BY <1>1 DEF FeedFirst, portVars
<1> DEFINE q == call[t].batch
           r == Tail(q)
<1>4. /\ Distinct(r) /\ b \in Elements(q)
      /\ Elements(r) = Elements(q) \ {b}
  BY <1>2, <1>3, TailElements
<1>5. /\ call'[t].batch = r /\ call'[t].failed = call[t].failed
      /\ \A u \in Threads \ {t} : call'[u] = call[u]
  <2> HIDE DEF r
  <2>1. CASE call' = [call EXCEPT ![t].batch = r]
    BY <1>2, <2>1 DEF Call
  <2>2. ASSUME NEW e, call' = [call EXCEPT ![t].batch = r, ![t].events = e]
        PROVE  /\ call'[t].batch = r /\ call'[t].failed = call[t].failed
               /\ \A u \in Threads \ {t} : call'[u] = call[u]
    BY <1>2, <2>2 DEF Call
  <2> QED  BY <1>1, <2>1, <2>2 DEF r
<1>6. /\ io'[b].request = "none"
      /\ \A c \in Blocks \ {b} : io'[c] = io[c]
  BY <1>1, FeedFirstEffect
<1> HIDE DEF q, r
<1> QED  BY <1>3, <1>4, <1>5, <1>6 DEF q

LEMMA BatchUseStep ==
  ASSUME TypeOK, BatchUse, PacketPlaces, [Next]_vars
  PROVE  BatchUse'
<1>1. \A t \in Threads : UseAt(pc[t], call[t])
  BY DEF BatchUse, UseAt
<1> SUFFICES \A t \in Threads : UseAt(pc'[t], call'[t])
  BY DEF BatchUse, UseAt
<1>2. CASE UNCHANGED <<pc, call>>
  BY <1>1, <1>2
<1>3. ASSUME NEW t \in Threads, CalmStep(t)
      PROVE  \A u \in Threads : UseAt(pc'[u], call'[u])
  BY <1>1, <1>3 DEF CalmStep
<1>4. ASSUME NEW t \in Threads, GqcsPackets(t)
      PROVE  \A u \in Threads : UseAt(pc'[u], call'[u])
  <2>1. /\ pc[t] = "gqcs" /\ pc'[t] = "relock"
        /\ call'[t].failed = call[t].failed
        /\ \A u \in Threads \ {t} : pc'[u] = pc[u] /\ call'[u] = call[u]
    BY <1>4, GqcsEffect DEF PacketPlaces
  <2>2. UseAt(pc'[t], call'[t])
    BY <1>1, <2>1 DEF UseAt
  <2> QED  BY <1>1, <2>1, <2>2
<1>5. ASSUME NEW t \in Threads, FeedDelete(t) \/ FeedEvent(t)
      PROVE  \A u \in Threads : UseAt(pc'[u], call'[u])
  <2>1. /\ UNCHANGED pc /\ pc[t] = "feed"
        /\ call'[t].failed = call[t].failed
        /\ \A u \in Threads \ {t} : call'[u] = call[u]
    BY <1>5, FeedEffect DEF PacketPlaces
  <2>2. UseAt(pc'[t], call'[t])
    BY <1>1, <2>1 DEF UseAt
  <2> QED  BY <1>1, <2>1, <2>2
<1> QED  BY <1>2, <1>3, <1>4, <1>5, BatchSteps

(* Every packet is in one place, and names a request that is completed.    *)
LEMMA PlacesStep ==
  ASSUME TypeOK, Lifecycle, KernelOwnsBlock, BatchUse, PacketPlaces,
         [Next]_vars
  PROVE  PacketPlaces'
<1>1. /\ completions \in Seq(Blocks) /\ Elements(completions) \subseteq Blocks
      /\ \A t \in Threads : /\ call[t].batch \in Seq(Blocks)
                            /\ Elements(call[t].batch) \subseteq Blocks
  <2>1. \A q \in Seq(Blocks) : Elements(q) \subseteq Blocks
    BY DEF Elements
  <2> QED  BY <2>1 DEF TypeOK, DriverType, ThreadType, Call
<1>2. CASE NoPacketMoves
  <2>1. Distinct(completions')
        /\ Elements(completions') \subseteq Elements(completions)
    <3>1. Elements(<<>>) = {} /\ Distinct(<<>>)
      BY DEF Elements, Distinct
    <3> QED  BY <1>2, <3>1 DEF NoPacketMoves, PacketPlaces
  <2>2. \A b \in Elements(completions') : io'[b].request = "completed"
    BY <1>1, <1>2, <2>1 DEF NoPacketMoves, PacketPlaces
  <2>3. ASSUME NEW t \in Threads
        PROVE  /\ Distinct(call'[t].batch)
               /\ \A b \in Elements(call'[t].batch) :
                    /\ io'[b].request = "completed"
                    /\ b \notin Elements(completions')
               /\ \A u \in Threads \ {t} :
                    Elements(call'[t].batch) \cap Elements(call'[u].batch) = {}
    BY <1>1, <1>2, <2>1 DEF NoPacketMoves, PacketPlaces
  <2> QED  BY <2>1, <2>2, <2>3 DEF PacketPlaces
<1>3. ASSUME NEW t \in Threads, GqcsPackets(t)
      PROVE  PacketPlaces'
  <2>1. /\ UNCHANGED io
        /\ \A u \in Threads \ {t} : call'[u] = call[u]
        /\ Distinct(completions') /\ Distinct(call'[t].batch)
        /\ Elements(completions') \cup Elements(call'[t].batch)
             = Elements(completions)
        /\ Elements(completions') \cap Elements(call'[t].batch) = {}
    BY <1>3, GqcsEffect DEF PacketPlaces
  <2>2. ASSUME NEW u \in Threads \ {t}
        PROVE  /\ Elements(call'[u].batch) \cap Elements(completions') = {}
               /\ Elements(call'[u].batch) \cap Elements(call'[t].batch) = {}
    BY <2>1 DEF PacketPlaces
  <2>3. ASSUME NEW u \in Threads
        PROVE  /\ Distinct(call'[u].batch)
               /\ \A b \in Elements(call'[u].batch) :
                    /\ io'[b].request = "completed"
                    /\ b \notin Elements(completions')
    <3>1. CASE u = t
      BY <2>1, <3>1 DEF PacketPlaces
    <3>2. CASE u # t
      BY <2>1, <2>2, <3>2 DEF PacketPlaces
    <3> QED  BY <3>1, <3>2
  <2>4. ASSUME NEW u \in Threads, NEW v \in Threads \ {u}
        PROVE  Elements(call'[u].batch) \cap Elements(call'[v].batch) = {}
    <3>1. CASE u = t
      BY <2>2, <3>1
    <3>2. CASE v = t
      BY <2>2, <3>2
    <3>3. CASE u # t /\ v # t
      BY <2>1, <3>3 DEF PacketPlaces
    <3> QED  BY <3>1, <3>2, <3>3
  <2>5. \A b \in Elements(completions') : io'[b].request = "completed"
    BY <2>1 DEF PacketPlaces
  <2> QED  BY <2>1, <2>3, <2>4, <2>5 DEF PacketPlaces
<1>4. ASSUME NEW t \in Threads, FeedDelete(t) \/ FeedEvent(t)
      PROVE  PacketPlaces'
  <2>1. /\ UNCHANGED completions
        /\ \A u \in Threads \ {t} : call'[u] = call[u]
        /\ Distinct(call'[t].batch)
    BY <1>4, FeedEffect DEF PacketPlaces
  <2>2. PICK b \in Elements(call[t].batch) :
          /\ \A c \in Blocks \ {b} : io'[c] = io[c]
          /\ Elements(call'[t].batch) = Elements(call[t].batch) \ {b}
    BY <1>4, FeedEffect DEF PacketPlaces
  <2>3. \A u \in Threads : /\ Elements(call'[u].batch)
                                \subseteq Elements(call[u].batch)
                           /\ b \notin Elements(call'[u].batch)
    BY <2>1, <2>2 DEF PacketPlaces
  <2>4. b \notin Elements(completions')
    BY <2>1, <2>2 DEF PacketPlaces
  <2>5. \A b1 \in Elements(completions') : io'[b1].request = "completed"
    BY <1>1, <2>1, <2>2, <2>4 DEF PacketPlaces
  <2>6. ASSUME NEW u \in Threads
        PROVE  /\ Distinct(call'[u].batch)
               /\ \A c \in Elements(call'[u].batch) :
                    /\ io'[c].request = "completed"
                    /\ c \notin Elements(completions')
               /\ \A v \in Threads \ {u} :
                    Elements(call'[u].batch) \cap Elements(call'[v].batch) = {}
    <3>1. Distinct(call'[u].batch)
      BY <2>1 DEF PacketPlaces
    <3>2. ASSUME NEW c \in Elements(call'[u].batch)
          PROVE  /\ io'[c].request = "completed"
                 /\ c \notin Elements(completions')
      <4>1. c \in Elements(call[u].batch) /\ c # b /\ c \in Blocks
        BY <1>1, <2>3
      <4> QED  BY <2>1, <2>2, <4>1 DEF PacketPlaces
    <3>3. ASSUME NEW v \in Threads \ {u}
          PROVE  Elements(call'[u].batch) \cap Elements(call'[v].batch) = {}
      BY <2>3 DEF PacketPlaces
    <3> QED  BY <3>1, <3>2, <3>3
  <2> QED  BY <2>1, <2>5, <2>6 DEF PacketPlaces
<1>5. ASSUME NEW b \in Blocks, Afd(b)
      PROVE  PacketPlaces'
  <2>1. /\ UNCHANGED call
        /\ io[b].request # "completed" /\ io'[b].request = "completed"
        /\ \A c \in Blocks \ {b} : io'[c] = io[c]
    BY <1>5, AfdEffect
  <2>2. b \notin Elements(completions)
        /\ \A t \in Threads : b \notin Elements(call[t].batch)
    BY <2>1 DEF PacketPlaces
  <2>3. /\ Distinct(completions')
        /\ Elements(completions') \subseteq Elements(completions) \cup {b}
    <3>1. CASE completions' = completions
      BY <3>1 DEF PacketPlaces
    <3>2. CASE completions' = Append(completions, b)
      BY <1>1, <2>2, <3>2, AppendElements DEF PacketPlaces, queue_append
    <3> QED  BY <1>5, <3>1, <3>2, AfdEffect
  <2>4. \A c \in Elements(completions') : io'[c].request = "completed"
    BY <1>1, <2>1, <2>3 DEF PacketPlaces
  <2>5. ASSUME NEW t \in Threads
        PROVE  /\ Distinct(call'[t].batch)
               /\ \A c \in Elements(call'[t].batch) :
                    /\ io'[c].request = "completed"
                    /\ c \notin Elements(completions')
               /\ \A u \in Threads \ {t} :
                    Elements(call'[t].batch) \cap Elements(call'[u].batch) = {}
    <3>1. call' = call
      BY <1>5, AfdEffect
    <3>2. \A c \in Elements(call[t].batch) :
            io'[c].request = "completed" /\ c \notin Elements(completions')
      BY <1>1, <2>1, <2>2, <2>3 DEF PacketPlaces
    <3> QED  BY <3>1, <3>2 DEF PacketPlaces
  <2> QED  BY <2>3, <2>4, <2>5 DEF PacketPlaces
<1> QED  BY <1>2, <1>3, <1>4, <1>5, PacketSteps

(* While the IOCP exists, a completed request has its packet somewhere.    *)
LEMMA KeptStep ==
  ASSUME TypeOK, Lifecycle, KernelOwnsBlock, BatchUse, PacketPlaces,
         PacketKept, [Next]_vars
  PROVE  PacketKept'
<1> SUFFICES ASSUME iocp_handle', NEW c \in Blocks,
                    io'[c].request = "completed"
             PROVE  \/ c \in Elements(completions')
                    \/ \E t \in Threads : c \in Elements(call'[t].batch)
  BY DEF PacketKept
<1>1. ASSUME iocp_handle, io[c].request = "completed"
      PROVE  \/ c \in Elements(completions)
             \/ \E t \in Threads : c \in Elements(call[t].batch)
  BY <1>1 DEF PacketKept
<1>2. CASE NoPacketMoves
  BY <1>1, <1>2 DEF NoPacketMoves
<1>3. ASSUME NEW t \in Threads, GqcsPackets(t)
      PROVE  \/ c \in Elements(completions')
             \/ \E u \in Threads : c \in Elements(call'[u].batch)
  <2>1. /\ UNCHANGED <<io, iocp_handle>>
        /\ pc[t] = "gqcs"
        /\ \A u \in Threads \ {t} : call'[u] = call[u]
        /\ Elements(completions') \cup Elements(call'[t].batch)
             = Elements(completions)
    BY <1>3, GqcsEffect DEF PacketPlaces
  <2>2. call[t].batch = <<>>
    BY <2>1 DEF BatchUse
  <2>3. Elements(call[t].batch) = {}
    BY <2>2 DEF Elements
  <2>4. CASE c \in Elements(completions)
    BY <2>1, <2>4
  <2>5. CASE \E u \in Threads : c \in Elements(call[u].batch)
    BY <2>1, <2>3, <2>5
  <2> QED  BY <1>1, <2>1, <2>4, <2>5
<1>4. ASSUME NEW t \in Threads, FeedDelete(t) \/ FeedEvent(t)
      PROVE  \/ c \in Elements(completions')
             \/ \E u \in Threads : c \in Elements(call'[u].batch)
  <2>1. /\ UNCHANGED <<completions, iocp_handle>>
        /\ \A u \in Threads \ {t} : call'[u] = call[u]
    BY <1>4, FeedEffect DEF PacketPlaces
  <2>2. PICK b \in Elements(call[t].batch) :
          /\ \A d \in Blocks \ {b} : io'[d] = io[d]
          /\ io'[b].request = "none"
          /\ Elements(call'[t].batch) = Elements(call[t].batch) \ {b}
    BY <1>4, FeedEffect DEF PacketPlaces
  <2>3. c # b /\ io[c].request = "completed"
    BY <2>2
  <2> QED  BY <1>1, <2>1, <2>2, <2>3
<1>5. ASSUME NEW b \in Blocks, Afd(b)
      PROVE  \/ c \in Elements(completions')
             \/ \E u \in Threads : c \in Elements(call'[u].batch)
  <2>1. /\ UNCHANGED <<portVars, call>>
        /\ \A d \in Blocks \ {b} : io'[d] = io[d]
        /\ completions' = IF iocp_handle THEN Append(completions, b)
                          ELSE completions
    BY <1>5, AfdEffect
  <2>2. iocp_handle /\ completions \in Seq(Blocks)
    BY <2>1 DEF portVars, TypeOK, DriverType
  <2>3. Elements(completions') = Elements(completions) \cup {b}
    BY <2>1, <2>2, AppendElements DEF queue_append
  <2> QED  BY <1>1, <2>1, <2>2, <2>3
<1> QED  BY <1>2, <1>3, <1>4, <1>5, PacketSteps

-----------------------------------------------------------------------------
(* The two queues.                                                         *)

LEMMA DequeueEffect ==
  ASSUME TypeOK, QueueDiscipline, NEW b \in Blocks, Dequeue(b)
  PROVE  /\ Distinct(sock_update_queue') /\ Distinct(sock_deleted_queue')
         /\ Elements(sock_update_queue') = Elements(sock_update_queue) \ {b}
         /\ Elements(sock_deleted_queue') = Elements(sock_deleted_queue) \ {b}
<1>1. /\ sock_update_queue \in Seq(Blocks) /\ Distinct(sock_update_queue)
      /\ sock_deleted_queue \in Seq(Blocks) /\ Distinct(sock_deleted_queue)
  BY DEF TypeOK, SockType, QueueDiscipline
<1> QED  BY <1>1, RemoveElements DEF Dequeue

LEMMA RequestUpdateEffect ==
  ASSUME TypeOK, QueueDiscipline, NEW b \in Blocks,
         b \notin Elements(sock_deleted_queue), port_request_socket_update(b)
  PROVE  /\ Distinct(sock_update_queue') /\ UNCHANGED sock_deleted_queue
         /\ Elements(sock_update_queue') = Elements(sock_update_queue) \cup {b}
<1>1. sock_update_queue \in Seq(Blocks) /\ Distinct(sock_update_queue)
  BY DEF TypeOK, SockType, QueueDiscipline
<1> QED
  BY <1>1, AppendElements DEF port_request_socket_update, Enqueued

LEMMA DeleteQueues ==
  ASSUME TypeOK, QueueDiscipline, NEW b \in Blocks, NEW s, NEW f,
         Deleting(b, s, f), MayFree(s, f) \/ Allocated(b)
  PROVE  /\ Distinct(sock_update_queue') /\ Distinct(sock_deleted_queue')
         /\ Elements(sock_update_queue') = Elements(sock_update_queue) \ {b}
         /\ Elements(sock_deleted_queue') =
              IF MayFree(s, f) THEN Elements(sock_deleted_queue) \ {b}
              ELSE Elements(sock_deleted_queue) \cup {b}
<1>1. /\ sock_update_queue \in Seq(Blocks) /\ Distinct(sock_update_queue)
      /\ sock_deleted_queue \in Seq(Blocks) /\ Distinct(sock_deleted_queue)
  BY DEF TypeOK, SockType, QueueDiscipline
<1>2. CASE MayFree(s, f)
  <2>1. Dequeue(b)
    BY <1>2 DEF Deleting, sock__delete
  <2> QED  BY <1>2, <2>1, DequeueEffect
<1>3. CASE ~MayFree(s, f)
  <2> DEFINE updates == AfterCancelUpdate(sock_update_queue, b, s)
             deleted == AfterCancelUpdate(sock_deleted_queue, b, s)
  <2>1. /\ sock_update_queue' = updates
        /\ sock_deleted_queue' =
             IF b \in Elements(updates) \cup Elements(deleted) THEN deleted
             ELSE queue_append(deleted, b)
    BY <1>3 DEF Deleting, sock__delete
  <2>2. CASE s.delete_pending
    <3>1. updates = sock_update_queue /\ deleted = sock_deleted_queue
      BY <2>2 DEF AfterCancelUpdate
    <3>2. sock[b].delete_pending /\ Allocated(b)
      BY <1>3, <2>2 DEF Deleting
    <3>3. b \in Elements(sock_deleted_queue) /\ b \notin Elements(sock_update_queue)
      BY <3>2 DEF QueueDiscipline, Registered
    <3> HIDE DEF updates, deleted
    <3>4. /\ sock_update_queue' = sock_update_queue
          /\ sock_deleted_queue' = sock_deleted_queue
      BY <2>1, <3>1, <3>3
    <3> QED  BY <1>1, <1>3, <3>3, <3>4
  <2>3. CASE ~s.delete_pending
    <3>1. /\ updates = queue_remove(sock_update_queue, b)
          /\ deleted = queue_remove(sock_deleted_queue, b)
      BY <2>3 DEF AfterCancelUpdate
    <3> HIDE DEF updates, deleted
    <3>2. /\ Distinct(updates) /\ Distinct(deleted)
          /\ Elements(updates) = Elements(sock_update_queue) \ {b}
          /\ Elements(deleted) = Elements(sock_deleted_queue) \ {b}
          /\ deleted \in Seq(Blocks)
      BY <1>1, <3>1, RemoveElements, RemoveType
    <3>3. sock_deleted_queue' = queue_append(deleted, b)
      BY <2>1, <3>2
    <3>4. /\ Elements(sock_deleted_queue') = Elements(deleted) \cup {b}
          /\ Distinct(sock_deleted_queue')
      BY <3>2, <3>3, AppendElements
    <3> QED  BY <1>3, <2>1, <3>2, <3>4
  <2> QED  BY <2>2, <2>3
<1> QED  BY <1>2, <1>3

LEMMA DeleteKeepsQueues ==
  ASSUME TypeOK, QueueDiscipline, NEW b \in Blocks, NEW s, NEW f,
         Deleting(b, s, f), MayFree(s, f) \/ Allocated(b)
  PROVE  QueueDiscipline'
<1>1. /\ Distinct(sock_update_queue') /\ Distinct(sock_deleted_queue')
      /\ Elements(sock_update_queue') = Elements(sock_update_queue) \ {b}
      /\ Elements(sock_deleted_queue') =
           IF MayFree(s, f) THEN Elements(sock_deleted_queue) \ {b}
           ELSE Elements(sock_deleted_queue) \cup {b}
  BY DeleteQueues
<1>2. /\ \A c \in Blocks \ {b} : sock'[c] = sock[c]
      /\ MayFree(s, f) => sock'[b] = FreeBlock
      /\ ~MayFree(s, f) => sock'[b] = [s EXCEPT !.delete_pending = TRUE]
  BY DeleteEffect
<1>3. \A c \in Elements(sock_update_queue') : Registered(c)'
  <2>1. Elements(sock_update_queue) \subseteq Blocks
    BY DEF TypeOK, SockType, Elements
  <2> QED  BY <1>1, <1>2, <2>1 DEF QueueDiscipline, Registered, Allocated
<1>4. ASSUME NEW c \in Blocks
      PROVE  c \in Elements(sock_deleted_queue')
               <=> Allocated(c)' /\ sock'[c].delete_pending
  <2>1. c \in Elements(sock_deleted_queue)
          <=> Allocated(c) /\ sock[c].delete_pending
    BY DEF QueueDiscipline
  <2>2. CASE c # b
    BY <1>1, <1>2, <2>1, <2>2 DEF Allocated
  <2>3. CASE c = b /\ MayFree(s, f)
    BY <1>1, <1>2, <2>3 DEF Allocated, FreeBlock
  <2>4. CASE c = b /\ ~MayFree(s, f)
    <3>1. sock'[b].socket = sock[b].socket /\ sock'[b].delete_pending
      BY <1>2, <2>4 DEF Deleting, SockState
    <3> QED  BY <1>1, <2>4, <3>1 DEF Allocated
  <2> QED  BY <2>2, <2>3, <2>4
<1>5. Elements(sock_deleted_queue') \subseteq Blocks
  <2>1. Elements(sock_deleted_queue) \subseteq Blocks
    BY DEF QueueDiscipline
  <2> QED  BY <1>1, <2>1
<1> QED  BY <1>1, <1>3, <1>4, <1>5 DEF QueueDiscipline

(* A block whose packet is fed holds a sock_state.                         *)
LEMMA FedIsAllocated ==
  ASSUME TypeOK, Lifecycle, KernelOwnsBlock, PacketPlaces,
         NEW t \in Threads, NEW b \in Blocks, FeedFirst(t, b)
  PROVE  Allocated(b) /\ io[b].request = "completed"
<1>1. lifecycle \notin {"deleting", "freed"}
  BY InsideLives DEF FeedFirst
<1>2. b \in Elements(call[t].batch)
  <2>1. call[t].batch \in Seq(Blocks) /\ Distinct(call[t].batch)
    BY DEF TypeOK, ThreadType, Call, PacketPlaces
  <2> QED  BY <2>1, TailElements DEF FeedFirst
<1>3. io[b].request = "completed"
  BY <1>2 DEF PacketPlaces
<1> QED  BY <1>1, <1>3 DEF KernelOwnsBlock

LEMMA QueueStep ==
  ASSUME TypeOK, Lifecycle, TreeConsistent, QueueDiscipline, KernelOwnsBlock,
         PacketPlaces, [Next]_vars
  PROVE  QueueDiscipline'
<1>0. /\ Elements(sock_update_queue) \subseteq Blocks
      /\ \A b \in Elements(sock_update_queue) : Registered(b)
      /\ \A b \in Blocks : b \in Elements(sock_deleted_queue)
                             <=> Allocated(b) /\ sock[b].delete_pending
      /\ Elements(sock_deleted_queue) \subseteq Blocks
      /\ Distinct(sock_deleted_queue)
  BY DEF QueueDiscipline, TypeOK, SockType, Elements
<1>1. ASSUME SameRegistrations,
             UNCHANGED <<sock_update_queue, sock_deleted_queue>>
      PROVE  QueueDiscipline'
  <2>1. \A b \in Blocks : (Registered(b)' <=> Registered(b))
                            /\ (Allocated(b)' <=> Allocated(b))
                            /\ sock'[b].delete_pending = sock[b].delete_pending
    BY <1>1 DEF SameRegistrations, Registered, Allocated
  <2> QED  BY <1>0, <1>1, <2>1 DEF QueueDiscipline
<1>2. ASSUME SameRegistrations, NEW b \in Blocks, Dequeue(b), Registered(b)
      PROVE  QueueDiscipline'
  <2>1. \A c \in Blocks : (Registered(c)' <=> Registered(c))
                            /\ (Allocated(c)' <=> Allocated(c))
                            /\ sock'[c].delete_pending = sock[c].delete_pending
    BY <1>2 DEF SameRegistrations, Registered, Allocated
  <2>2. b \notin Elements(sock_deleted_queue)
    BY <1>0, <1>2 DEF Registered
  <2> QED  BY <1>0, <1>2, <2>1, <2>2, DequeueEffect DEF QueueDiscipline
<1>3. ASSUME NEW b \in Blocks, Registered(b)', port_request_socket_update(b),
             b \notin Elements(sock_deleted_queue),
             \A c \in Blocks \ {b} : sock'[c] = sock[c]
      PROVE  QueueDiscipline'
  <2>1. \A c \in Blocks \ {b} : (Registered(c)' <=> Registered(c))
                                  /\ (Allocated(c)' <=> Allocated(c))
    BY <1>3 DEF Registered, Allocated
  <2>2. /\ Distinct(sock_update_queue') /\ UNCHANGED sock_deleted_queue
        /\ Elements(sock_update_queue') = Elements(sock_update_queue) \cup {b}
    BY <1>3, RequestUpdateEffect
  <2>3. \A c \in Blocks : c \in Elements(sock_deleted_queue')
                            <=> Allocated(c)' /\ sock'[c].delete_pending
    BY <1>0, <1>3, <2>1, <2>2 DEF Registered
  <2>4. \A c \in Elements(sock_update_queue') : Registered(c)'
    BY <1>0, <1>3, <2>1, <2>2
  <2> QED  BY <1>0, <2>2, <2>3, <2>4 DEF QueueDiscipline
<1>4. CASE UNCHANGED registry
  BY <1>1, <1>4 DEF registry, SameRegistrations
<1>5. ASSUME NEW t \in Threads, NEW h \in Sockets, NEW m \in EventMasks,
             CtlAdd(t, h, m)
      PROVE  QueueDiscipline'
  <2>1. PICK b \in Blocks :
          /\ ~Allocated(b) /\ port_request_socket_update(b)
          /\ sock'[b].socket = h /\ ~sock'[b].delete_pending
          /\ \A c \in Blocks \ {b} : sock'[c] = sock[c]
    BY <1>5, AddEffect
  <2>2. Registered(b)' /\ b \notin Elements(sock_deleted_queue)
    BY <1>0, <2>1 DEF Registered, Allocated
  <2> QED  BY <1>3, <2>1, <2>2
<1>6. ASSUME NEW t \in Threads, NEW h \in Sockets, NEW m \in EventMasks,
             CtlMod(t, h, m)
      PROVE  QueueDiscipline'
  <2>0. PICK b \in Blocks : Modified(b, h, m)
    BY <1>6, ModEffect
  <2>1. /\ sock_tree[h] = b
        /\ Untouched(b)
        /\ IF Uncovered(sock'[b]) # {} THEN port_request_socket_update(b)
           ELSE UNCHANGED <<sock_update_queue, sock_deleted_queue>>
    BY <2>0 DEF Modified
  <2>2. SameRegistrations
    BY <1>6, SameRegistrationSteps
  <2>3. Registered(b) /\ b \notin Elements(sock_deleted_queue)
    BY <1>0, <2>1 DEF TreeConsistent, Registered
  <2>4. Registered(b)'
    BY <2>2, <2>3 DEF SameRegistrations, Registered, Allocated
  <2> QED  BY <1>1, <1>3, <2>1, <2>2, <2>3, <2>4 DEF Untouched
<1>7. ASSUME NEW t \in Threads, NEW h \in Sockets, CtlDel(t, h)
      PROVE  QueueDiscipline'
  <2> DEFINE b == sock_tree[h]
  <2>1. b \in Blocks /\ CancelAndDelete(b, FALSE)
    BY <1>7 DEF CtlDel, TypeOK, SockType
  <2> HIDE DEF b
  <2>2. Allocated(b)
    BY <2>1 DEF TreeConsistent, Registered, b
  <2>3. \E s : Deleting(b, s, FALSE)
    BY <2>1, CancelDeletes
  <2> QED  BY <2>1, <2>2, <2>3, DeleteKeepsQueues
<1>8. ASSUME NEW t \in Threads, UpdateNothing(t) \/ UpdateCancel(t)
                                  \/ UpdateSubmit(t)
      PROVE  QueueDiscipline'
  <2>1. PICK b \in Blocks : UpdateFirst(t, b) /\ Dequeue(b)
    BY <1>8 DEF UpdateNothing, UpdateCancel, UpdateSubmit
  <2>2. SameRegistrations
    BY <1>8, SameRegistrationSteps
  <2>3. b \in Elements(sock_update_queue)
    <3>1. /\ sock_update_queue \in Seq(Blocks) /\ Distinct(sock_update_queue)
          /\ sock_update_queue # <<>> /\ b = Head(sock_update_queue)
      BY <2>1 DEF UpdateFirst, TypeOK, SockType, QueueDiscipline
    <3> QED  BY <3>1, TailElements
  <2> QED  BY <1>0, <1>2, <2>1, <2>2, <2>3
<1>9. ASSUME NEW t \in Threads, UpdateDrop(t)
      PROVE  QueueDiscipline'
  <2>1. PICK b \in Blocks : sock__delete(b, sock[b], FALSE) /\ MaySubmit(sock[b])
    BY <1>9 DEF UpdateDrop
  <2>2. Deleting(b, sock[b], FALSE)
    BY <2>1 DEF Deleting, TypeOK, SockType
  <2>3. MayFree(sock[b], FALSE)
    BY <2>1 DEF MayFree, MaySubmit
  <2> QED  BY <2>2, <2>3, DeleteKeepsQueues
<1>10. ASSUME NEW t \in Threads, FeedDelete(t)
       PROVE  QueueDiscipline'
  <2>1. PICK b \in Blocks : sock__delete(b, Returned(b), FALSE)
    BY <1>10 DEF FeedDelete
  <2>2. Deleting(b, Returned(b), FALSE) /\ MayFree(Returned(b), FALSE)
    BY <2>1, ReturnedFields DEF Deleting, MayFree
  <2> QED  BY <2>2, DeleteKeepsQueues
<1>11. ASSUME NEW t \in Threads, FeedEvent(t)
       PROVE  QueueDiscipline'
  <2>1. PICK b \in Blocks :
          /\ FeedFirst(t, b)
          /\ Untouched(b)
          /\ ~sock[b].delete_pending
          /\ port_request_socket_update(b)
          /\ sock'[b].socket = sock[b].socket
          /\ sock'[b].delete_pending = sock[b].delete_pending
    BY <1>11, FeedEventEffect
  <2>2. Allocated(b)
    BY <2>1, FedIsAllocated
  <2>3. Registered(b)' /\ b \notin Elements(sock_deleted_queue)
    BY <1>0, <2>1, <2>2 DEF Registered, Allocated
  <2> QED  BY <1>3, <2>1, <2>3 DEF Untouched
<1>12. ASSUME NEW t \in Threads, PortDeleteSocket(t)
       PROVE  QueueDiscipline'
  <2>1. \A h \in Sockets : sock_tree[h] # NULL => sock_tree[h] \in Blocks
    BY DEF TypeOK, SockType
  <2>2. sock_deleted_queue # <<>> => Head(sock_deleted_queue) \in Blocks
    BY DEF TypeOK, SockType
  <2>3. PICK b \in Blocks : CancelAndDelete(b, TRUE)
    BY <1>12, <2>1, <2>2 DEF PortDeleteSocket
  <2>4. \E s : Deleting(b, s, TRUE) /\ MayFree(s, TRUE)
    BY <2>3, CancelDeletes DEF MayFree
  <2> QED  BY <2>4, DeleteKeepsQueues
<1>13. CASE (\E b \in Blocks : Afd(b)) \/ (\E h \in Sockets : CloseSocket(h))
  <2>1. SameRegistrations
    BY <1>13, SameRegistrationSteps
  <2>2. UNCHANGED <<sock_update_queue, sock_deleted_queue>>
    BY <1>13, AfdEffect, CloseSocketEffect DEF sockVars
  <2> QED  BY <1>1, <2>1, <2>2
<1> HIDE DEF registry
<1> QED
  BY <1>4, <1>5, <1>6, <1>7, <1>8, <1>9, <1>10, <1>11, <1>12, <1>13, Steps

-----------------------------------------------------------------------------
(* No interest is forgotten.                                               *)

(* A mask that watches more known events asks the driver for more.         *)
LEMMA EpollToAfdMonotone ==
  ASSUME NEW m, NEW n, m \cap KnownEvents \subseteq n
  PROVE  EpollToAfd(m) \subseteq EpollToAfd(n)
<1>1. \A e \in KnownEvents : e \in m => e \in n
  OBVIOUS
<1>2. /\ "EPOLLIN" \in m => "EPOLLIN" \in n
      /\ "EPOLLRDNORM" \in m => "EPOLLRDNORM" \in n
      /\ "EPOLLPRI" \in m => "EPOLLPRI" \in n
      /\ "EPOLLRDBAND" \in m => "EPOLLRDBAND" \in n
      /\ "EPOLLOUT" \in m => "EPOLLOUT" \in n
      /\ "EPOLLWRNORM" \in m => "EPOLLWRNORM" \in n
      /\ "EPOLLWRBAND" \in m => "EPOLLWRBAND" \in n
      /\ "EPOLLRDHUP" \in m => "EPOLLRDHUP" \in n
      /\ "EPOLLHUP" \in m => "EPOLLHUP" \in n
      /\ "EPOLLERR" \in m => "EPOLLERR" \in n
  BY <1>1 DEF KnownEvents
<1>3. /\ Meets(m, {"EPOLLIN", "EPOLLRDNORM"})
           => Meets(n, {"EPOLLIN", "EPOLLRDNORM"})
      /\ Urgent(m) => Urgent(n)
      /\ Meets(m, {"EPOLLOUT", "EPOLLWRNORM", "EPOLLWRBAND"})
           => Meets(n, {"EPOLLOUT", "EPOLLWRNORM", "EPOLLWRBAND"})
      /\ Meets(m, {"EPOLLIN", "EPOLLRDNORM", "EPOLLRDHUP"})
           => Meets(n, {"EPOLLIN", "EPOLLRDNORM", "EPOLLRDHUP"})
  BY <1>2 DEF Meets, Urgent
<1> QED  BY <1>2, <1>3 DEF EpollToAfd, When

\* NothingLost, for the request r of a block that holds the sock_state s.
Watched(r, s) ==
  \/ r.request \in {"cancelling", "orphaned", "completed"}
  \/ r.request = "pending" /\ EpollToAfd(s.user_events) \subseteq r.Events

(* A request that is out watches all of s, when s has no uncovered event.  *)
LEMMA CoveredIsWatched ==
  ASSUME TypeOK, RequestState, NEW b \in Blocks, NEW s,
         io[b].request # "none", sock[b].poll_status # "IDLE",
         s.pending_events = sock[b].pending_events, Uncovered(s) = {}
  PROVE  Watched(io[b], s)
<1>1. io[b].request \in Requests /\ sock[b].poll_status \in PollStatus
  BY DEF TypeOK, DriverType, IoBlock, SockType, SockState
<1>2. CASE io[b].request # "pending"
  BY <1>1, <1>2 DEF Requests, Watched
<1>3. CASE io[b].request = "pending"
  <2>1. io[b].Events = EpollToAfd(sock[b].pending_events)
    BY <1>1, <1>3 DEF RequestState, PollStatus
  <2>2. s.user_events \cap KnownEvents \subseteq s.pending_events
    BY DEF Uncovered
  <2>3. EpollToAfd(s.user_events) \subseteq EpollToAfd(s.pending_events)
    BY <2>2, EpollToAfdMonotone
  <2> QED  BY <1>3, <2>1, <2>3 DEF Watched
<1> QED  BY <1>2, <1>3

LEMMA DeleteLosesNothing ==
  ASSUME TypeOK, QueueDiscipline, NEW b \in Blocks, NEW s, NEW f,
         Deleting(b, s, f), MayFree(s, f) \/ Allocated(b),
         \A c \in Blocks \ {b} : io'[c] = io[c],
         NothingLost
  PROVE  NothingLost'
<1>1. /\ ~Registered(b)'
      /\ \A c \in Blocks \ {b} : sock'[c] = sock[c]
  BY DeleteEffect
<1>2. Elements(sock_update_queue') = Elements(sock_update_queue) \ {b}
  BY DeleteQueues
<1> SUFFICES ASSUME NEW c \in Blocks, Registered(c)',
                    c \notin Elements(sock_update_queue')
             PROVE  Watched(io'[c], sock'[c])
  BY DEF NothingLost, Watched
<1>3. c # b
  BY <1>1
<1>4. Registered(c) /\ c \notin Elements(sock_update_queue)
  BY <1>1, <1>2, <1>3 DEF Registered, Allocated
<1>5. Watched(io[c], sock[c])
  BY <1>4 DEF NothingLost, Watched
<1> QED  BY <1>1, <1>3, <1>5

LEMMA UpdateLosesNothing ==
  ASSUME TypeOK, Lifecycle, QueueDiscipline, KernelOwnsBlock, RequestState,
         NothingLost, NEW t \in Threads,
         UpdateNothing(t) \/ UpdateCancel(t) \/ UpdateSubmit(t)
  PROVE  NothingLost'
<1>1. \E b \in Blocks :
        /\ UpdateFirst(t, b) /\ Dequeue(b) /\ Untouched(b)
        /\ Registered(b) => Watched(io'[b], sock'[b])
  <2>1. \A b \in Blocks : UpdateFirst(t, b) =>
                            lifecycle \notin {"deleting", "freed"}
    BY InsideLives DEF UpdateFirst, InUpdate
  <2>2. \A b \in Blocks : io[b].request \in Requests
    BY DEF TypeOK, DriverType, IoBlock
  <2>3. CASE UpdateNothing(t)
    <3>1. PICK b \in Blocks :
            /\ UpdateFirst(t, b) /\ Dequeue(b)
            /\ UNCHANGED <<sock, io>>
            /\ \/ sock[b].poll_status = "PENDING" /\ Uncovered(sock[b]) = {}
               \/ sock[b].poll_status = "CANCELLED"
      BY <2>3, UpdateNothingEffect
    <3>2. ASSUME Registered(b)
          PROVE  Watched(io[b], sock[b])
      <4>1. io[b].request # "none"
        BY <2>1, <3>1, <3>2 DEF KernelOwnsBlock, Registered
      <4>2. CASE Uncovered(sock[b]) = {}
        BY <3>1, <4>1, <4>2, CoveredIsWatched
      <4>3. CASE sock[b].poll_status = "CANCELLED"
        BY <2>2, <4>1, <4>3 DEF RequestState, Requests, Watched
      <4> QED  BY <3>1, <4>2, <4>3
    <3> QED  BY <3>1, <3>2 DEF Untouched
  <2>4. CASE UpdateCancel(t)
    <3>1. PICK b \in Blocks :
            /\ UpdateFirst(t, b) /\ Dequeue(b) /\ Untouched(b)
            /\ afd_cancel_poll(b) /\ sock[b].poll_status = "PENDING"
      BY <2>4, UpdateCancelEffect
    <3>2. ASSUME Registered(b)
          PROVE  Watched(io'[b], sock'[b])
      <4>1. io[b].request # "none"
        BY <2>1, <3>1, <3>2 DEF KernelOwnsBlock, Registered
      <4>2. io'[b].request = IF io[b].request = "pending" THEN "cancelling"
                             ELSE io[b].request
        BY <3>1, CancelEffect DEF RequestState
      <4> QED  BY <2>2, <4>1, <4>2 DEF Requests, Watched
    <3> QED  BY <3>1, <3>2
  <2>5. CASE UpdateSubmit(t)
    <3>1. PICK b \in Blocks :
            /\ UpdateFirst(t, b) /\ Dequeue(b) /\ Untouched(b)
            /\ sock'[b] = Polled(sock[b])
            /\ io'[b].request = "pending"
            /\ io'[b].Events = EpollToAfd(sock[b].user_events)
      BY <2>5, UpdateSubmitEffect
    <3>2. sock'[b].user_events = sock[b].user_events
      BY <3>1 DEF Polled, TypeOK, SockType, SockState
    <3>3. Watched(io'[b], sock'[b])
      BY <3>1, <3>2 DEF Watched
    <3> QED  BY <3>1, <3>3
  <2> QED  BY <2>3, <2>4, <2>5
<1>2. PICK b \in Blocks :
        /\ UpdateFirst(t, b) /\ Dequeue(b) /\ Untouched(b)
        /\ Registered(b) => Watched(io'[b], sock'[b])
  BY <1>1
<1>3. Elements(sock_update_queue') = Elements(sock_update_queue) \ {b}
  BY <1>2, DequeueEffect
<1>4. SameRegistrations
  BY SameRegistrationSteps
<1> SUFFICES ASSUME NEW c \in Blocks, Registered(c)',
                    c \notin Elements(sock_update_queue')
             PROVE  Watched(io'[c], sock'[c])
  BY DEF NothingLost, Watched
<1>5. Registered(c)
  BY <1>4 DEF SameRegistrations, Registered, Allocated
<1>6. CASE c # b
  <2>1. Watched(io[c], sock[c])
    BY <1>3, <1>5, <1>6 DEF NothingLost, Watched
  <2> QED  BY <1>2, <1>6, <2>1 DEF Untouched
<1> QED  BY <1>2, <1>5, <1>6

LEMMA NothingLostStep ==
  ASSUME TypeOK, Lifecycle, TreeConsistent, QueueDiscipline, KernelOwnsBlock,
         RequestState, PacketPlaces, NothingLost, [Next]_vars
  PROVE  NothingLost'
<1>0. \A c \in Blocks : Registered(c) /\ c \notin Elements(sock_update_queue)
                          => Watched(io[c], sock[c])
  BY DEF NothingLost, Watched
<1>1. ASSUME NEW b \in Blocks,
             \A c \in Blocks \ {b} : sock'[c] = sock[c] /\ io'[c] = io[c],
             Elements(sock_update_queue) \cup {b}
               \subseteq Elements(sock_update_queue')
      PROVE  NothingLost'
  <2> SUFFICES ASSUME NEW c \in Blocks, Registered(c)',
                      c \notin Elements(sock_update_queue')
               PROVE  Watched(io'[c], sock'[c])
    BY DEF NothingLost, Watched
  <2>1. c # b /\ c \notin Elements(sock_update_queue)
    BY <1>1
  <2>2. Registered(c)
    BY <1>1, <2>1 DEF Registered, Allocated
  <2> QED  BY <1>0, <1>1, <2>1, <2>2
<1>2. CASE UNCHANGED registry
  BY <1>2 DEF registry, NothingLost, Registered, Allocated
<1>3. ASSUME NEW t \in Threads, NEW h \in Sockets, NEW m \in EventMasks,
             CtlAdd(t, h, m)
      PROVE  NothingLost'
  <2>1. PICK b \in Blocks :
          /\ ~Allocated(b) /\ port_request_socket_update(b)
          /\ \A c \in Blocks \ {b} : sock'[c] = sock[c]
    BY <1>3, AddEffect
  <2>2. b \notin Elements(sock_deleted_queue)
    BY <2>1 DEF QueueDiscipline
  <2>3. UNCHANGED io
    BY <1>3, AddEffect
  <2> QED  BY <1>1, <2>1, <2>2, <2>3, RequestUpdateEffect
<1>4. ASSUME NEW t \in Threads, NEW h \in Sockets, NEW m \in EventMasks,
             CtlMod(t, h, m)
      PROVE  NothingLost'
  <2>0. PICK b \in Blocks : Modified(b, h, m)
    BY <1>4, ModEffect
  <2>1. /\ sock_tree[h] = b
        /\ Untouched(b)
        /\ UNCHANGED io
        /\ sock'[b] = [sock[b] EXCEPT !.user_events = m \cup AlwaysReported]
        /\ IF Uncovered(sock'[b]) # {} THEN port_request_socket_update(b)
           ELSE UNCHANGED <<sock_update_queue, sock_deleted_queue>>
    BY <2>0 DEF Modified
  <2>2. Registered(b) /\ b \notin Elements(sock_deleted_queue)
    BY <2>1 DEF TreeConsistent, QueueDiscipline, Registered
  <2>3. CASE Uncovered(sock'[b]) # {}
    BY <1>1, <2>1, <2>2, <2>3, RequestUpdateEffect DEF Untouched
  <2>4. CASE Uncovered(sock'[b]) = {}
    <3>1. lifecycle \notin {"deleting", "freed"}
      BY <1>4, InsideLives DEF CtlMod, InCtl
    <3>2. /\ sock'[b].pending_events = sock[b].pending_events
      BY <2>1 DEF TypeOK, SockType, SockState
    <3>3. ASSUME b \notin Elements(sock_update_queue)
          PROVE  Watched(io[b], sock'[b])
      <4>1. Watched(io[b], sock[b])
        BY <1>0, <2>2, <3>3
      <4>2. io[b].request # "none"
        BY <4>1 DEF Watched
      <4>3. sock[b].poll_status # "IDLE"
        BY <2>2, <3>1, <4>2 DEF KernelOwnsBlock, Registered
      <4> QED  BY <2>4, <3>2, <4>2, <4>3, CoveredIsWatched
    <3> SUFFICES ASSUME NEW c \in Blocks, Registered(c)',
                        c \notin Elements(sock_update_queue')
                 PROVE  Watched(io'[c], sock'[c])
      BY DEF NothingLost, Watched
    <3>4. UNCHANGED sock_update_queue
      BY <2>1, <2>4
    <3>5. CASE c = b
      BY <2>1, <3>3, <3>4, <3>5
    <3>6. CASE c # b
      <4>1. Registered(c) /\ sock'[c] = sock[c]
        BY <2>1, <3>6 DEF Untouched, Registered, Allocated
      <4> QED  BY <1>0, <2>1, <3>4, <4>1
    <3> QED  BY <3>5, <3>6
  <2> QED  BY <2>3, <2>4
<1>5. ASSUME NEW b \in Blocks, NEW f \in BOOLEAN, CancelAndDelete(b, f),
             f \/ Allocated(b)
      PROVE  NothingLost'
  <2>1. \E s : Deleting(b, s, f)
    BY <1>5, CancelDeletes
  <2>2. \A c \in Blocks \ {b} : io'[c] = io[c]
    BY <1>5, CancelDeletes, CancelEffect
  <2>3. \A s : f => MayFree(s, f)
    BY DEF MayFree
  <2> QED  BY <1>5, <2>1, <2>2, <2>3, DeleteLosesNothing
<1>6. ASSUME NEW t \in Threads, NEW h \in Sockets, CtlDel(t, h)
      PROVE  NothingLost'
  <2> DEFINE b == sock_tree[h]
  <2>1. b \in Blocks /\ CancelAndDelete(b, FALSE)
    BY <1>6 DEF CtlDel, TypeOK, SockType
  <2>2. Allocated(b)
    BY <2>1 DEF TreeConsistent, Registered
  <2> HIDE DEF b
  <2> QED  BY <1>5, <2>1, <2>2
<1>7. ASSUME NEW t \in Threads, PortDeleteSocket(t)
      PROVE  NothingLost'
  <2>1. \A h \in Sockets : sock_tree[h] # NULL => sock_tree[h] \in Blocks
    BY DEF TypeOK, SockType
  <2>2. sock_deleted_queue # <<>> => Head(sock_deleted_queue) \in Blocks
    BY DEF TypeOK, SockType
  <2>3. \E b \in Blocks : CancelAndDelete(b, TRUE)
    BY <1>7, <2>1, <2>2 DEF PortDeleteSocket
  <2> QED  BY <1>5, <2>3
<1>8. ASSUME NEW t \in Threads, UpdateDrop(t)
      PROVE  NothingLost'
  <2>1. PICK b \in Blocks :
          /\ sock__delete(b, sock[b], FALSE) /\ MaySubmit(sock[b])
          /\ UNCHANGED io
    BY <1>8 DEF UpdateDrop
  <2>2. Deleting(b, sock[b], FALSE)
    BY <2>1 DEF Deleting, TypeOK, SockType
  <2>3. MayFree(sock[b], FALSE)
    BY <2>1 DEF MayFree, MaySubmit
  <2> QED  BY <2>1, <2>2, <2>3, DeleteLosesNothing
<1>9. ASSUME NEW t \in Threads, FeedDelete(t)
      PROVE  NothingLost'
  <2>1. PICK b \in Blocks :
          FeedFirst(t, b) /\ sock__delete(b, Returned(b), FALSE)
    BY <1>9 DEF FeedDelete
  <2>2. Deleting(b, Returned(b), FALSE) /\ MayFree(Returned(b), FALSE)
    BY <2>1, ReturnedFields DEF Deleting, MayFree
  <2>3. \A c \in Blocks \ {b} : io'[c] = io[c]
    BY <2>1, FeedFirstEffect
  <2> QED  BY <2>2, <2>3, DeleteLosesNothing
<1>10. ASSUME NEW t \in Threads, FeedEvent(t)
       PROVE  NothingLost'
  <2>1. PICK b \in Blocks :
          /\ Untouched(b) /\ ~sock[b].delete_pending
          /\ port_request_socket_update(b)
    BY <1>10, FeedEventEffect
  <2>2. b \notin Elements(sock_deleted_queue)
    BY <2>1 DEF QueueDiscipline
  <2> QED  BY <1>1, <2>1, <2>2, RequestUpdateEffect DEF Untouched
<1>11. ASSUME UNCHANGED sockVars,
              \A c \in Blocks :
                \/ io'[c] = io[c]
                \/ io'[c].request \in {"orphaned", "completed"}
       PROVE  NothingLost'
  <2> SUFFICES ASSUME NEW c \in Blocks, Registered(c)',
                      c \notin Elements(sock_update_queue')
               PROVE  Watched(io'[c], sock'[c])
    BY DEF NothingLost, Watched
  <2>1. Registered(c) /\ c \notin Elements(sock_update_queue)
        /\ sock'[c] = sock[c]
    BY <1>11 DEF sockVars, Registered, Allocated
  <2>2. Watched(io[c], sock[c])
    BY <1>0, <2>1
  <2> QED  BY <1>11, <2>1, <2>2 DEF Watched
<1>12. ASSUME NEW b \in Blocks, Afd(b)
       PROVE  NothingLost'
  BY <1>11, <1>12, AfdEffect
<1>13. ASSUME NEW h \in Sockets, CloseSocket(h)
       PROVE  NothingLost'
  <2>1. \A c \in Blocks : io'[c] = io[c] \/ io'[c].request = "orphaned"
    BY <1>13, CloseSocketEffect
  <2> QED  BY <1>11, <1>13, <2>1, CloseSocketEffect
<1> HIDE DEF registry
<1> QED
  BY <1>2, <1>3, <1>4, <1>6, <1>7, <1>8, <1>9, <1>10, <1>12, <1>13, Steps,
     UpdateLosesNothing

-----------------------------------------------------------------------------
(* The inductive invariant.                                                *)

LEMMA IndInit == Init => IndInv
<1> SUFFICES ASSUME Init PROVE IndInv
  OBVIOUS
<1>1. TypeOK
  BY InitType
<1>2. Elements(<<>>) = {} /\ Distinct(<<>>)
  BY DEF Elements, Distinct
<1>3. Lifecycle
  BY DEF Init, Lifecycle
<1>4. TreeConsistent
  BY DEF Init, TreeConsistent, Registered, Allocated, FreeBlock
<1>5. QueueDiscipline
  BY <1>2 DEF Init, QueueDiscipline, Registered, Allocated, FreeBlock
<1>6. KernelOwnsBlock
  BY DEF Init, KernelOwnsBlock, Allocated, FreeBlock, NoRequest
<1>7. RequestState
  BY DEF Init, RequestState, FreeBlock, NoRequest
<1>8. NothingLost
  BY DEF Init, NothingLost, Registered, Allocated, FreeBlock
<1>9. PacketPlaces
  BY <1>2 DEF Init, PacketPlaces, NoCall
<1>10. BatchUse
  BY DEF Init, BatchUse, NoCall
<1>11. PacketKept
  BY DEF Init, PacketKept, NoRequest
<1> QED
  BY <1>1, <1>3, <1>4, <1>5, <1>6, <1>7, <1>8, <1>9, <1>10, <1>11 DEF IndInv

LEMMA IndStep == IndInv /\ [Next]_vars => IndInv'
<1> SUFFICES ASSUME TypeOK, Lifecycle, TreeConsistent, QueueDiscipline,
                    KernelOwnsBlock, RequestState, NothingLost, PacketPlaces,
                    BatchUse, PacketKept, [Next]_vars
             PROVE  IndInv'
  BY DEF IndInv
<1>1. TypeOK'
  BY StepType
<1>2. Lifecycle' /\ TreeConsistent'
  BY LifecycleStep, TreeStep
<1>3. QueueDiscipline'
  BY QueueStep
<1>4. KernelOwnsBlock' /\ RequestState'
  BY OwnedStep, RequestStep
<1>5. NothingLost'
  BY NothingLostStep
<1>6. PacketPlaces' /\ BatchUse'
  BY PlacesStep, BatchUseStep
<1>7. PacketKept'
  BY KeptStep
<1> QED  BY <1>1, <1>2, <1>3, <1>4, <1>5, <1>6, <1>7 DEF IndInv

(* For any number of threads, sockets and blocks: whatever the callers,    *)
(* the driver and the outside world do next, the port keeps its inductive  *)
(* invariant.                                                              *)
THEOREM Inductive == Spec => []IndInv
  BY IndInit, IndStep, PTL DEF Spec

(* sock_tree holds exactly the registered blocks, each under the handle    *)
(* its base socket names (sock_new, sock__delete, port_register_socket).   *)
THEOREM TreeIsConsistent == Spec => []TreeConsistent
<1>1. IndInv => TreeConsistent
  BY DEF IndInv
<1> QED  BY <1>1, Inductive, PTL

(* A block is on the update queue only while registered and on the deleted *)
(* queue exactly while its deletion waits for the driver, and never twice. *)
THEOREM QueuesAreDisciplined == Spec => []QueueDiscipline
<1>1. IndInv => QueueDiscipline
  BY DEF IndInv
<1> QED  BY <1>1, Inductive, PTL

(* Memory safety of the poll requests: while the port is not being torn    *)
(* down, sock__free never frees a block whose IO_STATUS_BLOCK and          *)
(* AFD_POLL_INFO the driver still has.                                     *)
THEOREM KernelNeverWritesFreed == Spec => []KernelOwnsBlock
<1>1. IndInv => KernelOwnsBlock
  BY DEF IndInv
<1> QED  BY <1>1, Inductive, PTL

(* The lost wake-up that wepoll must not have: a registered socket that is *)
(* not queued for an update is watched by a poll request in the driver for *)
(* every event its user asked for.                                         *)
THEOREM NothingIsLost == Spec => []NothingLost
<1>1. IndInv => NothingLost
  BY DEF IndInv
<1> QED  BY <1>1, Inductive, PTL
=============================================================================

----------------------------- MODULE WepollPort ------------------------------
(***************************************************************************)
(* One epoll port of wepoll.c: its sock_state objects, the poll requests   *)
(* they have outstanding in the AFD driver, the completion port (IOCP)     *)
(* that returns them, and the threads inside epoll_ctl, epoll_wait and     *)
(* epoll_close.                                                            *)
(*                                                                         *)
(* An action is what a thread does between two points where another thread *)
(* or the driver can come in: one critical section, or one iteration of a  *)
(* loop inside one.  The thread that is in the middle of a loop owns       *)
(* `lock'.  The AFD driver, the IOCP and the applications that make the    *)
(* sockets ready or close them are external.                               *)
(*                                                                         *)
(* Definitions with the same parameters that follow each other without a   *)
(* blank line, or under one comment, are a piece of the code, the last of  *)
(* them, and slips of it that the properties below must tell apart from it.*)
(***************************************************************************)
EXTENDS PollGroups, EpollEvents, FiniteSets

CONSTANTS
  Threads,      \* threads that call the API on this port
  Sockets,      \* SOCKET values
  Blocks,       \* memory blocks that can hold a sock_state
  EventMasks,   \* the masks callers pass to epoll_ctl
  Conditions,   \* the AFD events the outside world may raise
  Timeouts,     \* the kinds of timeout that epoll_wait is called with
  MaxEvents,    \* the largest maxevents of an epoll_wait
  Faults,       \* whether allocations and driver calls may fail
  NULL

ASSUME PortAssumption ==
  /\ IsFiniteSet(Threads)
  /\ NULL \notin Threads \cup Sockets \cup Blocks
  /\ EventMasks \subseteq EpollMask
  /\ Conditions \subseteq AfdEvents \ {"LOCAL_CLOSE"}
  /\ Timeouts \subseteq {"zero", "finite", "infinite"}
  /\ MaxEvents \in Nat \ {0}
  /\ Faults \in BOOLEAN

VARIABLES
  lifecycle,            \* of the port_state: see Lifecycles
  lock,                 \* owner of the CRITICAL_SECTION
  iocp_handle,          \* whether port_state->iocp_handle is not NULL
  active_poll_count,
  sock_tree,            \* SOCKET -> registered sock_state
  sock_update_queue,
  sock_deleted_queue,
  poll_groups,          \* poll_group_queue and the groups on it
  sock,                 \* the sock_state in each block
  io,                   \* io_status_block and poll_info of each block
  completions,          \* packets queued in the IOCP, oldest first
  open,                 \* SOCKET values that name an open socket
  ready,                \* the conditions each open socket is in
  pc,
  call                  \* the arguments and locals of each thread's call

portVars  == <<lifecycle, lock, iocp_handle, active_poll_count>>
sockVars  == <<sock_tree, sock_update_queue, sock_deleted_queue, poll_groups,
               sock>>
driverVars == <<io, completions>>
worldVars == <<open, ready>>
vars == <<portVars, sockVars, driverVars, worldVars, pc, call>>

Lifecycles == {"open", "closing", "deleting", "freed", "aborted"}

Labels == {"idle", "entered", "update", "gqcs", "relock", "feed",
           "last_update", "closing", "destroying", "deleting"}

PollStatus == {"IDLE", "PENDING", "CANCELLED"}

SockState ==
  [socket : Sockets \cup {NULL}, poll_group : Nat, user_events : EpollMask,
   pending_events : EpollMask, poll_status : PollStatus,
   delete_pending : BOOLEAN]

\* A block that malloc may hand out.
FreeBlock ==
  [socket |-> NULL, poll_group |-> 0, user_events |-> {},
   pending_events |-> {}, poll_status |-> "IDLE", delete_pending |-> FALSE]

(***************************************************************************)
(* A poll request is outstanding from NtDeviceIoControlFile until its      *)
(* packet has been fed: pending, told to cancel, orphaned because its      *)
(* socket was closed, or completed with its packet on the way.             *)
(***************************************************************************)
Requests == {"none", "pending", "cancelling", "orphaned", "completed"}

IoBlock ==
  [request : Requests, Status : {"PENDING", "SUCCESS", "CANCELLED", "FAILED"},
   Events : SUBSET AfdEvents]

NoRequest == [request |-> "none", Status |-> "SUCCESS", Events |-> {}]

Report == [socket : Sockets \cup {NULL}, events : SUBSET KnownEvents]

Call ==
  [timeout : Timeouts \cup {"zero"}, maxevents : 1 .. MaxEvents,
   batch : Seq(Blocks), events : Seq(Report), failed : BOOLEAN]

NoCall ==
  [timeout |-> "zero", maxevents |-> 1, batch |-> <<>>, events |-> <<>>,
   failed |-> FALSE]

Allocated(b)  == sock[b].socket # NULL
Registered(b) == Allocated(b) /\ ~sock[b].delete_pending

Init ==
  /\ lifecycle = "open"
  /\ lock = NULL
  /\ iocp_handle = TRUE
  /\ active_poll_count = 0
  /\ sock_tree = [h \in Sockets |-> NULL]
  /\ sock_update_queue = <<>>
  /\ sock_deleted_queue = <<>>
  /\ poll_groups = NoGroups
  /\ sock = [b \in Blocks |-> FreeBlock]
  /\ io = [b \in Blocks |-> NoRequest]
  /\ completions = <<>>
  /\ open = Sockets
  /\ ready = [h \in Sockets |-> {}]
  /\ pc = [t \in Threads |-> "idle"]
  /\ call = [t \in Threads |-> NoCall]

-----------------------------------------------------------------------------
(* Helpers shared by the operations.                                       *)

Goto(t, label) == pc' = [pc EXCEPT ![t] = label]

\* LeaveCriticalSection, the release of the reference, and the return.
Leave(t) ==
  /\ lock' = NULL
  /\ Goto(t, "idle")
  /\ call' = [call EXCEPT ![t] = NoCall]

\* The node of b is on one of the two queues.
Enqueued(b) ==
  b \in Elements(sock_update_queue) \cup Elements(sock_deleted_queue)

Dequeue(b) ==
  /\ sock_update_queue' = queue_remove(sock_update_queue, b)
  /\ sock_deleted_queue' = queue_remove(sock_deleted_queue, b)

port_request_socket_update(b) ==
  /\ sock_update_queue' = IF Enqueued(b) THEN sock_update_queue
                          ELSE queue_append(sock_update_queue, b)
  /\ UNCHANGED sock_deleted_queue

port_update_events_if_many_are_polling(t) ==
  IF active_poll_count' > 1
  THEN lock' = t /\ Goto(t, "last_update") /\ UNCHANGED call
  ELSE Leave(t)

port_update_events_if_polling(t) ==
  IF active_poll_count' > 0
  THEN lock' = t /\ Goto(t, "last_update") /\ UNCHANGED call
  ELSE Leave(t)

\* The user events that the request in the driver does not watch.
UncoveredUnlessSomeAre(s) ==
  IF Meets(s.user_events, s.pending_events) THEN {}
  ELSE s.user_events \cap KnownEvents

Uncovered(s) == (s.user_events \cap KnownEvents) \ s.pending_events

\* afd_cancel_poll: only a request whose Status is still STATUS_PENDING is
\* handed to NtCancelIoFileEx; one that is orphaned completes anyway.
afd_cancel_poll(b) ==
  io' = IF io[b].Status = "PENDING" /\ io[b].request = "pending"
        THEN [io EXCEPT ![b].request = "cancelling"] ELSE io

CancelledPoll(s) ==
  [s EXCEPT !.poll_status = "CANCELLED", !.pending_events = {}]

\* sock__delete calls free now; otherwise the request has yet to come back.
MayFreeCancelled(s, force) == force \/ s.poll_status # "PENDING"
MayFree(s, force)          == force \/ s.poll_status = "IDLE"

\* port_cancel_socket_update, when s is deleted for the first time.
AfterCancelUpdate(q, b, s) ==
  IF s.delete_pending THEN q ELSE queue_remove(q, b)

(***************************************************************************)
(* sock__delete, after a poll request that is pending has been cancelled:  *)
(* s is the sock_state in block b by then.                                 *)
(***************************************************************************)
sock__delete(b, s, force) ==
  LET updates == AfterCancelUpdate(sock_update_queue, b, s)
      deleted == AfterCancelUpdate(sock_deleted_queue, b, s)
  IN
  /\ sock_tree' = IF s.delete_pending THEN sock_tree
                  ELSE [sock_tree EXCEPT ![s.socket] = NULL]
  /\ IF MayFree(s, force)
     THEN /\ Dequeue(b)
          /\ poll_groups' = poll_group_release(poll_groups, s.poll_group)
          /\ sock' = [sock EXCEPT ![b] = FreeBlock]
     ELSE /\ sock_update_queue' = updates
          /\ sock_deleted_queue' =
               IF b \in Elements(updates) \cup Elements(deleted) THEN deleted
               ELSE queue_append(deleted, b)
          /\ sock' = [sock EXCEPT ![b] = [s EXCEPT !.delete_pending = TRUE]]
          /\ UNCHANGED poll_groups

\* sock__delete from its start: a request that is pending is cancelled
\* first.  The result of sock__cancel_poll is ignored: when the cancellation
\* fails the request stays as it was.
DeleteUncancelled(b, force) ==
  UNCHANGED io /\ sock__delete(b, sock[b], force)

CancelAndDelete(b, force) ==
  IF Registered(b) /\ sock[b].poll_status = "PENDING"
  THEN \/ afd_cancel_poll(b) /\ sock__delete(b, CancelledPoll(sock[b]), force)
       \/ Faults /\ UNCHANGED io /\ sock__delete(b, sock[b], force)
  ELSE UNCHANGED io /\ sock__delete(b, sock[b], force)

-----------------------------------------------------------------------------
(* Entering epoll_ctl or epoll_wait: the port is found in the handle tree  *)
(* and referenced.  Its lock is taken by a later step, so the port may be  *)
(* closed in between.  That only an open port is found and closed, and     *)
(* that reflock_unref_and_destroy returns to a thread that is alone, are   *)
(* guards here; TsTree derives them from the lock and the reflock.         *)

Enter(t) ==
  /\ pc[t] = "idle"
  /\ lifecycle = "open"
  /\ Goto(t, "entered")
  /\ UNCHANGED <<portVars, sockVars, driverVars, worldVars, call>>

-----------------------------------------------------------------------------
(* epoll_ctl.                                                              *)

InCtl(t) == pc[t] = "entered" /\ lock = NULL

\* poll_group__new cannot associate a device handle with a closed port: it
\* asserts that the port still has its IOCP handle.
AcquireAsserts == NeedsNewGroup(poll_groups) => iocp_handle

\* tree_add refuses a key that is in the tree.
AlwaysRegisters(h) == TRUE
CanRegister(h)     == sock_tree[h] = NULL

CtlAdd(t, h, m) ==
  /\ InCtl(t)
  /\ h \in open
  /\ AcquireAsserts
  /\ CanRegister(h)
  /\ \E b \in {c \in Blocks : ~Allocated(c)} :
       /\ sock' = [sock EXCEPT ![b] =
            [FreeBlock EXCEPT !.socket = h,
                              !.poll_group = AcquiredGroup(poll_groups),
                              !.user_events = m \cup AlwaysReported]]
       /\ sock_tree' = [sock_tree EXCEPT ![h] = b]
       /\ port_request_socket_update(b)
  /\ poll_groups' = poll_group_acquire(poll_groups)
  /\ UNCHANGED <<lifecycle, iocp_handle, active_poll_count, driverVars,
                 worldVars>>
  /\ port_update_events_if_polling(t)

\* The socket is in the tree already, or malloc fails: the place in the poll
\* group is given back, the group stays.
PlaceKept == poll_group_acquire(poll_groups)
PlaceGivenBack ==
  poll_group_release(poll_group_acquire(poll_groups),
                     AcquiredGroup(poll_groups))

CtlAddFails(t, h) ==
  /\ InCtl(t)
  /\ h \in open
  /\ AcquireAsserts
  /\ ~CanRegister(h) \/ Faults
  /\ poll_groups' = PlaceGivenBack
  /\ Leave(t)
  /\ UNCHANGED <<lifecycle, iocp_handle, active_poll_count, sock_tree,
                 sock_update_queue, sock_deleted_queue, sock, driverVars,
                 worldVars>>

\* A build with assertions stops here.
CtlAddAborts(t, h) ==
  /\ InCtl(t)
  /\ h \in open
  /\ ~AcquireAsserts
  /\ lifecycle' = "aborted"
  /\ UNCHANGED <<lock, iocp_handle, active_poll_count, sockVars, driverVars,
                 worldVars, pc, call>>

CtlMod(t, h, m) ==
  LET b == sock_tree[h]
      s == [sock[b] EXCEPT !.user_events = m \cup AlwaysReported]
  IN
  /\ InCtl(t)
  /\ b # NULL
  /\ sock' = [sock EXCEPT ![b] = s]
  /\ IF Uncovered(s) # {} THEN port_request_socket_update(b)
     ELSE UNCHANGED <<sock_update_queue, sock_deleted_queue>>
  /\ UNCHANGED <<lifecycle, iocp_handle, active_poll_count, sock_tree,
                 poll_groups, driverVars, worldVars>>
  /\ port_update_events_if_polling(t)

CtlDel(t, h) ==
  /\ InCtl(t)
  /\ sock_tree[h] # NULL
  /\ CancelAndDelete(sock_tree[h], FALSE)
  /\ Leave(t)
  /\ UNCHANGED <<lifecycle, iocp_handle, active_poll_count, completions,
                 worldVars>>

\* Nothing to modify or delete, a socket that is not open, a call that can
\* allocate nothing: the call fails and changes nothing.
CtlFails(t) ==
  /\ InCtl(t)
  /\ Leave(t)
  /\ UNCHANGED <<lifecycle, iocp_handle, active_poll_count, sockVars,
                 driverVars, worldVars>>

-----------------------------------------------------------------------------
(* port__update_events: one sock_update per step, for the socket in front. *)

InUpdate(t) == lock = t /\ pc[t] \in {"update", "last_update"}

UpdateFirst(t, b) ==
  /\ InUpdate(t)
  /\ sock_update_queue # <<>>
  /\ b = Head(sock_update_queue)
  /\ UNCHANGED <<portVars, completions, worldVars, pc, call>>

\* The pending request watches all it should, or is on its way back.
UpdateNothing(t) ==
  \E b \in Blocks :
    /\ UpdateFirst(t, b)
    /\ \/ sock[b].poll_status = "PENDING" /\ Uncovered(sock[b]) = {}
       \/ sock[b].poll_status = "CANCELLED"
    /\ Dequeue(b)
    /\ UNCHANGED <<sock_tree, poll_groups, sock, io>>

UpdateCancel(t) ==
  \E b \in Blocks :
    /\ UpdateFirst(t, b)
    /\ sock[b].poll_status = "PENDING"
    /\ Uncovered(sock[b]) # {}
    /\ afd_cancel_poll(b)
    /\ sock' = [sock EXCEPT ![b] = CancelledPoll(@)]
    /\ Dequeue(b)
    /\ UNCHANGED <<sock_tree, poll_groups>>

\* No request is out, so one may be submitted.
MaySubmitUnlessPending(s) == s.poll_status # "PENDING"
MaySubmit(s)              == s.poll_status = "IDLE"

Polled(s) ==
  [s EXCEPT !.poll_status = "PENDING", !.pending_events = s.user_events]

UpdateSubmit(t) ==
  \E b \in Blocks :
    /\ UpdateFirst(t, b)
    /\ MaySubmit(sock[b])
    /\ sock[b].socket \in open
    /\ io' = [io EXCEPT ![b] =
         [request |-> "pending", Status |-> "PENDING",
          Events |-> EpollToAfd(sock[b].user_events)]]
    /\ sock' = [sock EXCEPT ![b] = Polled(@)]
    /\ Dequeue(b)
    /\ UNCHANGED <<sock_tree, poll_groups>>

\* ERROR_INVALID_HANDLE: the socket was closed, drop it from the set.
UpdateDrop(t) ==
  \E b \in Blocks :
    /\ UpdateFirst(t, b)
    /\ MaySubmit(sock[b])
    /\ sock[b].socket \notin open
    /\ sock__delete(b, sock[b], FALSE)
    /\ UNCHANGED io

\* Another error: the socket stays in front and the walk ends.
StillInFront(b) == UNCHANGED <<sock_update_queue, sock_deleted_queue>>

UpdateFails(t) ==
  LET b == Head(sock_update_queue) IN
  /\ Faults
  /\ InUpdate(t)
  /\ sock_update_queue # <<>>
  /\ \/ MaySubmit(sock[b]) /\ sock[b].socket \in open
     \/ sock[b].poll_status = "PENDING" /\ Uncovered(sock[b]) # {}
  /\ StillInFront(b)
  /\ UNCHANGED <<lifecycle, iocp_handle, active_poll_count, sock_tree,
                 poll_groups, sock, driverVars, worldVars>>
  /\ IF pc[t] = "update" THEN port_update_events_if_polling(t) ELSE Leave(t)

\* port__poll is ready to wait for completions, without the lock.
UpdateDone(t) ==
  /\ InUpdate(t)
  /\ sock_update_queue = <<>>
  /\ IF pc[t] = "update"
     THEN /\ active_poll_count' = active_poll_count + 1
          /\ lock' = NULL
          /\ Goto(t, "gqcs")
          /\ UNCHANGED call
     ELSE Leave(t) /\ UNCHANGED active_poll_count
  /\ UNCHANGED <<lifecycle, iocp_handle, sockVars, driverVars, worldVars>>

-----------------------------------------------------------------------------
(* epoll_wait.                                                             *)

WaitStart(t, timeout, n) ==
  /\ InCtl(t)
  /\ lock' = t
  /\ Goto(t, "update")
  /\ call' = [call EXCEPT ![t].timeout = timeout, ![t].maxevents = n]
  /\ UNCHANGED <<lifecycle, iocp_handle, active_poll_count, sockVars,
                 driverVars, worldVars>>

\* GetQueuedCompletionStatusEx returns the oldest packets.
GqcsPackets(t) ==
  LET n == IF Len(completions) < call[t].maxevents THEN Len(completions)
           ELSE call[t].maxevents
  IN
  /\ pc[t] = "gqcs"
  /\ iocp_handle
  /\ completions # <<>>
  /\ call' = [call EXCEPT ![t].batch = SubSeq(completions, 1, n)]
  /\ completions' = SubSeq(completions, n + 1, Len(completions))
  /\ Goto(t, "relock")
  /\ UNCHANGED <<portVars, sockVars, io, worldVars>>

\* It timed out, or the IOCP was closed.
GqcsFails(t) ==
  /\ pc[t] = "gqcs"
  /\ \/ call[t].timeout # "infinite" /\ completions = <<>>
     \/ ~iocp_handle
  /\ call' = [call EXCEPT ![t].failed = TRUE]
  /\ Goto(t, "relock")
  /\ UNCHANGED <<portVars, sockVars, driverVars, worldVars>>

StopPollingOnSuccess(t) ==
  active_poll_count' = active_poll_count - (IF call[t].failed THEN 0 ELSE 1)
StopPolling(t) == active_poll_count' = active_poll_count - 1

Relock(t) ==
  /\ pc[t] = "relock"
  /\ lock = NULL
  /\ StopPolling(t)
  /\ IF call[t].failed THEN port_update_events_if_polling(t)
     ELSE lock' = t /\ Goto(t, "feed") /\ UNCHANGED call
  /\ UNCHANGED <<lifecycle, iocp_handle, sockVars, driverVars, worldVars>>

(***************************************************************************)
(* sock_feed_event for the first packet of the batch.                      *)
(***************************************************************************)
FeedFirst(t, b) ==
  /\ lock = t
  /\ pc[t] = "feed"
  /\ call[t].batch # <<>>
  /\ b = Head(call[t].batch)
  /\ io' = [io EXCEPT ![b].request = "none"]
  /\ UNCHANGED <<portVars, completions, worldVars, pc>>

Returned(b) == [sock[b] EXCEPT !.poll_status = "IDLE", !.pending_events = {}]

LocalClose(b) == io[b].Status = "SUCCESS" /\ "LOCAL_CLOSE" \in io[b].Events

\* What the request reports, before the user's mask is applied.
Reported(b) ==
  CASE io[b].Status = "SUCCESS" -> AfdToEpoll(io[b].Events)
    [] io[b].Status = "FAILED"  -> {"EPOLLERR"}
    [] OTHER                    -> {}

\* The socket was deleted while the request was out, or has been closed.
GoneIfClosed(b) == LocalClose(b)
Gone(b)         == sock[b].delete_pending \/ LocalClose(b)

FeedDelete(t) ==
  \E b \in Blocks :
    /\ FeedFirst(t, b)
    /\ Gone(b)
    /\ sock__delete(b, Returned(b), FALSE)
    /\ call' = [call EXCEPT ![t].batch = Tail(@)]

\* EPOLLONESHOT: every event of the socket is unmonitored.
KeptArmed(s) == s
AfterReport(s) ==
  IF "EPOLLONESHOT" \in s.user_events THEN [s EXCEPT !.user_events = {}]
  ELSE s

FeedEvent(t) ==
  \E b \in Blocks :
    LET events == Reported(b) \cap sock[b].user_events IN
    /\ FeedFirst(t, b)
    /\ ~Gone(b)
    /\ port_request_socket_update(b)
    /\ IF events = {}
       THEN /\ sock' = [sock EXCEPT ![b] = Returned(b)]
            /\ call' = [call EXCEPT ![t].batch = Tail(@)]
       ELSE /\ sock' = [sock EXCEPT ![b] = AfterReport(Returned(b))]
            /\ call' = [call EXCEPT
                 ![t].batch = Tail(@),
                 ![t].events = Append(@, [socket |-> sock[b].socket,
                                          events |-> events])]
    /\ UNCHANGED <<sock_tree, poll_groups>>

\* The batch has been fed: return what was found, or poll again when nothing
\* was and the timeout has not passed.
FeedDone(t) ==
  /\ lock = t
  /\ pc[t] = "feed"
  /\ call[t].batch = <<>>
  /\ UNCHANGED <<lifecycle, iocp_handle, active_poll_count, sockVars,
                 driverVars, worldVars>>
  /\ \/ /\ call[t].events = <<>> /\ call[t].timeout # "zero"
        /\ Goto(t, "update")
        /\ UNCHANGED <<lock, call>>
     \/ /\ call[t].events # <<>> \/ call[t].timeout # "infinite"
        /\ port_update_events_if_polling(t)

-----------------------------------------------------------------------------
(* epoll_close: leave the handle tree, close the IOCP, wait until no other *)
(* thread holds a reference, delete.                                       *)

CloseStart(t) ==
  /\ pc[t] = "idle"
  /\ lifecycle = "open"
  /\ lifecycle' = "closing"
  /\ Goto(t, "closing")
  /\ UNCHANGED <<lock, iocp_handle, active_poll_count, sockVars, driverVars,
                 worldVars, call>>

\* No other thread holds a reference.
Alone(t) == \A u \in Threads \ {t} : pc[u] = "idle"

CloseReadyWhenAlone(t) == pc[t] = "closing" /\ Alone(t)
CloseReady(t)          == pc[t] = "closing"

\* The IOCP object is gone, and with it the packets in it.
PortClose(t) ==
  /\ CloseReady(t)
  /\ lock = NULL
  /\ iocp_handle' = FALSE
  /\ completions' = <<>>
  /\ Goto(t, "destroying")
  /\ UNCHANGED <<lifecycle, lock, active_poll_count, sockVars, io, worldVars,
                 call>>

\* reflock_unref_and_destroy returns.
CloseAlone(t) ==
  /\ pc[t] = "destroying"
  /\ Alone(t)
  /\ lifecycle' = "deleting"
  /\ Goto(t, "deleting")
  /\ UNCHANGED <<lock, iocp_handle, active_poll_count, sockVars, driverVars,
                 worldVars, call>>

\* port_delete: the registered sockets, in the order the tree happens to
\* give, then those that wait for their request.
PortDeleteSocket(t) ==
  /\ pc[t] = "deleting"
  /\ \/ \E h \in Sockets :
          sock_tree[h] # NULL /\ CancelAndDelete(sock_tree[h], TRUE)
     \/ /\ \A h \in Sockets : sock_tree[h] = NULL
        /\ sock_deleted_queue # <<>>
        /\ CancelAndDelete(Head(sock_deleted_queue), TRUE)
  /\ UNCHANGED <<portVars, completions, worldVars, pc, call>>

\* The poll groups and the port_state itself.
PortFree(t) ==
  /\ pc[t] = "deleting"
  /\ \A h \in Sockets : sock_tree[h] = NULL
  /\ sock_deleted_queue = <<>>
  /\ poll_groups' = NoGroups
  /\ lifecycle' = "freed"
  /\ Goto(t, "idle")
  /\ UNCHANGED <<lock, iocp_handle, active_poll_count, sock_tree,
                 sock_update_queue, sock_deleted_queue, sock, driverVars,
                 worldVars, call>>

-----------------------------------------------------------------------------
(* The driver and the outside world.                                       *)

Complete(b, status, events) ==
  /\ io' = [io EXCEPT ![b] = [request |-> "completed", Status |-> status,
                              Events |-> events]]
  /\ completions' = IF iocp_handle THEN Append(completions, b)
                    ELSE completions
  /\ UNCHANGED <<portVars, sockVars, worldVars, pc, call>>

\* Some of the conditions the request watches hold on its socket.
AfdReady(b) ==
  LET events == ready[sock[b].socket] \cap io[b].Events IN
  /\ io[b].request \in {"pending", "cancelling"}
  /\ Allocated(b)
  /\ sock[b].socket \in open
  /\ events # {}
  /\ Complete(b, "SUCCESS", events)

AfdCancelled(b) ==
  /\ io[b].request = "cancelling"
  /\ Complete(b, "CANCELLED", io[b].Events)

AfdLocalClose(b) ==
  /\ io[b].request = "orphaned"
  /\ Complete(b, "SUCCESS", {"LOCAL_CLOSE"})

\* The request fails, or succeeds without an event to report.
AfdFails(b) ==
  /\ Faults
  /\ io[b].request = "pending"
  /\ Complete(b, "FAILED", io[b].Events) \/ Complete(b, "SUCCESS", {})

SetReady(h) ==
  /\ h \in open
  /\ \E c \in SUBSET Conditions :
       c # ready[h] /\ ready' = [ready EXCEPT ![h] = c]
  /\ UNCHANGED <<portVars, sockVars, driverVars, open, pc, call>>

\* closesocket: a request on the socket is not of this SOCKET value any more.
CloseSocket(h) ==
  /\ h \in open
  /\ open' = open \ {h}
  /\ ready' = [ready EXCEPT ![h] = {}]
  /\ io' = [b \in Blocks |->
       IF sock[b].socket = h /\ io[b].request \in {"pending", "cancelling"}
       THEN [io[b] EXCEPT !.request = "orphaned"] ELSE io[b]]
  /\ UNCHANGED <<portVars, sockVars, completions, pc, call>>

\* The system hands the SOCKET value out again.
OpenSocket(h) ==
  /\ h \notin open
  /\ open' = open \cup {h}
  /\ UNCHANGED <<portVars, sockVars, driverVars, ready, pc, call>>

-----------------------------------------------------------------------------
Ctl(t) ==
  \/ \E h \in Sockets, m \in EventMasks : CtlAdd(t, h, m) \/ CtlMod(t, h, m)
  \/ \E h \in Sockets : CtlAddFails(t, h) \/ CtlDel(t, h) \/ CtlAddAborts(t, h)
  \/ CtlFails(t)

Update(t) ==
  \/ UpdateNothing(t) \/ UpdateCancel(t) \/ UpdateSubmit(t) \/ UpdateDrop(t)
  \/ UpdateFails(t) \/ UpdateDone(t)

Wait(t) ==
  \/ \E w \in Timeouts, n \in 1 .. MaxEvents :
       WaitStart(t, w, n)
  \/ GqcsPackets(t) \/ GqcsFails(t) \/ Relock(t)
  \/ FeedDelete(t) \/ FeedEvent(t) \/ FeedDone(t)

Close(t) ==
  \/ CloseStart(t) \/ PortClose(t) \/ CloseAlone(t)
  \/ PortDeleteSocket(t) \/ PortFree(t)

Afd(b) == AfdReady(b) \/ AfdCancelled(b) \/ AfdLocalClose(b) \/ AfdFails(b)

World(h) == SetReady(h) \/ CloseSocket(h) \/ OpenSocket(h)

Running == lifecycle \notin {"freed", "aborted"}

\* The port is gone; nothing is left to do with it.
Stopped == ~Running /\ UNCHANGED vars

Next ==
  \/ Running /\ \E t \in Threads : Enter(t) \/ Ctl(t) \/ Update(t) \/ Wait(t)
                                   \/ Close(t)
  \/ Running /\ \E b \in Blocks : Afd(b)
  \/ Running /\ \E h \in Sockets : World(h)
  \/ Stopped

Spec == Init /\ [][Next]_vars

(***************************************************************************)
(* A thread inside the API keeps running.  The critical section and the    *)
(* reflock pass over no thread for ever.  The driver completes a request   *)
(* that was cancelled or whose socket was closed, and one whose condition  *)
(* holds again and again: it looks at the condition when the request is    *)
(* submitted, too.                                                         *)
(***************************************************************************)
Fairness ==
  /\ \A t \in Threads :
       /\ WF_vars(Running /\ Update(t))
       /\ WF_vars(Running /\ (FeedDelete(t) \/ FeedEvent(t) \/ FeedDone(t)))
       /\ WF_vars(Running /\ (GqcsPackets(t) \/ GqcsFails(t)))
       /\ SF_vars(Running /\ Relock(t))
       /\ SF_vars(Running /\ pc[t] = "entered" /\ (Ctl(t) \/ Wait(t)))
       /\ SF_vars(Running /\ PortClose(t))
       /\ WF_vars(Running /\ (CloseAlone(t) \/ PortDeleteSocket(t)
                             \/ PortFree(t)))
  /\ \A b \in Blocks :
       /\ WF_vars(Running /\ (AfdCancelled(b) \/ AfdLocalClose(b)))
       /\ SF_vars(Running /\ AfdReady(b))

FairSpec == Spec /\ Fairness

-----------------------------------------------------------------------------
(* Correctness.                                                            *)

PortType ==
  /\ lifecycle \in Lifecycles
  /\ lock \in Threads \cup {NULL}
  /\ iocp_handle \in BOOLEAN
  /\ active_poll_count \in Int

SockType ==
  /\ sock_tree \in [Sockets -> Blocks \cup {NULL}]
  /\ sock_update_queue \in Seq(Blocks)
  /\ sock_deleted_queue \in Seq(Blocks)
  /\ poll_groups \in [queue : Seq(Nat), size : Seq(Int)]
  /\ sock \in [Blocks -> SockState]

DriverType ==
  /\ io \in [Blocks -> IoBlock]
  /\ completions \in Seq(Blocks)

WorldType ==
  /\ open \subseteq Sockets
  /\ ready \in [Sockets -> SUBSET Conditions]

ThreadType ==
  /\ pc \in [Threads -> Labels]
  /\ call \in [Threads -> Call]

TypeOK == PortType /\ SockType /\ DriverType /\ WorldType /\ ThreadType

(* port_register_socket and sock__delete keep the tree and the sock_state  *)
(* objects in step: a SOCKET value leads to the one object that is         *)
(* registered for it, also while earlier objects for the same value still  *)
(* wait for their request.                                                 *)
TreeConsistent ==
  \A h \in Sockets, b \in Blocks :
    sock_tree[h] = b <=> Registered(b) /\ sock[b].socket = h

(* The one queue_node of a sock_state is on the queue it should be on: the *)
(* update queue holds registered objects only (the assertion of            *)
(* sock_update), the deleted queue all those whose free is postponed, so   *)
(* port_delete reaches every object and leaves the update queue empty (the *)
(* assertion of port_delete).                                              *)
QueueDiscipline ==
  /\ Distinct(sock_update_queue)
  /\ Distinct(sock_deleted_queue)
  /\ \A b \in Elements(sock_update_queue) : Registered(b)
  /\ Elements(sock_deleted_queue) =
       {b \in Blocks : Allocated(b) /\ sock[b].delete_pending}

(* The driver writes to a sock_state until its packet has been fed: until  *)
(* the port itself is deleted no such block is freed, and poll_status says *)
(* exactly whether a request is out.                                       *)
KernelOwnsBlock ==
  lifecycle \notin {"deleting", "freed"} =>
    \A b \in Blocks :
      IF Allocated(b)
      THEN sock[b].poll_status = "IDLE" <=> io[b].request = "none"
      ELSE io[b].request = "none"

(* A sock_state that was deleted while its request was out is waiting for  *)
(* that request and for nothing else, so that it is freed when the packet  *)
(* is fed, and does not stay behind until epoll_close.  Only a failed      *)
(* cancellation, whose result sock__delete ignores, leaves the request     *)
(* pending in the driver; the sock_state still says so.                    *)
DeletedAwaitPackets ==
  \A b \in Blocks :
    Allocated(b) /\ sock[b].delete_pending =>
      /\ io[b].request # "none"
      /\ sock[b].poll_status # "IDLE"
      /\ io[b].request = "pending" =>
           Faults /\ sock[b].poll_status = "PENDING"

(* No interest is forgotten: a registered socket whose node is not on the  *)
(* update queue has a request out that watches every event the user armed, *)
(* or one whose packet will bring the socket back to the queue.            *)
NothingLost ==
  \A b \in Blocks :
    Registered(b) /\ b \notin Elements(sock_update_queue) =>
      \/ io[b].request \in {"cancelling", "orphaned", "completed"}
      \/ /\ io[b].request = "pending"
         /\ EpollToAfd(sock[b].user_events) \subseteq io[b].Events

(* port__update_events is postponed to the next epoll_wait only while no   *)
(* thread is in GetQueuedCompletionStatusEx: a thread that waits there     *)
(* waits for every socket, however the set changed after it began to wait. *)
(* (After a failed update the rest of the queue is left for the next call.)*)
PollersSeeUpdates ==
  ~Faults /\ lock = NULL /\ active_poll_count > 0 =>
    sock_update_queue = <<>>

(* active_poll_count, on which that decision rests, counts exactly the     *)
(* threads between the two halves of port__poll, also when a wait fails.   *)
ActiveCount ==
  active_poll_count = Cardinality({t \in Threads : pc[t] \in {"gqcs", "relock"}})

(* A request gives back one packet: it is in the IOCP or in the batch of   *)
(* one thread, never twice, and none is left of a request that was fed. So *)
(* sock_feed_event never sees a block that is freed or used again.         *)
Occurrences(q, b) == Cardinality({i \in DOMAIN q : q[i] = b})

PacketOnce ==
  \A b \in Blocks :
    LET fed == {t \in Threads : b \in Elements(call[t].batch)} IN
    /\ Occurrences(completions, b) + Cardinality(fed) =<
         IF io[b].request = "completed" THEN 1 ELSE 0
    /\ \A t \in fed : Occurrences(call[t].batch, b) = 1
    /\ iocp_handle /\ io[b].request = "completed" =>
         Occurrences(completions, b) + Cardinality(fed) = 1

(* Each sock_state holds one place in its poll group from sock_new to its  *)
(* free, and a failed epoll_ctl keeps none.                                *)
GroupAccounting ==
  lifecycle # "freed" =>
    \A g \in DOMAIN poll_groups.size :
      poll_groups.size[g] =
        Cardinality({b \in Blocks : Allocated(b) /\ sock[b].poll_group = g})

(* The assertion of port_get_iocp_handle never fails.                      *)
NeverAborts == lifecycle # "aborted"

(* The port is the set of sockets of EpollSet.  In particular: an event    *)
(* that was found for an earlier registration of the same SOCKET value, or *)
(* after the socket was deleted, is not reported; only events armed at the *)
(* time of the report are; EPOLLONESHOT disarms a socket with its report.  *)
Interest ==
  [h \in {g \in Sockets : sock_tree[g] # NULL} |->
     sock[sock_tree[h]].user_events]

Promise == INSTANCE EpollSet WITH
  interest <- Interest, collected <- [t \in Threads |-> call[t].events]

ImplementsEpollSet == Promise!Spec

(* epoll_close returns: closing the IOCP first makes every thread that     *)
(* waits without a timeout leave, so the closer is the last one to hold a  *)
(* reference.                                                              *)
CloseCompletes == lifecycle = "closing" ~> ~Running

(* A thread waits for ever for h, which is armed for EPOLLIN and readable. *)
Waiting(t) == pc[t] \in {"gqcs", "relock", "update", "feed"}
                /\ call[t].timeout = "infinite"

Awaited(h) ==
  /\ lifecycle = "open"
  /\ \E t \in Threads : Waiting(t)
  /\ sock_tree[h] # NULL
  /\ "EPOLLIN" \in sock[sock_tree[h]].user_events
  /\ "RECEIVE" \in ready[h]

(* An armed event is delivered: a socket that stays readable while a       *)
(* thread waits is reported, whatever is added, modified, closed or        *)
(* cancelled meanwhile.                                                    *)
EventDelivered ==
  \A h \in Sockets :
    []<>(~Awaited(h) \/ \E t \in Threads :
                          \E i \in DOMAIN call[t].events :
                            call[t].events[i].socket = h)

(* A deleted socket is freed while the port is open, provided some thread  *)
(* goes on waiting: its request comes back and is fed.                     *)
DeletedFreed ==
  \A b \in Blocks :
    []<>(\/ ~(Allocated(b) /\ sock[b].delete_pending)
         \/ lifecycle # "open"
         \/ \A t \in Threads : ~Waiting(t))

-----------------------------------------------------------------------------
(* The inductive invariant IndInv: what every step needs of the state to   *)
(* keep the safety properties above.  It is checked and proved.            *)

\* Nobody is inside a call while the port is deleted, and one thread does it.
Lifecycle ==
  /\ \A t \in Threads :
       /\ pc[t] \notin {"idle", "deleting"} =>
            lifecycle \notin {"deleting", "freed"}
       /\ pc[t] = "deleting" => lifecycle = "deleting"
  /\ \A t, u \in Threads : pc[t] = "deleting" /\ pc[u] = "deleting" => t = u

\* What poll_status and pending_events say of the request.
RequestState ==
  \A b \in Blocks :
    io[b].request = "pending" =>
      /\ io[b].Status = "PENDING"
      /\ sock[b].poll_status # "CANCELLED"
      /\ sock[b].poll_status = "PENDING" =>
           io[b].Events = EpollToAfd(sock[b].pending_events)

\* Packets name completed requests, each in one place; a thread holds packets
\* only until it has fed them.
PacketPlaces ==
  /\ Distinct(completions)
  /\ \A b \in Elements(completions) : io[b].request = "completed"
  /\ \A t \in Threads :
       /\ Distinct(call[t].batch)
       /\ \A b \in Elements(call[t].batch) :
            io[b].request = "completed" /\ b \notin Elements(completions)
       /\ \A u \in Threads \ {t} :
            Elements(call[t].batch) \cap Elements(call[u].batch) = {}

BatchUse ==
  \A t \in Threads :
    /\ call[t].batch # <<>> => pc[t] \in {"relock", "feed"} /\ ~call[t].failed
    /\ call[t].failed => pc[t] \in {"relock", "last_update"}

\* No packet is lost while the IOCP exists.
PacketKept ==
  iocp_handle =>
    \A b \in Blocks : io[b].request = "completed" =>
      \/ b \in Elements(completions)
      \/ \E t \in Threads : b \in Elements(call[t].batch)

(* The inductive invariant: epoll_ctl, epoll_wait and epoll_close, the     *)
(* driver and the outside world keep all of this, whatever they do next.   *)
IndInv ==
  /\ TypeOK /\ Lifecycle /\ TreeConsistent /\ QueueDiscipline
  /\ KernelOwnsBlock /\ RequestState /\ NothingLost
  /\ PacketPlaces /\ BatchUse /\ PacketKept
=============================================================================

----------------------------- MODULE EpollCalls ------------------------------
(***************************************************************************)
(* The calls of the epoll API as their callers see them: what they         *)
(* allocate, what they give back when they fail half way, and which errno  *)
(* they leave.  One thread calls; each system call on the way may fail,    *)
(* and other threads open and close sockets and handles meanwhile.         *)
(***************************************************************************)
EXTENDS PollGroups, FiniteSets

CONSTANTS
  Sockets,       \* SOCKET values
  Port, File,    \* the value of an epoll handle, and of another handle
  Bad,           \* a value that is no handle, INVALID_HANDLE_VALUE among them
  MaxDeleted,    \* bound on the deleted objects that wait for their request
  NULL

\* The group of each registered socket, and of each deleted object.
PortStates ==
  [socks   : UNION {[S -> Nat] : S \in SUBSET Sockets},
   deleted : Seq(Nat),
   groups  : [queue : Seq(Nat), size : Seq(Nat)]]

CallsAssumption ==
  /\ MaxDeleted \in Nat /\ IsFiniteSet(Sockets)
  /\ Bad \notin Sockets \cup {Port, File}
  /\ NULL \notin PortStates /\ NULL # "EBADF"

VARIABLES
  port,       \* the port_state behind Port, NULL without one
  held,       \* how many of each resource are allocated
  open,       \* the handles and sockets that are open
  pc, call,   \* where the thread is, and the arguments and locals of its call
  errno       \* NULL when the call has not set it

vars == <<port, held, open, pc, call, errno>>

Resources == {"port_state", "iocp", "poll_group", "afd_device", "sock_state"}
Ops       == {"EPOLL_CTL_ADD", "EPOLL_CTL_MOD", "EPOLL_CTL_DEL", "other"}

\* The part of the table that wepoll's own errors use.  The codes that
\* RtlNtStatusToDosError makes of a driver's status are taken to be others.
Mapped == [ERROR_INVALID_HANDLE    |-> "EBADF",
           ERROR_NOT_ENOUGH_MEMORY |-> "ENOMEM",
           ERROR_ALREADY_EXISTS    |-> "EEXIST",
           ERROR_NOT_FOUND         |-> "ENOENT",
           WSAENOTSOCK             |-> "ENOTSOCK",
           WSAEOPNOTSUPP           |-> "EOPNOTSUPP",
           NTSTATUS                |-> "EIO"]

err__map_win_error_to_errno(e) ==
  IF e \in DOMAIN Mapped THEN Mapped[e] ELSE "EINVAL"

NoCall == [fn |-> "none"]

Init ==
  /\ port = NULL
  /\ held = [r \in Resources |-> 0]
  /\ open = {File}
  /\ pc = "outside" /\ call = NoCall
  /\ errno = NULL

----------------------------------------------------------------------------
Take(r)      == held' = [held EXCEPT ![r] = @ + 1]
GiveBack(rs) == held' = [r \in Resources |-> held[r] - IF r \in rs THEN 1 ELSE 0]

Goto(l) == pc' = l /\ UNCHANGED errno

\* return_set_error, and on to what the function does when it fails.
Fail(e, l) == errno' = err__map_win_error_to_errno(e) /\ pc' = l

\* epoll_create checks nothing after a failure; the others check handles.
Failed == IF call.fn = "epoll_create" THEN "failed" ELSE "check_ephnd"

----------------------------------------------------------------------------
(* epoll_create                                                            *)

epoll_create ==
  /\ pc = "outside" /\ port = NULL
  /\ call' = [fn |-> "epoll_create"]
  /\ errno' = NULL
  /\ pc' = "port__alloc"
  /\ UNCHANGED <<port, held, open>>

port__alloc ==
  /\ pc = "port__alloc"
  /\ \/ Take("port_state") /\ Goto("port__create_iocp")
     \/ Fail("ERROR_NOT_ENOUGH_MEMORY", Failed) /\ UNCHANGED held
  /\ UNCHANGED <<port, open, call>>

port__create_iocp ==
  /\ pc = "port__create_iocp"
  /\ \/ /\ Take("iocp") /\ Goto("returned")
        /\ port' = [socks |-> <<>>, deleted |-> <<>>, groups |-> NoGroups]
        /\ open' = open \cup {Port}
     \/ /\ GiveBack({"port_state"}) /\ Fail("NTSTATUS", Failed)
        /\ UNCHANGED <<port, open>>
  /\ UNCHANGED call

----------------------------------------------------------------------------
(* epoll_ctl; port.socks gives the group of each registered socket         *)

epoll_ctl(ephnd, op, sock) ==
  /\ pc = "outside"
  /\ call' = [fn |-> "epoll_ctl", ephnd |-> ephnd, op |-> op, sock |-> sock,
              group |-> 0,
              \* whether one of the handles was open, or closed, at any time
              wasOpen   |-> {ephnd, sock} \cap open,
              wasClosed |-> {ephnd, sock} \ open]
  /\ errno' = NULL
  /\ pc' = "ts_tree_find_and_ref"
  /\ UNCHANGED <<port, held, open>>

ts_tree_find_and_ref ==
  /\ pc = "ts_tree_find_and_ref"
  /\ IF call.ephnd = Port /\ port # NULL
     THEN Goto(call.op)
     ELSE Fail("ERROR_INVALID_PARAMETER", Failed)
  /\ UNCHANGED <<port, held, open, call>>

port__ctl_op_default ==
  /\ pc = "other"
  /\ Fail("ERROR_INVALID_PARAMETER", Failed)
  /\ UNCHANGED <<port, held, open, call>>

port__ctl_mod ==
  /\ pc = "EPOLL_CTL_MOD"
  /\ IF call.sock \in DOMAIN port.socks THEN Goto("returned")
     ELSE Fail("ERROR_NOT_FOUND", Failed)
  /\ UNCHANGED <<port, held, open, call>>

Unregistered(p, s) ==
  [p EXCEPT !.socks = [g \in DOMAIN p.socks \ {s} |-> p.socks[g]]]

Freed(p, g) == [p EXCEPT !.groups = poll_group_release(p.groups, g)]

\* The object is freed at once, or later when its request is still out.
port__ctl_del ==
  /\ pc = "EPOLL_CTL_DEL"
  /\ IF call.sock \in DOMAIN port.socks
     THEN LET g == port.socks[call.sock]
              p == Unregistered(port, call.sock)
          IN  /\ \/ port' = Freed(p, g) /\ GiveBack({"sock_state"})
                 \/ /\ Len(p.deleted) < MaxDeleted
                    /\ port' = [p EXCEPT !.deleted = Append(@, g)]
                    /\ UNCHANGED held
              /\ Goto("returned")
     ELSE Fail("ERROR_NOT_FOUND", Failed) /\ UNCHANGED <<port, held>>
  /\ UNCHANGED <<open, call>>

\* sock_new; ws_get_base_socket finds a socket that is not open not to be one.
ws_get_base_socket ==
  /\ pc = "EPOLL_CTL_ADD"
  /\ \/ /\ call.sock = Bad
        /\ Fail("ERROR_INVALID_HANDLE", Failed)
     \/ /\ call.sock # Bad /\ call.sock \notin open
        /\ Fail("WSAENOTSOCK", Failed)
     \/ call.sock # Bad /\ Fail("WSAEOPNOTSUPP", Failed)
     \/ /\ call.sock \in open
        /\ Goto(IF NeedsNewGroup(port.groups) THEN "poll_group__new"
                ELSE "poll_group_acquire")
  /\ UNCHANGED <<port, held, open, call>>

\* The memory of a new group.
AllocGroup ==
  /\ pc = "poll_group__new"
  /\ \/ Take("poll_group") /\ Goto("NtCreateFile")
     \/ Fail("ERROR_NOT_ENOUGH_MEMORY", Failed) /\ UNCHANGED held
  /\ UNCHANGED <<port, open, call>>

NtCreateFile ==
  /\ pc = "NtCreateFile"
  /\ \/ Take("afd_device") /\ Goto("CreateIoCompletionPort")
     \/ GiveBack({"poll_group"}) /\ Fail("NTSTATUS", Failed)
  /\ UNCHANGED <<port, open, call>>

ClosesDevice == GiveBack({"afd_device", "poll_group"})

\* Here and with SetFileCompletionNotificationModes.
CreateIoCompletionPort ==
  /\ pc = "CreateIoCompletionPort"
  /\ \/ Goto("poll_group_acquire") /\ UNCHANGED held
     \/ ClosesDevice /\ Fail("NTSTATUS", Failed)
  /\ UNCHANGED <<port, open, call>>

AcquireGroup ==
  /\ pc = "poll_group_acquire"
  /\ port' = [port EXCEPT !.groups = poll_group_acquire(@)]
  /\ call' = [call EXCEPT !.group = AcquiredGroup(port.groups)]
  /\ Goto("sock__alloc")
  /\ UNCHANGED <<held, open>>

\* Slip: the place in the group is kept.
KeepsPlace(p, g) == p

err1(p, g) == Freed(p, g)

sock__alloc ==
  /\ pc = "sock__alloc"
  /\ \/ Take("sock_state") /\ Goto("port_register_socket") /\ UNCHANGED port
     \/ /\ Fail("ERROR_NOT_ENOUGH_MEMORY", Failed)
        /\ port' = err1(port, call.group)
        /\ UNCHANGED held
  /\ UNCHANGED <<open, call>>

port_register_socket ==
  /\ pc = "port_register_socket"
  /\ IF call.sock \in DOMAIN port.socks
     THEN /\ Fail("ERROR_ALREADY_EXISTS", Failed)
          /\ port' = err1(port, call.group)
          /\ GiveBack({"sock_state"})
     ELSE /\ port' = [port EXCEPT !.socks =
               [s \in DOMAIN port.socks \cup {call.sock} |->
                  IF s = call.sock THEN call.group ELSE port.socks[s]]]
          /\ Goto("returned")
          /\ UNCHANGED held
  /\ UNCHANGED <<open, call>>

----------------------------------------------------------------------------
(* After a failure                                                         *)

\* Slip: a handle of something else is not accepted either.
NoEpollHandle(h, l) ==
  IF h = Bad \/ h \notin open \ {File} THEN Fail("ERROR_INVALID_HANDLE", l)
  ELSE Goto(l)

err_check_handle(h, l) ==
  IF h = Bad \/ h \notin open THEN Fail("ERROR_INVALID_HANDLE", l) ELSE Goto(l)

CheckPort ==
  /\ pc = "check_ephnd"
  /\ err_check_handle(call.ephnd,
                      IF call.fn = "epoll_ctl" THEN "check_sock" ELSE "failed")
  /\ UNCHANGED <<port, held, open, call>>

CheckSock ==
  /\ pc = "check_sock"
  /\ err_check_handle(call.sock, "failed")
  /\ UNCHANGED <<port, held, open, call>>

----------------------------------------------------------------------------
(* epoll_close                                                             *)

epoll_close(ephnd) ==
  /\ pc = "outside"
  /\ call' = [fn |-> "epoll_close", ephnd |-> ephnd]
  /\ IF ephnd = Port /\ port # NULL
     THEN /\ GiveBack({"iocp"}) /\ open' = open \ {Port}
          /\ pc' = "port_delete" /\ errno' = NULL
     ELSE /\ Fail("ERROR_INVALID_PARAMETER", "check_ephnd")
          /\ UNCHANGED <<held, open>>
  /\ UNCHANGED port

ForceDelete(p, g) ==
  /\ port' = Freed(p, g)
  /\ GiveBack({"sock_state"})

\* One object, of the tree first and then of the deleted queue; then the
\* groups, then the port itself.
port_delete ==
  /\ pc = "port_delete"
  /\ IF DOMAIN port.socks # {}
     THEN /\ \E s \in DOMAIN port.socks :
               ForceDelete(Unregistered(port, s), port.socks[s])
          /\ Goto("port_delete")
     ELSE IF port.deleted # <<>>
     THEN /\ ForceDelete([port EXCEPT !.deleted = Tail(@)], Head(port.deleted))
          /\ Goto("port_delete")
     ELSE /\ held' = [held EXCEPT !["poll_group"] = @ - Len(port.groups.queue),
                                  !["afd_device"] = @ - Len(port.groups.queue),
                                  !["port_state"] = @ - 1]
          /\ port' = NULL
          /\ Goto("returned")
  /\ UNCHANGED <<open, call>>

Return ==
  /\ pc \in {"returned", "failed"}
  /\ pc' = "outside" /\ call' = NoCall /\ errno' = NULL
  /\ UNCHANGED <<port, held, open>>

----------------------------------------------------------------------------
(* The world                                                               *)

\* The packet of a deleted object comes back to some epoll_wait.
FeedDeleted ==
  /\ pc = "outside" /\ port # NULL
  /\ port.deleted # <<>>
  /\ ForceDelete([port EXCEPT !.deleted = Tail(@)], Head(port.deleted))
  /\ UNCHANGED <<open, pc, call, errno>>

\* A socket or the file is opened or closed; registered sockets stay
\* registered until their packet is fed.
World(h) ==
  /\ open' = IF h \in open THEN open \ {h} ELSE open \cup {h}
  /\ call' = IF call.fn # "epoll_ctl" \/ h \notin {call.ephnd, call.sock} THEN call
             ELSE [call EXCEPT
               !.wasOpen   = IF h \in open' THEN @ \cup {h} ELSE @,
               !.wasClosed = IF h \in open' THEN @ ELSE @ \cup {h}]
  /\ UNCHANGED <<port, held, pc, errno>>

Next ==
  \/ epoll_create \/ port__alloc \/ port__create_iocp
  \/ \E ephnd \in {Port, File, Bad}, op \in Ops, sock \in Sockets \cup {Bad} :
       epoll_ctl(ephnd, op, sock)
  \/ ts_tree_find_and_ref \/ port__ctl_op_default
  \/ port__ctl_mod \/ port__ctl_del
  \/ ws_get_base_socket \/ AllocGroup \/ NtCreateFile
  \/ CreateIoCompletionPort \/ AcquireGroup \/ sock__alloc
  \/ port_register_socket
  \/ CheckPort \/ CheckSock
  \/ \E ephnd \in {Port, File, Bad} : epoll_close(ephnd)
  \/ port_delete \/ Return
  \/ FeedDeleted
  \/ \E h \in Sockets \cup {File} : World(h)

Spec == Init /\ [][Next]_vars

----------------------------------------------------------------------------
Quiet == pc \in {"outside", "returned", "failed"}

(* Between calls exactly that is allocated which the port still uses: a    *)
(* call that fails half way leaves no memory and no handle behind, except  *)
(* for a new poll group, which the port keeps; after epoll_close nothing   *)
(* is left.                                                                *)
NothingLeaks ==
  Quiet =>
    held = IF port = NULL THEN [r \in Resources |-> 0]
           ELSE LET groups == Len(port.groups.size)
                IN  [port_state |-> 1, iocp |-> 1,
                     poll_group |-> groups, afd_device |-> groups,
                     sock_state |-> Cardinality(DOMAIN port.socks)
                                      + Len(port.deleted)]

(* The places taken in the poll groups are those of the objects that       *)
(* exist, whichever step of epoll_ctl failed before; so the groups are     *)
(* empty when port_delete frees them (the assertion of poll_group_delete). *)
PlacesAreReturned ==
  port # NULL /\ pc \notin {"sock__alloc", "port_register_socket"} =>
    \A g \in DOMAIN port.groups.size :
      port.groups.size[g] =
        Cardinality({s \in DOMAIN port.socks : port.socks[s] = g})
        + Cardinality({i \in DOMAIN port.deleted : port.deleted[i] = g})

(* So nothing is lost or counted twice, whichever step fails.              *)
ResourcesAreExact == NothingLeaks /\ PlacesAreReturned

(* "in the case of epoll_ctl(), EBADF takes priority over other errors":   *)
(* if one of the two handles was not open at any time of a failed call,    *)
(* errno is EBADF.                                                         *)
BadHandleIsEBADF ==
  pc = "failed" /\ call.fn = "epoll_ctl"
    /\ {call.ephnd, call.sock} \ call.wasOpen # {}
    => errno = "EBADF"

(* And EBADF says of a handle that it was closed at some time of the call. *)
EBADFIsBadHandle ==
  pc = "failed" /\ call.fn = "epoll_ctl" /\ errno = "EBADF" =>
    call.wasClosed # {}

(* The caller of epoll_ctl can tell a bad handle from any other error.     *)
EBADFIsExact == BadHandleIsEBADF /\ EBADFIsBadHandle
=============================================================================

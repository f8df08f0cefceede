# DulceSockets in TLA+

A verification development of DulceSockets: a Swift socket library
(`Sources/DulceSockets`) and the C layer under it. On Windows that layer
contains `wepoll.c`, an implementation of epoll on top of the AFD driver and an
I/O completion port (IOCP). That file holds all of the concurrency of the
program, most of its state and two thirds of its code, so it comes first.

## The system

| Component | State | Operations | Hard parts |
| --- | --- | --- | --- |
| Epoll port (`wepoll.c` 1052-1460, 1588-1890) | `port_state`: tree of sockets, update queue, deleted queue, poll groups, `active_poll_count`, lock; `sock_state`: user and pending events, poll status, delete flag | `epoll_ctl`, `epoll_wait`, `epoll_close` | `epoll_wait` gives up the lock while it waits; the driver owns part of each `sock_state` until its packet is fed |
| Handle tree and reflock (465-481, 549-682, 1521-1586, 1906-1971) | handle -> port, one word per port | create, find and ref, unref, delete and destroy | reuse of memory and handle values; a keyed event that blocks both sides |
| The three API calls around them (511-682, 698-838, 1617-1677) | resources in hand, the error to report | `epoll_create`, `epoll_ctl`, `epoll_close` | what is given back when the n-th step fails; the second look at the handles |
| Poll groups (947-1025) | queue of groups, size of each | acquire, release | only the last group is looked at |
| Intrusive queue (1462-1519) | prev/next pairs | append, prepend, move, remove | one node, two queues |
| Red-black tree (1973-2185) | nodes, colours, three pointers each | add, delete, find | balancing loops that follow pointers which only a balanced tree has |
| Event masks (1588, 1714-1771) | none | epoll events <-> AFD events | an event that is watched and not reported, or the reverse |
| Global initialisation (840-895) | `init__done`, once block | `init` | unsynchronised read, a failed run |
| Base sockets (2193-2260) | none | `ws_get_base_socket` | providers that break an ioctl; a loop without a bound |
| Poll set (`SDulceSocketsWaits.swift`) | `Poll_Of_Events` | set, remove, wait, reset, close | a set that cannot be filled |
| Sockets (`SDulceSockets.swift` 195-415, 528) | `Socket_Dulce`: descriptor, addresses, three flags | create, connect, accept, close | lost descriptors, flags that do not follow the socket |
| Transfer loops (551-747) | locals of one call | `send`, `receive` | short transfers, calls that wait for the peer |
| Addresses (129-192, 417-526) | none | resolve, print | a 16 byte `sockaddr` for every family |
| Start and stop, C shims | none | `WSAStartup`, one option, one message | |

The Swift layer calls `socket`, `poll` and so on, on Windows `epoll_*` through
`Poll_Of_Events`. Inside `wepoll.c` every API call runs `init`, finds its port
in the handle tree and takes a reference (reflock), takes the lock of the port,
works on the `sock_state` objects, and submits or cancels poll requests with
the AFD driver, which answers with packets in the IOCP. `epoll_close` removes
the port from the tree, closes the IOCP and waits for the references to go.

What makes each component correct is stated as properties, listed with the
runs below. `PROJECT.json` lists, under `hazards`, the places in the code where
these properties could go wrong.

## Modules

| Module | Models | How |
| --- | --- | --- |
| `EpollEvents` | masks and their conversions | a mask is a set of flags |
| `EpollMasks` | `sock_set_event` over all masks | one flag more or less per step |
| `Queue` | `queue_*` as the other modules use them | a queue is the sequence of its nodes |
| `QueueCells`, `IntrusiveQueue` | `queue_*` as written | `prev` and `next` of every head and node, and which nodes are allocated |
| `QueueSet` | abstract: sequences that share no node | implemented by `IntrusiveQueue` |
| `PollGroups`, `PollGroupPool` | `poll_group_*` and their users | a record of the queue and the sizes |
| `RBTree` | `tree_add`, `tree_del`, `tree_find` | root, parent, children and colour of every node; a loop iteration is a step, so the properties also speak of the middle of an operation |
| `Dictionary` | abstract: a map from keys to nodes | implemented by `RBTree` |
| `EpollCalls` | the error paths of the three API calls and the error they report | what a call has taken so far is a set; each step may fail |
| `InitOnce` | `init` and its callback | threads, the flag, the once block, four initialisers of which some fail |
| `BaseSocket` | `ws_get_base_socket` | a chain of providers, each with its answer to the two ioctls |
| `WepollPort` | one port, its sockets, the driver, the threads | below |
| `EpollSet` | abstract: what a port promises its callers | implemented by `WepollPort` |
| `WaitClock` | the timeout of `port_wait` | one wait, through time, in words of `Word` values |
| `TsTree` | handle tree and reflock | one interlocked operation or exclusive section per step |
| `PortLifetime` | abstract: who may use the memory of a port | implemented by `TsTree`; what it grants are the guards of `WepollPort`'s `Enter`, `CloseStart` and `CloseAlone` |
| `PollSet` | `Poll_Of_Events` where the system has `poll` | one public function per action |
| `SocketLifecycle` | `create_Socket`, `dulce_Connect`, `wait_Connection`, `close` | variables of the program, descriptors of the kernel, one address of the list per step |
| `StreamIO`, `DatagramIO` | `send` and `receive` over TCP and over UDP, `wait_Connection` over UDP | the loop of each call beside the network; a byte is its position in the stream |
| `AddressBytes` | what `Address` keeps of a socket address and what is read from it | a few bytes of each field; bytes behind the 16 kept ones are anything |
| `MCPort`, `MCRBTree` | masks, symmetry and keys of the instances | |
| `MCStructures`, `MCLoops`, `MCSockets` | suites: several small components in one run | below |
| `PollGroupsProofs`, `StructuresProofs`, `RBTreeProofs`, `LoopsProofs`, `SocketsProofs`, `TsTreeProofs`, `WepollPortProofs`, `WepollPortPromises` | theorems | see Proofs |

### Suites

Components that share no state with any other are checked together: the suite
declares the variables of all of them, chooses in its initial states which
`part` moves, and leaves the others where they start. The behaviours of a suite
are those of its parts, side by side and never interleaved, so no product of
state spaces arises and nothing is lost, since no part reads what another
writes. A property of the suite is the property of the part, where a
step or a wait is concerned with the condition that this part is the one that
moves.

### WepollPort

The variables are the fields of `port_state` under their names. `sock` maps
each block of memory to the `sock_state` in it (its `socket` is `NULL` while
the block is free), `io` to the part of it the driver writes. Keeping blocks
apart from SOCKET values lets a value be registered again while an earlier
object for it still waits for its request.

A thread is described by `pc` and by `call`, the locals of its call. An action
is what a thread does between two points where others can come in:

- `Enter` finds and references the port; `CtlAdd`, `CtlAddFails`, `CtlMod`,
  `CtlDel`, `CtlFails` are critical sections of `epoll_ctl`; `WaitStart` begins
  `epoll_wait`.
- The loops of `port__update_events` and `port__feed_events` run one iteration
  per step (`Update...`, `Feed...`) while `lock` names the thread.
  `port__update_events_if_polling` continues as such a loop at `last_update`.
- `GqcsPackets` and `GqcsFails` are the two outcomes of
  `GetQueuedCompletionStatusEx`, `Relock` the section after it.
- `CloseStart`, `PortClose`, `CloseAlone`, `PortDeleteSocket`, `PortFree` are
  `epoll_close`.
- `AfdReady`, `AfdCancelled`, `AfdLocalClose`, `AfdFails` and `SetReady`,
  `CloseSocket`, `OpenSocket` are external: the driver and the world, as the
  code relies on them.

Time is abstracted to three kinds of timeout; a finite one may pass at any
moment at which the code looks at the clock. `Faults` switches the failures of
allocation and of driver calls on. The data a user attaches to a socket is not
modelled.

Pieces of code that are prone to a slip are operators of their own, and the
slip stands in front of them under a name that says what it does
(`MayFreeCancelled` before `MayFree`). No action uses them; they are the bugs
against which the properties are tried (`mutants` in `PROJECT.json`).

### TsTree

A node is a block of memory for a `port_state`, `state` the word of its
reflock, with the value of `REFLOCK__DESTROY` a constant above the number of
threads. The handle of a port is closed before its memory is freed, so another
port may get the same handle value in between; both reuses happen in the runs.

### EpollCalls and RBTree

`EpollCalls` keeps of a call its label in the code, the resources it has in
hand and the error. Other threads may close or open the handles between the
failure and the second look (`err_check_handle`); this is where the error a
caller sees could stop being the one that occurred. Allocation, the
IOCP, the poll group and the AFD device each group opens may fail; a group that
was opened for a registration stays with the port when the registration fails
later, but the place taken in it does not.

`RBTree` takes an operation apart at the head of its loop: `Add` links the
node, `AddRecolour` and `AddRotate` are iterations; `Del` unlinks, and
`DelRotate` and `DelRecolour` follow. No other operation may start before the
loop is done, since the callers hold a lock.

### The Swift layer

`SocketLifecycle` has a few variables of type `Socket_Dulce`, which the program
does not copy (the type is a value; the library could not follow a copy). A
descriptor of the kernel has a family, is bound, listening or has a peer.
Descriptor 0 is taken, since the library reads 0 as "no socket".
`StreamIO` has two programs at the ends of one connection; the system accepts
and gives pieces of any size and may reset the connection at any time. The
programs ignore SIGPIPE. `DatagramIO` has senders, a network that loses,
duplicates and reorders, and empty datagrams, with which `receive` ends.

## Runs

| Run | Instance | Question |
| --- | --- | --- |
| `Structures` | all 512 masks with `EPOLLERR` and `EPOLLHUP`; 6 sockets in groups of 2; 4 nodes on 2 queues; 2 sockets and 2 deleted objects around the calls | do masks agree, is looking at the last group enough, do the pointers do what sequences do, does every failing call give back what it took and report what happened? |
| `Tree` | 11 nodes, two with one key | is the tree balanced and ordered after every iteration, and is it a map? |
| `Loops` | 3 threads and 2 failures of `init`; 4 layers; 8 words and 10 ticks; 4 bytes through buffers of 2; 2 senders, 3 datagrams taken | does a call see a complete initialisation, end with the base socket or a reason, wait as long as asked, transfer what it counts, and come back? |
| `Sockets` | 2 variables, 3 descriptors, 2 addresses per list, 2 families; 2 values per byte and word | does a `Socket_Dulce` say the truth about its descriptor, and what survives in an `Address`? |
| `PortCore` | 2 threads, 1 SOCKET value, 2 blocks, a level-triggered and a one-shot mask | are memory, queues, packets and reports right under every interleaving, reuse of the value included? |
| `PortFaults` | the same, one mask, groups of 1, faults | also when any call fails, and is every deleted object still waited for? |
| `PortSockets` | 1 thread, 2 one-shot sockets, 2 packets at a time | also within one batch? |
| `PortLive` | 2 threads, 1 socket, two masks that cancel each other's request | does what must happen happen? |
| `PortAssert` | `NeverAborts` alone | violated, see below |
| `TsTree` | 4 threads, 2 nodes, 2 handles | exact counts, no use after free, no failed assertion, and does every call return? |
| `PollSetAdd` | `AskedIsPolled` alone | violated, see below |
| `AddressIPv6` | `AddressSurvives` alone | violated, see below |

What each of the first four shows, part by part:

- Masks: `MasksAgree`, that no condition is watched in vain (a request that
  completes without an event is submitted again at once) and no armed event is
  deaf. Groups: `GroupsAreSound` (each group is linked once, full groups first,
  sizes count members) and `NewGroupOnlyWhenAllFull`. Queues: `RingsAreWhole`
  and the refinement of `QueueSet`. Calls: `ResourcesAreExact` (nothing leaks
  and nothing is given back twice, a place in a group included) and
  `EBADFIsExact`.
- Tree: `RedBlack` (pointers agree, a search finds what is linked, equal black
  counts and no red pair except where the loop stands), `LoopsClimb` (an
  iteration moves up), and the refinement of `Dictionary`.
- Initialisation: `InitIsSafe` (who gets past `init` finds every part ready,
  nothing is initialised again under a user, one keyed event in the end),
  `InitReturns`. Base socket: `BaseSocketIsRight`, `LoopEnds`. Wait:
  `WaitsAsAsked`, `WaitReturns`. Stream: `StreamIntact`, `CountsCanBeRelied`
  (`send` returns true whatever happened, so only the count tells; `receive`
  reads to the end of the stream, not one message), `TransfersEnd`. Datagrams:
  `DatagramsIntact`, the bytes in the order taken and their addresses, with the
  surplus address of the `recvfrom` that ended the loop.
- Sockets: `SocketsAreTrue`, four statements: owners are exclusive; what counts
  as listening can be waited on; only `create_Socket` with several addresses
  and no need to listen loses descriptors or mixes families; `connected` is
  never wrongly true of a TCP socket. Addresses: `WhatFitsSurvives`.

The four runs of the port share some properties. `IndInv`, `QueueDiscipline` and
`KernelOwnsBlock`: what is registered, queued and allocated agrees, and no
memory is freed while the driver has a request on it. `DeletedAwaitPackets`:
the converse, that a deleted object is kept only for a request that is still to
come back, which goes on uncancelled only after a cancel that failed (its
result is ignored, `wepoll.c:1682`). `NothingLost`, `PollersSeeUpdates`: an
armed event is watched or on its way to being watched, and nobody waits beside
an update that was left behind. `PacketOnce`, `ActiveCount`, `GroupAccounting`:
a packet is fed once, and the two counts are exact. `ImplementsEpollSet`: what
the calls do for their callers.

Why the bounds are enough. Two threads are a waiter and someone who changes the
set or closes the port, or two waiters; the code treats any two threads alike
(`Symmetry`). Two blocks allow a deleted object waiting for its request
beside a new one for the same SOCKET value; a third would be a second
waiting object, which shares nothing with the first but the deleted queue. Two
sockets are needed only where one batch or one queue holds both
(`PortSockets`). Groups of one or two make the group limit of 32 an everyday
event. In `TsTree` four threads are a creator, a destroyer and two users, or two
pairs that meet at keyed events.
In `InitOnce` three are one in the block, one that waits for it and one that
reads the flag; the second failure is one of a run that repeats another. Ten
keys are the fewest with which a removal climbs two levels and more; the
eleventh node is refused. Three descriptors are a lost one, a listener and an
accepted one. A buffer of two bytes makes `send` block, and words of eight
values let a timeout meet `INFINITE` and the sign bit. The theorems below hold
for every size.

Deadlock is checked in every run but `Loops`, whose parts end: a call that has
returned is not followed by another.

Fairness. A thread inside a call keeps running (weak fairness of its loops and
of the return from the kernel). A critical section passes over no thread for
ever: strong fairness of `Relock`, of the sections of `epoll_ctl` and
`epoll_wait`, and of `PortClose`. The driver completes a request that was
cancelled or whose socket was closed, and one whose condition keeps coming
true. Nobody is obliged to call. The kernel lets each two threads that meet at a
keyed event go on, whoever else meets (with two ports and four threads, fairness
to all pairs together would let one pair wait for ever). The SRW lock of the handle tree is not fair to
writers, so `CallsReturn` says nothing of threads that still wait for it, and
no fairness of `ts_tree_add` beyond a free lock is used. Nothing live is
claimed of a port with faults: a socket whose update keeps failing blocks the
update queue, which the code accepts. In `Loops` the loop that runs goes on
(weak fairness of its own steps), time passes, and a system that receives bytes
for a closed socket resets the connection; programs need neither send, receive
nor close, and two that both send may wait for each other for ever.

## Findings

- `PortAssert`: `port_get_iocp_handle` asserts that the handle is not `NULL`
  (`wepoll.c:1446`). A thread in `epoll_ctl` that has referenced the port can be
  overtaken by `epoll_close`, which closes the IOCP under the lock before it
  waits for references; `sock_new` then needs a poll group and the assertion
  fails. A build without assertions passes `NULL` to `CreateIoCompletionPort`
  and carries on with a device that belongs to an IOCP of its own.
- `PollSetAdd`: `README.txt:9` promises internal multiplexing; `add`
  (`SDulceSocketsWaits.swift:365`) refuses a set that has no entry, so no set
  ever gets one. Each `send`, `receive` and `wait_Connection` with a timeout
  above zero makes a new set and returns false at once.
- `AddressIPv6`: an address `create_Addresses` resolved is not the one
  `address_String` and `create_Socket` read. `Address` keeps a `sockaddr` of 16
  bytes (`SDulceSockets.swift:439`), an IPv6 address has 28, and what is loaded
  from the missing ones is whatever follows in memory. Ports, IPv4 addresses
  and the network half of an IPv6 address survive (`WhatFitsSurvives`).

Seen while modelling, and left without a run:

- `nt_global_init` (`wepoll.c:894`) does not set `errno` when a function is
  missing, although `init` (`:864`) leaves that to the failing part.
- `create_Socket` without `need_listen` goes on with the loop after a socket
  was made (`SDulceSockets.swift:276`). No text says what several addresses
  mean; `OnlySeveralAddressesLose` says what follows from it.
- The Windows branch of `Poll_Of_Events` does not compile: it assigns to
  constants (`SDulceSocketsWaits.swift:285-286`) and calls an undeclared
  `epoll` (`:141`).

## Proofs

`tlapm` checks these for every value of the constants that satisfies the named
assumptions: `MaxGroupSizeAssumption`, `MembersAssumption`, `PortAssumption`,
`QueueAssumption`, `TreeAssumption`, `InitAssumption`,
`ReflockAssumption`, `StructuresAssumption`, `LoopsAssumption`,
`LifecycleAssumption` and `AddressesAssumption`. They say that sets are finite
or apart, that keys and bounds are numbers, that a DWORD has an even number of
values, and that there are fewer threads than `REFLOCK__DESTROY`, so that a
count cannot carry into the marks.
Every invariant, action property and refinement the passing runs check is a
theorem.

| Module | Theorems | Property of the runs |
| --- | --- | --- |
| `StructuresProofs` | `MasksAlwaysAgree`, `PoolSafe`, `NewGroupsAreNeeded` | `MasksAgree`, `GroupsAreSound`, `NewGroupOnlyWhenAllFull` |
| | `RingsStayWhole`, `RingsAreQueues` | `RingsAreWhole`, `ImplementsQueueSet` |
| | `CallsLoseNothing`, `BadHandlesAreTold` | `ResourcesAreExact`, `EBADFIsExact` |
| `RBTreeProofs` | `IsRedBlack`, `LoopsDoClimb`, `IsDictionary` | `RedBlack`, `LoopsClimb`, `ImplementsDictionary` |
| `LoopsProofs` | `InitSafe`, `BaseSocketFound`, `WaitIsAsAsked` | `InitIsSafe`, `BaseSocketIsRight`, `WaitsAsAsked` |
| | `StreamsAreIntact`, `CountsAreReliable`, `DatagramsAreIntact` | `StreamIntact`, `CountsCanBeRelied`, `DatagramsIntact` |
| `SocketsProofs` | `SocketsTellTheTruth`, `AddressesSurvive` | `SocketsAreTrue`, `WhatFitsSurvives` |
| `TsTreeProofs` | `WordIsExact`, `PortsAreSafe`, `KeepsPortLifetime` | `RefCountExact`, `UsersAreSafe`, `ImplementsLifetime` |
| `WepollPortProofs` | `TypeCorrect`, `Inductive` and its parts | `IndInv` with `QueueDiscipline`, `KernelOwnsBlock`, `NothingLost` |
| `WepollPortPromises` | `PacketsAreFedOnce`, `CountIsExact`, `PollersSee`, `GroupsAccounted` | `PacketOnce`, `ActiveCount`, `PollersSeeUpdates`, `GroupAccounting` |
| | `DeletedAreAwaited`, `PortIsASet` | `DeletedAwaitPackets`, `ImplementsEpollSet` |

The theorems of a suite rest on one lemma (`PartsMove` and its like): a
behaviour of the suite is a behaviour of each part. `PollGroupsProofs` holds
what the others share: what each operation on a sequence returns, and that
`poll_group_acquire` and `poll_group_release` keep a value `WellFormed`.

### What the invariants add

- Poll groups. `WellFormed`: every group is linked exactly once, sizes are in
  range, and the full groups stand in front of those with room. The last part
  makes the look at the last group sufficient; it is preserved because a group
  moves to the front only when it becomes full and to the back only when it has
  room. Without the count of members a release might find an empty group, so
  the port adds that the sizes count its `sock_state` objects
  (`PlacesCounted`), and the calls that they count the objects and the place a
  call has in hand (`Places`).
- Queues. Pointers that agree (`LinksAgree`) do not say that a node can be
  reached. `Whole` does: there is a sequence for each head such that the
  pointers are laid out along it (`Ring`, `Laid`), no cell on two. Each
  operation changes two or three pairs of pointers, and the proof names the
  sequence afterwards. That walking along `next` reads this sequence back
  (`Read`, which the refinement mapping uses) is an induction along the list.
- Red-black tree. `RedBlack` counts along the paths up and down, which is what
  one wants to know and nothing to reason with while a rotation changes a path
  in its middle. The invariant `Good` says it node by node, through two
  functions that exist as long as the tree is one. `Sound`: some `below` gives
  for every linked node the nodes below it, parted by their keys between its two
  sides, all of them below the root. `Level`: some `h` gives every linked node
  its black height, the same on both sides, with one more at the place where a
  removal lacks a node. `Apart`: no red pair but at the node of an addition. A
  rotation changes `below` and `h` for two nodes, and where they hang the tree
  sees the same as before. A step names the functions of the new tree, and the
  paths are read off them afterwards: a search and `Leftmost` follow `below`,
  and end since it shrinks; the nodes on the way up are those that have a node
  below them (`Above`), so an iteration that moves up leaves fewer; a black
  count is the difference of two heights. That the sibling in a removal exists
  follows from `Level`: the other side of the parent is one higher than nothing.
- The epoll calls. `HeldFor` gives for every label of a call what is allocated:
  what the port uses and what the call has in hand. A group that has been made
  stands on no queue until `poll_group_acquire` takes it (`Between`), and a
  place is taken before the object is there (`InHand`); these are the two steps
  at which a failure can lose something. For `EBADFIsExact`, `Watched` records
  that a handle that is closed now was seen closed by the call. It needs the
  invalid handle to be none that can be opened, so that the error of
  `ws_get_base_socket` before any check tells the truth too.
- `init`. Who holds the once block (`Holder`), how far its callback has come
  (`StepsDone`), that a block that is done leaves every part ready (`AllReady`)
  and one keyed event (`EventOnce`), and that the flag is set only then
  (`FlagMatchesBlock`), which allows the unsynchronised read.
- `ws_get_base_socket`. The second ioctl is asked only below a layer that broke
  the first (`AsksBelow`), so the error that is returned in the end is that of
  the first.
- `port_wait`. `TimeLeft`: between two polls the timeout is what was left of
  the time to `due` when the clock was read. `ForEver`: only a negative timeout
  became `INFINITE`. The width of the word need only exceed the timeouts
  (`FitsDWORD`).
- Transfers. `Flows`: what a program has been given, what its running call
  reads and what is on its way are consecutive, and end where the sender's count
  ends while the connection stands. For datagrams `NothingLost` joins the
  results with the running call, and `CallMatches` pairs addresses and data.
- Swift sockets. `CreateSound` says of the value `create_Socket` builds what
  the variable will say of itself, and that it shares its descriptor with none;
  without it `Owns` is not inductive, since the variable is assigned at the end.
- Handle tree and reflock. What each program counter implies (`Places`), that
  the tree holds allocated ports under their open handles (`TreeSound`), that a
  port outside of it has one owner (`OneOwner`), that who uses a port met it in
  the tree and its owner is still waiting (`Visitors`), that who signals was the
  last and is alone (`OneSignal`), and the value of each word (`Counts`).
  `RefCountExact` needs the other parts: that an unref finds the owner at the
  keyed event, and a destruction finds no user in the tree.

The invariant `IndInv` of the port is the conjunction of ten parts, which TLC
checks as well (`PortCore`). Four are properties in their own right:
`TreeConsistent`, `QueueDiscipline`, `KernelOwnsBlock` and `NothingLost`. The
others say why a step keeps those.

- `TypeOK`, and `Lifecycle`: nobody is inside a call while the port is deleted.
  `KernelOwnsBlock` ends at the deletion, so each call needs to know that it has
  not begun.
- `PacketPlaces`, `PacketKept` and `BatchUse`: a packet names a completed
  request and is in one place; a thread holds packets only between the return
  from the kernel and the end of the feeding. Without them a packet could be fed
  for a block that is free, or free again, and `sock__delete` would free a block
  the driver has. They also give `PacketOnce` by counting.
- `RequestState`: a request that is still pending watches the events
  `pending_events` records. `sock_update` decides by `pending_events` that there
  is nothing to do; only because of `RequestState` does this show that the
  driver watches what the user armed, which is `NothingLost`.

Each part has one lemma that takes it through every step. It rests on lemmas
that say what each operation does to one block and that the others keep theirs,
and on `Steps`, `BatchSteps` and `PacketSteps`, which name the steps that touch
the sockets, the batches and the packets. That conversion and cover agree
(`EpollToAfdMonotone`, `CoveredIsWatched`) is a fact of the event masks alone.

`DeletedAreAwaited` needs two parts of `IndInv`. `RequestState`: a cancel finds
the request pending, so that it really is on its way back afterwards; and
`QueueDiscipline`: the update queue holds no deleted object, so nobody submits
for one again. Every other deletion frees the object at once, since its request
has come back or its socket is dropped with no request out.

`PortIsASet` follows from `IndInv` and `ReportsUse` (only a thread that feeds
or updates afterwards holds reports): a step of `epoll_ctl` maps to the
operation on the set, one of `port__feed_events` to a report of the packet's
socket or to nothing, and every other step to a stutter. `PollersSee` needs no
more than the state in which the lock is free: whoever has put a socket on the
update queue gives up the lock only through `port__update_events_if_polling`,
or with the queue empty. With faults it is false by design: after a failed
update the rest of the queue waits for the next call.

### Only model-checked

Liveness, and with it the fairness above: `CloseCompletes`, `EventDelivered`,
`DeletedFreed`, `CallsReturn`, `InitReturns`, `LoopEnds`, `WaitReturns` and
`TransfersEnd`. That the loops of the tree end is proved as far as it is a
property of steps (`LoopsClimb`).

Induction over data is done here without the theorems of the library that take
an operator: `SetInduction` says that a set with 0 and with every successor
holds all numbers, and is proved from the cardinalities of finite sets.

## Not modelled, and the plan

Done: masks, queues, poll groups, the port, the handle tree with the reflock,
the API calls and their errors, initialisation, base sockets, the tree, the
POSIX poll set, and the Swift sockets, transfers and addresses, each with the
proofs above. No safety property is left unproved. To come, where the code
changes: a branch of `Poll_Of_Events` for Windows once there is one, and the
waits with a timeout once a set can be filled.

Left out, and why:

- the Windows branch of `Poll_Of_Events`, which is no program yet;
- timeouts above zero in `send`, `receive` and `wait_Connection`, which return
  before their loops (`PollSetAdd`);
- `start`, `stop` and the C shims, which pass a call on and keep nothing;
- what cannot fail or leaves nothing behind in `epoll_create`: a bad argument or
  a failed `init` returns before anything is allocated, and `ts_tree_add` does
  not meet the handle value again (`UsersAreSafe`). `EpollCalls` does not repeat
  that `epoll_wait` takes closed sockets out of the set; `WepollPort` has it;
- longer cycles of providers: `LoopEnds` has the provider that answers with the
  socket it was asked about, which the code tests for, and otherwise a chain;
- memory behind the `sockaddr` of 16 bytes that `wait_Connection` and `receive`
  hand to `accept` and `recvfrom` with the length of a `sockaddr_storage`
  (`SDulceSockets.swift:323`, `:688`): `AddressBytes` has what is kept of an
  address, not where the rest is written;
- copies of a `Socket_Dulce`, see `SocketLifecycle` above;
- the text of errors and addresses, and which `errno` stays after a call that
  sets none;
- the data a user attaches to an event, which is copied and never read;
- what the driver writes into memory that `port_delete` has freed, and the
  reuse of a closed IOCP handle's value by another object of the process.

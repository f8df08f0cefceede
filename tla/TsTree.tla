------------------------------- MODULE TsTree --------------------------------
(***************************************************************************)
(* The handle tree of wepoll.c and the reflock of each port in it: how     *)
(* epoll_create, epoll_close and the other calls find a port by its        *)
(* handle, hold its memory and give it back.                               *)
(*                                                                         *)
(* A node is a block of memory for a port_state; malloc may hand it out    *)
(* again once it was freed.  A handle is the value of an IOCP handle; the  *)
(* system may hand it out again once it was closed, which happens before   *)
(* the port is freed.  Every interlocked operation is one step, and so is  *)
(* a section under the exclusive SRW lock.                                 *)
(*                                                                         *)
(* Definitions with the same parameters that follow each other without a   *)
(* blank line, or under one comment, are a piece of the code, the last of  *)
(* them, and slips of it that the properties must tell apart from it.      *)
(***************************************************************************)
EXTENDS Integers, FiniteSets

CONSTANTS
  Threads, Nodes, Handles,
  REFLOCK__DESTROY,    \* counts above it mark destruction; 2^28 in the code
  NULL

ASSUME ReflockAssumption ==
  /\ IsFiniteSet(Threads)
  /\ REFLOCK__DESTROY \in Nat
  /\ Cardinality(Threads) < REFLOCK__DESTROY
  /\ NULL \notin Nodes \cup Handles

VARIABLES
  tree,       \* epoll__handle_tree: handle -> node
  readers,    \* threads that hold the SRW lock shared
  state,      \* reflock_t.state of each node
  handle,     \* the open IOCP handle of each node, NULL once it was closed
  allocated,  \* the nodes that are allocated
  failed,     \* whether an assertion has failed
  pc,
  key,        \* the handle each thread's call is about
  found       \* the node it works on

vars == <<tree, readers, state, handle, allocated, failed, pc, key, found>>

Labels ==
  {"idle", "add", "find", "ref", "unlock", "using", "signal",
   "close", "destroy", "await", "poison", "delete"}

\* The reference count, and what stands above it.
RefCount(s) == s % REFLOCK__DESTROY
Marks(s)    == s \div REFLOCK__DESTROY

\* REFLOCK__POISON: two marks too many, and bits that stand out in a dump.
Poison == 3 * REFLOCK__DESTROY + 1

Init ==
  /\ tree = [h \in Handles |-> NULL]
  /\ readers = {}
  /\ state = [n \in Nodes |-> Poison]
  /\ handle = [n \in Nodes |-> NULL]
  /\ allocated = {}
  /\ failed = FALSE
  /\ pc = [t \in Threads |-> "idle"]
  /\ key = [t \in Threads |-> NULL]
  /\ found = [t \in Threads |-> NULL]

Goto(t, label) == pc' = [pc EXCEPT ![t] = label]

Return(t) ==
  /\ Goto(t, "idle")
  /\ key' = [key EXCEPT ![t] = NULL]
  /\ found' = [found EXCEPT ![t] = NULL]

Add(n, i) == state' = [state EXCEPT ![n] = @ + i]

Check(P) == failed' = (failed \/ ~P)

\* AcquireSRWLockExclusive returns.
SharedWillDo  == TRUE
ExclusiveFree == readers = {}

-----------------------------------------------------------------------------
(* epoll_create: port_new, then ts_tree_add.                               *)

port_new(t) ==
  /\ pc[t] = "idle"
  /\ \E n \in Nodes \ allocated, h \in Handles :
       /\ \A m \in Nodes : handle[m] # h
       /\ allocated' = allocated \cup {n}
       /\ handle' = [handle EXCEPT ![n] = h]
       /\ state' = [state EXCEPT ![n] = 0]
       /\ key' = [key EXCEPT ![t] = h]
       /\ found' = [found EXCEPT ![t] = n]
  /\ Goto(t, "add")
  /\ UNCHANGED <<tree, readers, failed>>

\* When the key is taken epoll__create calls port_delete, whose assertion
\* that the IOCP handle is closed fails.
ts_tree_add(t) ==
  /\ pc[t] = "add"
  /\ ExclusiveFree
  /\ IF tree[key[t]] = NULL
     THEN tree' = [tree EXCEPT ![key[t]] = found[t]] /\ UNCHANGED failed
     ELSE failed' = TRUE /\ UNCHANGED tree
  /\ Return(t)
  /\ UNCHANGED <<readers, state, handle, allocated>>

-----------------------------------------------------------------------------
(* epoll_ctl and epoll_wait: ts_tree_find_and_ref, the call, and           *)
(* ts_tree_node_unref.                                                     *)

AcquireShared(t, h) ==
  /\ pc[t] = "idle"
  /\ readers' = readers \cup {t}
  /\ key' = [key EXCEPT ![t] = h]
  /\ Goto(t, "find")
  /\ UNCHANGED <<tree, state, handle, allocated, failed, found>>

Lookup(h) == tree[h]

Find(t) ==
  /\ pc[t] = "find"
  /\ found' = [found EXCEPT ![t] = Lookup(key[t])]
  /\ Goto(t, IF Lookup(key[t]) = NULL THEN "unlock" ELSE "ref")
  /\ UNCHANGED <<tree, readers, state, handle, allocated, failed, key>>

reflock_ref(t) ==
  /\ pc[t] = "ref"
  /\ Add(found[t], 1)
  /\ Check(Marks(state'[found[t]]) = 0)
  /\ Goto(t, "unlock")
  /\ UNCHANGED <<tree, readers, handle, allocated, key, found>>

ReleaseShared(t) ==
  /\ pc[t] = "unlock"
  /\ readers' = readers \ {t}
  /\ IF found[t] = NULL THEN Return(t)
     ELSE Goto(t, "using") /\ UNCHANGED <<key, found>>
  /\ UNCHANGED <<tree, state, handle, allocated, failed>>

\* The state after an unref that has to wake the thread that destroys.
WasUnused(s) == s = 0
WasLast(s)   == s = REFLOCK__DESTROY

reflock_unref(t) ==
  LET s == state[found[t]] - 1 IN
  /\ pc[t] = "using"
  /\ Add(found[t], -1)
  /\ Check(Marks(s) \in {0, 1})
  /\ IF WasLast(s) THEN Goto(t, "signal") /\ UNCHANGED <<key, found>>
     ELSE Return(t)
  /\ UNCHANGED <<tree, readers, handle, allocated>>

-----------------------------------------------------------------------------
(* epoll_close.                                                            *)

NoRef  == 0
OneRef == 1

ts_tree_del_and_ref(t, h) ==
  /\ pc[t] = "idle"
  /\ ExclusiveFree
  /\ tree[h] # NULL
  /\ tree' = [tree EXCEPT ![h] = NULL]
  /\ Add(tree[h], OneRef)
  /\ Check(Marks(state'[tree[h]]) = 0)
  /\ key' = [key EXCEPT ![t] = h]
  /\ found' = [found EXCEPT ![t] = tree[h]]
  /\ Goto(t, "close")
  /\ UNCHANGED <<readers, handle, allocated>>

port_close(t) ==
  /\ pc[t] = "close"
  /\ handle' = [handle EXCEPT ![found[t]] = NULL]
  /\ Goto(t, "destroy")
  /\ UNCHANGED <<tree, readers, state, allocated, failed, key, found>>

\* Whether reflock_unref_and_destroy has to wait, given the new state.
HadUsersBefore(s) == RefCount(s) > 1
HasUsers(s)       == RefCount(s) # 0

reflock_unref_and_destroy(t) ==
  /\ pc[t] = "destroy"
  /\ Add(found[t], REFLOCK__DESTROY - 1)
  /\ Check(Marks(state'[found[t]]) = 1)
  /\ Goto(t, IF HasUsers(state'[found[t]]) THEN "await" ELSE "poison")
  /\ UNCHANGED <<tree, readers, handle, allocated, key, found>>

\* NtReleaseKeyedEvent and NtWaitForKeyedEvent for the same address: each
\* blocks until the other is there.
KeyedEvent(t, u) ==
  /\ pc[t] = "signal"
  /\ pc[u] = "await"
  /\ found[t] = found[u]
  /\ pc' = [pc EXCEPT ![t] = "idle", ![u] = "poison"]
  /\ key' = [key EXCEPT ![t] = NULL]
  /\ found' = [found EXCEPT ![t] = NULL]
  /\ UNCHANGED <<tree, readers, state, handle, allocated, failed>>

SetPoison(t) ==
  /\ pc[t] = "poison"
  /\ state' = [state EXCEPT ![found[t]] = Poison]
  /\ Check(state[found[t]] = REFLOCK__DESTROY)
  /\ Goto(t, "delete")
  /\ UNCHANGED <<tree, readers, handle, allocated, key, found>>

port_delete(t) ==
  /\ pc[t] = "delete"
  /\ allocated' = allocated \ {found[t]}
  /\ Check(handle[found[t]] = NULL)
  /\ Return(t)
  /\ UNCHANGED <<tree, readers, state, handle>>

-----------------------------------------------------------------------------
Step(t) ==
  \/ ts_tree_add(t) \/ Find(t) \/ reflock_ref(t) \/ ReleaseShared(t)
  \/ reflock_unref(t) \/ port_close(t) \/ reflock_unref_and_destroy(t)
  \/ SetPoison(t) \/ port_delete(t)

Call(t) ==
  \/ port_new(t)
  \/ \E h \in Handles : AcquireShared(t, h) \/ ts_tree_del_and_ref(t, h)

Next ==
  \/ \E t \in Threads : Call(t) \/ Step(t)
  \/ \E t, u \in Threads : KeyedEvent(t, u)

Spec == Init /\ [][Next]_vars

\* A call that is under way goes on, and the kernel wakes the two threads
\* that meet at a keyed event, whoever meets at others.  The SRW lock promises
\* no fairness to an exclusive waiter, so nothing is said of ts_tree_add.
FairSpec ==
  /\ Spec
  /\ \A t \in Threads : WF_vars(Step(t))
  /\ \A t \in Threads : WF_vars(\E u \in Threads : KeyedEvent(t, u))

-----------------------------------------------------------------------------
(* Correctness.                                                            *)

TypeOK ==
  /\ tree \in [Handles -> Nodes \cup {NULL}]
  /\ readers \subseteq Threads
  /\ state \in [Nodes -> Int]
  /\ handle \in [Nodes -> Handles \cup {NULL}]
  /\ allocated \subseteq Nodes
  /\ failed \in BOOLEAN
  /\ pc \in [Threads -> Labels]
  /\ key \in [Threads -> Handles \cup {NULL}]
  /\ found \in [Threads -> Nodes \cup {NULL}]

\* The threads that hold a reference to n.
Holders(n) ==
  {t \in Threads : found[t] = n /\ pc[t] \in {"unlock", "using", "close", "destroy"}}

\* The thread that has begun to destroy n.
Destroying(n) ==
  {t \in Threads : found[t] = n /\ pc[t] \in {"await", "poison"}}

(* The one word of a reflock tells the holders of the port and whether one *)
(* thread has begun to destroy it; the two never spill into each other.    *)
RefCountExact ==
  \A n \in allocated :
    state[n] # Poison =>
      state[n] = Cardinality(Holders(n))
                   + REFLOCK__DESTROY * Cardinality(Destroying(n))

(* "After destroy returns, the calling thread may assume that no other     *)
(* threads have a reference to the lock": from then on no other thread     *)
(* works on the node and none can find it.                                 *)
DestroyedAlone ==
  \A t \in Threads : pc[t] \in {"poison", "delete"} =>
    /\ \A u \in Threads \ {t} : found[u] # found[t]
    /\ \A h \in Handles : tree[h] # found[t]

(* A call works on allocated memory only, as long as it uses the port.     *)
NoUseAfterFree ==
  \A t \in Threads : found[t] # NULL => found[t] \in allocated

(* The assertions of the reflock and of port_delete hold, and ts_tree_add  *)
(* does not find the handle of a new port in the tree: "this should never  *)
(* happen", although a handle value is free for reuse before its port is.  *)
AssertionsHold == ~failed

(* Whoever has to be woken up is the one who waits: a thread that signals  *)
(* finds the destroying thread of the same port at the event or on its way *)
(* there, so neither side of the keyed event is left alone.                *)
SignalMeetsAwait ==
  \A t \in Threads : pc[t] = "signal" =>
    \E u \in Threads : pc[u] = "await" /\ found[u] = found[t]

(* So whoever meets at a port, nobody is left alone there and nobody works *)
(* on what another has freed.                                              *)
UsersAreSafe ==
  DestroyedAlone /\ NoUseAfterFree /\ AssertionsHold /\ SignalMeetsAwait

(* Once it holds the lock of the tree every call returns: the thread that  *)
(* destroys a port is woken up, and so is the one that wakes it.           *)
CallsReturn ==
  \A t \in Threads : pc[t] \notin {"idle", "add"} ~> pc[t] = "idle"

(* The memory of each port keeps the promise of PortLifetime.              *)
Status(n) ==
  CASE \E h \in Handles : tree[h] = n                  -> "open"
    [] \E t \in Threads : found[t] = n
         /\ pc[t] \in {"close", "destroy", "await"}     -> "closing"
    [] OTHER                                           -> "absent"

Users(n) ==
  {t \in Threads : found[t] = n /\ pc[t] \in {"ref", "unlock", "using"}}

Lifetime == INSTANCE PortLifetime WITH
  Ports  <- Nodes,
  status <- [n \in Nodes |-> Status(n)],
  users  <- [n \in Nodes |-> Users(n)]

ImplementsLifetime == Lifetime!Spec
=============================================================================

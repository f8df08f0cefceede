------------------------------ MODULE InitOnce -------------------------------
(***************************************************************************)
(* The global initialisation of wepoll.c, which the first call of any      *)
(* thread runs through InitOnceExecuteOnce and which may fail and be tried *)
(* again.  The block of InitOnceExecuteOnce runs the callback of one       *)
(* thread at a time; threads that wait for a callback that fails try       *)
(* themselves.                                                             *)
(***************************************************************************)
EXTENDS Integers, Sequences

CONSTANTS
  Threads,
  MaxFailures,    \* bound on the failures of the system calls
  NULL

ASSUME InitAssumption ==
  /\ MaxFailures \in Nat
  /\ NULL \notin Threads \cup {"done"} /\ "done" \notin Threads

VARIABLES
  init__done,
  once,            \* the INIT_ONCE: the thread in its callback, NULL, "done"
  ready,           \* the parts whose initialisation has succeeded
  keyed_events,    \* how many keyed events were created
  failures,
  pc,              \* where each thread is
  step             \* the initialiser a thread in the callback is at

vars == <<init__done, once, ready, keyed_events, failures, pc, step>>

(* The initialisers, and whether each can fail.                            *)
ws_global_init      == [name |-> "ws",      mayFail |-> TRUE]
nt_global_init      == [name |-> "nt",      mayFail |-> TRUE]
reflock_global_init == [name |-> "reflock", mayFail |-> TRUE]
epoll_global_init   == [name |-> "epoll",   mayFail |-> FALSE]

\* Slip: the keyed event is created before its function is imported.
KeyedEventFirst ==
  <<reflock_global_init, nt_global_init, ws_global_init, epoll_global_init>>

Order ==
  <<ws_global_init, nt_global_init, reflock_global_init, epoll_global_init>>

Parts == {Order[i].name : i \in DOMAIN Order}

Init ==
  /\ init__done = FALSE
  /\ once = NULL
  /\ ready = {}
  /\ keyed_events = 0
  /\ failures = 0
  /\ pc = [t \in Threads |-> "outside"]
  /\ step = [t \in Threads |-> 1]

Goto(t, l) == pc' = [pc EXCEPT ![t] = l]

\* A function of the API is called.
Call(t) ==
  /\ pc[t] = "outside"
  /\ Goto(t, "init")
  /\ UNCHANGED <<init__done, once, ready, keyed_events, failures, step>>

\* Slip: after a failure callers wait for the flag.
WaitForFlag(t) ==
  /\ pc[t] = "init"
  /\ Goto(t, IF init__done THEN "api" ELSE IF failures > 0 THEN "init" ELSE "once")
  /\ UNCHANGED <<init__done, once, ready, keyed_events, failures, step>>

\* init__done is read without synchronisation.  Stores arrive in order, so
\* it is never read too early; until the block is completed the store of
\* another thread may not have arrived.
ReadDone(t) ==
  /\ pc[t] = "init"
  /\ \/ init__done /\ Goto(t, "api")
     \/ (~init__done \/ once # "done") /\ Goto(t, "once")
  /\ UNCHANGED <<init__done, once, ready, keyed_events, failures, step>>

ExecuteOnce(t) ==
  /\ pc[t] = "once"
  /\ \/ /\ once = NULL
        /\ once' = t
        /\ Goto(t, "callback")
        /\ step' = [step EXCEPT ![t] = 1]
     \/ /\ once = "done"
        /\ Goto(t, "api")
        /\ UNCHANGED <<once, step>>
  /\ UNCHANGED <<init__done, ready, keyed_events, failures>>

InCallback(t) == pc[t] = "callback" /\ step[t] \in DOMAIN Order
Part(t) == Order[step[t]]

StepSucceeds(t) ==
  /\ InCallback(t)
  /\ ready' = ready \cup {Part(t).name}
  /\ keyed_events' = keyed_events + IF Part(t).name = "reflock" THEN 1 ELSE 0
  /\ step' = [step EXCEPT ![t] = @ + 1]
  /\ UNCHANGED <<init__done, once, failures, pc>>

\* The callback returns FALSE and init -1.
StepFails(t) ==
  /\ InCallback(t) /\ Part(t).mayFail /\ failures < MaxFailures
  /\ failures' = failures + 1
  /\ once' = NULL
  /\ Goto(t, "failed")
  /\ UNCHANGED <<init__done, ready, keyed_events, step>>

SetDone(t) ==
  /\ pc[t] = "callback" /\ step[t] \notin DOMAIN Order
  /\ init__done' = TRUE
  /\ Goto(t, "complete")
  /\ UNCHANGED <<once, ready, keyed_events, failures, step>>

Complete(t) ==
  /\ pc[t] = "complete"
  /\ once' = "done"
  /\ Goto(t, "api")
  /\ UNCHANGED <<init__done, ready, keyed_events, failures, step>>

Return(t) ==
  /\ pc[t] \in {"api", "failed"}
  /\ Goto(t, "outside")
  /\ UNCHANGED <<init__done, once, ready, keyed_events, failures, step>>

Run(t) ==
  \/ ReadDone(t) \/ ExecuteOnce(t)
  \/ StepSucceeds(t) \/ StepFails(t) \/ SetDone(t) \/ Complete(t)

Next == \E t \in Threads : Call(t) \/ Run(t) \/ Return(t)

Spec == Init /\ [][Next]_vars

FairSpec == Spec /\ \A t \in Threads : WF_vars(Run(t))

----------------------------------------------------------------------------
TypeOK ==
  /\ init__done \in BOOLEAN
  /\ once \in Threads \cup {NULL, "done"}
  /\ ready \in SUBSET Parts
  /\ keyed_events \in Nat
  /\ failures \in 0 .. MaxFailures
  /\ pc \in [Threads -> {"outside", "init", "once", "callback", "complete",
                         "api", "failed"}]
  /\ step \in [Threads -> 1 .. Len(Order) + 1]

(* No thread works with a port before every part is initialized, whichever *)
(* way it got past init: the flag, the block, or its own callback.         *)
ApiSeesAllParts == \A t \in Threads : pc[t] = "api" => ready = Parts

(* The initialisers assign to globals that API calls use without a lock,   *)
(* epoll_global_init to the tree of handles: none runs beside such a call. *)
NoInitUnderUse ==
  \A t, u \in Threads : pc[t] = "callback" => pc[u] # "api"

(* "initialization order matters here": reflock_global_init calls a        *)
(* function that nt_global_init imports.                                   *)
ImportsFirst ==
  \A t \in Threads : InCallback(t) /\ Part(t).name = "reflock" => "nt" \in ready

(* A callback that is run again creates no second keyed event: threads     *)
(* that wait for a reflock would be signalled through another event.       *)
OneKeyedEvent == keyed_events <= 1

(* init__done and the block agree except between the callback's last       *)
(* assignment and the completion of the block by the same thread.          *)
FlagMatchesBlock ==
  init__done => once = "done" \/ \E t \in Threads : once = t /\ pc[t] = "complete"

(* Who gets past init may rely on all of it, and nothing changes again.    *)
InitIsSafe ==
  ApiSeesAllParts /\ NoInitUnderUse /\ ImportsFirst /\ OneKeyedEvent
    /\ FlagMatchesBlock

(* Every call gets past init or fails.                                     *)
InitReturns ==
  \A t \in Threads : pc[t] = "init" ~> pc[t] \in {"api", "failed"}
=============================================================================

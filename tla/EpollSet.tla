------------------------------ MODULE EpollSet -------------------------------
(***************************************************************************)
(* What an epoll port promises its callers: a set of sockets with the      *)
(* events each is armed for, and calls of epoll_wait that collect reports. *)
(***************************************************************************)
EXTENDS EpollEvents, Sequences

CONSTANTS Threads, Sockets, EventMasks

VARIABLES
  interest,    \* the mask each socket of the set is armed for
  collected    \* what the epoll_wait of each thread has found so far

vars == <<interest, collected>>

Members == DOMAIN interest

Init ==
  /\ interest = <<>>
  /\ collected = [t \in Threads |-> <<>>]

SetInterest(h, m) ==
  interest' = [g \in Members \cup {h} |-> IF g = h THEN m ELSE interest[g]]

\* EPOLL_CTL_ADD of a new socket, EPOLL_CTL_MOD of a member.
Arm(h, m) ==
  /\ SetInterest(h, m \cup AlwaysReported)
  /\ UNCHANGED collected

\* EPOLL_CTL_DEL, or the socket was closed, or the port is.
Remove(h) ==
  /\ h \in Members
  /\ interest' = [g \in Members \ {h} |-> interest[g]]
  /\ UNCHANGED collected

\* Some events, all of them armed at this moment; with EPOLLONESHOT the
\* socket stays silent until it is modified.
Collect(t, h, events) ==
  /\ events # {}
  /\ collected' = [collected EXCEPT
       ![t] = Append(@, [socket |-> h, events |-> events])]
  /\ IF "EPOLLONESHOT" \in interest[h] THEN SetInterest(h, {})
     ELSE UNCHANGED interest

Return(t) ==
  /\ collected' = [collected EXCEPT ![t] = <<>>]
  /\ UNCHANGED interest

Next ==
  \/ \E h \in Sockets, m \in EventMasks : Arm(h, m)
  \/ \E h \in Sockets : Remove(h)
  \/ \E t \in Threads, h \in Members :
       \E events \in SUBSET (interest[h] \cap KnownEvents) :
         Collect(t, h, events)
  \/ \E t \in Threads : Return(t)

Spec == Init /\ [][Next]_vars
=============================================================================

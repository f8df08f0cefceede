------------------------------- MODULE PollSet -------------------------------
(***************************************************************************)
(* Poll_Of_Events of SDulceSocketsWaits.swift where the system has poll:   *)
(* the set of sockets a program waits for.  The program holds one variable *)
(* of this type, made by Poll_Of_Events(), and calls the public functions  *)
(* on it in any order; its sockets are all initialized.                    *)
(***************************************************************************)
EXTENDS SequencesExt

CONSTANTS Sockets, NULL

VARIABLES
  event_poll,            \* the pollfd structures, in the order they were added
  last_wait_returned,
  ready,                 \* what poll would find of each socket
  asked                  \* what the program last asked to wait for

vars == <<event_poll, last_wait_returned, ready, asked>>

Bits == {"POLLIN", "POLLOUT"}

is_Initialized == event_poll # <<>>

Polls(s) == \E i \in DOMAIN event_poll : event_poll[i].fd = s
is_In(s) == is_Initialized /\ Polls(s)

\* firstIndex of the entry of s.
First(s) == SelectInSeq(event_poll, LAMBDA e : e.fd = s)

Entry(s, bit) == [fd |-> s, events |-> bit, revents |-> {}]

Init ==
  /\ event_poll = <<>>
  /\ last_wait_returned = 0
  /\ ready = [s \in Sockets |-> {}]
  /\ asked = [s \in Sockets |-> NULL]

update(s, bit) == event_poll' = [event_poll EXCEPT ![First(s)] = Entry(s, bit)]

\* The call fails on a set that is not initialized.
add(s, bit) ==
  event_poll' = IF is_Initialized THEN Append(event_poll, Entry(s, bit))
                ELSE event_poll

\* set_Receive, with "POLLIN", and set_Send, with "POLLOUT".
Set(s, bit) ==
  /\ IF is_In(s) THEN update(s, bit) ELSE add(s, bit)
  /\ asked' = [asked EXCEPT ![s] = bit]
  /\ UNCHANGED <<last_wait_returned, ready>>

remove(s) ==
  /\ is_In(s)
  /\ event_poll' = RemoveAt(event_poll, First(s))
  /\ asked' = [asked EXCEPT ![s] = NULL]
  /\ UNCHANGED <<last_wait_returned, ready>>

poll_Wait ==
  /\ is_Initialized
  /\ event_poll' = [i \in DOMAIN event_poll |->
       [event_poll[i] EXCEPT !.revents = ready[event_poll[i].fd]
                                      \cap {event_poll[i].events}]]
  /\ last_wait_returned' =
       Len(SelectSeq(event_poll', LAMBDA e : e.revents # {}))
  /\ UNCHANGED <<ready, asked>>

\* The loop of reset_Results assigns to copies of the entries.
reset_Results ==
  /\ last_wait_returned' = 0
  /\ UNCHANGED <<event_poll, ready, asked>>

close ==
  /\ is_Initialized
  /\ event_poll' = <<>>
  /\ last_wait_returned' = 0
  /\ asked' = [s \in Sockets |-> NULL]
  /\ UNCHANGED ready

SetReady(s, bits) ==
  /\ ready' = [ready EXCEPT ![s] = bits]
  /\ UNCHANGED <<event_poll, last_wait_returned, asked>>

Next ==
  \/ \E s \in Sockets :
       \/ \E bit \in Bits : Set(s, bit)
       \/ remove(s)
       \/ \E bits \in SUBSET Bits : SetReady(s, bits)
  \/ poll_Wait \/ reset_Results \/ close

Spec == Init /\ [][Next]_vars

(* The library's "Internal Avanced Synchronous I/O Multiplexing": a socket *)
(* that the program has asked to wait for, and has not removed since, is   *)
(* polled for the event it asked for.                                      *)
AskedIsPolled ==
  \A s \in Sockets : asked[s] # NULL =>
    \E i \in DOMAIN event_poll :
      event_poll[i].fd = s /\ event_poll[i].events = asked[s]
=============================================================================

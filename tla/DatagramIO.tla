----------------------------- MODULE DatagramIO -----------------------------
(***************************************************************************)
(* send, receive and wait_Connection of SDulceSockets.swift over UDP: the  *)
(* senders use send, one program waits on a socket for which is_Listened   *)
(* is true.  The network loses, delays, repeats and reorders datagrams;    *)
(* others than the senders may send it empty ones.  A datagram is its      *)
(* sender and its number; its length matters only when it is 0.            *)
(***************************************************************************)
EXTENDS Integers, SequencesExt

CONSTANTS
  Senders,
  MaxSends,    \* bound on the datagrams of each sender
  MaxQueue,    \* datagrams the system keeps for the socket
  MaxEmpty,    \* bound on empty datagrams
  MaxTaken,    \* bound on the datagrams with data that are taken
  MaxCalls     \* bound on the calls that give the program something

DatagramAssumption ==
  {MaxSends, MaxQueue, MaxEmpty, MaxTaken, MaxCalls} \subseteq Nat

VARIABLES
  sends,       \* the calls of send
  net,         \* the datagrams that may still arrive
  queue,       \* those that have arrived
  empties,
  receives,    \* the call of receive, if one runs
  results,     \* what the program has been given: datagrams with their senders
  taken        \* every datagram with data that recvfrom has returned

vars == <<sends, net, queue, empties, receives, results, taken>>

NoCall == [runs |-> FALSE]
Nobody == "nobody"
Empty  == [from |-> "other", n |-> 0]

Init ==
  /\ sends = [c \in Senders |-> 0]
  /\ net = {}
  /\ queue = <<>>
  /\ empties = 0
  /\ receives = NoCall
  /\ results = <<>>
  /\ taken = <<>>

----------------------------------------------------------------------------
\* sendto takes the whole datagram; the loop ends with remaining.
Send(c) ==
  LET d == [from |-> c, n |-> sends[c] + 1]
  IN  /\ sends[c] < MaxSends
      /\ sends' = [sends EXCEPT ![c] = @ + 1]
      /\ net' = net \cup {d}
      /\ UNCHANGED <<queue, empties, receives, results, taken>>

\* sendto fails: send returns true, with a count of 0.
SendFails(c) ==
  /\ sends[c] < MaxSends
  /\ sends' = [sends EXCEPT ![c] = @ + 1]
  /\ UNCHANGED <<net, queue, empties, receives, results, taken>>

\* A datagram stays in net after its arrival: it may arrive again.
Arrive(d) ==
  /\ Len(queue) < MaxQueue
  /\ queue' = Append(queue, d)
  /\ UNCHANGED <<sends, net, empties, receives, results, taken>>

ArriveEmpty ==
  /\ empties < MaxEmpty /\ Len(queue) < MaxQueue
  /\ queue' = Append(queue, Empty)
  /\ empties' = empties + 1
  /\ UNCHANGED <<sends, net, receives, results, taken>>

----------------------------------------------------------------------------
(* receive.  The data is one array of bytes for the program, without       *)
(* boundaries; mi_udp_addr starts as the zeros of a sockaddr_storage.      *)

receive ==
  /\ ~receives.runs /\ Len(results) < MaxCalls
  /\ receives' = [runs |-> TRUE, final_data |-> <<>>, addr_arr |-> <<>>,
                  mi_udp_addr |-> Nobody]
  /\ UNCHANGED <<sends, net, queue, empties, results, taken>>

Addressed(r, from) ==
  [r EXCEPT !.addr_arr = Append(@, from), !.mi_udp_addr = from]

\* Slip: what came before an empty datagram is thrown away.
ReturnNothing(r) ==
  /\ results' = Append(results,
       [by |-> "receive", data |-> <<>>, addrs |-> r.addr_arr])
  /\ receives' = NoCall

Return(r) ==
  /\ results' = Append(results,
       [by |-> "receive", data |-> r.final_data, addrs |-> r.addr_arr])
  /\ receives' = NoCall

ReceiveDatagram ==
  /\ receives.runs /\ queue # <<>> /\ Head(queue) # Empty
  /\ Len(taken) < MaxTaken
  /\ receives' = [Addressed(receives, Head(queue).from)
                    EXCEPT !.final_data = Append(@, Head(queue))]
  /\ queue' = Tail(queue)
  /\ taken' = Append(taken, Head(queue))
  /\ UNCHANGED <<sends, net, empties, results>>

\* Nothing but an empty datagram and an error end the loop.
ReceiveEmpty ==
  /\ receives.runs /\ queue # <<>> /\ Head(queue) = Empty
  /\ Return(Addressed(receives, Empty.from))
  /\ queue' = Tail(queue)
  /\ UNCHANGED <<sends, net, empties, taken>>

\* An error fills in no address: the last one is appended again.
ReceiveError ==
  /\ receives.runs
  /\ Return(Addressed(receives, receives.mi_udp_addr))
  /\ UNCHANGED <<sends, net, queue, empties, taken>>

----------------------------------------------------------------------------
(* wait_Connection takes one datagram; response is a new socket that sends *)
(* to where it came from.                                                  *)

Given(d) == [by |-> "wait", data |-> <<d>>, addrs |-> <<d.from>>]

\* create_Socket has failed: false is returned, with the data.
GivenAlone(d) == [by |-> "wait", data |-> <<d>>, addrs |-> <<>>]

WaitDatagram ==
  /\ ~receives.runs /\ queue # <<>> /\ Head(queue) # Empty
  /\ Len(taken) < MaxTaken /\ Len(results) < MaxCalls
  /\ \E r \in {Given(Head(queue)), GivenAlone(Head(queue))} :
       results' = Append(results, r)
  /\ queue' = Tail(queue)
  /\ taken' = Append(taken, Head(queue))
  /\ UNCHANGED <<sends, net, empties, receives>>

\* false, and nothing was there.
WaitEmpty ==
  /\ ~receives.runs /\ queue # <<>> /\ Head(queue) = Empty
  /\ queue' = Tail(queue)
  /\ UNCHANGED <<sends, net, empties, receives, results, taken>>

Next ==
  \/ \E c \in Senders : Send(c) \/ SendFails(c)
  \/ \E d \in net : Arrive(d)
  \/ ArriveEmpty
  \/ receive \/ ReceiveDatagram \/ ReceiveEmpty \/ ReceiveError
  \/ WaitDatagram \/ WaitEmpty

Spec == Init /\ [][Next]_vars
----------------------------------------------------------------------------
(* Every datagram with data that the system has handed over is given to    *)
(* the program, once and in that order, whatever ends receive or fails in  *)
(* wait_Connection after it.                                               *)
NothingTakenIsLost ==
  FlattenSeq([i \in DOMAIN results |-> results[i].data])
    \o (IF receives.runs THEN receives.final_data ELSE <<>>) = taken

(* udp_received_addresses names the senders of the datagrams in order, and *)
(* one address more, of the call that ended the loop: a program must not   *)
(* take the number of addresses for that of datagrams.                     *)
AddressesMatch ==
  \A i \in DOMAIN results :
    LET r == results[i]
    IN  r.by = "receive" =>
          /\ Len(r.addrs) = Len(r.data) + 1
          /\ \A j \in DOMAIN r.data : r.addrs[j] = r.data[j].from

(* Data and addresses both come out as they went in.                       *)
DatagramsIntact == NothingTakenIsLost /\ AddressesMatch
=============================================================================

------------------------------ MODULE StreamIO ------------------------------
(***************************************************************************)
(* send and receive of SDulceSockets.swift over TCP: two programs, one at  *)
(* each end of a connection, and the loops around the system's send and    *)
(* recv.  A program may send and receive at once, from two threads.  The   *)
(* k-th byte a program wants to send has the value k, and after a short    *)
(* send the program goes on from send_count.  A call with a timeout above  *)
(* 0 returns false before its loop (see PollSet) and is left out, and the  *)
(* programs ignore SIGPIPE.                                                *)
(***************************************************************************)
EXTENDS Integers, Sequences, FiniteSetsExt

CONSTANTS
  MaxBytes,   \* bound on what a program sends
  Buffer,     \* bytes the system holds for one direction
  Chunk       \* the size of mi_arr

StreamAssumption == {MaxBytes, Buffer, Chunk} \subseteq Nat \ {0}

Ends == {"client", "server"}
Peer(p) == CHOOSE q \in Ends : q # p

VARIABLES
  sends,      \* the call of send that runs at each end
  receives,   \* the call of receive that runs at each end
  sent,       \* the sum of the send_counts of each program
  got,        \* the data_received of each program, one after the other
  net,        \* the bytes on their way from each end
  closed,     \* whether the program has closed its socket
  broken      \* whether the connection was reset

vars == <<sends, receives, sent, got, net, closed, broken>>

NoCall == [runs |-> FALSE]

Init ==
  /\ sends = [p \in Ends |-> NoCall]
  /\ receives = [p \in Ends |-> NoCall]
  /\ sent = [p \in Ends |-> 0]
  /\ got = [p \in Ends |-> <<>>]
  /\ net = [p \in Ends |-> <<>>]
  /\ closed = [p \in Ends |-> FALSE]
  /\ broken = FALSE

----------------------------------------------------------------------------
(* send                                                                    *)

send(p, n) ==
  /\ ~closed[p] /\ ~sends[p].runs
  /\ n > 0 /\ sent[p] + n <= MaxBytes
  /\ sends' = [sends EXCEPT ![p] =
       [runs |-> TRUE, count |-> n, pos |-> 0, remaining |-> n]]
  /\ UNCHANGED <<receives, sent, got, net, closed, broken>>

\* The system takes k of the remaining bytes.
SystemSend(p, k) ==
  /\ sends[p].runs /\ ~broken
  /\ Len(net[p]) + k <= Buffer
  /\ net' = [net EXCEPT ![p] =
       @ \o [i \in 1 .. k |-> sent[p] + sends[p].pos + i]]

ReturnSent(p, total) ==
  /\ sent' = [sent EXCEPT ![p] = @ + total]
  /\ sends' = [sends EXCEPT ![p] = NoCall]

\* Slip: pos stays.
Unmoved(s, k) == [s EXCEPT !.remaining = @ - k]

Advanced(s, k) == [s EXCEPT !.pos = @ + k, !.remaining = @ - k]

\* Slip: the loop ends with the first piece.
SendOnce(p) ==
  sends[p].runs /\ \E k \in 1 .. sends[p].remaining :
    /\ SystemSend(p, k)
    /\ ReturnSent(p, sends[p].pos + k)
    /\ UNCHANGED <<receives, got, closed, broken>>

SendPiece(p) ==
  /\ sends[p].runs
  /\ \E k \in 1 .. sends[p].remaining :
       /\ SystemSend(p, k)
       /\ IF k = sends[p].remaining
            THEN ReturnSent(p, sends[p].pos + k)
            ELSE /\ sends' = [sends EXCEPT ![p] = Advanced(@, k)]
                 /\ UNCHANGED sent
  /\ UNCHANGED <<receives, got, closed, broken>>

\* An error ends the loop; what went out before counts.
SendError(p) ==
  /\ sends[p].runs /\ broken
  /\ ReturnSent(p, sends[p].pos)
  /\ UNCHANGED <<receives, got, net, closed, broken>>

----------------------------------------------------------------------------
(* receive                                                                 *)

receive(p) ==
  /\ ~closed[p] /\ ~receives[p].runs
  /\ receives' = [receives EXCEPT ![p] = [runs |-> TRUE, final_data |-> <<>>]]
  /\ UNCHANGED <<sends, sent, got, net, closed, broken>>

SystemRecv(p, k) ==
  LET q == Peer(p)
  IN  /\ receives[p].runs
      /\ k <= Min({Chunk, Len(net[q])})
      /\ net' = [net EXCEPT ![q] = SubSeq(@, k + 1, Len(@))]

ReturnReceived(p, data) ==
  /\ got' = [got EXCEPT ![p] = @ \o data]
  /\ receives' = [receives EXCEPT ![p] = NoCall]

ReceivePiece(p) ==
  \E k \in 1 .. Chunk :
    /\ SystemRecv(p, k)
    /\ receives' = [receives EXCEPT ![p].final_data =
         @ \o SubSeq(net[Peer(p)], 1, k)]
    /\ UNCHANGED <<sends, sent, got, closed, broken>>

\* Slip: only an error ends the loop.
ReceiveError(p) ==
  /\ receives[p].runs /\ net[Peer(p)] = <<>> /\ broken
  /\ ReturnReceived(p, receives[p].final_data)
  /\ UNCHANGED <<sends, sent, net, closed, broken>>

\* recv returns 0 or an error.
ReceiveEnd(p) ==
  /\ receives[p].runs /\ net[Peer(p)] = <<>>
  /\ closed[Peer(p)] \/ broken
  /\ ReturnReceived(p, receives[p].final_data)
  /\ UNCHANGED <<sends, sent, net, closed, broken>>

----------------------------------------------------------------------------
Close(p) ==
  /\ ~closed[p] /\ ~sends[p].runs /\ ~receives[p].runs
  /\ closed' = [closed EXCEPT ![p] = TRUE]
  /\ UNCHANGED <<sends, receives, sent, got, net, broken>>

\* A reset loses the ends of what is on its way.
Reset ==
  /\ ~broken /\ broken' = TRUE
  /\ \E n \in [Ends -> 0 .. Buffer] :
       /\ \A p \in Ends : n[p] <= Len(net[p])
       /\ net' = [p \in Ends |-> SubSeq(net[p], 1, n[p])]
  /\ UNCHANGED <<sends, receives, sent, got, closed>>

\* Bytes that reach a closed socket reset the connection.
Unwanted == \E p \in Ends : closed[p] /\ net[Peer(p)] # <<>>

Next ==
  \/ \E p \in Ends :
       \/ \E n \in 1 .. MaxBytes : send(p, n)
       \/ SendPiece(p) \/ SendError(p)
       \/ receive(p) \/ ReceivePiece(p) \/ ReceiveEnd(p)
       \/ Close(p)
  \/ Reset

SendStep(p)    == SendPiece(p) \/ SendError(p)
ReceiveStep(p) == ReceivePiece(p) \/ ReceiveEnd(p)
UnwantedReset  == Unwanted /\ Reset

\* The loops and the system go on; programs need not.
FairSpec ==
  /\ Init /\ [][Next]_vars
  /\ \A p \in Ends : WF_vars(SendStep(p)) /\ WF_vars(ReceiveStep(p))
  /\ WF_vars(UnwantedReset)

----------------------------------------------------------------------------
IsPrefixOfStream(s) == \A i \in DOMAIN s : s[i] = i

(* What has been received and what is on its way are, in order and once,   *)
(* the first of the bytes that send has counted or is about to count; all  *)
(* of them while the connection stands.  So a program that goes on from    *)
(* send_count after a short send repeats and skips nothing.                *)
StreamIntact ==
  \A p \in Ends :
    LET q     == Peer(p)
        taken == got[q] \o (IF receives[q].runs THEN receives[q].final_data
                            ELSE <<>>) \o net[p]
        out   == sent[p] + (IF sends[p].runs THEN sends[p].pos ELSE 0)
    IN  /\ IsPrefixOfStream(taken)
        /\ Len(taken) <= out
        /\ ~broken => Len(taken) = out

(* send returns true whatever happened: a count below data_to_send.count   *)
(* means that the connection is broken, and nothing else.                  *)
ShortSendIsBroken ==
  [][\A p \in Ends :
       sends[p].runs /\ ~sends'[p].runs =>
         sent'[p] - sent[p] = sends[p].count \/ broken]_vars

(* receive is no read of one message: without timeouts it comes back when  *)
(* the peer has closed its socket, with all the peer has sent, or when the *)
(* connection is broken.                                                   *)
ReceiveTakesAll ==
  [][\A p \in Ends :
       receives[p].runs /\ ~receives'[p].runs =>
         \/ broken
         \/ closed[Peer(p)] /\ Len(got'[p]) = sent[Peer(p)]]_vars

(* A program can tell from what a call returns what became of its data.    *)
CountsCanBeRelied == ShortSendIsBroken /\ ReceiveTakesAll

(* A send whose peer receives comes to its end, however full the system's  *)
(* buffer; two ends that only send may wait for each other for ever.       *)
SendMeetsReceive ==
  \A p \in Ends :
    sends[p].runs /\ receives[Peer(p)].runs ~> ~sends[p].runs

(* receive comes back once the peer has closed its socket.                 *)
CloseEndsReceive ==
  \A p \in Ends :
    receives[p].runs /\ closed[Peer(p)] ~> ~receives[p].runs

(* Both: the loops are left once nothing keeps them.                       *)
TransfersEnd == SendMeetsReceive /\ CloseEndsReceive
=============================================================================

------------------------------- MODULE MCLoops -------------------------------
(***************************************************************************)
(* A small instance of the loops and waits that a single call may be in:   *)
(* the initialisation that is tried again, the descent to the base socket, *)
(* the wait that starts anew, and the transfers.  They share no state: one *)
(* of them runs, chosen once, and the others stand in an initial state.    *)
(***************************************************************************)
EXTENDS InitOnce

CONSTANTS
  Depth, INVALID,                                      \* BaseSocket
  Word, MaxNow,                                        \* WaitClock
  MaxBytes, Buffer, Chunk,                             \* StreamIO
  Senders, MaxSends, MaxQueue, MaxEmpty, MaxTaken, MaxCalls    \* DatagramIO

VARIABLES
  part,
  provider, open, base_pc, socket, error, base_result,
  now, timeout, due, gqcs_timeout, deadline, late, wait_result, wait_pc,
  sends, receives, sent, got, net, closed, broken,
  dg_sends, dg_net, queue, empties, dg_receives, results, taken

initvars   == vars
basevars   == <<provider, open, base_pc, socket, error, base_result>>
waitvars   == <<now, timeout, due, gqcs_timeout, deadline, late, wait_result,
                wait_pc>>
streamvars == <<sends, receives, sent, got, net, closed, broken>>
dgramvars  == <<dg_sends, dg_net, queue, empties, dg_receives, results, taken>>
loopvars   == <<part, initvars, basevars, waitvars, streamvars, dgramvars>>

Base   == INSTANCE BaseSocket WITH pc <- base_pc, result <- base_result
Clock  == INSTANCE WaitClock WITH pc <- wait_pc, result <- wait_result
Stream == INSTANCE StreamIO
Dgram  == INSTANCE DatagramIO WITH
            sends <- dg_sends, net <- dg_net, receives <- dg_receives

ASSUME LoopsAssumption ==
  /\ Base!DepthAssumption /\ Clock!ClockAssumption
  /\ Stream!StreamAssumption /\ Dgram!DatagramAssumption

\* Only the part that runs needs all chains of providers.
LoopsInit ==
  /\ part \in {"init", "base", "wait", "stream", "datagram"}
  /\ Init /\ Base!Init /\ Clock!Init /\ Stream!Init /\ Dgram!Init
  /\ part # "base" =>
       provider = [l \in 1 .. Depth - 1 |-> [base |-> "passes", poll |-> "next"]]

LoopsNext ==
  \/ /\ part = "init" /\ Next
     /\ UNCHANGED <<part, basevars, waitvars, streamvars, dgramvars>>
  \/ /\ part = "base" /\ Base!Next
     /\ UNCHANGED <<part, initvars, waitvars, streamvars, dgramvars>>
  \/ /\ part = "wait" /\ Clock!Next
     /\ UNCHANGED <<part, initvars, basevars, streamvars, dgramvars>>
  \/ /\ part = "stream" /\ Stream!Next
     /\ UNCHANGED <<part, initvars, basevars, waitvars, dgramvars>>
  \/ /\ part = "datagram" /\ Dgram!Next
     /\ UNCHANGED <<part, initvars, basevars, waitvars, streamvars>>

\* The fairness of each part, while it is the one that runs.
LoopsSpec ==
  /\ LoopsInit /\ [][LoopsNext]_loopvars
  /\ \A t \in Threads : WF_initvars(part = "init" /\ Run(t))
  /\ WF_basevars(part = "base" /\ Base!Loop)
  /\ WF_waitvars(part = "wait" /\ Clock!Thread)
  /\ WF_waitvars(part = "wait" /\ Clock!Tick)
  /\ \A p \in Stream!Ends :
       /\ WF_streamvars(part = "stream" /\ Stream!SendStep(p))
       /\ WF_streamvars(part = "stream" /\ Stream!ReceiveStep(p))
  /\ WF_streamvars(part = "stream" /\ Stream!UnwantedReset)

----------------------------------------------------------------------------
(* ws_get_base_socket gives the base socket or a reason.                   *)
BaseSocketIsRight == Base!BaseSocketIsRight

(* Its loop ends, whatever the providers do.                               *)
LoopEnds == part = "base" ~> base_pc = "returned"

(* port_wait waits neither longer nor shorter than asked for.              *)
WaitsAsAsked == Clock!WaitsAsAsked

(* It returns although packets keep coming.                                *)
WaitReturns == Clock!WaitReturns

(* A stream arrives in order, once, and as far as send has counted.        *)
StreamIntact == Stream!StreamIntact

(* What send and receive return says what became of the data.              *)
CountsCanBeRelied == Stream!CountsCanBeRelied

(* send and receive come back once nothing keeps them.                     *)
TransfersEnd == Stream!TransfersEnd

(* Datagrams and the addresses of their senders come out as they arrived.  *)
DatagramsIntact == Dgram!DatagramsIntact
=============================================================================

----------------------------- MODULE BaseSocket ------------------------------
(***************************************************************************)
(* ws_get_base_socket of wepoll.c.  Layered service providers wrap a       *)
(* socket in a chain of sockets, 1 the one the program has and Depth the   *)
(* base socket, the only one the AFD driver knows.  The ioctl              *)
(* SIO_BASE_HANDLE asks for the base socket, SIO_BSP_HANDLE_POLL for the   *)
(* next one of the chain; providers exist that break either.               *)
(***************************************************************************)
EXTENDS Integers

CONSTANTS Depth, INVALID

DepthAssumption == Depth \in Nat \ {0} /\ INVALID \notin 1 .. Depth

VARIABLES
  provider,    \* what the provider of each layer does with the two ioctls
  open,        \* whether the program's socket is open
  pc, socket,  \* the loop of ws_get_base_socket
  error,       \* the error it keeps from SIO_BASE_HANDLE
  result       \* what it returns, with the error it sets

vars == <<provider, open, pc, socket, error, result>>

Layers == 1 .. Depth - 1

\* SIO_BASE_HANDLE goes down the chain unless a provider breaks it;
\* SIO_BSP_HANDLE_POLL may fail, or name the socket itself.
Behaviours == [base : {"passes", "breaks"}, poll : {"next", "fails", "itself"}]

Init ==
  /\ provider \in [Layers -> Behaviours]
  /\ open = TRUE
  /\ pc = "base" /\ socket = 1 /\ error = "none"
  /\ result = [socket |-> INVALID, error |-> "none"]

BaseHandle(s) ==
  IF ~open THEN [socket |-> INVALID, error |-> "WSAENOTSOCK"]
  ELSE IF \E l \in Layers : l >= s /\ provider[l].base = "breaks"
       THEN [socket |-> INVALID, error |-> "WSAEOPNOTSUPP"]
       ELSE [socket |-> Depth, error |-> "none"]

\* The base provider names its own socket.
BspHandlePoll(s) ==
  IF ~open THEN INVALID
  ELSE IF s = Depth \/ provider[s].poll = "itself" THEN s
  ELSE IF provider[s].poll = "fails" THEN INVALID
  ELSE s + 1

Return(s, e) ==
  /\ result' = [socket |-> s, error |-> e]
  /\ pc' = "returned"

AskBase ==
  /\ pc = "base"
  /\ LET r == BaseHandle(socket)
     IN  /\ error' = r.error
         /\ IF r.socket # INVALID \/ r.error = "WSAENOTSOCK"
            THEN Return(r.socket, r.error)
            ELSE pc' = "poll" /\ UNCHANGED result
  /\ UNCHANGED <<provider, open, socket>>

\* Slip: a provider that names the socket itself is asked again.
NotInvalid(s) == s # INVALID

\* The loop goes on with s.
GoesOn(s) == s \notin {INVALID, socket}

\* Slip: an error of the second ioctl hides that of the first.
AskPollForgets ==
  /\ pc = "poll"
  /\ LET s == BspHandlePoll(socket)
     IN  IF GoesOn(s) THEN pc' = "base" /\ socket' = s /\ UNCHANGED result
         ELSE Return(INVALID, "none") /\ UNCHANGED socket
  /\ UNCHANGED <<provider, open, error>>

AskPoll ==
  /\ pc = "poll"
  /\ LET s == BspHandlePoll(socket)
     IN  IF GoesOn(s) THEN pc' = "base" /\ socket' = s /\ UNCHANGED result
         ELSE Return(INVALID, error) /\ UNCHANGED socket
  /\ UNCHANGED <<provider, open, error>>

\* Another thread closes the socket.
CloseSocket ==
  /\ open
  /\ open' = FALSE
  /\ UNCHANGED <<provider, pc, socket, error, result>>

Loop == AskBase \/ AskPoll

Next == Loop \/ CloseSocket

Spec == Init /\ [][Next]_vars

FairSpec == Spec /\ WF_vars(Loop)

----------------------------------------------------------------------------
\* A chain of providers none of which hides the next one.
Transparent == \A l \in Layers : provider[l].poll = "next"

(* "we unwrap all layers and retrieve the actual base socket": what is     *)
(* returned is the base socket, never one of a layer.                      *)
UnwrapsAllLayers ==
  result.socket # INVALID => result.socket = Depth

(* Providers that break SIO_BASE_HANDLE alone do not make an open socket   *)
(* unusable.                                                               *)
BrokenBaseIsBypassed ==
  pc = "returned" /\ open /\ Transparent => result.socket = Depth

(* A failure always carries the error of the ioctl that asked for the base *)
(* socket, so that sock_new fails with a reason.                           *)
FailureHasReason ==
  pc = "returned" => (result.socket = INVALID <=> result.error # "none")

(* The base socket or a reason.                                            *)
BaseSocketIsRight == UnwrapsAllLayers /\ BrokenBaseIsBypassed /\ FailureHasReason

(* The loop ends, whatever the providers do and although it has no bound.  *)
LoopEnds == <>(pc = "returned")
=============================================================================

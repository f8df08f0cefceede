--------------------------- MODULE SocketLifecycle ---------------------------
(***************************************************************************)
(* Socket_Dulce of SDulceSockets.swift and the descriptors behind it.  The *)
(* program keeps a few variables of this type, fills one only when it is   *)
(* not initialized, and does not copy them; a Socket_Dulce is a value, so  *)
(* the library could not follow a copy.  create_Socket tries one address   *)
(* per step; any of its system calls may fail.                             *)
(***************************************************************************)
EXTENDS Integers, Sequences

CONSTANTS
  Vars,        \* the program's variables of type Socket_Dulce
  Fds,         \* descriptors; 0 is not among them
  Families,    \* families of addresses
  MaxAddrs     \* bound on the addresses of one Addresses

ASSUME LifecycleAssumption == Fds \subseteq Nat \ {0} /\ MaxAddrs \in Nat

VARIABLES
  kernel,    \* what each descriptor is
  socks,     \* the value of each variable
  create     \* the create_Socket that runs

vars == <<kernel, socks, create>>

Types == {"tcp", "udp"}

\* An address is its family; several is whether create_Socket had a choice
\* of addresses and was not asked to listen.
Closed == [open |-> FALSE]
Fresh(f, t, several) ==
  [open |-> TRUE, family |-> f, typ |-> t, bound |-> FALSE,
   listening |-> FALSE, peer |-> FALSE, several |-> several]

Socket_Dulce == [sock |-> 0, addr_typ |-> "none", addr_arr |-> <<>>,
                 binded |-> FALSE, connected |-> FALSE, listened |-> FALSE]

NoCreate == [var |-> "none"]

Init ==
  /\ kernel = [fd \in Fds |-> Closed]
  /\ socks = [v \in Vars |-> Socket_Dulce]
  /\ create = NoCreate

is_Initialized(s) == s.sock # 0
is_Empty(s)       == s.addr_typ = "none" \/ s.addr_arr = <<>>

\* The descriptor the kernel hands out, the lowest that is free.
FreeFds == {fd \in Fds : ~kernel[fd].open}
NextFd  == CHOOSE fd \in FreeFds : \A g \in FreeFds : fd <= g

----------------------------------------------------------------------------
(* create_Socket                                                           *)

\* Where the failing paths of the loop leave mi_socket.
Cleared(s) == [s EXCEPT !.sock = 0, !.addr_arr = <<>>, !.binded = FALSE,
                        !.listened = FALSE, !.connected = FALSE]

create_Socket(v, typ, addrs, bind, listen) ==
  /\ create = NoCreate
  /\ ~is_Initialized(socks[v])
  /\ create' = [var |-> v, addrs |-> addrs, bind |-> bind, listen |-> listen,
                several |-> Len(addrs) > 1 /\ ~(bind /\ listen),
                socket |-> [Socket_Dulce EXCEPT !.addr_typ = typ]]
  /\ UNCHANGED <<kernel, socks>>

\* On to the next address with mi_socket = s.
Continue(s) ==
  /\ create' = [create EXCEPT !.addrs = Tail(@), !.socket = s]
  /\ UNCHANGED socks

SocketFails ==
  /\ create # NoCreate /\ create.addrs # <<>>
  /\ Continue([create.socket EXCEPT !.sock = 0, !.binded = FALSE,
                                    !.listened = FALSE, !.connected = FALSE])
  /\ UNCHANGED kernel

\* The socket for the first remaining address, and mi_socket with it.
Opened  == Fresh(Head(create.addrs), create.socket.addr_typ, create.several)
WithFd  == [create.socket EXCEPT !.sock = NextFd,
                                 !.addr_arr = Append(@, Head(create.addrs))]

CanOpen == create # NoCreate /\ create.addrs # <<>> /\ FreeFds # {}

OpenOnly ==
  /\ CanOpen /\ ~create.bind
  /\ kernel' = [kernel EXCEPT ![NextFd] = Opened]
  /\ Continue(WithFd)

\* Slip: the descriptor is not closed.
BindFailsOpen ==
  /\ CanOpen /\ create.bind
  /\ kernel' = [kernel EXCEPT ![NextFd] = Opened]
  /\ Continue(Cleared(WithFd))

\* bind or listen fails; the descriptor is closed again.
BindOrListenFails ==
  /\ CanOpen /\ create.bind
  /\ Continue(Cleared(WithFd))
  /\ UNCHANGED kernel

\* bind is given the first address of addr_arr, and accepts no address of
\* another family.
BindSucceeds ==
  /\ CanOpen /\ create.bind /\ ~create.listen
  /\ Head(WithFd.addr_arr) = Head(create.addrs)
  /\ kernel' = [kernel EXCEPT ![NextFd] = [Opened EXCEPT !.bound = TRUE]]
  /\ Continue([WithFd EXCEPT !.binded = TRUE])

\* A UDP socket counts as listening once it is bound.
Listens ==
  /\ CanOpen /\ create.bind /\ create.listen
  /\ kernel' = [kernel EXCEPT ![NextFd] =
       [Opened EXCEPT !.bound = TRUE,
                      !.listening = create.socket.addr_typ = "tcp"]]
  /\ socks' = [socks EXCEPT ![create.var] =
       [WithFd EXCEPT !.binded = TRUE, !.listened = TRUE]]
  /\ create' = NoCreate

LoopDone ==
  /\ create # NoCreate /\ create.addrs = <<>>
  /\ socks' = [socks EXCEPT ![create.var] = create.socket]
  /\ create' = NoCreate
  /\ UNCHANGED kernel

----------------------------------------------------------------------------
(* wait_Connection, on a listening socket, into a free variable            *)

MayAccept(l) ==
  /\ create = NoCreate /\ FreeFds # {}
  /\ is_Initialized(socks[l]) /\ ~is_Empty(socks[l])
  /\ socks[l].binded /\ socks[l].listened

AcceptedFlags(l) == [binded |-> FALSE, connected |-> TRUE, listened |-> FALSE]

AcceptTcp(l, v) ==
  /\ MayAccept(l) /\ socks[l].addr_typ = "tcp"
  /\ v # l /\ ~is_Initialized(socks[v])
  /\ LET f == kernel[socks[l].sock].family
     IN  /\ kernel' = [kernel EXCEPT ![NextFd] =
              [Fresh(f, "tcp", FALSE) EXCEPT !.peer = TRUE]]
         /\ socks' = [socks EXCEPT ![v] =
              [sock |-> NextFd, addr_typ |-> "tcp", addr_arr |-> <<f>>,
               binded |-> AcceptedFlags(l).binded,
               connected |-> AcceptedFlags(l).connected,
               listened |-> AcceptedFlags(l).listened]]
  /\ UNCHANGED create

\* A datagram: a new socket for its sender, by create_Socket.
ReceiveUdp(l, v) ==
  /\ MayAccept(l) /\ socks[l].addr_typ = "udp"
  /\ v # l /\ ~is_Initialized(socks[v])
  /\ create_Socket(v, "udp", <<kernel[socks[l].sock].family>>, FALSE, FALSE)

\* response is reset before anything can fail.
WaitFails(l, v) ==
  /\ create = NoCreate
  /\ v # l /\ ~is_Initialized(socks[v])
  /\ socks' = [socks EXCEPT ![v] = Socket_Dulce]
  /\ UNCHANGED <<kernel, create>>

----------------------------------------------------------------------------
\* The guard of dulce_Connect.
MayConnect(v) ==
  LET s == socks[v]
  IN  /\ create = NoCreate
      /\ is_Initialized(s) /\ s.addr_arr # <<>>
      /\ ~s.connected /\ ~s.listened /\ ~s.binded

ConnectUdp(v) ==
  /\ MayConnect(v) /\ socks[v].addr_typ = "udp"
  /\ socks' = [socks EXCEPT ![v].connected = TRUE]
  /\ UNCHANGED <<kernel, create>>

\* A TCP socket is left unmarked.  connect accepts no address of another
\* family and no second call.
ConnectTcp(v) ==
  LET s == socks[v]
  IN  /\ MayConnect(v) /\ s.addr_typ = "tcp"
      /\ kernel[s.sock].family = Head(s.addr_arr) /\ ~kernel[s.sock].peer
      /\ kernel' = [kernel EXCEPT ![s.sock].peer = TRUE]
      /\ UNCHANGED <<socks, create>>

Close(v) ==
  /\ create = NoCreate
  /\ is_Initialized(socks[v])
  /\ kernel' = [kernel EXCEPT ![socks[v].sock] = Closed]
  /\ socks' = [socks EXCEPT ![v] = Socket_Dulce]
  /\ UNCHANGED create

AddrLists == UNION {[1 .. n -> Families] : n \in 1 .. MaxAddrs}

Next ==
  \/ \E v \in Vars, t \in Types, a \in AddrLists, b, l \in BOOLEAN :
       create_Socket(v, t, a, b, l)
  \/ SocketFails \/ OpenOnly \/ BindOrListenFails \/ BindSucceeds
  \/ Listens \/ LoopDone
  \/ \E l, v \in Vars : AcceptTcp(l, v) \/ ReceiveUdp(l, v) \/ WaitFails(l, v)
  \/ \E v \in Vars : ConnectUdp(v) \/ ConnectTcp(v) \/ Close(v)

Spec == Init /\ [][Next]_vars

----------------------------------------------------------------------------
Held(v) == IF is_Initialized(socks[v]) THEN {socks[v].sock} ELSE {}

InHand == (UNION {Held(v) : v \in Vars})
          \cup IF create = NoCreate THEN {} ELSE {create.socket.sock} \ {0}

Lost == {fd \in Fds : kernel[fd].open} \ InHand

(* A variable that counts as initialized has an open descriptor, and no    *)
(* two share one, whatever fails on the way: closing one never closes the  *)
(* socket of another.                                                      *)
OwnersAreExclusive ==
  /\ \A fd \in InHand : kernel[fd].open
  /\ \A v, w \in Vars : v # w => Held(v) \cap Held(w) = {}

(* A variable that counts as listening can be waited on: its descriptor is *)
(* bound, for TCP listening, and its one address is of the descriptor's    *)
(* family, since wait_Connection takes the protocol from there.            *)
ListenerIsReady ==
  \A v \in Vars :
    LET s == socks[v]
    IN  s.listened =>
          /\ is_Initialized(s) /\ s.binded
          /\ kernel[s.sock].bound
          /\ s.addr_typ = "tcp" => kernel[s.sock].listening
          /\ s.addr_arr = <<kernel[s.sock].family>>

(* Descriptors that nobody can close any more, and sockets that would be   *)
(* connected to an address of another family, come from create_Socket with *)
(* several addresses and no need to listen, from nothing else.             *)
OnlySeveralAddressesLose ==
  /\ \A fd \in Lost : kernel[fd].several
  /\ \A v \in Vars : MayConnect(v) =>
       LET s == kernel[socks[v].sock]
       IN  s.several \/ s.family = Head(socks[v].addr_arr)

(* is_Connected is never wrongly true of a TCP socket; dulce_Connect does  *)
(* leave it wrongly false.                                                 *)
ConnectedHasPeer ==
  \A v \in Vars : socks[v].connected /\ socks[v].addr_typ = "tcp" =>
    is_Initialized(socks[v]) /\ kernel[socks[v].sock].peer

(* A variable says of its descriptor what is true of it.                   *)
SocketsAreTrue ==
  OwnersAreExclusive /\ ListenerIsReady /\ OnlySeveralAddressesLose
    /\ ConnectedHasPeer
=============================================================================

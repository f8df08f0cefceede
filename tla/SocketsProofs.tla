---------------------------- MODULE SocketsProofs ----------------------------
(***************************************************************************)
(* For any number of variables, descriptors, families and addresses: a     *)
(* Socket_Dulce says of its descriptor what is true of it, and of a socket *)
(* address the port, an ipv4 address and the network half of an ipv6 one   *)
(* survive the type Address.                                               *)
(***************************************************************************)
EXTENDS MCSockets, FiniteSetTheorems, SequenceTheorems, TLAPS

-----------------------------------------------------------------------------
(* The lowest of some numbers.                                             *)

LEMMA SetInduction ==
  ASSUME NEW S, 0 \in S, \A n \in Nat : n \in S => n + 1 \in S
  PROVE  Nat \subseteq S
<1> SUFFICES ASSUME NEW n \in Nat, n \notin S
             PROVE  FALSE
  OBVIOUS
<1> DEFINE T == {m \in 0 .. n : m \in S}
           succ == [m \in T |-> m + 1]
<1>1. IsFiniteSet(T) /\ 0 \in T
  <2>1. IsFiniteSet(0 .. n) /\ T \in SUBSET (0 .. n)
    BY FS_Interval
  <2> QED  BY <2>1, FS_Subset
<1>2. \A m \in T : m + 1 \in T \ {0}
  OBVIOUS
<1>3. succ \in Injection(T, T \ {0})
  BY <1>2 DEF Injection, IsInjective
<1>4. /\ IsFiniteSet(T \ {0})
      /\ Cardinality(T \ {0}) = Cardinality(T) - 1
      /\ Cardinality(T) \in Nat
  BY <1>1, FS_RemoveElement, FS_CardinalityType
<1>5. Cardinality(T) <= Cardinality(T \ {0})
  BY <1>3, <1>4, FS_Injection DEF ExistsInjection
<1> QED  BY <1>4, <1>5

LEMMA LeastExists ==
  ASSUME NEW S, S \subseteq Nat, S # {}
  PROVE  \E m \in S : \A n \in S : m <= n
<1> SUFFICES ASSUME \A m \in S : \E n \in S : n < m
             PROVE  FALSE
  OBVIOUS
<1> DEFINE B == {k \in Nat : \A m \in S : k <= m}
<1>1. 0 \in B
  OBVIOUS
<1>2. ASSUME NEW k \in Nat, k \in B PROVE k + 1 \in B
  <2>1. k \notin S
    BY <1>2
  <2> QED  BY <1>2, <2>1
<1>3. Nat \subseteq B
  <2> HIDE DEF B
  <2> QED  BY <1>1, <1>2, SetInduction
<1>4. PICK m \in S : TRUE
  OBVIOUS
<1>5. m + 1 \in B
  BY <1>3
<1> QED  BY <1>4, <1>5

-----------------------------------------------------------------------------
(* Socket_Dulce and its descriptor.                                        *)

OpenSockets ==
  [open : {TRUE}, family : Families, typ : Types \cup {"none"},
   bound : BOOLEAN, listening : BOOLEAN, peer : BOOLEAN, several : BOOLEAN]

Values ==
  [sock : Fds \cup {0}, addr_typ : Types \cup {"none"},
   addr_arr : Seq(Families),
   binded : BOOLEAN, connected : BOOLEAN, listened : BOOLEAN]

Creates ==
  [var : Vars, addrs : Seq(Families), bind : BOOLEAN, listen : BOOLEAN,
   several : BOOLEAN, socket : Values]

SocketType ==
  /\ kernel \in [Fds -> {Closed} \cup OpenSockets]
  /\ socks \in [Vars -> Values]
  /\ create = NoCreate \/ create \in Creates

\* A value's descriptor is open, and for the address the value begins with
\* unless several were tried.
Owns(k, s) ==
  s.sock # 0 =>
    /\ k[s.sock].open
    /\ k[s.sock].several \/ s.addr_arr = <<k[s.sock].family>>

Apart(s, t) == s.sock # 0 => s.sock # t.sock

Ready(k, s) ==
  s.listened =>
    /\ is_Initialized(s) /\ s.binded
    /\ k[s.sock].bound
    /\ s.addr_typ = "tcp" => k[s.sock].listening
    /\ s.addr_arr = <<k[s.sock].family>>

HasPeer(k, s) ==
  s.connected /\ s.addr_typ = "tcp" => is_Initialized(s) /\ k[s.sock].peer

\* All that a value says is true.
Truthful(k, s) == Owns(k, s) /\ Ready(k, s) /\ HasPeer(k, s)

\* The running create_Socket: its variable is free, its value marks nothing
\* yet that it would have to undo, and it keeps a descriptor with addresses
\* left only when there were several.
CreateSound ==
  create # NoCreate =>
    /\ ~is_Initialized(socks[create.var])
    /\ Owns(kernel, create.socket)
    /\ \A v \in Vars : Apart(create.socket, socks[v])
    /\ ~create.socket.listened /\ ~create.socket.connected
    /\ create.bind /\ create.listen => ~create.several
    /\ create.several /\ create.socket.sock # 0 =>
         kernel[create.socket.sock].several
    /\ ~create.several /\ create.addrs # <<>> =>
         create.socket.sock = 0 /\ create.socket.addr_arr = <<>>
    /\ ~create.several /\ ~(create.bind /\ create.listen) =>
         Len(create.addrs) <= 1

Holds(fd) ==
  \/ \E v \in Vars : socks[v].sock = fd
  \/ create # NoCreate /\ create.socket.sock = fd

OnlySeveralLost ==
  \A fd \in Fds : kernel[fd].open => kernel[fd].several \/ Holds(fd)

SocketInv ==
  /\ SocketType
  /\ \A v \in Vars : Truthful(kernel, socks[v])
  /\ \A v, w \in Vars : v # w => Apart(socks[v], socks[w])
  /\ CreateSound
  /\ OnlySeveralLost

LEMMA CreateKnown ==
  /\ \A c \in Creates : c # NoCreate
  /\ ~Closed.open
BY DEF Creates, NoCreate, Closed

\* Whom a descriptor belongs to.
LEMMA HandFacts ==
  ASSUME SocketType
  PROVE  \A fd : fd \in InHand <=> fd # 0 /\ Holds(fd)
<1> DEFINE C == IF create = NoCreate THEN {} ELSE {create.socket.sock} \ {0}
<1>1. \A v \in Vars : \A fd : fd \in Held(v) <=> fd # 0 /\ socks[v].sock = fd
  BY DEF Held, is_Initialized
<1>2. \A fd : fd \in C <=>
        fd # 0 /\ create # NoCreate /\ create.socket.sock = fd
  OBVIOUS
<1> DEFINE U == UNION {Held(v) : v \in Vars}
<1>3. InHand = U \cup C
  BY DEF InHand
<1>4. \A fd : fd \in U <=> \E v \in Vars : fd \in Held(v)
  OBVIOUS
<1> HIDE DEF C, U
<1> QED  BY <1>1, <1>2, <1>3, <1>4 DEF Holds

LEMMA SocketInvTrue == SocketInv => SocketsAreTrue
<1> SUFFICES ASSUME SocketInv PROVE SocketsAreTrue
  OBVIOUS
<1>1. SocketType /\ \A v \in Vars : socks[v] \in Values
  BY DEF SocketInv, SocketType
<1>2. OwnersAreExclusive
  <2>1. \A fd \in InHand : kernel[fd].open
    BY <1>1, HandFacts DEF SocketInv, Holds, Truthful, Owns, CreateSound
  <2>2. \A v, w \in Vars : v # w => Held(v) \cap Held(w) = {}
    BY DEF SocketInv, Apart, Held, is_Initialized
  <2> QED  BY <2>1, <2>2 DEF OwnersAreExclusive
<1>3. ListenerIsReady
  BY DEF SocketInv, ListenerIsReady, Truthful, Ready
<1>4. OnlySeveralAddressesLose
  <2>1. \A fd \in Lost : kernel[fd].several
    <3> SUFFICES ASSUME NEW fd \in Lost PROVE kernel[fd].several
      OBVIOUS
    <3>1. fd \in Fds /\ kernel[fd].open /\ fd \notin InHand /\ fd # 0
      BY LifecycleAssumption DEF Lost
    <3> QED  BY <1>1, <3>1, HandFacts DEF SocketInv, OnlySeveralLost
  <2>2. ASSUME NEW v \in Vars, MayConnect(v)
        PROVE  LET s == kernel[socks[v].sock]
               IN  s.several \/ s.family = Head(socks[v].addr_arr)
    BY <2>2 DEF SocketInv, Truthful, Owns, MayConnect, is_Initialized
  <2> QED  BY <2>1, <2>2 DEF OnlySeveralAddressesLose
<1>5. ConnectedHasPeer
  BY DEF SocketInv, ConnectedHasPeer, Truthful, HasPeer
<1> QED  BY <1>2, <1>3, <1>4, <1>5 DEF SocketsAreTrue

LEMMA SocketInit == Init => SocketInv
<1> SUFFICES ASSUME Init PROVE SocketInv
  OBVIOUS
<1>1. Socket_Dulce \in Values
  BY DEF Socket_Dulce, Values
<1>2. SocketType
  BY <1>1 DEF Init, SocketType
<1>3. \A v \in Vars : Truthful(kernel, socks[v])
  BY DEF Init, Socket_Dulce, Truthful, Owns, Ready, HasPeer
<1>4. \A v, w \in Vars : Apart(socks[v], socks[w])
  BY DEF Init, Socket_Dulce, Apart
<1> QED
  BY <1>2, <1>3, <1>4, CreateKnown
     DEF Init, SocketInv, CreateSound, OnlySeveralLost

\* The descriptor handed out was closed, so nobody holds it.
LEMMA NextFdFree ==
  ASSUME SocketInv, FreeFds # {}
  PROVE  /\ NextFd \in Fds /\ NextFd # 0 /\ ~kernel[NextFd].open
         /\ \A v \in Vars : socks[v].sock # NextFd
         /\ create # NoCreate => create.socket.sock # NextFd
<1>1. FreeFds \subseteq Nat
  BY LifecycleAssumption DEF FreeFds
<1>2. \E fd \in FreeFds : \A g \in FreeFds : fd <= g
  BY <1>1, LeastExists
<1>3. NextFd \in FreeFds
  BY <1>2 DEF NextFd
<1>4. NextFd \in Fds /\ NextFd # 0 /\ ~kernel[NextFd].open
  BY <1>3, LifecycleAssumption DEF FreeFds
<1> QED  BY <1>4 DEF SocketInv, Truthful, Owns, CreateSound

\* What is true of a descriptor stays true while nobody touches it.
LEMMA TruthKept ==
  ASSUME NEW k, NEW m, NEW s, Truthful(k, s), s.sock # 0 => m[s.sock] = k[s.sock]
  PROVE  Truthful(m, s)
BY DEF Truthful, Owns, Ready, HasPeer, is_Initialized

\* create_Socket goes on to the next address with s.
LEMMA ContinueStep ==
  ASSUME SocketInv, create # NoCreate, create.addrs # <<>>,
         NEW s \in Values, Continue(s),
         NEW k \in [Fds -> {Closed} \cup OpenSockets], kernel' = k,
         \A v \in Vars :
           socks[v].sock # 0 => k[socks[v].sock] = kernel[socks[v].sock],
         Owns(k, s), \A v \in Vars : Apart(s, socks[v]),
         ~s.listened, ~s.connected,
         create.several /\ s.sock # 0 => k[s.sock].several,
         \/ create.several \/ Len(create.addrs) <= 1
         \/ s.sock = 0 /\ s.addr_arr = <<>>,
         \A fd \in Fds : k[fd].several \/ s.sock = fd \/ k[fd] = kernel[fd]
  PROVE  SocketInv'
<1>1. /\ SocketType /\ create \in Creates /\ CreateSound
      /\ socks' = socks /\ \A v \in Vars : socks[v] \in Values
      /\ create' = [create EXCEPT !.addrs = Tail(@), !.socket = s]
  BY DEF SocketInv, SocketType, Continue
<1>2. /\ create.addrs \in Seq(Families) /\ Tail(create.addrs) \in Seq(Families)
      /\ Len(Tail(create.addrs)) = Len(create.addrs) - 1
      /\ Len(create.addrs) \in Nat
      /\ Tail(create.addrs) # <<>> => Len(create.addrs) > 1
  <2>1. create.addrs \in Seq(Families)
    BY <1>1 DEF Creates
  <2> QED  BY <2>1
<1>3. /\ create'.var = create.var /\ create'.addrs = Tail(create.addrs)
      /\ create'.bind = create.bind /\ create'.listen = create.listen
      /\ create'.several = create.several /\ create'.socket = s
      /\ create' \in Creates
  BY <1>1, <1>2 DEF Creates
<1>4. SocketType'
  BY <1>1, <1>3 DEF SocketType
<1>5. \A v \in Vars : Truthful(k, socks[v])
  BY <1>1, TruthKept DEF SocketInv
<1>6. CreateSound'
  BY <1>1, <1>2, <1>3 DEF CreateSound
<1>7. OnlySeveralLost'
  <2> SUFFICES ASSUME NEW fd \in Fds, k[fd].open, ~k[fd].several
               PROVE  Holds(fd)'
    BY DEF OnlySeveralLost
  <2>1. CASE s.sock = fd
    BY <1>3, <2>1, CreateKnown DEF Holds
  <2>2. CASE k[fd] = kernel[fd]
    <3>1. Holds(fd) /\ fd # 0
      BY <2>2, LifecycleAssumption DEF SocketInv, OnlySeveralLost
    <3>2. create.socket.sock # fd
      BY <1>1, <2>2, <3>1 DEF CreateSound
    <3> QED  BY <1>1, <3>1, <3>2 DEF Holds
  <2> QED  BY <2>1, <2>2
<1> QED  BY <1>1, <1>4, <1>5, <1>6, <1>7 DEF SocketInv

\* A value that has come by a new descriptor.
LEMMA WithFdFacts ==
  ASSUME SocketInv, CanOpen
  PROVE  /\ create \in Creates /\ create.addrs # <<>>
         /\ WithFd \in Values /\ WithFd.sock = NextFd
         /\ WithFd.addr_arr = Append(create.socket.addr_arr, Head(create.addrs))
         /\ ~WithFd.listened /\ ~WithFd.connected
         /\ Opened \in OpenSockets /\ Opened.family = Head(create.addrs)
         /\ Opened.several = create.several
         /\ ~create.several => WithFd.addr_arr = <<Head(create.addrs)>>
<1>1. /\ create \in Creates /\ create.addrs # <<>> /\ create # NoCreate
      /\ CreateSound
  BY DEF SocketInv, SocketType, CanOpen
<1>2. create.addrs \in Seq(Families) /\ create.socket \in Values
  BY <1>1 DEF Creates
<1>3. Head(create.addrs) \in Families
  BY <1>1, <1>2
<1>4. NextFd \in Fds
  BY NextFdFree DEF CanOpen
<1>5. PICK s : s = create.socket
  OBVIOUS
<1>6. PICK a : a = Append(s.addr_arr, Head(create.addrs))
  OBVIOUS
<1>7. a \in Seq(Families)
  BY <1>2, <1>3, <1>5, <1>6, AppendProperties DEF Values
<1>8. WithFd = [s EXCEPT !.sock = NextFd, !.addr_arr = a]
  BY <1>2, <1>5, <1>6 DEF WithFd, Values
<1>9. /\ WithFd \in Values /\ WithFd.sock = NextFd /\ WithFd.addr_arr = a
      /\ WithFd.listened = s.listened /\ WithFd.connected = s.connected
  BY <1>2, <1>4, <1>5, <1>7, <1>8 DEF Values
<1>10. /\ Opened \in OpenSockets /\ Opened.family = Head(create.addrs)
       /\ Opened.several = create.several
  BY <1>1, <1>2, <1>3 DEF Opened, Fresh, OpenSockets, Creates, Values
<1>11. ~create.several => a = <<Head(create.addrs)>>
  <2>1. ~create.several => s.addr_arr = <<>>
    BY <1>1, <1>5 DEF CreateSound
  <2>2. PICK h : h = Head(create.addrs)
    OBVIOUS
  <2>3. Append(<<>>, h) = <<h>>
    OBVIOUS
  <2> QED  BY <1>6, <2>1, <2>2, <2>3
<1> QED  BY <1>1, <1>5, <1>6, <1>9, <1>10, <1>11 DEF CreateSound

\* A descriptor for the next address, and s that keeps it.
LEMMA KeepsFd ==
  ASSUME SocketInv, CanOpen, NEW s \in Values, Continue(s),
         s.sock = NextFd, s.addr_arr = WithFd.addr_arr,
         ~s.listened, ~s.connected, ~(create.bind /\ create.listen),
         NEW o \in OpenSockets, o.family = Opened.family,
         o.several = Opened.several,
         kernel' = [kernel EXCEPT ![NextFd] = o]
  PROVE  SocketInv'
<1> DEFINE k == [kernel EXCEPT ![NextFd] = o]
<1>1. /\ create \in Creates /\ create # NoCreate /\ create.addrs # <<>>
      /\ SocketType /\ CreateSound
  BY WithFdFacts, CreateKnown DEF SocketInv
<1>2. /\ NextFd \in Fds /\ NextFd # 0
      /\ \A v \in Vars : socks[v].sock # NextFd
  BY NextFdFree DEF CanOpen
<1>3. k \in [Fds -> {Closed} \cup OpenSockets]
  BY <1>1 DEF SocketType
<1>4. /\ k[NextFd] = o
      /\ \A fd \in Fds : fd # NextFd => k[fd] = kernel[fd]
  BY <1>1, <1>2 DEF SocketType
<1>5. \A v \in Vars : socks[v].sock # 0 => k[socks[v].sock] = kernel[socks[v].sock]
  BY <1>1, <1>2, <1>4 DEF SocketType, Values
<1> HIDE DEF k
<1>6. Owns(k, s)
  BY <1>4, WithFdFacts DEF Owns, OpenSockets
<1>7. \A v \in Vars : Apart(s, socks[v])
  BY <1>2 DEF Apart
<1>8. /\ create.several /\ s.sock # 0 => k[s.sock].several
      /\ create.several \/ Len(create.addrs) <= 1
  BY <1>1, <1>4, WithFdFacts DEF CreateSound
<1>9. \A fd \in Fds : k[fd].several \/ s.sock = fd \/ k[fd] = kernel[fd]
  BY <1>4
<1>10. PICK j : j = k /\ kernel' = j
  BY DEF k
<1> QED
  BY <1>1, <1>3, <1>5, <1>6, <1>7, <1>8, <1>9, <1>10, ContinueStep

LEMMA SocketFailsStep == SocketInv /\ SocketFails => SocketInv'
<1> SUFFICES ASSUME SocketInv, SocketFails PROVE SocketInv'
  OBVIOUS
<1>1. /\ create \in Creates /\ create # NoCreate /\ create.addrs # <<>>
      /\ SocketType /\ CreateSound /\ kernel' = kernel
  BY DEF SocketInv, SocketType, SocketFails
<1>2. PICK s : s = [create.socket EXCEPT !.sock = 0, !.binded = FALSE,
                                         !.listened = FALSE,
                                         !.connected = FALSE]
  OBVIOUS
<1>3. Continue(s)
  BY <1>2 DEF SocketFails
<1>4. /\ s \in Values /\ s.sock = 0 /\ ~s.listened /\ ~s.connected
      /\ s.addr_arr = create.socket.addr_arr
  BY <1>1, <1>2 DEF Creates, Values
<1>5. Owns(kernel, s) /\ \A v \in Vars : Apart(s, socks[v])
  BY <1>4 DEF Owns, Apart
<1>6. create.several \/ s.addr_arr = <<>>
  BY <1>1, <1>4 DEF CreateSound
<1>7. PICK k : k = kernel /\ k = kernel'
  BY <1>1
<1>8. k \in [Fds -> {Closed} \cup OpenSockets]
  BY <1>1, <1>7 DEF SocketType
<1> QED  BY <1>1, <1>3, <1>4, <1>5, <1>6, <1>7, <1>8, ContinueStep

LEMMA BindOrListenFailsStep == SocketInv /\ BindOrListenFails => SocketInv'
<1> SUFFICES ASSUME SocketInv, BindOrListenFails PROVE SocketInv'
  OBVIOUS
<1>1. /\ create \in Creates /\ create # NoCreate /\ create.addrs # <<>>
      /\ SocketType /\ CreateSound /\ kernel' = kernel
  BY DEF SocketInv, SocketType, BindOrListenFails, CanOpen
<1>2. PICK s : s = Cleared(WithFd)
  OBVIOUS
<1>3. Continue(s)
  BY <1>2 DEF BindOrListenFails
<1>4. /\ s \in Values /\ s.sock = 0 /\ ~s.listened /\ ~s.connected
      /\ s.addr_arr = <<>>
  <2>1. WithFd \in Values /\ <<>> \in Seq(Families)
    BY WithFdFacts DEF BindOrListenFails
  <2> QED  BY <1>2, <2>1 DEF Cleared, Values
<1>5. Owns(kernel, s) /\ \A v \in Vars : Apart(s, socks[v])
  BY <1>4 DEF Owns, Apart
<1>6. PICK k : k = kernel /\ k = kernel'
  BY <1>1
<1>7. k \in [Fds -> {Closed} \cup OpenSockets]
  BY <1>1, <1>6 DEF SocketType
<1> QED  BY <1>1, <1>3, <1>4, <1>5, <1>6, <1>7, ContinueStep

LEMMA OpenOnlyStep == SocketInv /\ OpenOnly => SocketInv'
<1> SUFFICES ASSUME SocketInv, OpenOnly PROVE SocketInv'
  OBVIOUS
<1>1. PICK s, o : s = WithFd /\ o = Opened
  OBVIOUS
<1>2. /\ CanOpen /\ ~create.bind /\ Continue(s)
      /\ kernel' = [kernel EXCEPT ![NextFd] = o]
  BY <1>1 DEF OpenOnly
<1>3. /\ s \in Values /\ s.sock = NextFd /\ s.addr_arr = WithFd.addr_arr
      /\ ~s.listened /\ ~s.connected
      /\ o \in OpenSockets /\ o.family = Opened.family
      /\ o.several = Opened.several
  BY <1>1, <1>2, WithFdFacts
<1> QED  BY <1>2, <1>3, KeepsFd

LEMMA BindSucceedsStep == SocketInv /\ BindSucceeds => SocketInv'
<1> SUFFICES ASSUME SocketInv, BindSucceeds PROVE SocketInv'
  OBVIOUS
<1>1. PICK s, o : /\ s = [WithFd EXCEPT !.binded = TRUE]
                  /\ o = [Opened EXCEPT !.bound = TRUE]
  OBVIOUS
<1>2. /\ CanOpen /\ ~create.listen /\ Continue(s)
      /\ kernel' = [kernel EXCEPT ![NextFd] = o]
  BY <1>1 DEF BindSucceeds
<1>3. /\ WithFd \in Values /\ WithFd.sock = NextFd
      /\ ~WithFd.listened /\ ~WithFd.connected
      /\ Opened \in OpenSockets
  BY <1>2, WithFdFacts
<1>4. /\ s \in Values /\ s.sock = NextFd /\ s.addr_arr = WithFd.addr_arr
      /\ ~s.listened /\ ~s.connected
  BY <1>1, <1>3 DEF Values
<1>5. /\ o \in OpenSockets /\ o.family = Opened.family
      /\ o.several = Opened.several
  BY <1>1, <1>3 DEF OpenSockets
<1> QED  BY <1>2, <1>4, <1>5, KeepsFd

LEMMA CreateSocketStep ==
  ASSUME SocketInv, NEW v \in Vars, NEW t \in Types, NEW a \in Seq(Families),
         NEW b \in BOOLEAN, NEW l \in BOOLEAN, create_Socket(v, t, a, b, l)
  PROVE  SocketInv'
<1> DEFINE s == [Socket_Dulce EXCEPT !.addr_typ = t]
<1>1. /\ SocketType /\ create = NoCreate /\ ~is_Initialized(socks[v])
      /\ kernel' = kernel /\ socks' = socks
      /\ create' = [var |-> v, addrs |-> a, bind |-> b, listen |-> l,
                    several |-> Len(a) > 1 /\ ~(b /\ l), socket |-> s]
  BY DEF SocketInv, create_Socket
<1>2. /\ s \in Values /\ s.sock = 0 /\ s.addr_arr = <<>>
      /\ ~s.listened /\ ~s.connected
  <2>1. <<>> \in Seq(Families)
    OBVIOUS
  <2>2. Socket_Dulce \in Values
    BY <2>1 DEF Socket_Dulce, Values
  <2>3. s \in Values
    BY <2>2 DEF Values
  <2>4. s.sock = 0 /\ ~s.listened /\ ~s.connected
    BY DEF Socket_Dulce
  <2>5. s.addr_arr = <<>>
    BY DEF Socket_Dulce
  <2> QED  BY <2>3, <2>4, <2>5
<1> HIDE DEF s
<1>3. create' \in Creates
  <2>1. PICK c \in BOOLEAN : c = (Len(a) > 1 /\ ~(b /\ l))
    OBVIOUS
  <2> QED  BY <1>1, <1>2, <2>1 DEF Creates
<1>4. SocketType'
  BY <1>1, <1>3 DEF SocketType
<1>5. CreateSound'
  <2>1. /\ create'.var = v /\ create'.socket = s /\ create'.addrs = a
        /\ create'.bind = b /\ create'.listen = l
        /\ create'.several = (Len(a) > 1 /\ ~(b /\ l))
    BY <1>1
  <2>2. Len(a) \in Nat
    OBVIOUS
  <2>3. Owns(kernel', s) /\ \A w \in Vars : Apart(s, socks'[w])
    BY <1>2 DEF Owns, Apart
  <2>4. PICK c : c = create'
    OBVIOUS
  <2>5. ~is_Initialized(socks'[c.var])
    BY <1>1, <2>1, <2>4
  <2>6. c.bind /\ c.listen => ~c.several
    BY <2>1, <2>4
  <2>7. ~c.several /\ ~(c.bind /\ c.listen) => Len(c.addrs) <= 1
    <3>1. PICK r \in BOOLEAN : r = (Len(a) > 1 /\ ~(b /\ l))
      OBVIOUS
    <3>2. c.several = r /\ c.bind = b /\ c.listen = l /\ c.addrs = a
      BY <2>1, <2>4, <3>1
    <3>3. ASSUME ~(Len(a) <= 1), ~(b /\ l) PROVE r
      <4>1. Len(a) > 1
        BY <2>2, <3>3
      <4> QED  BY <3>1, <3>3, <4>1
    <3> QED  BY <3>2, <3>3
  <2> QED  BY <1>2, <2>1, <2>3, <2>4, <2>5, <2>6, <2>7 DEF CreateSound
<1>6. OnlySeveralLost'
  BY <1>1, CreateKnown DEF SocketInv, OnlySeveralLost, Holds
<1> QED  BY <1>1, <1>4, <1>5, <1>6 DEF SocketInv

\* A value s for the free variable v, from the running create_Socket or for
\* a new descriptor, changes nothing for the others.
LEMMA ValueStored ==
  ASSUME SocketInv, NEW v \in Vars, ~is_Initialized(socks[v]),
         NEW s \in Values, socks' = [socks EXCEPT ![v] = s],
         NEW k \in [Fds -> {Closed} \cup OpenSockets], kernel' = k,
         create' = NoCreate,
         \A w \in Vars :
           socks[w].sock # 0 => k[socks[w].sock] = kernel[socks[w].sock],
         Truthful(k, s), \A w \in Vars : Apart(s, socks[w]),
         \A fd \in Fds : k[fd].open =>
           k[fd].several \/ s.sock = fd \/ \E w \in Vars : socks[w].sock = fd
  PROVE  SocketInv'
<1>1. /\ SocketType /\ \A w \in Vars : socks[w] \in Values
      /\ socks' \in [Vars -> Values] /\ socks'[v] = s
      /\ \A w \in Vars \ {v} : socks'[w] = socks[w]
      /\ socks[v].sock = 0
  BY DEF SocketInv, SocketType, is_Initialized
<1>2. SocketType'
  BY <1>1 DEF SocketType
<1>3. \A w \in Vars : Truthful(k, socks'[w])
  <2>1. \A w \in Vars : Truthful(k, socks[w])
    BY TruthKept DEF SocketInv
  <2> QED  BY <1>1, <2>1
<1>4. \A x, y \in Vars : x # y => Apart(socks'[x], socks'[y])
  BY <1>1 DEF SocketInv, Apart
<1>5. OnlySeveralLost'
  <2> SUFFICES ASSUME NEW fd \in Fds, k[fd].open, ~k[fd].several
               PROVE  \E w \in Vars : socks'[w].sock = fd
    BY DEF OnlySeveralLost, Holds
  <2>1. fd # 0
    BY LifecycleAssumption
  <2> QED  BY <1>1, <2>1
<1> QED  BY <1>2, <1>3, <1>4, <1>5 DEF SocketInv, CreateSound

LEMMA LoopDoneStep == SocketInv /\ LoopDone => SocketInv'
<1> SUFFICES ASSUME SocketInv, LoopDone PROVE SocketInv'
  OBVIOUS
<1>1. /\ SocketType /\ create \in Creates /\ create # NoCreate /\ CreateSound
      /\ kernel' = kernel /\ create' = NoCreate
      /\ socks' = [socks EXCEPT ![create.var] = create.socket]
  BY DEF SocketInv, SocketType, LoopDone
<1>2. PICK v, s, k : v = create.var /\ s = create.socket /\ k = kernel
  OBVIOUS
<1>3. /\ v \in Vars /\ s \in Values /\ ~is_Initialized(socks[v])
      /\ \A w \in Vars : Apart(s, socks[w])
      /\ Owns(k, s) /\ ~s.listened /\ ~s.connected
  BY <1>1, <1>2 DEF Creates, CreateSound
<1>4. Truthful(k, s)
  BY <1>3 DEF Truthful, Ready, HasPeer
<1>5. k \in [Fds -> {Closed} \cup OpenSockets] /\ kernel' = k
  BY <1>1, <1>2 DEF SocketType
<1>6. \A fd \in Fds : k[fd].open =>
        k[fd].several \/ s.sock = fd \/ \E w \in Vars : socks[w].sock = fd
  BY <1>1, <1>2 DEF SocketInv, OnlySeveralLost, Holds
<1> QED  BY <1>1, <1>2, <1>3, <1>4, <1>5, <1>6, ValueStored

\* What is stored with a new descriptor.
LEMMA ValueWithFd ==
  ASSUME SocketInv, FreeFds # {}, NEW v \in Vars, ~is_Initialized(socks[v]),
         NEW s \in Values, s.sock = NextFd,
         socks' = [socks EXCEPT ![v] = s], create' = NoCreate,
         create # NoCreate => create.several \/ create.socket.sock = 0,
         NEW o \in OpenSockets, kernel' = [kernel EXCEPT ![NextFd] = o],
         s.addr_arr = <<o.family>>,
         s.listened => s.binded /\ o.bound
                         /\ (s.addr_typ = "tcp" => o.listening),
         s.connected /\ s.addr_typ = "tcp" => o.peer
  PROVE  SocketInv'
<1>1. SocketType /\ OnlySeveralLost /\ CreateSound
  BY DEF SocketInv
<1>2. /\ NextFd \in Fds /\ NextFd # 0
      /\ \A w \in Vars : socks[w].sock # NextFd
  BY NextFdFree
<1>3. PICK k : k = [kernel EXCEPT ![NextFd] = o]
  OBVIOUS
<1>4. /\ k \in [Fds -> {Closed} \cup OpenSockets] /\ k[NextFd] = o
      /\ \A fd \in Fds : fd # NextFd => k[fd] = kernel[fd]
  BY <1>1, <1>2, <1>3 DEF SocketType
<1>5. \A w \in Vars :
        socks[w].sock # 0 => k[socks[w].sock] = kernel[socks[w].sock]
  BY <1>1, <1>2, <1>4 DEF SocketType, Values
<1>6. Truthful(k, s)
  BY <1>2, <1>4 DEF Truthful, Owns, Ready, HasPeer, is_Initialized, OpenSockets
<1>7. \A w \in Vars : Apart(s, socks[w])
  BY <1>2 DEF Apart
<1>8. \A fd \in Fds : k[fd].open =>
        k[fd].several \/ s.sock = fd \/ \E w \in Vars : socks[w].sock = fd
  <2> SUFFICES ASSUME NEW fd \in Fds, k[fd].open
      PROVE k[fd].several \/ s.sock = fd \/ \E w \in Vars : socks[w].sock = fd
    OBVIOUS
  <2>1. CASE fd = NextFd
    BY <2>1
  <2>2. CASE fd # NextFd
    <3>1. fd # 0 /\ k[fd] = kernel[fd]
      BY <1>4, <2>2, LifecycleAssumption
    <3>2. kernel[fd].several \/ Holds(fd)
      BY <1>1, <3>1 DEF OnlySeveralLost
    <3>3. create # NoCreate /\ create.socket.sock = fd => kernel[fd].several
      BY <1>1, <3>1 DEF CreateSound
    <3> QED  BY <3>1, <3>2, <3>3 DEF Holds
  <2> QED  BY <2>1, <2>2
<1>9. kernel' = k
  BY <1>3
<1> QED  BY <1>4, <1>5, <1>6, <1>7, <1>8, <1>9, ValueStored

LEMMA ListensStep == SocketInv /\ Listens => SocketInv'
<1> SUFFICES ASSUME SocketInv, Listens PROVE SocketInv'
  OBVIOUS
<1>1. PICK v, s, o :
        /\ v = create.var
        /\ s = [WithFd EXCEPT !.binded = TRUE, !.listened = TRUE]
        /\ o = [Opened EXCEPT !.bound = TRUE,
                  !.listening = create.socket.addr_typ = "tcp"]
  OBVIOUS
<1>2. /\ CanOpen /\ create.bind /\ create.listen /\ create' = NoCreate
      /\ kernel' = [kernel EXCEPT ![NextFd] = o]
      /\ socks' = [socks EXCEPT ![v] = s]
  BY <1>1 DEF Listens
<1>3. /\ create \in Creates /\ create # NoCreate /\ CreateSound
      /\ create.addrs # <<>> /\ FreeFds # {}
  BY <1>2, WithFdFacts DEF SocketInv, CanOpen
<1>4. ~create.several /\ create.socket.sock = 0
  BY <1>2, <1>3 DEF CreateSound
<1>5. /\ WithFd \in Values /\ WithFd.sock = NextFd
      /\ WithFd.addr_arr = <<Opened.family>>
      /\ ~WithFd.connected /\ Opened \in OpenSockets
  BY <1>2, <1>4, WithFdFacts
<1>6. WithFd.addr_typ = create.socket.addr_typ
  BY <1>3 DEF WithFd, Creates, Values
<1>7. /\ s \in Values /\ s.sock = NextFd /\ s.addr_arr = <<Opened.family>>
      /\ ~s.connected /\ s.binded /\ s.addr_typ = create.socket.addr_typ
  BY <1>1, <1>5, <1>6 DEF Values
<1>8. /\ o \in OpenSockets /\ o.family = Opened.family /\ o.bound
      /\ o.listening = (create.socket.addr_typ = "tcp")
  BY <1>1, <1>5 DEF OpenSockets
<1>9. v \in Vars /\ ~is_Initialized(socks[v])
  BY <1>1, <1>3 DEF CreateSound, Creates
<1>10. s.addr_arr = <<o.family>> /\ (s.addr_typ = "tcp" => o.listening)
  BY <1>7, <1>8
<1> QED  BY <1>2, <1>3, <1>4, <1>7, <1>8, <1>9, <1>10, ValueWithFd

\* A value of v that keeps its descriptor, or gives it up, and a descriptor
\* that changes with it: what the steps outside create_Socket come to.
LEMMA ValueChanged ==
  ASSUME SocketInv, create' = create, create = NoCreate,
         NEW v \in Vars, NEW s \in Values, socks' = [socks EXCEPT ![v] = s],
         NEW k \in [Fds -> {Closed} \cup OpenSockets], kernel' = k,
         \A w \in Vars \ {v} :
           socks[w].sock # 0 => k[socks[w].sock] = kernel[socks[w].sock],
         Truthful(k, s), s.sock = 0 \/ s.sock = socks[v].sock,
         \A fd \in Fds :
           k[fd].open => s.sock = fd \/ (k[fd] = kernel[fd] /\ socks[v].sock # fd)
  PROVE  SocketInv'
<1>1. /\ SocketType /\ \A w \in Vars : socks[w] \in Values
      /\ socks' \in [Vars -> Values] /\ socks'[v] = s
      /\ \A w \in Vars \ {v} : socks'[w] = socks[w]
  BY DEF SocketInv, SocketType
<1>2. SocketType'
  BY <1>1 DEF SocketType
<1>3. \A w \in Vars : Truthful(k, socks'[w])
  <2>1. \A w \in Vars \ {v} : Truthful(k, socks[w])
    BY TruthKept DEF SocketInv
  <2> QED  BY <1>1, <2>1
<1>4. \A x, y \in Vars : x # y => Apart(socks'[x], socks'[y])
  BY <1>1 DEF SocketInv, Apart
<1>5. OnlySeveralLost'
  <2> SUFFICES ASSUME NEW fd \in Fds, k[fd].open, ~k[fd].several
               PROVE  \E w \in Vars : socks'[w].sock = fd
    BY DEF OnlySeveralLost, Holds
  <2>1. CASE s.sock = fd
    BY <1>1, <2>1
  <2>2. CASE k[fd] = kernel[fd] /\ socks[v].sock # fd
    <3>1. PICK w \in Vars : socks[w].sock = fd
      BY <2>2 DEF SocketInv, OnlySeveralLost, Holds
    <3> QED  BY <1>1, <2>2, <3>1
  <2> QED  BY <2>1, <2>2
<1> QED  BY <1>2, <1>3, <1>4, <1>5 DEF SocketInv, CreateSound

LEMMA WaitFailsStep ==
  ASSUME SocketInv, NEW l \in Vars, NEW v \in Vars, WaitFails(l, v)
  PROVE  SocketInv'
<1>1. PICK s, k : s = Socket_Dulce /\ k = kernel
  OBVIOUS
<1>2. /\ create = NoCreate /\ create' = create /\ kernel' = k
      /\ socks' = [socks EXCEPT ![v] = s] /\ socks[v].sock = 0
  BY <1>1 DEF WaitFails, is_Initialized
<1>3. s \in Values
  <2>1. <<>> \in Seq(Families)
    OBVIOUS
  <2> QED  BY <1>1, <2>1 DEF Socket_Dulce, Values
<1>4. s.sock = 0 /\ Truthful(k, s)
  BY <1>1 DEF Socket_Dulce, Truthful, Owns, Ready, HasPeer
<1>5. k \in [Fds -> {Closed} \cup OpenSockets]
  BY <1>1 DEF SocketInv, SocketType
<1>6. \A fd \in Fds : k[fd] = kernel[fd] /\ socks[v].sock # fd
  BY <1>1, <1>2, LifecycleAssumption
<1> QED  BY <1>1, <1>2, <1>3, <1>4, <1>5, <1>6, ValueChanged

LEMMA ConnectUdpStep ==
  ASSUME SocketInv, NEW v \in Vars, ConnectUdp(v)
  PROVE  SocketInv'
<1>1. PICK s, k : s = [socks[v] EXCEPT !.connected = TRUE] /\ k = kernel
  OBVIOUS
<1>2. /\ create = NoCreate /\ create' = create /\ kernel' = k
      /\ socks' = [socks EXCEPT ![v] = s]
      /\ socks[v].sock # 0 /\ ~socks[v].listened /\ socks[v].addr_typ = "udp"
  BY <1>1 DEF ConnectUdp, MayConnect, is_Initialized
<1>3. SocketType /\ socks[v] \in Values /\ Truthful(k, socks[v])
  BY <1>1 DEF SocketInv, SocketType
<1>4. /\ s \in Values /\ s.sock = socks[v].sock /\ ~s.listened
      /\ s.addr_typ = "udp" /\ s.addr_arr = socks[v].addr_arr
  BY <1>1, <1>2, <1>3 DEF Values
<1>5. Truthful(k, s)
  BY <1>3, <1>4 DEF Truthful, Owns, Ready, HasPeer
<1>6. k \in [Fds -> {Closed} \cup OpenSockets]
  BY <1>1, <1>3 DEF SocketType
<1>7. \A fd \in Fds :
        k[fd].open => s.sock = fd \/ (k[fd] = kernel[fd] /\ socks[v].sock # fd)
  BY <1>1, <1>4
<1> QED  BY <1>1, <1>2, <1>4, <1>5, <1>6, <1>7, ValueChanged

LEMMA ConnectTcpStep ==
  ASSUME SocketInv, NEW v \in Vars, ConnectTcp(v)
  PROVE  SocketInv'
<1>1. PICK s, k : s = socks[v] /\ k = [kernel EXCEPT ![s.sock].peer = TRUE]
  OBVIOUS
<1>2. /\ create = NoCreate /\ create' = create /\ kernel' = k /\ socks' = socks
      /\ s.sock # 0
  BY <1>1 DEF ConnectTcp, MayConnect, is_Initialized
<1>3. SocketType /\ s \in Values /\ Truthful(kernel, s) /\ s.sock \in Fds
  BY <1>1, <1>2 DEF SocketInv, SocketType, Values
<1>4. kernel[s.sock] \in OpenSockets
  BY <1>2, <1>3, CreateKnown DEF SocketType, Truthful, Owns
<1>5. /\ k \in [Fds -> {Closed} \cup OpenSockets]
      /\ k[s.sock] = [kernel[s.sock] EXCEPT !.peer = TRUE]
      /\ \A fd \in Fds : fd # s.sock => k[fd] = kernel[fd]
  <2>1. [kernel[s.sock] EXCEPT !.peer = TRUE] \in OpenSockets
    BY <1>4 DEF OpenSockets
  <2> QED  BY <1>1, <1>3, <2>1 DEF SocketType
<1>6. /\ k[s.sock].open /\ k[s.sock].peer
      /\ k[s.sock].family = kernel[s.sock].family
      /\ k[s.sock].several = kernel[s.sock].several
      /\ k[s.sock].bound = kernel[s.sock].bound
      /\ k[s.sock].listening = kernel[s.sock].listening
  BY <1>4, <1>5 DEF OpenSockets
<1>7. Truthful(k, s)
  BY <1>3, <1>6 DEF Truthful, Owns, Ready, HasPeer
<1>8. socks' = [socks EXCEPT ![v] = s]
  BY <1>1, <1>2 DEF SocketInv, SocketType
<1>9. \A w \in Vars \ {v} :
        socks[w].sock # 0 => k[socks[w].sock] = kernel[socks[w].sock]
  BY <1>1, <1>2, <1>3, <1>5 DEF SocketInv, SocketType, Apart, Values
<1>10. \A fd \in Fds :
        k[fd].open => s.sock = fd \/ (k[fd] = kernel[fd] /\ socks[v].sock # fd)
  BY <1>1, <1>5
<1>11. s.sock = socks[v].sock
  BY <1>1
<1> QED
  BY <1>2, <1>3, <1>5, <1>7, <1>8, <1>9, <1>10, <1>11, ValueChanged

LEMMA CloseStep ==
  ASSUME SocketInv, NEW v \in Vars, Close(v)
  PROVE  SocketInv'
<1>1. PICK s, d, k : /\ s = Socket_Dulce /\ d = socks[v].sock
                     /\ k = [kernel EXCEPT ![d] = Closed]
  OBVIOUS
<1>2. /\ create = NoCreate /\ create' = create /\ kernel' = k
      /\ socks' = [socks EXCEPT ![v] = s] /\ d # 0
  BY <1>1 DEF Close, is_Initialized
<1>3. s \in Values
  <2>1. <<>> \in Seq(Families)
    OBVIOUS
  <2> QED  BY <1>1, <2>1 DEF Socket_Dulce, Values
<1>4. s.sock = 0 /\ Truthful(k, s)
  BY <1>1 DEF Socket_Dulce, Truthful, Owns, Ready, HasPeer
<1>5. SocketType /\ d \in Fds
  BY <1>1, <1>2 DEF SocketInv, SocketType, Values
<1>6. /\ k \in [Fds -> {Closed} \cup OpenSockets] /\ k[d] = Closed
      /\ \A fd \in Fds : fd # d => k[fd] = kernel[fd]
  BY <1>1, <1>5 DEF SocketType
<1>7. \A w \in Vars \ {v} :
        socks[w].sock # 0 => k[socks[w].sock] = kernel[socks[w].sock]
  BY <1>1, <1>2, <1>5, <1>6 DEF SocketInv, SocketType, Apart, Values
<1>8. \A fd \in Fds :
        k[fd].open => s.sock = fd \/ (k[fd] = kernel[fd] /\ socks[v].sock # fd)
  BY <1>1, <1>6, CreateKnown
<1>9. s.sock = 0 \/ s.sock = socks[v].sock
  BY <1>4
<1> QED  BY <1>2, <1>3, <1>4, <1>6, <1>7, <1>8, <1>9, ValueChanged

LEMMA AcceptTcpStep ==
  ASSUME SocketInv, NEW l \in Vars, NEW v \in Vars, AcceptTcp(l, v)
  PROVE  SocketInv'
<1>1. PICK f : f = kernel[socks[l].sock].family
  OBVIOUS
<1>2. PICK s, o :
        /\ s = [sock |-> NextFd, addr_typ |-> "tcp", addr_arr |-> <<f>>,
                binded |-> FALSE, connected |-> TRUE, listened |-> FALSE]
        /\ o = [Fresh(f, "tcp", FALSE) EXCEPT !.peer = TRUE]
  OBVIOUS
<1>3. /\ MayAccept(l) /\ ~is_Initialized(socks[v]) /\ create' = create
      /\ kernel' = [kernel EXCEPT ![NextFd] = o]
      /\ socks' = [socks EXCEPT ![v] = s]
  BY <1>1, <1>2 DEF AcceptTcp, AcceptedFlags
<1>4. create = NoCreate /\ FreeFds # {} /\ socks[l].sock # 0
  BY <1>3 DEF MayAccept, is_Initialized
<1>5. f \in Families
  <2>1. SocketType /\ socks[l] \in Values /\ Owns(kernel, socks[l])
    BY DEF SocketInv, SocketType, Truthful
  <2>2. kernel[socks[l].sock] \in OpenSockets
    BY <1>4, <2>1, CreateKnown DEF SocketType, Owns, Values
  <2> QED  BY <1>1, <2>2 DEF OpenSockets
<1>6. /\ s \in Values /\ s.sock = NextFd /\ ~s.listened
      /\ s.addr_arr = <<f>>
  <2>1. NextFd \in Fds
    BY <1>4, NextFdFree
  <2>2. <<f>> \in Seq(Families)
    BY <1>5
  <2> QED  BY <1>2, <2>1, <2>2 DEF Values, Types
<1>7. o \in OpenSockets /\ o.family = f /\ o.peer
  BY <1>2, <1>5 DEF Fresh, OpenSockets, Types
<1> QED  BY <1>3, <1>4, <1>6, <1>7, ValueWithFd

LEMMA ReceiveUdpStep ==
  ASSUME SocketInv, NEW l \in Vars, NEW v \in Vars, ReceiveUdp(l, v)
  PROVE  SocketInv'
<1>1. PICK f : f = kernel[socks[l].sock].family
  OBVIOUS
<1>2. socks[l].sock # 0 /\ create_Socket(v, "udp", <<f>>, FALSE, FALSE)
  BY <1>1 DEF ReceiveUdp, MayAccept, is_Initialized
<1>3. f \in Families
  <2>1. SocketType /\ socks[l] \in Values /\ Owns(kernel, socks[l])
    BY DEF SocketInv, SocketType, Truthful
  <2>2. kernel[socks[l].sock] \in OpenSockets
    BY <1>2, <2>1, CreateKnown DEF SocketType, Owns, Values
  <2> QED  BY <1>1, <2>2 DEF OpenSockets
<1>4. PICK a \in Seq(Families) : a = <<f>>
  <2>1. <<f>> \in Seq(Families)
    BY <1>3
  <2> QED  BY <2>1
<1>5. "udp" \in Types
  BY DEF Types
<1> QED  BY <1>2, <1>4, <1>5, CreateSocketStep

LEMMA SocketStep == SocketInv /\ [Next]_vars => SocketInv'
<1> SUFFICES ASSUME SocketInv, [Next]_vars PROVE SocketInv'
  OBVIOUS
<1>1. CASE UNCHANGED vars
  BY <1>1 DEF vars, SocketInv, SocketType, CreateSound, OnlySeveralLost, Holds
<1>2. CASE \E v \in Vars, t \in Types, a \in AddrLists, b, l \in BOOLEAN :
             create_Socket(v, t, a, b, l)
  <2>1. AddrLists \subseteq Seq(Families)
    BY LifecycleAssumption DEF AddrLists
  <2> QED  BY <1>2, <2>1, CreateSocketStep
<1>3. CASE \E l, v \in Vars :
             AcceptTcp(l, v) \/ ReceiveUdp(l, v) \/ WaitFails(l, v)
  BY <1>3, AcceptTcpStep, ReceiveUdpStep, WaitFailsStep
<1>4. CASE \E v \in Vars : ConnectUdp(v) \/ ConnectTcp(v) \/ Close(v)
  BY <1>4, ConnectUdpStep, ConnectTcpStep, CloseStep
<1> QED
  BY <1>1, <1>2, <1>3, <1>4, SocketFailsStep, OpenOnlyStep,
     BindOrListenFailsStep, BindSucceedsStep, ListensStep, LoopDoneStep
     DEF Next

(* However create_Socket, wait_Connection, dulce_Connect and closing       *)
(* follow each other and fail: a variable that counts as initialized has   *)
(* an open descriptor of its own, one that counts as listening can be      *)
(* waited on, one that counts as connected has a peer, and descriptors are *)
(* lost only by create_Socket with several addresses.                      *)
THEOREM SocketsTellTheTruth == ValuesSpec => []SocketsAreTrue
<1>1. ValuesInit => SocketInv
  BY SocketInit DEF ValuesInit
<1>2. [ValuesNext]_<<part, vars, addressvars>> => [Next]_vars
  BY DEF ValuesNext
<1> QED  BY <1>1, <1>2, SocketStep, SocketInvTrue, PTL DEF ValuesSpec

-----------------------------------------------------------------------------
(* Socket addresses.                                                       *)

Headers ==
  {Addresses!Header(f, hi, lo) :
     f \in Addresses!AddressFamilies, hi \in Bytes, lo \in Bytes}

\* A socket address as the system gives it.
NativeType ==
  /\ native \in Seq(Headers \cup Words)
  /\ native[1] \in Headers
  /\ Len(native) = Addresses!SizeOf(native[1].family)

Keeping ==
  [ai_family |-> native[1].family, ai_addrlen |-> Len(native),
   ai_addr |-> SubSeq(native, 1, 4)]

AddressInv ==
  /\ NativeType
  /\ kept = Addresses!NoAddress \/ kept = Keeping
  /\ WhatFitsSurvives

LEMMA HeaderFacts ==
  ASSUME NEW h \in Headers
  PROVE  /\ h.family \in {"ipv4", "ipv6"}
         /\ DOMAIN h.port = 1 .. 2
         /\ h.port[1] \in Bytes /\ h.port[2] \in Bytes
BY DEF Headers, Addresses!Header, Addresses!AddressFamilies

\* The bytes of a number, the other way round.
LEMMA SwappedBytes ==
  ASSUME NEW hi \in 0 .. 255, NEW lo \in 0 .. 255
  PROVE  Addresses!ntohs(hi + 256 * lo) = 256 * hi + lo
<1>1. (hi + 256 * lo) % 256 = hi
  OBVIOUS
<1>2. (hi + 256 * lo) \div 256 = lo
  OBVIOUS
<1> QED  BY <1>1, <1>2 DEF Addresses!ntohs

\* What is read at the place of ai_addr begins with the header and the three
\* words after it.
LEMMA LoadedFacts ==
  ASSUME AddressInv, kept # Addresses!NoAddress,
         NEW n \in {4, 7}, NEW words \in Addresses!Loaded(n)
  PROVE  /\ words[1] = native[1] /\ words[2] = native[2]
         /\ words[3] = native[3] /\ words[4] = native[4]
         /\ words \in Seq(Headers \cup Words) /\ Len(words) = n
<1>1. NativeType /\ kept.ai_addr = SubSeq(native, 1, 4)
  BY DEF AddressInv, Keeping
<1>2. Len(native) \in {4, 7} /\ native \in Seq(Headers \cup Words)
  BY <1>1, HeaderFacts DEF NativeType, Addresses!SizeOf
<1>3. PICK a : a = SubSeq(native, 1, 4)
  OBVIOUS
<1>4. /\ a \in Seq(Headers \cup Words) /\ Len(a) = 4
      /\ a[1] = native[1] /\ a[2] = native[2] /\ a[3] = native[3]
      /\ a[4] = native[4]
  BY <1>2, <1>3
<1>5. PICK rest \in [1 .. n - 4 -> Words] : words = a \o rest
  BY <1>1, <1>3 DEF Addresses!Loaded
<1>6. rest \in Seq(Headers \cup Words) /\ Len(rest) = n - 4
  <2>1. n - 4 \in Nat
    OBVIOUS
  <2> QED  BY <2>1
<1>7. /\ words \in Seq(Headers \cup Words) /\ Len(words) = Len(a) + Len(rest)
      /\ \A i \in 1 .. Len(a) : words[i] = a[i]
  <2>1. /\ words \in Seq(Headers \cup Words)
        /\ Len(words) = Len(a) + Len(rest)
        /\ \A i \in 1 .. Len(a) + Len(rest) :
             words[i] = IF i <= Len(a) THEN a[i] ELSE rest[i - Len(a)]
    BY <1>4, <1>5, <1>6, ConcatProperties
  <2>2. Len(a) \in Nat /\ Len(rest) \in Nat
    BY <1>4, <1>6
  <2> QED  BY <2>1, <2>2
<1> QED  BY <1>4, <1>6, <1>7

\* The port is that of the system's address.
LEMMA PortFacts ==
  ASSUME AddressInv, NEW words, words[1] = native[1]
  PROVE  Addresses!PortIn(words)
           = 256 * native[1].port[1] + native[1].port[2]
<1>1. native[1].port[1] \in 0 .. 255 /\ native[1].port[2] \in 0 .. 255
  BY HeaderFacts, AddressesAssumption
     DEF AddressInv, NativeType, Addresses!BytesAssumption
<1>2. PICK hi, lo : hi = native[1].port[1] /\ lo = native[1].port[2]
  OBVIOUS
<1>3. Addresses!PortIn(words) = Addresses!ntohs(hi + 256 * lo)
  BY <1>2 DEF Addresses!PortIn, Addresses!Number
<1> QED  BY <1>1, <1>2, <1>3, SwappedBytes

LEMMA Half ==
  ASSUME NEW W, NEW s \in Seq(W), Len(s) = 7, NEW a, a = SubSeq(s, 3, 6)
  PROVE  a \in Seq(W) /\ Len(a) = 4 /\ a[1] = s[3] /\ a[2] = s[4]
<1>1. 3 \in 1 .. Len(s) + 1 /\ 6 \in 3 - 1 .. Len(s)
  OBVIOUS
<1>2. a = [i \in 1 .. 4 |-> s[i + 2]]
  BY <1>1
<1> QED  BY <1>2

\* So is an ipv4 address, and the first half of an ipv6 one.
LEMMA AddressFacts ==
  ASSUME AddressInv, kept # Addresses!NoAddress,
         NEW n \in {4, 7}, NEW words \in Addresses!Loaded(n),
         n = Addresses!SizeOf(native[1].family)
  PROVE  /\ native[1].family = "ipv4" =>
              Addresses!AddressOf(words) = Addresses!AddressOf(native)
         /\ native[1].family = "ipv6" =>
              SubSeq(Addresses!AddressOf(words), 1, 2) =
                SubSeq(Addresses!AddressOf(native), 1, 2)
<1> DEFINE W == Headers \cup Words
<1>1. /\ words[1] = native[1] /\ words[2] = native[2]
      /\ words[3] = native[3] /\ words[4] = native[4]
      /\ words \in Seq(W) /\ Len(words) = n
  BY LoadedFacts
<1>2. /\ native \in Seq(W) /\ native[1].family \in {"ipv4", "ipv6"}
      /\ Len(native) = n
  BY HeaderFacts DEF AddressInv, NativeType
<1> HIDE DEF W
<1>3. ASSUME native[1].family = "ipv4"
      PROVE  Addresses!AddressOf(words) = Addresses!AddressOf(native)
  <2>1. SubSeq(words, 2, 2) = SubSeq(native, 2, 2)
    BY <1>1, <1>2
  <2> QED  BY <1>1, <1>3, <2>1 DEF Addresses!AddressOf
<1>4. ASSUME native[1].family = "ipv6"
      PROVE  SubSeq(Addresses!AddressOf(words), 1, 2) =
               SubSeq(Addresses!AddressOf(native), 1, 2)
  <2>1. n = 7
    BY <1>4 DEF Addresses!SizeOf
  <2>2. PICK a, b : a = SubSeq(words, 3, 6) /\ b = SubSeq(native, 3, 6)
    OBVIOUS
  <2>3. a \in Seq(W) /\ Len(a) = 4 /\ a[1] = words[3] /\ a[2] = words[4]
    BY <1>1, <2>1, <2>2, Half
  <2>4. b \in Seq(W) /\ Len(b) = 4 /\ b[1] = native[3] /\ b[2] = native[4]
    BY <1>2, <2>1, <2>2, Half
  <2>5. SubSeq(a, 1, 2) = SubSeq(b, 1, 2)
    BY <1>1, <2>3, <2>4
  <2> QED  BY <1>1, <1>4, <2>2, <2>5 DEF Addresses!AddressOf
<1> QED  BY <1>3, <1>4

LEMMA AddressStep == AddressInv /\ [Addresses!Next]_addressvars => AddressInv'
<1> SUFFICES ASSUME AddressInv, [Addresses!Next]_addressvars
             PROVE  AddressInv'
  OBVIOUS
<1> USE DEF WhatFitsSurvives, Addresses!WhatFitsSurvives,
        Addresses!PortSurvives, Addresses!IPv4Survives,
        Addresses!NetworkSurvives, Addresses!HasPort, Addresses!HasAddress,
        Addresses!Family
<1>1. CASE UNCHANGED addressvars
  BY <1>1 DEF addressvars, AddressInv, NativeType, Keeping
<1>2. CASE Addresses!Keep
  BY <1>2 DEF Addresses!Keep, Addresses!Sockaddr, AddressInv, NativeType,
     Keeping
<1>3. ASSUME kept # Addresses!NoAddress
      PROVE  LET n == Addresses!SizeOf(native[1].family)
             IN  n \in {4, 7} /\ kept.ai_addrlen = n
                   /\ Addresses!SizeOf(kept.ai_family) = n
  <2>1. kept = Keeping /\ NativeType /\ native[1].family \in {"ipv4", "ipv6"}
    BY <1>3, HeaderFacts DEF AddressInv, NativeType
  <2> QED  BY <2>1 DEF Keeping, NativeType, Addresses!SizeOf
<1>4. CASE Addresses!port_Number
  <2>1. PICK n \in {4, 7} : n = Addresses!SizeOf(kept.ai_family)
    BY <1>3, <1>4 DEF Addresses!port_Number
  <2>2. PICK words \in Addresses!Loaded(n) :
          read' = [of |-> "port", port |-> Addresses!PortIn(words)]
    BY <1>4, <2>1 DEF Addresses!port_Number
  <2>3. Addresses!PortIn(words) = 256 * native[1].port[1] + native[1].port[2]
    BY <1>4, LoadedFacts, PortFacts DEF Addresses!port_Number
  <2> QED
    BY <1>4, <2>2, <2>3
       DEF Addresses!port_Number, AddressInv, NativeType, Keeping
<1>5. CASE Addresses!address_String
  <2>1. PICK n \in {4, 7} : n = Addresses!SizeOf(kept.ai_family)
                            /\ n = Addresses!SizeOf(native[1].family)
    BY <1>3, <1>5 DEF Addresses!address_String
  <2>2. PICK words \in Addresses!Loaded(n) :
          read' = [of |-> "address", address |-> Addresses!AddressOf(words)]
    BY <1>5, <2>1 DEF Addresses!address_String
  <2>3. /\ native[1].family = "ipv4" =>
             Addresses!AddressOf(words) = Addresses!AddressOf(native)
        /\ native[1].family = "ipv6" =>
             SubSeq(Addresses!AddressOf(words), 1, 2) =
               SubSeq(Addresses!AddressOf(native), 1, 2)
    BY <1>5, <2>1, AddressFacts DEF Addresses!address_String
  <2>4. UNCHANGED <<native, kept>>
    BY <1>5 DEF Addresses!address_String
  <2>5. Addresses!AddressOf(native)' = Addresses!AddressOf(native)
    BY <2>4 DEF Addresses!AddressOf
  <2> QED
    BY <2>2, <2>3, <2>4, <2>5 DEF AddressInv, NativeType, Keeping
<1>6. CASE Addresses!Pass
  <2>1. PICK n \in {4, 7} : n = kept.ai_addrlen
                            /\ n = Addresses!SizeOf(native[1].family)
    BY <1>3, <1>6 DEF Addresses!Pass
  <2>2. PICK words \in Addresses!Loaded(n) :
          read' = [of |-> "call", port |-> Addresses!PortIn(words),
                   address |-> Addresses!AddressOf(words)]
    BY <1>6, <2>1 DEF Addresses!Pass
  <2>3. /\ native[1].family = "ipv4" =>
             Addresses!AddressOf(words) = Addresses!AddressOf(native)
        /\ native[1].family = "ipv6" =>
             SubSeq(Addresses!AddressOf(words), 1, 2) =
               SubSeq(Addresses!AddressOf(native), 1, 2)
    BY <1>6, <2>1, AddressFacts DEF Addresses!Pass
  <2>4. Addresses!PortIn(words) = 256 * native[1].port[1] + native[1].port[2]
    BY <1>6, LoadedFacts, PortFacts DEF Addresses!Pass
  <2>5. UNCHANGED <<native, kept>>
    BY <1>6 DEF Addresses!Pass
  <2> QED
    BY <2>2, <2>3, <2>4, <2>5 DEF AddressInv, NativeType, Keeping
<1> QED  BY <1>1, <1>2, <1>4, <1>5, <1>6 DEF Addresses!Next

LEMMA AddressInit == Addresses!Init => AddressInv
<1> SUFFICES ASSUME Addresses!Init PROVE AddressInv
  OBVIOUS
<1>1. PICK f \in Addresses!AddressFamilies, hi \in Bytes, lo \in Bytes :
        \E w \in [1 .. Addresses!SizeOf(f) - 1 -> Words] :
          native = <<Addresses!Header(f, hi, lo)>> \o w
  BY DEF Addresses!Init, Addresses!Natives
<1> PICK w \in [1 .. Addresses!SizeOf(f) - 1 -> Words] :
        native = <<Addresses!Header(f, hi, lo)>> \o w
  BY <1>1
<1>2. PICK h, s, n : /\ h = Addresses!Header(f, hi, lo) /\ s = <<h>>
                     /\ n = Addresses!SizeOf(f)
  OBVIOUS
<1>3. h \in Headers /\ h.family = f /\ n \in {4, 7}
  <2>1. h \in Headers
    BY <1>2 DEF Headers
  <2>2. h.family = f
    BY <1>2 DEF Addresses!Header
  <2>3. n \in {4, 7}
    BY <1>2 DEF Addresses!SizeOf
  <2> QED  BY <2>1, <2>2, <2>3
<1>4. s \in Seq(Headers \cup Words) /\ Len(s) = 1 /\ s[1] = h
  BY <1>2, <1>3
<1>5. w \in Seq(Headers \cup Words) /\ Len(w) = n - 1
  <2>1. n - 1 \in Nat /\ w \in [1 .. n - 1 -> Words]
    BY <1>2, <1>3
  <2> QED  BY <2>1
<1>6. native = s \o w
  BY <1>2
<1>7. native \in Seq(Headers \cup Words) /\ native[1] = h /\ Len(native) = n
  BY <1>3, <1>4, <1>5, <1>6
<1>8. NativeType
  BY <1>2, <1>3, <1>7 DEF NativeType
<1>9. WhatFitsSurvives
  BY DEF Addresses!Init, Addresses!NotRead, WhatFitsSurvives,
     Addresses!WhatFitsSurvives, Addresses!PortSurvives,
     Addresses!IPv4Survives, Addresses!NetworkSurvives, Addresses!HasPort,
     Addresses!HasAddress
<1> QED  BY <1>8, <1>9 DEF Addresses!Init, AddressInv

(* Whatever the bytes of a port, the contents of an address and what the   *)
(* memory after a sockaddr happens to hold: the port of either family, an  *)
(* ipv4 address and the network half of an ipv6 one come back as the       *)
(* system gave them, to the program and to the next call.                  *)
THEOREM AddressesSurvive == ValuesSpec => []WhatFitsSurvives
<1>1. ValuesInit => AddressInv
  BY AddressInit DEF ValuesInit
<1>2. [ValuesNext]_<<part, vars, addressvars>> =>
        [Addresses!Next]_addressvars
  BY DEF ValuesNext
<1>3. AddressInv => WhatFitsSurvives
  BY DEF AddressInv
<1> QED  BY <1>1, <1>2, <1>3, AddressStep, PTL DEF ValuesSpec
=============================================================================

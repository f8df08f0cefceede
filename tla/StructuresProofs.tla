--------------------------- MODULE StructuresProofs ---------------------------
(***************************************************************************)
(* What wepoll.c keeps its data in is sound for any number of sockets,     *)
(* groups, queues and nodes: the event masks, the places in the poll       *)
(* groups, and the queues, whose pointers implement sequences.  The epoll  *)
(* calls take and give back what they should, and tell a bad handle from   *)
(* any other error, for any order of failures; there the invariant counts, *)
(* at each label of a call, what the port uses and the call has in hand.   *)
(***************************************************************************)
EXTENDS MCStructures, PollGroupsProofs, FiniteSetTheorems, SequenceTheorems

-----------------------------------------------------------------------------
(* The parts move one at a time, so that each sees its own steps.          *)

LEMMA PartsMove ==
  /\ StructuresSpec => Masks!Spec
  /\ StructuresSpec => Spec
  /\ StructuresSpec => Rings!Spec
  /\ StructuresSpec => Calls!Spec
<1>1. StructuresInit => Masks!Init /\ Init /\ Rings!Init /\ Calls!Init
  BY DEF StructuresInit
<1>2. [StructuresNext]_structures => [Masks!Next]_mask
  BY DEF StructuresNext, structures, masks
<1>3. [StructuresNext]_structures => [Next]_vars
  BY DEF StructuresNext, structures, pool, vars
<1>4. [StructuresNext]_structures => [Rings!Next]_(Rings!vars)
  BY DEF StructuresNext, structures, rings, Rings!vars
<1>5. [StructuresNext]_structures => [Calls!Next]_(Calls!vars)
  BY DEF StructuresNext, structures, callvars, Calls!vars
<1> QED
  BY <1>1, <1>2, <1>3, <1>4, <1>5, PTL
  DEF StructuresSpec, Masks!Spec, Spec, Rings!Spec, Calls!Spec

-----------------------------------------------------------------------------
(* The event masks.                                                        *)

MaskInv ==
  mask \subseteq Masks!KnownEvents /\ Masks!AlwaysReported \subseteq mask

LEMMA MasksFit ==
  ASSUME MaskInv
  PROVE  Masks!MasksAgree
<1>1. Masks!NoFutileWakeup
  <2> SUFFICES ASSUME NEW c \in Masks!EpollToAfd(mask), c # "LOCAL_CLOSE"
               PROVE  \E e \in mask : e \in Masks!AfdToEpoll({c})
    BY DEF Masks!NoFutileWakeup, Masks!Meets
  <2>1. /\ c \in {"RECEIVE", "ACCEPT"} =>
             Masks!Meets(mask, {"EPOLLIN", "EPOLLRDNORM"})
        /\ c = "RECEIVE_EXPEDITED" => Masks!Urgent(mask)
        /\ c = "SEND" =>
             Masks!Meets(mask, {"EPOLLOUT", "EPOLLWRNORM", "EPOLLWRBAND"})
        /\ c = "DISCONNECT" =>
             Masks!Meets(mask, {"EPOLLIN", "EPOLLRDNORM", "EPOLLRDHUP"})
        /\ c = "ABORT" => "EPOLLHUP" \in mask
        /\ c = "CONNECT_FAIL" => "EPOLLERR" \in mask
        /\ c \in {"RECEIVE", "ACCEPT", "RECEIVE_EXPEDITED", "SEND",
                 "DISCONNECT", "ABORT", "CONNECT_FAIL"}
    BY DEF Masks!EpollToAfd, Masks!When
  <2> QED
    BY <2>1 DEF Masks!AfdToEpoll, Masks!When, Masks!Meets, Masks!Urgent,
             Masks!Disconnected
<1>2. Masks!NoDeafEvent
  BY SMTT(60)
  DEF MaskInv, Masks!NoDeafEvent, Masks!EpollToAfd, Masks!AfdToEpoll,
      Masks!Meets, Masks!When, Masks!Urgent, Masks!Disconnected,
      Masks!KnownEvents
<1> QED  BY <1>1, <1>2 DEF Masks!MasksAgree

(* No condition is watched in vain and no armed event goes unwatched,      *)
(* whichever flags a caller arms in whichever order.                       *)
THEOREM MasksAlwaysAgree == StructuresSpec => []MasksAgree
<1>1. Masks!Init => MaskInv
  BY DEF Masks!Init, MaskInv, Masks!AlwaysReported, Masks!KnownEvents
<1>2. MaskInv /\ [Masks!Next]_mask => MaskInv'
  BY DEF MaskInv, Masks!Next, Masks!Rearm, Masks!AlwaysReported,
         Masks!KnownEvents
<1>3. MaskInv => MasksAgree
  BY MasksFit DEF MasksAgree
<1> QED  BY <1>1, <1>2, <1>3, PartsMove, PTL DEF Masks!Spec

-----------------------------------------------------------------------------
(* The pool of poll groups.                                                *)

HeldBy(g) == {m \in Members : member[m] = g}

(* The inductive invariant: WellFormed holds the facts about the queue,    *)
(* and the sizes count the members, so that a release never finds a group  *)
(* empty.                                                                  *)
PoolInv ==
  /\ WellFormed(groups)
  /\ member \in [Members -> {0} \cup DOMAIN groups.size]
  /\ \A g \in DOMAIN groups.size : groups.size[g] = Cardinality(HeldBy(g))

LEMMA HeldFinite ==
  ASSUME NEW S \in SUBSET Members
  PROVE  IsFiniteSet(S) /\ Cardinality(S) \in Nat
  BY MembersAssumption, FS_Subset, FS_CardinalityType

LEMMA PoolInit == Init => PoolInv
<1> SUFFICES ASSUME Init PROVE PoolInv
  OBVIOUS
<1>1. WellFormed(groups)
  BY NoGroupsWellFormed DEF Init
<1>2. DOMAIN groups.size = {}
  BY DEF Init, NoGroups
<1> QED  BY <1>1, <1>2 DEF Init, PoolInv

LEMMA AcquirePool ==
  ASSUME PoolInv, NEW m \in Members, Acquire(m)
  PROVE  PoolInv'
<1> DEFINE w == WithRoom(groups)
           g == AcquiredGroup(groups)
<1>1. /\ WellFormed(groups')
      /\ g \in DOMAIN groups'.size
      /\ DOMAIN groups'.size = DOMAIN w.size
      /\ groups'.size[g] = w.size[g] + 1
      /\ \A f \in DOMAIN w.size \ {g} : groups'.size[f] = w.size[f]
  BY AcquireWellFormed DEF PoolInv, Acquire
<1>2. /\ DOMAIN groups.size \subseteq DOMAIN w.size
      /\ \A f \in DOMAIN groups.size : w.size[f] = groups.size[f]
      /\ \A f \in DOMAIN w.size \ DOMAIN groups.size : w.size[f] = 0
      /\ 0 \notin DOMAIN w.size
  <2>1. WellFormed(w)
    BY WithRoomWellFormed DEF PoolInv
  <2>2. 0 \notin DOMAIN w.size
    BY <2>1 DEF WellFormed, Groups
  <2> QED  BY <2>2, WithRoomWellFormed DEF PoolInv
<1>3. /\ member[m] = 0
      /\ member' = [member EXCEPT ![m] = g]
      /\ member \in [Members -> {0} \cup DOMAIN groups.size]
  BY DEF PoolInv, Acquire
<1> HIDE DEF w, g
<1>4. member' \in [Members -> {0} \cup DOMAIN groups'.size]
  BY <1>1, <1>2, <1>3
<1>5. ASSUME NEW f \in DOMAIN w.size
      PROVE  w.size[f] = Cardinality(HeldBy(f))
  <2>1. CASE f \in DOMAIN groups.size
    BY <1>2, <2>1 DEF PoolInv
  <2>2. CASE f \notin DOMAIN groups.size
    <3>1. HeldBy(f) = {}
      BY <1>2, <1>3, <2>2 DEF HeldBy
    <3> QED  BY <1>2, <2>2, <3>1, FS_EmptySet
  <2> QED  BY <2>1, <2>2
<1>6. ASSUME NEW f \in DOMAIN groups'.size
      PROVE  groups'.size[f] = Cardinality(HeldBy(f)')
  <2>1. CASE f # g
    <3>1. HeldBy(f)' = HeldBy(f)
      BY <1>1, <1>2, <1>3, <2>1 DEF HeldBy
    <3> QED  BY <1>1, <1>5, <2>1, <3>1
  <2>2. CASE f = g
    <3>1. HeldBy(f)' = HeldBy(f) \cup {m} /\ m \notin HeldBy(f)
      BY <1>1, <1>2, <1>3, <2>2 DEF HeldBy
    <3>2. IsFiniteSet(HeldBy(f)) /\ Cardinality(HeldBy(f)) \in Nat
      BY HeldFinite DEF HeldBy
    <3>3. Cardinality(HeldBy(f) \cup {m}) = Cardinality(HeldBy(f)) + 1
      BY <3>1, <3>2, FS_AddElement
    <3> QED  BY <1>1, <1>5, <2>2, <3>1, <3>3
  <2> QED  BY <2>1, <2>2
<1> QED  BY <1>1, <1>4, <1>6 DEF PoolInv

LEMMA ReleasePool ==
  ASSUME PoolInv, NEW m \in Members, Release(m)
  PROVE  PoolInv'
<1> DEFINE g == member[m]
<1>1. /\ g \in DOMAIN groups.size
      /\ WellFormed(groups)
      /\ groups' = poll_group_release(groups, g)
      /\ member' = [member EXCEPT ![m] = 0]
      /\ member \in [Members -> {0} \cup DOMAIN groups.size]
      /\ \A f \in DOMAIN groups.size : groups.size[f] = Cardinality(HeldBy(f))
  BY DEF PoolInv, Release
<1>2. /\ IsFiniteSet(HeldBy(g)) /\ m \in HeldBy(g)
      /\ Cardinality(HeldBy(g) \ {m}) = Cardinality(HeldBy(g)) - 1
      /\ Cardinality(HeldBy(g)) \in Nat /\ Cardinality(HeldBy(g) \ {m}) \in Nat
  <2>1. IsFiniteSet(HeldBy(g)) /\ m \in HeldBy(g)
    BY HeldFinite DEF HeldBy
  <2> QED
    BY <2>1, FS_RemoveElement, FS_CardinalityType
<1>3. groups.size[g] > 0
  BY <1>1, <1>2
<1>4. 0 \notin DOMAIN groups.size
  BY <1>1 DEF WellFormed, Groups
<1> HIDE DEF g
<1>5. /\ WellFormed(groups')
      /\ DOMAIN groups'.size = DOMAIN groups.size
      /\ groups'.size[g] = groups.size[g] - 1
      /\ \A f \in DOMAIN groups.size \ {g} : groups'.size[f] = groups.size[f]
  BY <1>1, <1>3, ReleaseWellFormed
<1>6. member' \in [Members -> {0} \cup DOMAIN groups'.size]
  BY <1>1, <1>5
<1>7. ASSUME NEW f \in DOMAIN groups'.size
      PROVE  groups'.size[f] = Cardinality(HeldBy(f)')
  <2>1. CASE f # g
    <3>1. HeldBy(f)' = HeldBy(f)
      BY <1>1, <1>4, <1>5, <2>1 DEF HeldBy, g
    <3> QED  BY <1>1, <1>5, <2>1, <3>1
  <2>2. CASE f = g
    <3>1. HeldBy(f)' = HeldBy(f) \ {m}
      BY <1>1, <1>4, <1>5, <2>2 DEF HeldBy
    <3> QED  BY <1>1, <1>2, <1>5, <2>2, <3>1
  <2> QED  BY <2>1, <2>2
<1> QED  BY <1>5, <1>6, <1>7 DEF PoolInv

LEMMA PoolStep == PoolInv /\ [Next]_vars => PoolInv'
<1> SUFFICES ASSUME PoolInv, [Next]_vars PROVE PoolInv'
  OBVIOUS
<1>1. ASSUME NEW m \in Members, Acquire(m) PROVE PoolInv'
  BY <1>1, AcquirePool
<1>2. ASSUME NEW m \in Members, Release(m) PROVE PoolInv'
  BY <1>2, ReleasePool
<1>3. CASE UNCHANGED vars
  BY <1>3 DEF PoolInv, HeldBy, vars
<1> QED  BY <1>1, <1>2, <1>3 DEF Next

THEOREM PoolInductive == Spec => []PoolInv
  BY PoolInit, PoolStep, PTL DEF Spec

-----------------------------------------------------------------------------
(* Full groups stand in front of those with room, every group is linked    *)
(* exactly once, and sizes count members, in every run.                    *)
THEOREM PoolSafe ==
  Spec => [](TypeOK /\ GroupsAreSound)
<1>1. PoolInv => TypeOK
  <2> SUFFICES ASSUME PoolInv PROVE TypeOK
    OBVIOUS
  <2>1. /\ groups.size \in Seq(Nat) /\ groups.queue \in Seq(Nat)
        /\ Elements(groups.queue) = DOMAIN groups.size
    BY DEF PoolInv, WellFormed, Groups, Linked
  <2>2. groups.queue \in Seq(DOMAIN groups.size)
    <3>1. /\ DOMAIN groups.queue = 1 .. Len(groups.queue)
          /\ Len(groups.queue) \in Nat
          /\ groups.queue = [i \in DOMAIN groups.queue |-> groups.queue[i]]
      BY <2>1
    <3>2. \A i \in DOMAIN groups.queue : groups.queue[i] \in DOMAIN groups.size
      BY <2>1 DEF Elements
    <3> QED  BY <3>1, <3>2
  <2> QED  BY <2>1, <2>2 DEF PoolInv, TypeOK
<1>2. PoolInv => EveryGroupLinked
  BY DEF PoolInv, WellFormed, Linked, EveryGroupLinked
<1>3. PoolInv => FullGroupsFirst
  <2> SUFFICES ASSUME PoolInv, NEW i \in DOMAIN groups.queue,
                      NEW j \in DOMAIN groups.queue,
                      i < j, Full(groups, groups.queue[j])
               PROVE  Full(groups, groups.queue[i])
    BY DEF FullGroupsFirst
  <2>1. groups.queue[i] \in DOMAIN groups.size
        /\ groups.queue[j] \in DOMAIN groups.size
    BY DEF PoolInv, WellFormed, Linked, Elements
  <2>2. FullFirst(groups.queue, FullOnes(groups))
    BY DEF PoolInv, WellFormed
  <2> QED  BY <2>1, <2>2 DEF FullFirst, FullOnes
<1>4. PoolInv => SizeCountsMembers
  BY DEF PoolInv, SizeCountsMembers, HeldBy
<1>5. PoolInv => TypeOK /\ GroupsAreSound
  BY <1>1, <1>2, <1>3, <1>4 DEF GroupsAreSound
<1> QED  BY <1>5, PoolInductive, PTL

(* A device handle is opened only when all groups are full, although       *)
(* poll_group_acquire looks at one of them.                                *)
THEOREM NewGroupsAreNeeded == Spec => NewGroupOnlyWhenAllFull
<1> DEFINE A == Len(groups'.size) > Len(groups.size) =>
                  \A g \in DOMAIN groups.size : Full(groups, g)
<1>1. PoolInv /\ [Next]_vars => [A]_vars
  <2> SUFFICES ASSUME PoolInv, [Next]_vars PROVE A \/ UNCHANGED vars
    OBVIOUS
  <2>1. ASSUME NEW m \in Members, Acquire(m) PROVE A
    <3> SUFFICES ASSUME Len(groups'.size) > Len(groups.size)
                 PROVE  \A g \in DOMAIN groups.size : Full(groups, g)
      OBVIOUS
    <3> DEFINE w == WithRoom(groups)
    <3>1. /\ WellFormed(w) /\ WellFormed(groups) /\ WellFormed(groups')
          /\ DOMAIN groups'.size = DOMAIN w.size
          /\ w.size # groups.size => \A g \in DOMAIN groups.size : Full(groups, g)
      BY <2>1, AcquireWellFormed, WithRoomWellFormed DEF PoolInv, Acquire
    <3> HIDE DEF w
    <3>2. w.size # groups.size
      <4>1. w.size \in Seq(Nat) /\ groups'.size \in Seq(Nat)
        BY <3>1 DEF WellFormed, Groups
      <4>2. Len(w.size) = Len(groups'.size)
        BY <3>1, <4>1
      <4>3. groups.size \in Seq(Nat)
        BY <3>1 DEF WellFormed, Groups
      <4> QED  BY <4>1, <4>2, <4>3
    <3> QED  BY <3>1, <3>2
  <2>2. ASSUME NEW m \in Members, Release(m) PROVE A
    <3>1. Len(groups'.size) = Len(groups.size) /\ Len(groups.size) \in Nat
      <4>1. groups.size \in Seq(Nat)
        BY DEF PoolInv, WellFormed, Groups
      <4>2. groups'.size = [groups.size EXCEPT ![member[m]] = @ - 1]
        BY <2>2 DEF Release, poll_group_release
      <4> QED  BY <4>1, <4>2
    <3> QED  BY <3>1
  <2> QED  BY <2>1, <2>2 DEF Next
<1> QED  BY <1>1, PoolInductive, PTL DEF Spec, NewGroupOnlyWhenAllFull

-----------------------------------------------------------------------------
(* The pointers of the queues.                                             *)

Links == [next : [Cells -> Cells], prev : [Cells -> Cells]]

\* Rings!LinksAgree for a set of cells.
Agree(l, U) ==
  \A c \in U :
    /\ l.next[c] \in U /\ l.prev[c] \in U
    /\ l.prev[l.next[c]] = c /\ l.next[l.prev[c]] = c

Used == Heads \cup live

LEMMA LinksAgreeIsAgree == Rings!LinksAgree <=> Agree(links, Used)
  BY DEF Rings!LinksAgree, Agree, Used

(* Rings!queue_node_init adds a ring of one cell.                          *)
LEMMA InitKeeps ==
  ASSUME NEW l \in Links, NEW U \in SUBSET Cells, Agree(l, U),
         NEW n \in Cells, n \notin U
  PROVE  /\ Rings!queue_node_init(l, n) \in Links
         /\ Agree(Rings!queue_node_init(l, n), U \cup {n})
<1> DEFINE m == Rings!queue_node_init(l, n)
<1>1. m \in Links
  BY DEF Links, Rings!queue_node_init
<1>2. \A c \in Cells : /\ m.next[c] = IF c = n THEN n ELSE l.next[c]
                       /\ m.prev[c] = IF c = n THEN n ELSE l.prev[c]
  BY DEF Links, Rings!queue_node_init
<1> QED  BY <1>1, <1>2 DEF Agree

(* Rings!queue__detach_node joins the neighbours of the node.              *)
LEMMA DetachKeeps ==
  ASSUME NEW l \in Links, NEW U \in SUBSET Cells, Agree(l, U), NEW n \in U
  PROVE  /\ Rings!queue__detach_node(l, n) \in Links
         /\ Agree(Rings!queue__detach_node(l, n), U \ {n})
<1> DEFINE a == [l EXCEPT !.next[l.prev[n]] = l.next[n]]
           m == [a EXCEPT !.prev[a.next[n]] = a.prev[n]]
<1>1. l.prev[n] \in Cells /\ l.next[n] \in Cells
  BY DEF Agree
<1>2. a \in Links
  BY <1>1 DEF Links
<1>3. /\ a.prev = l.prev
      /\ \A c \in Cells : a.next[c] = IF c = l.prev[n] THEN l.next[n]
                                      ELSE l.next[c]
  BY <1>1 DEF Links
<1>4. a.next[n] = l.next[n]
  BY <1>3
<1> HIDE DEF a
<1>5. m \in Links
  BY <1>1, <1>2, <1>3, <1>4 DEF Links
<1>6. /\ m.next = a.next
      /\ \A c \in Cells : m.prev[c] = IF c = l.next[n] THEN l.prev[n]
                                      ELSE l.prev[c]
  BY <1>1, <1>2, <1>3, <1>4 DEF Links
<1>7. m = Rings!queue__detach_node(l, n)
  BY DEF Rings!queue__detach_node, a
<1> HIDE DEF m
<1>8. ASSUME NEW c \in U \ {n}
      PROVE  /\ m.next[c] \in U \ {n} /\ m.prev[c] \in U \ {n}
             /\ m.prev[m.next[c]] = c /\ m.next[m.prev[c]] = c
  <2>1. m.next[c] \in U \ {n} /\ m.prev[c] \in U \ {n}
    BY <1>1, <1>3, <1>6 DEF Agree
  <2>2. m.prev[m.next[c]] = c
    BY <1>1, <1>3, <1>6, <2>1 DEF Agree
  <2>3. m.next[m.prev[c]] = c
    BY <1>1, <1>3, <1>6, <2>1 DEF Agree
  <2> QED  BY <2>1, <2>2, <2>3
<1> QED  BY <1>5, <1>7, <1>8 DEF Agree

(* Rings!queue_prepend puts the node between the head and its successor.   *)
LEMMA PrependKeeps ==
  ASSUME NEW l \in Links, NEW U \in SUBSET Cells, Agree(l, U),
         NEW h \in U, NEW n \in Cells, n \notin U
  PROVE  /\ Rings!queue_prepend(l, h, n) \in Links
         /\ Agree(Rings!queue_prepend(l, h, n), U \cup {n})
<1> DEFINE a == [l EXCEPT !.next[n] = l.next[h], !.prev[n] = h]
           b == [a EXCEPT !.prev[a.next[n]] = n]
           m == [b EXCEPT !.next[h] = n]
<1>1. l.next[h] \in U /\ h \in Cells
  BY DEF Agree
<1>2. a \in Links
      /\ \A c \in Cells : /\ a.next[c] = IF c = n THEN l.next[h] ELSE l.next[c]
                          /\ a.prev[c] = IF c = n THEN h ELSE l.prev[c]
  BY <1>1 DEF Links
<1> HIDE DEF a
<1>3. b \in Links /\ b.next = a.next
      /\ \A c \in Cells : b.prev[c] = IF c = l.next[h] THEN n ELSE a.prev[c]
  BY <1>1, <1>2 DEF Links
<1> HIDE DEF b
<1>4. m \in Links /\ m.prev = b.prev
      /\ \A c \in Cells : m.next[c] = IF c = h THEN n ELSE b.next[c]
  BY <1>1, <1>3 DEF Links
<1>5. m = Rings!queue_prepend(l, h, n)
  BY DEF Rings!queue_prepend, a, b
<1> HIDE DEF m
<1>6. ASSUME NEW c \in U \cup {n}
      PROVE  /\ m.next[c] \in U \cup {n} /\ m.prev[c] \in U \cup {n}
             /\ m.prev[m.next[c]] = c /\ m.next[m.prev[c]] = c
  <2>1. m.next[c] \in U \cup {n} /\ m.prev[c] \in U \cup {n}
    BY <1>1, <1>2, <1>3, <1>4 DEF Agree
  <2>2. m.prev[m.next[c]] = c
    BY <1>1, <1>2, <1>3, <1>4, <2>1 DEF Agree
  <2>3. m.next[m.prev[c]] = c
    BY <1>1, <1>2, <1>3, <1>4, <2>1 DEF Agree
  <2> QED  BY <2>1, <2>2, <2>3
<1> QED  BY <1>4, <1>5, <1>6 DEF Agree

(* Rings!queue_append puts it between the head and its predecessor.        *)
LEMMA AppendKeeps ==
  ASSUME NEW l \in Links, NEW U \in SUBSET Cells, Agree(l, U),
         NEW h \in U, NEW n \in Cells, n \notin U
  PROVE  /\ Rings!queue_append(l, h, n) \in Links
         /\ Agree(Rings!queue_append(l, h, n), U \cup {n})
<1> DEFINE a == [l EXCEPT !.next[n] = h, !.prev[n] = l.prev[h]]
           b == [a EXCEPT !.next[a.prev[n]] = n]
           m == [b EXCEPT !.prev[h] = n]
<1>1. l.prev[h] \in U /\ h \in Cells
  BY DEF Agree
<1>2. a \in Links
      /\ \A c \in Cells : /\ a.prev[c] = IF c = n THEN l.prev[h] ELSE l.prev[c]
                          /\ a.next[c] = IF c = n THEN h ELSE l.next[c]
  BY <1>1 DEF Links
<1> HIDE DEF a
<1>3. b \in Links /\ b.prev = a.prev
      /\ \A c \in Cells : b.next[c] = IF c = l.prev[h] THEN n ELSE a.next[c]
  BY <1>1, <1>2 DEF Links
<1> HIDE DEF b
<1>4. m \in Links /\ m.next = b.next
      /\ \A c \in Cells : m.prev[c] = IF c = h THEN n ELSE b.prev[c]
  BY <1>1, <1>3 DEF Links
<1>5. m = Rings!queue_append(l, h, n)
  BY DEF Rings!queue_append, a, b
<1> HIDE DEF m
<1>6. Agree(m, U \cup {n})
  BY <1>1, <1>2, <1>3, <1>4 DEF Agree
<1> QED  BY <1>4, <1>5, <1>6

(* A node that is not enqueued can be left out.                            *)
LEMMA UnlinkedLeaves ==
  ASSUME NEW l \in Links, NEW U \in SUBSET Cells, Agree(l, U), NEW n \in U,
         l.prev[n] = n
  PROVE  Agree(l, U \ {n})
  BY DEF Agree

----------------------------------------------------------------------------
RingInv == Rings!TypeOK /\ Rings!LinksAgree

LEMMA RingInit == Rings!Init => RingInv
  BY DEF Rings!Init, RingInv, Rings!TypeOK, Rings!LinksAgree, Rings!Cells

LEMMA RingStep == RingInv /\ [Rings!Next]_(Rings!vars) => RingInv'
<1> SUFFICES ASSUME RingInv, [Rings!Next]_(Rings!vars) PROVE RingInv'
  OBVIOUS
<1>1. /\ links \in Links /\ Used \in SUBSET Cells /\ Agree(links, Used)
      /\ live \in SUBSET Nodes
  BY LinksAgreeIsAgree DEF RingInv, Rings!TypeOK, Links, Used, Cells, Rings!Cells
<1> SUFFICES links' \in Links /\ live' \in SUBSET Nodes /\ Agree(links', Used')
  <2>1. Rings!LinksAgree' <=> Agree(links', Used')
    BY DEF Rings!LinksAgree, Agree, Used
  <2> QED  BY <2>1 DEF RingInv, Rings!TypeOK, Links, Cells,
             Rings!Cells
<1>2. CASE UNCHANGED Rings!vars
  BY <1>1, <1>2 DEF Rings!vars, Used
<1> SUFFICES ASSUME NEW n \in Nodes,
                    \/ Rings!New(n) \/ Rings!Remove(n) \/ Rings!Delete(n)
                    \/ \E h \in Heads : Rings!Add(h, n) \/ Rings!Move(h, n)
             PROVE  /\ links' \in Links /\ live' \in SUBSET Nodes
                    /\ Agree(links', Used')
  BY <1>2 DEF Rings!Next
<1>3. n \in Cells /\ n \notin Heads /\ (n \in Used <=> n \in live)
  BY QueueAssumption DEF Cells, Used
\* What is left of the others once n is out.
<1> DEFINE Rest == Used \ {n}
<1>4. Rest \in SUBSET Cells /\ n \notin Rest /\ Heads \subseteq Rest
  BY <1>1, <1>3 DEF Used
<1>5. n \in live => Used = Rest \cup {n}
  BY <1>3
<1>6. CASE Rings!New(n)
  <2>1. Used' = Used \cup {n} /\ n \notin Used
    BY <1>3, <1>6 DEF Rings!New, Used
  <2> QED  BY <1>1, <1>3, <1>6, <2>1, InitKeeps DEF Rings!New
<1>7. CASE Rings!Remove(n)
  <2>1. n \in live /\ Used' = Used /\ live' = live
    BY <1>7 DEF Rings!Remove, Used
  <2> DEFINE d == Rings!queue__detach_node(links, n)
  <2>2. d \in Links /\ Agree(d, Rest)
    BY <1>1, <1>3, <2>1, DetachKeeps
  <2>3. links' = Rings!queue_node_init(d, n)
    BY <1>7 DEF Rings!Remove, Rings!queue_remove
  <2> HIDE DEF d
  <2> QED  BY <1>1, <1>3, <1>4, <1>5, <2>1, <2>2, <2>3, InitKeeps
<1>8. CASE Rings!Delete(n)
  <2>1. n \in live /\ Used' = Rest /\ live' \in SUBSET Nodes
    BY <1>1, <1>3, <1>8 DEF Rings!Delete, Used
  <2>2. CASE Rings!is_enqueued(n)
    <3> DEFINE d == Rings!queue__detach_node(links, n)
               i == Rings!queue_node_init(d, n)
    <3>1. d \in Links /\ Agree(d, Rest)
      BY <1>1, <1>3, <2>1, DetachKeeps
    <3>2. links' = i
      BY <1>8, <2>2 DEF Rings!Delete, Rings!queue_remove
    <3>3. i.prev[n] = n
      BY <1>3, <3>1 DEF Rings!queue_node_init, Links
    <3> HIDE DEF d
    <3>4. i \in Links /\ Agree(i, Used)
      BY <1>3, <1>4, <1>5, <2>1, <3>1, InitKeeps
    <3> HIDE DEF i
    <3>5. Agree(i, Rest)
      BY <1>1, <1>3, <2>1, <3>3, <3>4, UnlinkedLeaves
    <3> QED  BY <2>1, <3>2, <3>4, <3>5
  <2>3. CASE ~Rings!is_enqueued(n)
    <3>1. links' = links /\ links.prev[n] = n
      BY <1>8, <2>3 DEF Rings!Delete, Rings!is_enqueued
    <3> QED  BY <1>1, <1>3, <2>1, <3>1, UnlinkedLeaves
  <2> QED  BY <2>2, <2>3
<1>9. ASSUME NEW h \in Heads, Rings!Add(h, n)
      PROVE  links' \in Links /\ live' \in SUBSET Nodes /\ Agree(links', Used')
  <2>1. n \in live /\ Used' = Used /\ live' = live
    BY <1>9 DEF Rings!Add, Used
  <2>2. Agree(links, Rest)
    BY <1>1, <1>3, <1>9, <2>1, UnlinkedLeaves DEF Rings!Add, Rings!is_enqueued
  <2> QED  BY <1>1, <1>3, <1>4, <1>5, <1>9, <2>1, <2>2, AppendKeeps DEF Rings!Add
<1>10. ASSUME NEW h \in Heads, Rings!Move(h, n)
       PROVE  /\ links' \in Links /\ live' \in SUBSET Nodes
              /\ Agree(links', Used')
  <2>1. n \in live /\ Used' = Used /\ live' = live
    BY <1>10 DEF Rings!Move, Used
  <2> DEFINE d == Rings!queue__detach_node(links, n)
  <2>2. d \in Links /\ Agree(d, Rest)
    BY <1>1, <1>3, <2>1, DetachKeeps
  <2>3. links' = Rings!queue_prepend(d, h, n) \/ links' = Rings!queue_append(d, h, n)
    BY <1>10 DEF Rings!Move, Rings!queue_move_to_start, Rings!queue_move_to_end
  <2> HIDE DEF d
  <2> QED  BY <1>1, <1>3, <1>4, <1>5, <2>1, <2>2, <2>3, PrependKeeps,
              AppendKeeps
<1> QED  BY <1>6, <1>7, <1>8, <1>9, <1>10

-----------------------------------------------------------------------------
(* Sequences of sequences, one after the other.                            *)

\* A set of numbers with 0 and with every successor has them all.
LEMMA SetInduction ==
  ASSUME NEW S, 0 \in S, \A n \in Nat : n \in S => n + 1 \in S
  PROVE  Nat \subseteq S
<1> SUFFICES ASSUME NEW n \in Nat, n \notin S
             PROVE  FALSE
  OBVIOUS
<1> DEFINE T == {m \in 0 .. n : m \in S}
           succ == [m \in T |-> m + 1]
<1>1. IsFiniteSet(T) /\ 0 \in T
  <2>1. IsFiniteSet(0 .. n) /\ T \in SUBSET (0 .. n)
    BY FS_Interval
  <2> QED  BY <2>1, FS_Subset
<1>2. \A m \in T : m + 1 \in T \ {0}
  OBVIOUS
<1>3. succ \in Injection(T, T \ {0})
  BY <1>2 DEF Injection, IsInjective
<1>4. /\ IsFiniteSet(T \ {0})
      /\ Cardinality(T \ {0}) = Cardinality(T) - 1
      /\ Cardinality(T) \in Nat
  BY <1>1, FS_RemoveElement, FS_CardinalityType
<1>5. Cardinality(T) <= Cardinality(T \ {0})
  BY <1>3, <1>4, FS_Injection DEF ExistsInjection
<1> QED  BY <1>4, <1>5

\* Where a walk along next from h is after i steps.
Walks(f, l, h, n) ==
  f = [i \in 0 .. n |-> IF i = 0 THEN h ELSE l.next[f[i - 1]]]

LEMMA WalkExists ==
  ASSUME NEW l, NEW h, NEW n \in Nat
  PROVE  \E f : Walks(f, l, h, n)
<1> DEFINE S == {m \in Nat : \E f : Walks(f, l, h, m)}
<1>1. 0 \in S
  <2>1. Walks([i \in 0 .. 0 |-> h], l, h, 0)
    BY DEF Walks
  <2> QED  BY <2>1
<1>2. ASSUME NEW m \in Nat, m \in S PROVE m + 1 \in S
  <2>1. PICK f : Walks(f, l, h, m)
    BY <1>2
  <2> DEFINE g == [i \in 0 .. m + 1 |->
                     IF i = m + 1 THEN l.next[f[m]] ELSE f[i]]
  <2>2. \A i \in 0 .. m : f[i] = g[i]
    OBVIOUS
  <2>3. \A i \in 0 .. m + 1 : g[i] = IF i = 0 THEN h ELSE l.next[g[i - 1]]
    <3> TAKE i \in 0 .. m + 1
    <3>1. CASE i = m + 1
      <4>1. i # 0 /\ i - 1 = m /\ m \in 0 .. m
        BY <3>1
      <4>2. g[i] = l.next[f[m]] /\ f[m] = g[m]
        BY <2>2, <3>1, <4>1
      <4> QED  BY <4>1, <4>2
    <3>2. CASE i # m + 1
      <4>1. i \in 0 .. m /\ (i # 0 => i - 1 \in 0 .. m)
        BY <3>2
      <4>2. f[i] = IF i = 0 THEN h ELSE l.next[f[i - 1]]
        BY <2>1, <4>1 DEF Walks
      <4>3. f[i] = g[i] /\ (i # 0 => f[i - 1] = g[i - 1])
        BY <2>2, <4>1
      <4> QED  BY <4>2, <4>3
    <3> QED  BY <3>1, <3>2
  <2>4. g = [i \in 0 .. m + 1 |-> g[i]]
    OBVIOUS
  <2>5. Walks(g, l, h, m + 1)
    BY <2>3, <2>4 DEF Walks
  <2> HIDE DEF g
  <2> QED  BY <2>5
<1>3. n \in S
  <2> HIDE DEF S
  <2> QED  BY <1>1, <1>2, SetInduction
<1> QED  BY <1>3

\* The ring through h that meets the nodes of s: its cells in their order,
\* h before the first and after the last node.
Cell(h, s, i) == IF i \in DOMAIN s THEN s[i] ELSE h

Ring(l, h, s) == \A i \in 0 .. Len(s) : l.next[Cell(h, s, i)] = Cell(h, s, i + 1)

LEMMA WalkMeets ==
  ASSUME NEW l, NEW h, NEW f, NEW n \in Nat, Walks(f, l, h, n),
         NEW S, NEW s \in Seq(S), Ring(l, h, s), Len(s) + 1 =< n
  PROVE  \A i \in 0 .. Len(s) + 1 : f[i] = Cell(h, s, i)
<1> DEFINE T == {i \in Nat : i \in 0 .. Len(s) + 1 => f[i] = Cell(h, s, i)}
<1>0. Len(s) \in Nat /\ DOMAIN s = 1 .. Len(s)
  OBVIOUS
<1>1. 0 \in T
  BY <1>0 DEF Walks, Cell
<1>2. ASSUME NEW i \in Nat, i \in T PROVE i + 1 \in T
  <2> SUFFICES ASSUME i + 1 \in 0 .. Len(s) + 1
               PROVE  f[i + 1] = Cell(h, s, i + 1)
    OBVIOUS
  <2>1. PICK j : j = i + 1
    OBVIOUS
  <2>2. i \in 0 .. Len(s) /\ f[i] = Cell(h, s, i) /\ j \in 0 .. n /\ j # 0 /\ j - 1 = i
    BY <1>0, <1>2, <2>1
  <2>3. f[j] = l.next[f[j - 1]]
    BY <2>2 DEF Walks
  <2>4. l.next[Cell(h, s, i)] = Cell(h, s, i + 1)
    BY <2>2 DEF Ring
  <2> QED  BY <2>1, <2>2, <2>3, <2>4
<1> HIDE DEF T
<1>3. Nat \subseteq T
  BY <1>1, <1>2, SetInduction
<1> QED  BY <1>0, <1>3 DEF T

LEMMA SameCardinality == \A S : Rings!Cardinality(S) = Cardinality(S)
  BY DEF Rings!Cardinality, Cardinality

\* What Follow reads off a walk.
Read(f, h) ==
  LET Ends == {i \in 1 .. Rings!Cardinality(Nodes) + 1 : f[i] = h}
      Size == IF Ends = {} THEN Rings!Cardinality(Nodes)
              ELSE (CHOOSE i \in Ends : \A j \in Ends : i <= j) - 1
  IN  [i \in 1 .. Size |-> f[i]]

LEMMA FollowReads ==
  ASSUME NEW h
  PROVE  \E f : /\ Walks(f, links, h, Rings!Cardinality(Nodes) + 1)
                /\ Rings!Follow(h) = Read(f, h)
<1> DEFINE N == Rings!Cardinality(Nodes) + 1
           F == CHOOSE f : f = [i \in 0 .. N |->
                                  IF i = 0 THEN h ELSE links.next[f[i - 1]]]
<1>1. Walks(F, links, h, N)
  <2>1. N \in Nat
    BY QueueAssumption, FS_CardinalityType, SameCardinality
  <2> HIDE DEF N
  <2>2. PICK n \in Nat : n = N
    BY <2>1
  <2>3. \E f : Walks(f, links, h, n)
    BY WalkExists
  <2> QED  BY <2>2, <2>3 DEF Walks
<1>2. Rings!Follow(h) = Read(F, h)
  BY DEF Rings!Follow, Read
<1> HIDE DEF F
<1> QED  BY <1>1, <1>2

LEMMA FollowReadsPrimed ==
  ASSUME NEW h
  PROVE  \E f : /\ Walks(f, links', h, Rings!Cardinality(Nodes) + 1)
                /\ Rings!Follow(h)' = Read(f, h)
<1> DEFINE N == Rings!Cardinality(Nodes) + 1
           F == CHOOSE f : f = [i \in 0 .. N |->
                                  IF i = 0 THEN h ELSE links'.next[f[i - 1]]]
<1>1. Walks(F, links', h, N)
  <2>1. N \in Nat
    BY QueueAssumption, FS_CardinalityType, SameCardinality
  <2> HIDE DEF N
  <2>2. PICK n \in Nat : n = N
    BY <2>1
  <2>3. \E f : Walks(f, links', h, n)
    BY WalkExists
  <2> QED  BY <2>2, <2>3 DEF Walks
<1>2. Rings!Follow(h)' = Read(F, h)
  BY DEF Rings!Follow, Read
<1> HIDE DEF F
<1> QED  BY <1>1, <1>2

(* A queue of different nodes is no longer than there are nodes.           *)
LEMMA DistinctFits ==
  ASSUME NEW s \in Seq(Nodes), Distinct(s)
  PROVE  Len(s) =< Cardinality(Nodes)
<1>1. /\ s \in [1 .. Len(s) -> Nodes] /\ Len(s) \in Nat
      /\ \A i, j \in DOMAIN s : s[i] = s[j] => i = j
  BY DEF Distinct
<1>2. s \in Injection(1 .. Len(s), Nodes)
  BY <1>1 DEF Injection, IsInjective
<1>3. Cardinality(1 .. Len(s)) = Len(s)
  <2>1. PICK n \in Nat : n = Len(s)
    BY <1>1
  <2>2. Cardinality(1 .. n) = n
    <3>1. Cardinality(1 .. n) = IF 1 > n THEN 0 ELSE n - 1 + 1
      BY FS_Interval
    <3> QED  BY <3>1
  <2> QED  BY <2>1, <2>2
<1>4. Cardinality(1 .. Len(s)) =< Cardinality(Nodes)
  BY <1>2, FS_Injection, QueueAssumption
<1> QED  BY <1>3, <1>4

(* A walk along a ring reads its nodes.                                    *)
LEMMA RingIsRead ==
  ASSUME NEW l, NEW h \in Heads, NEW s \in Seq(Nodes), Distinct(s),
         Ring(l, h, s), NEW f, Walks(f, l, h, Rings!Cardinality(Nodes) + 1)
  PROVE  Read(f, h) = s
<1> DEFINE N == Rings!Cardinality(Nodes)
           Ends == {i \in 1 .. N + 1 : f[i] = h}
<1>1. N \in Nat /\ Len(s) \in Nat /\ Len(s) =< N /\ DOMAIN s = 1 .. Len(s)
  BY DistinctFits, QueueAssumption, FS_CardinalityType, SameCardinality
<1>2. \A i \in 0 .. Len(s) + 1 : f[i] = Cell(h, s, i)
  BY <1>1, WalkMeets
<1>3. \A i \in 1 .. Len(s) : f[i] = s[i] /\ s[i] # h
  BY <1>1, <1>2, QueueAssumption DEF Cell
<1>4. f[Len(s) + 1] = h
  BY <1>1, <1>2 DEF Cell
<1> HIDE DEF N
<1>5. Len(s) + 1 \in Ends
  BY <1>1, <1>4
<1>6. \A i \in Ends : Len(s) + 1 =< i
  BY <1>1, <1>3
<1>7. \A i \in Ends : i \in Nat
  BY <1>1
<1>8. (CHOOSE i \in Ends : \A j \in Ends : i <= j) = Len(s) + 1
  <2> HIDE DEF Ends
  <2>1. PICK c : c = CHOOSE i \in Ends : \A j \in Ends : i <= j
    OBVIOUS
  <2>2. \E i \in Ends : \A j \in Ends : i <= j
    BY <1>5, <1>6
  <2>3. c \in Ends /\ \A j \in Ends : c <= j
    BY <2>1, <2>2
  <2>4. c <= Len(s) + 1 /\ Len(s) + 1 <= c
    BY <1>5, <1>6, <2>3
  <2> QED  BY <1>1, <1>7, <2>1, <2>3, <2>4
<1>9. Read(f, h) = [i \in 1 .. Len(s) |-> f[i]]
  <2>1. Ends # {}
    BY <1>5
  <2>2. (Len(s) + 1) - 1 = Len(s)
    BY <1>1
  <2>3. Read(f, h) = [i \in 1 .. (CHOOSE i \in Ends : \A j \in Ends : i <= j) - 1
                        |-> f[i]]
    BY <2>1 DEF Read, N
  <2> HIDE DEF Ends
  <2> QED  BY <1>8, <2>2, <2>3
<1>10. s = [i \in 1 .. Len(s) |-> s[i]]
  BY <1>1
<1> QED  BY <1>3, <1>9, <1>10

(* The cells of a ring.                                                    *)
LEMMA CellsOfRing ==
  ASSUME NEW h, NEW S, NEW s \in Seq(S), Distinct(s), h \notin Elements(s)
  PROVE  /\ Len(s) \in Nat /\ DOMAIN s = 1 .. Len(s)
         /\ Cell(h, s, 0) = h /\ Cell(h, s, Len(s) + 1) = h
         /\ \A i \in 1 .. Len(s) : Cell(h, s, i) = s[i]
         /\ \A i \in 0 .. Len(s) + 1 : Cell(h, s, i) \in {h} \cup Elements(s)
         /\ \A i, j \in 0 .. Len(s) : Cell(h, s, i) = Cell(h, s, j) => i = j
<1>1. Len(s) \in Nat /\ DOMAIN s = 1 .. Len(s)
  OBVIOUS
<1>2. /\ Cell(h, s, 0) = h /\ Cell(h, s, Len(s) + 1) = h
      /\ \A i \in 1 .. Len(s) : Cell(h, s, i) = s[i]
  BY <1>1 DEF Cell
<1>3. \A i \in 1 .. Len(s) : s[i] \in Elements(s) /\ s[i] # h
  BY <1>1 DEF Elements
<1>4. \A i \in 0 .. Len(s) + 1 : i \in 1 .. Len(s) \/ i = 0 \/ i = Len(s) + 1
  BY <1>1
<1>5. \A i \in 0 .. Len(s) : i \in 1 .. Len(s) \/ i = 0
  BY <1>1
<1>6. \A i, j \in 1 .. Len(s) : s[i] = s[j] => i = j
  BY <1>1 DEF Distinct
<1>7. \A i \in 0 .. Len(s) + 1 : Cell(h, s, i) \in {h} \cup Elements(s)
  BY <1>2, <1>3, <1>4
<1>8. \A i, j \in 0 .. Len(s) : Cell(h, s, i) = Cell(h, s, j) => i = j
  BY <1>2, <1>3, <1>5, <1>6
<1> QED  BY <1>1, <1>2, <1>7, <1>8

LEMMA RingSame ==
  ASSUME NEW l, NEW m, NEW h, NEW S, NEW s \in Seq(S), Distinct(s),
         h \notin Elements(s), Ring(l, h, s),
         \A c \in {h} \cup Elements(s) : m.next[c] = l.next[c]
  PROVE  Ring(m, h, s)
<1>1. \A i \in 0 .. Len(s) : Cell(h, s, i) \in {h} \cup Elements(s)
  <2>1. \A i \in 0 .. Len(s) : i \in 0 .. Len(s) + 1
    OBVIOUS
  <2> QED  BY <2>1, CellsOfRing
<1> QED  BY <1>1 DEF Ring

(* Walking back along a ring.                                              *)
LEMMA RingBack ==
  ASSUME NEW l, NEW U, Agree(l, U), NEW h \in U, NEW s \in Seq(U),
         Distinct(s), h \notin Elements(s), Ring(l, h, s)
  PROVE  \A i \in 0 .. Len(s) : l.prev[Cell(h, s, i + 1)] = Cell(h, s, i)
<1> TAKE i \in 0 .. Len(s)
<1>1. i \in 0 .. Len(s) + 1
  OBVIOUS
<1>2. Cell(h, s, i) \in {h} \cup Elements(s)
  BY <1>1, CellsOfRing
<1>3. Elements(s) \subseteq U
  BY DEF Elements
<1> QED  BY <1>2, <1>3 DEF Agree, Ring

(* queue__detach_node takes a node out of its ring.                        *)
LEMMA RingWithout ==
  ASSUME NEW l, NEW d, NEW h, NEW S, NEW s \in Seq(S), Distinct(s),
         h \notin Elements(s), Ring(l, h, s), NEW n \in Elements(s),
         l.prev[n] = Cell(h, s, Position(s, n) - 1),
         \A c \in {h} \cup Elements(s) :
           d.next[c] = IF c = l.prev[n] THEN l.next[n] ELSE l.next[c]
  PROVE  Ring(d, h, queue_remove(s, n))
<1> DEFINE r == queue_remove(s, n)
           p == Position(s, n)
<1>1. p \in 1 .. Len(s) /\ s[p] = n
  BY PositionFound
<1>2. /\ r \in Seq(S) /\ Len(r) = Len(s) - 1
      /\ \A i \in 1 .. Len(r) : r[i] = IF i < p THEN s[i] ELSE s[i + 1]
  BY RemoveAt
<1>3. /\ Len(s) \in Nat
      /\ Cell(h, s, 0) = h /\ Cell(h, s, Len(s) + 1) = h
      /\ \A i \in 1 .. Len(s) : Cell(h, s, i) = s[i]
      /\ \A i \in 0 .. Len(s) + 1 : Cell(h, s, i) \in {h} \cup Elements(s)
      /\ \A i, j \in 0 .. Len(s) : Cell(h, s, i) = Cell(h, s, j) => i = j
  BY CellsOfRing
<1> HIDE DEF r, p
<1>4. ASSUME NEW i \in 0 .. Len(s)
      PROVE  Cell(h, r, i) = IF i < p THEN Cell(h, s, i) ELSE Cell(h, s, i + 1)
  <2>1. CASE i \in 1 .. Len(r)
    <3>1. Cell(h, r, i) = r[i]
      BY <1>2, <2>1 DEF Cell
    <3>2. i \in 1 .. Len(s) /\ i + 1 \in 1 .. Len(s)
      BY <1>2, <1>3, <2>1
    <3> QED  BY <1>2, <1>3, <2>1, <3>1, <3>2
  <2>2. CASE i = 0
    BY <1>1, <1>2, <1>3, <2>2 DEF Cell
  <2>3. CASE i = Len(s)
    <3>1. Cell(h, r, i) = h /\ ~(i < p)
      BY <1>1, <1>2, <1>3, <2>3 DEF Cell
    <3> QED  BY <1>3, <2>3, <3>1
  <2> QED  BY <1>2, <1>3, <2>1, <2>2, <2>3
<1>5. ASSUME NEW i \in 0 .. Len(s)
      PROVE  d.next[Cell(h, s, i)] =
               IF i = p - 1 THEN l.next[n] ELSE Cell(h, s, i + 1)
  <2>1. i \in 0 .. Len(s) + 1 /\ p - 1 \in 0 .. Len(s)
    BY <1>1, <1>3
  <2>2. Cell(h, s, i) \in {h} \cup Elements(s)
    BY <1>3, <2>1
  <2>3. l.prev[n] = Cell(h, s, p - 1)
    BY DEF p
  <2>4. Cell(h, s, i) = l.prev[n] <=> i = p - 1
    BY <1>3, <2>1, <2>3
  <2>5. l.next[Cell(h, s, i)] = Cell(h, s, i + 1)
    BY DEF Ring
  <2> QED  BY <2>2, <2>4, <2>5
<1>6. l.next[n] = Cell(h, s, p + 1)
  <2>1. Cell(h, s, p) = n /\ p \in 0 .. Len(s)
    BY <1>1, <1>3
  <2> QED  BY <2>1 DEF Ring
<1>7. ASSUME NEW i \in 0 .. Len(r)
      PROVE  d.next[Cell(h, r, i)] = Cell(h, r, i + 1)
  <2>1. i \in 0 .. Len(s) /\ i + 1 \in 0 .. Len(s)
    BY <1>2, <1>3
  <2>2. /\ Cell(h, r, i) = IF i < p THEN Cell(h, s, i) ELSE Cell(h, s, i + 1)
        /\ Cell(h, r, i + 1) = IF i + 1 < p THEN Cell(h, s, i + 1)
                               ELSE Cell(h, s, i + 1 + 1)
    BY <1>4, <2>1
  <2>3. CASE i < p - 1
    BY <1>1, <1>5, <2>1, <2>2, <2>3
  <2>4. CASE i = p - 1
    BY <1>1, <1>5, <1>6, <2>1, <2>2, <2>4
  <2>5. CASE i > p - 1
    BY <1>1, <1>5, <2>1, <2>2, <2>5
  <2> QED  BY <1>1, <2>3, <2>4, <2>5
<1> QED  BY <1>7 DEF Ring, r

(* queue_append adds a node at the end of a ring.                          *)
LEMMA RingAppended ==
  ASSUME NEW l, NEW m, NEW h, NEW S, NEW s \in Seq(S), Distinct(s),
         h \notin Elements(s), Ring(l, h, s), NEW n \in S,
         n \notin Elements(s), n # h, l.prev[h] = Cell(h, s, Len(s)),
         \A c \in {h, n} \cup Elements(s) :
           m.next[c] = IF c = l.prev[h] THEN n
                       ELSE IF c = n THEN h ELSE l.next[c]
  PROVE  Ring(m, h, queue_append(s, n))
<1> DEFINE r == Append(s, n)
<1>1. /\ r \in Seq(S) /\ Len(r) = Len(s) + 1
      /\ \A i \in 1 .. Len(s) : r[i] = s[i]
      /\ r[Len(s) + 1] = n
  OBVIOUS
<1>2. /\ Len(s) \in Nat
      /\ Cell(h, s, 0) = h /\ Cell(h, s, Len(s) + 1) = h
      /\ \A i \in 1 .. Len(s) : Cell(h, s, i) = s[i]
      /\ \A i \in 0 .. Len(s) + 1 : Cell(h, s, i) \in {h} \cup Elements(s)
      /\ \A i, j \in 0 .. Len(s) : Cell(h, s, i) = Cell(h, s, j) => i = j
  BY CellsOfRing
<1> HIDE DEF r
<1>3. /\ \A i \in 0 .. Len(s) : Cell(h, r, i) = Cell(h, s, i)
      /\ Cell(h, r, Len(s) + 1) = n
      /\ Cell(h, r, Len(s) + 2) = h
  BY <1>1, <1>2 DEF Cell
<1>4. ASSUME NEW i \in 0 .. Len(r)
      PROVE  m.next[Cell(h, r, i)] = Cell(h, r, i + 1)
  <2>1. CASE i < Len(s)
    <3>1. /\ i \in 0 .. Len(s) /\ i + 1 \in 0 .. Len(s) /\ i # Len(s)
          /\ i \in 0 .. Len(s) + 1 /\ Len(s) \in 0 .. Len(s)
      BY <1>1, <1>2, <2>1
    <3>2. /\ Cell(h, s, i) # l.prev[h] /\ Cell(h, s, i) # n
          /\ Cell(h, s, i) \in {h} \cup Elements(s)
      BY <1>2, <3>1
    <3>3. l.next[Cell(h, s, i)] = Cell(h, s, i + 1)
      BY <3>1 DEF Ring
    <3> QED  BY <1>3, <3>1, <3>2, <3>3
  <2>2. CASE i = Len(s)
    <3>1. i \in 0 .. Len(s) /\ i \in 0 .. Len(s) + 1
      BY <1>2, <2>2
    <3>2. Cell(h, r, i) = l.prev[h] /\ l.prev[h] \in {h} \cup Elements(s)
      BY <1>2, <1>3, <2>2, <3>1
    <3> QED  BY <1>3, <2>2, <3>2
  <2>3. CASE i = Len(s) + 1
    <3>1. Cell(h, r, i) = n /\ Cell(h, r, i + 1) = h
      BY <1>2, <1>3, <2>3
    <3>2. Len(s) \in 0 .. Len(s) + 1
      BY <1>2
    <3>3. l.prev[h] # n
      BY <1>2, <3>2
    <3> QED  BY <3>1, <3>3
  <2> QED  BY <1>1, <1>2, <2>1, <2>2, <2>3
<1> QED  BY <1>4 DEF Ring, r, queue_append

(* queue_prepend adds it at the start.                                     *)
LEMMA RingPrepended ==
  ASSUME NEW l, NEW m, NEW h, NEW S, NEW s \in Seq(S), Distinct(s),
         h \notin Elements(s), Ring(l, h, s), NEW n \in S,
         n \notin Elements(s), n # h,
         \A c \in {h, n} \cup Elements(s) :
           m.next[c] = IF c = h THEN n
                       ELSE IF c = n THEN l.next[h] ELSE l.next[c]
  PROVE  Ring(m, h, queue_prepend(s, n))
<1> DEFINE r == <<n>> \o s
<1>1. /\ r \in Seq(S) /\ Len(r) = Len(s) + 1 /\ r[1] = n
      /\ \A i \in 1 .. Len(s) : r[i + 1] = s[i]
  OBVIOUS
<1>2. /\ Len(s) \in Nat
      /\ Cell(h, s, 0) = h /\ Cell(h, s, Len(s) + 1) = h
      /\ \A i \in 1 .. Len(s) : Cell(h, s, i) = s[i]
      /\ \A i \in 0 .. Len(s) + 1 : Cell(h, s, i) \in {h} \cup Elements(s)
      /\ \A i, j \in 0 .. Len(s) : Cell(h, s, i) = Cell(h, s, j) => i = j
  BY CellsOfRing
<1> HIDE DEF r
<1>3. Cell(h, r, 0) = h /\ Cell(h, r, 1) = n
  BY <1>1, <1>2 DEF Cell
<1>4. ASSUME NEW i \in 1 .. Len(s) + 1
      PROVE  Cell(h, r, i + 1) = Cell(h, s, i)
  <2>1. CASE i \in 1 .. Len(s)
    <3>1. i + 1 \in DOMAIN r
      BY <1>1, <1>2, <2>1
    <3> QED  BY <1>1, <1>2, <2>1, <3>1 DEF Cell
  <2>2. CASE i = Len(s) + 1
    <3>1. i + 1 \notin DOMAIN r
      BY <1>1, <1>2, <2>2
    <3> QED  BY <1>2, <2>2, <3>1 DEF Cell
  <2> QED  BY <1>2, <2>1, <2>2
<1>5. l.next[h] = Cell(h, s, 1)
  <2>1. 0 \in 0 .. Len(s)
    BY <1>2
  <2> QED  BY <1>2, <2>1 DEF Ring
<1>6. ASSUME NEW i \in 0 .. Len(r)
      PROVE  m.next[Cell(h, r, i)] = Cell(h, r, i + 1)
  <2>1. CASE i = 0
    BY <1>3, <2>1
  <2>2. CASE i = 1
    <3>1. 1 \in 1 .. Len(s) + 1
      BY <1>2
    <3>2. Cell(h, r, i + 1) = Cell(h, s, 1)
      BY <1>4, <2>2, <3>1
    <3> QED  BY <1>3, <1>5, <2>2, <3>2
  <2>3. CASE i > 1
    <3>1. PICK j : j = i - 1
      OBVIOUS
    <3>2. /\ j \in 1 .. Len(s) /\ i = j + 1 /\ j \in 0 .. Len(s)
          /\ j \in 1 .. Len(s) + 1 /\ j + 1 \in 1 .. Len(s) + 1
          /\ i + 1 = (j + 1) + 1
      BY <1>1, <1>2, <2>3, <3>1
    <3>3. Cell(h, r, i) = Cell(h, s, j) /\ Cell(h, r, i + 1) = Cell(h, s, j + 1)
      BY <1>4, <3>2
    <3>4. Cell(h, s, j) = s[j] /\ s[j] \in Elements(s)
      BY <1>2, <3>2 DEF Elements
    <3>5. l.next[Cell(h, s, j)] = Cell(h, s, j + 1)
      BY <3>2 DEF Ring
    <3> QED  BY <3>3, <3>4, <3>5
  <2> QED  BY <1>1, <1>2, <2>1, <2>2, <2>3
<1> QED  BY <1>6 DEF Ring, r, queue_prepend

-----------------------------------------------------------------------------
(* All rings together.                                                     *)

\* The nodes of U form the queues q, and those on no queue a ring each.
Laid(l, q, U) ==
  /\ q \in [Heads -> Seq(U)]
  /\ \A h \in Heads : Distinct(q[h]) /\ Ring(l, h, q[h])
  /\ \A g, h \in Heads : g # h => Elements(q[g]) \cap Elements(q[h]) = {}
  /\ \A n \in U : (\A h \in Heads : n \notin Elements(q[h])) => l.next[n] = n

LEMMA SeqOfElements ==
  ASSUME NEW S, NEW s \in Seq(S), NEW T, Elements(s) \subseteq T
  PROVE  s \in Seq(T)
<1>1. /\ DOMAIN s = 1 .. Len(s) /\ Len(s) \in Nat
      /\ s = [i \in 1 .. Len(s) |-> s[i]]
  OBVIOUS
<1>2. \A i \in 1 .. Len(s) : s[i] \in T
  BY <1>1 DEF Elements
<1> QED  BY <1>1, <1>2

LEMMA LaidQueue ==
  ASSUME NEW l, NEW q, NEW U \in SUBSET Nodes, Laid(l, q, U), NEW h \in Heads
  PROVE  /\ q[h] \in Seq(U) /\ Distinct(q[h]) /\ Ring(l, h, q[h])
         /\ Elements(q[h]) \subseteq U /\ h \notin Elements(q[h])
         /\ h \notin U
<1>1. q[h] \in Seq(U) /\ Distinct(q[h]) /\ Ring(l, h, q[h])
  BY DEF Laid
<1>2. Elements(q[h]) \subseteq U
  BY <1>1 DEF Elements
<1> QED  BY <1>1, <1>2, QueueAssumption

(* A node that is on a queue is between two other cells of its ring.       *)
LEMMA OnRing ==
  ASSUME NEW l, NEW q, NEW U \in SUBSET Nodes, Laid(l, q, U),
         Agree(l, Heads \cup U), NEW h \in Heads, NEW n \in Elements(q[h])
  PROVE  /\ n \in U
         /\ l.prev[n] = Cell(h, q[h], Position(q[h], n) - 1)
         /\ l.prev[n] \in {h} \cup Elements(q[h])
         /\ l.prev[n] # n
<1> DEFINE s == q[h]
           p == Position(s, n)
           V == Heads \cup U
<1>1. /\ s \in Seq(U) /\ Distinct(s) /\ Ring(l, h, s)
      /\ Elements(s) \subseteq U /\ h \notin Elements(s)
  BY LaidQueue
<1>2. s \in Seq(V) /\ h \in V
  BY <1>1, SeqOfElements
<1> HIDE DEF s
<1>3. p \in 1 .. Len(s) /\ s[p] = n
  BY <1>1, PositionFound DEF s
<1> HIDE DEF p
<1>4. /\ Len(s) \in Nat
      /\ \A i \in 1 .. Len(s) : Cell(h, s, i) = s[i]
      /\ \A i \in 0 .. Len(s) + 1 : Cell(h, s, i) \in {h} \cup Elements(s)
      /\ \A i, j \in 0 .. Len(s) : Cell(h, s, i) = Cell(h, s, j) => i = j
  BY <1>1, CellsOfRing
<1>5. PICK k : k = p - 1
  OBVIOUS
<1>6. k \in 0 .. Len(s) /\ k + 1 = p /\ k # p /\ p \in 0 .. Len(s)
      /\ k \in 0 .. Len(s) + 1
  BY <1>3, <1>4, <1>5
<1>7. l.prev[Cell(h, s, k + 1)] = Cell(h, s, k)
  <2>1. Agree(l, V)
    OBVIOUS
  <2> HIDE DEF V
  <2> QED  BY <1>1, <1>2, <1>6, <2>1, RingBack
<1>8. Cell(h, s, p) = n
  BY <1>3, <1>4
<1>9. l.prev[n] = Cell(h, s, k) /\ Cell(h, s, k) # Cell(h, s, p)
  BY <1>4, <1>6, <1>7, <1>8
<1> QED  BY <1>1, <1>4, <1>5, <1>6, <1>8, <1>9 DEF s, p

(* queue_is_enqueued tells whether the node is on a queue.                 *)
LEMMA EnqueuedIsOn ==
  ASSUME NEW l, NEW q, NEW U \in SUBSET Nodes, Laid(l, q, U),
         Agree(l, Heads \cup U), NEW n \in U
  PROVE  l.prev[n] # n <=> \E h \in Heads : n \in Elements(q[h])
<1>1. ASSUME NEW h \in Heads, n \in Elements(q[h])
      PROVE  l.prev[n] # n
  BY <1>1, OnRing
<1>2. ASSUME \A h \in Heads : n \notin Elements(q[h])
      PROVE  l.prev[n] = n
  <2>1. l.next[n] = n
    BY <1>2 DEF Laid
  <2> QED  BY <2>1 DEF Agree
<1> QED  BY <1>1, <1>2

(* What the operations do to the pointers forward.                         *)
LEMMA NextPointers ==
  ASSUME NEW l \in Links, NEW h \in Cells, NEW n \in Cells, NEW c \in Cells,
         l.prev[n] \in Cells, l.prev[h] \in Cells, h # n
  PROVE  /\ Rings!queue_node_init(l, n).next[c] = IF c = n THEN n ELSE l.next[c]
         /\ Rings!queue__detach_node(l, n).next[c] =
              IF c = l.prev[n] THEN l.next[n] ELSE l.next[c]
         /\ Rings!queue_prepend(l, h, n).next[c] =
              IF c = h THEN n ELSE IF c = n THEN l.next[h] ELSE l.next[c]
         /\ Rings!queue_append(l, h, n).next[c] =
              IF c = l.prev[h] THEN n ELSE IF c = n THEN h ELSE l.next[c]
<1>1. Rings!queue_node_init(l, n).next[c] = IF c = n THEN n ELSE l.next[c]
  BY DEF Rings!queue_node_init, Links
<1>2. Rings!queue__detach_node(l, n).next[c] =
        IF c = l.prev[n] THEN l.next[n] ELSE l.next[c]
  BY DEF Rings!queue__detach_node, Links
<1>3. Rings!queue_prepend(l, h, n).next[c] =
        IF c = h THEN n ELSE IF c = n THEN l.next[h] ELSE l.next[c]
  BY DEF Rings!queue_prepend, Links
<1>4. Rings!queue_append(l, h, n).next[c] =
        IF c = l.prev[h] THEN n ELSE IF c = n THEN h ELSE l.next[c]
  BY DEF Rings!queue_append, Links
<1> QED  BY <1>1, <1>2, <1>3, <1>4

(* The queues without a node.                                              *)
Without(q, n) == [h \in Heads |-> queue_remove(q[h], n)]

LEMMA LaidDetached ==
  ASSUME NEW l \in Links, NEW q, NEW U \in SUBSET Nodes, Laid(l, q, U),
         Agree(l, Heads \cup U), NEW h \in Heads, NEW n \in Elements(q[h])
  PROVE  Laid(Rings!queue__detach_node(l, n), Without(q, n), U \ {n})
<1> DEFINE d == Rings!queue__detach_node(l, n)
           r == Without(q, n)
<1>1. /\ n \in U /\ n \in Cells /\ h \in Cells /\ h # n
      /\ l.prev[n] = Cell(h, q[h], Position(q[h], n) - 1)
      /\ l.prev[n] \in {h} \cup Elements(q[h])
      /\ l.prev[n] \in Cells /\ l.prev[h] \in Cells
  <2>1. /\ n \in U
        /\ l.prev[n] = Cell(h, q[h], Position(q[h], n) - 1)
        /\ l.prev[n] \in {h} \cup Elements(q[h])
    BY OnRing
  <2>2. n \in Cells /\ h \in Cells /\ h # n
    BY <2>1, QueueAssumption DEF Cells
  <2> QED  BY <2>1, <2>2 DEF Links
<1>2. \A c \in Cells : d.next[c] = IF c = l.prev[n] THEN l.next[n] ELSE l.next[c]
  BY <1>1, NextPointers
<1> HIDE DEF d
<1>3. ASSUME NEW g \in Heads
      PROVE  /\ r[g] \in Seq(U \ {n}) /\ Distinct(r[g])
             /\ Elements(r[g]) = Elements(q[g]) \ {n}
             /\ Ring(d, g, r[g])
  <2>1. /\ q[g] \in Seq(U) /\ Distinct(q[g]) /\ Ring(l, g, q[g])
        /\ Elements(q[g]) \subseteq U /\ g \notin Elements(q[g])
    BY LaidQueue
  <2>2. r[g] = queue_remove(q[g], n)
    BY DEF Without
  <2> HIDE DEF r
  <2>3. /\ r[g] \in Seq(U) /\ Distinct(r[g])
        /\ Elements(r[g]) = Elements(q[g]) \ {n}
    BY <2>1, <2>2, RemoveElements, RemoveType
  <2>4. r[g] \in Seq(U \ {n})
    <3>1. Elements(r[g]) \subseteq U \ {n}
      BY <2>1, <2>3
    <3> QED  BY <2>3, <3>1, SeqOfElements
  <2>5. \A c \in {g} \cup Elements(q[g]) : c \in Cells
    BY <2>1 DEF Cells
  <2>6. CASE g = h
    <3>1. \A c \in {g} \cup Elements(q[g]) :
            d.next[c] = IF c = l.prev[n] THEN l.next[n] ELSE l.next[c]
      BY <1>2, <2>5
    <3>2. Ring(d, g, queue_remove(q[g], n))
      BY <1>1, <2>1, <2>6, <3>1, RingWithout
    <3> QED  BY <2>2, <2>3, <2>4, <3>2
  <2>7. CASE g # h
    <3>1. Elements(q[g]) \cap Elements(q[h]) = {}
      BY <2>7 DEF Laid
    <3>2. n \notin Elements(q[g]) /\ l.prev[n] \notin {g} \cup Elements(q[g])
      <4>1. h \notin U /\ g \notin U /\ Elements(q[h]) \subseteq U
        BY LaidQueue
      <4> QED  BY <1>1, <2>1, <2>7, <3>1, <4>1
    <3>3. queue_remove(q[g], n) = q[g]
      BY <3>2 DEF queue_remove
    <3>4. \A c \in {g} \cup Elements(q[g]) : d.next[c] = l.next[c]
      BY <1>2, <2>5, <3>2
    <3>5. Ring(d, g, q[g])
      BY <2>1, <3>4, RingSame
    <3> QED  BY <2>2, <2>3, <2>4, <3>3, <3>5
  <2> QED  BY <2>6, <2>7
<1>4. r \in [Heads -> Seq(U \ {n})]
  BY <1>3 DEF Without
<1> HIDE DEF r
<1>5. ASSUME NEW m \in U \ {n}, \A g \in Heads : m \notin Elements(r[g])
      PROVE  d.next[m] = m
  <2>1. \A g \in Heads : m \notin Elements(q[g])
    BY <1>3, <1>5
  <2>2. l.next[m] = m
    BY <2>1 DEF Laid
  <2>3. m # l.prev[n]
    <3>1. h \notin U
      BY LaidQueue
    <3> QED  BY <1>1, <2>1, <3>1
  <2>4. m \in Cells
    BY DEF Cells
  <2> QED  BY <1>2, <2>2, <2>3, <2>4
<1>6. \A f, g \in Heads : f # g => Elements(r[f]) \cap Elements(r[g]) = {}
  <2> SUFFICES ASSUME NEW f \in Heads, NEW g \in Heads, f # g
               PROVE  Elements(r[f]) \cap Elements(r[g]) = {}
    OBVIOUS
  <2>1. Elements(q[f]) \cap Elements(q[g]) = {}
    BY DEF Laid
  <2> QED  BY <1>3, <2>1
<1> QED  BY <1>3, <1>4, <1>5, <1>6 DEF Laid, d, r

(* A node is added to the end, or to the start, of a queue.                *)
LEMMA LaidAdded ==
  ASSUME NEW l \in Links, NEW q, NEW V \in SUBSET Nodes, Laid(l, q, V),
         Agree(l, Heads \cup V), NEW h \in Heads, NEW n \in Nodes, n \notin V
  PROVE  /\ Laid(Rings!queue_append(l, h, n),
                 [q EXCEPT ![h] = queue_append(@, n)], V \cup {n})
         /\ Laid(Rings!queue_prepend(l, h, n),
                 [q EXCEPT ![h] = queue_prepend(@, n)], V \cup {n})
<1> DEFINE U == V \cup {n}
           a == Rings!queue_append(l, h, n)
           p == Rings!queue_prepend(l, h, n)
<1>1. /\ n \in Cells /\ h \in Cells /\ h # n /\ U \in SUBSET Nodes
      /\ l.prev[n] \in Cells /\ l.prev[h] \in Cells
      /\ q \in [Heads -> Seq(V)]
  <2>1. n \in Cells /\ h \in Cells /\ h # n
    BY QueueAssumption DEF Cells
  <2> QED  BY <2>1 DEF Links, Laid
<1>2. \A c \in Cells :
        /\ a.next[c] = IF c = l.prev[h] THEN n ELSE IF c = n THEN h ELSE l.next[c]
        /\ p.next[c] = IF c = h THEN n ELSE IF c = n THEN l.next[h] ELSE l.next[c]
  BY <1>1, NextPointers
<1> HIDE DEF a, p
<1>3. ASSUME NEW g \in Heads
      PROVE  /\ q[g] \in Seq(U) /\ Distinct(q[g]) /\ Ring(l, g, q[g])
             /\ Elements(q[g]) \subseteq V /\ g \notin Elements(q[g]) /\ g # n
             /\ n \notin Elements(q[g]) /\ g \notin V
  <2>1. /\ q[g] \in Seq(V) /\ Distinct(q[g]) /\ Ring(l, g, q[g])
        /\ Elements(q[g]) \subseteq V /\ g \notin Elements(q[g]) /\ g \notin V
    BY LaidQueue
  <2>2. Elements(q[g]) \subseteq U
    BY <2>1
  <2> HIDE DEF U
  <2>3. q[g] \in Seq(U)
    BY <2>1, <2>2, SeqOfElements
  <2>4. g # n
    BY QueueAssumption
  <2> QED  BY <2>1, <2>3, <2>4
<1>4. /\ l.prev[h] = Cell(h, q[h], Len(q[h]))
      /\ l.prev[h] \in {h} \cup Elements(q[h])
  <2> DEFINE s == q[h]
             W == Heads \cup V
  <2>1. /\ Len(s) \in Nat /\ Cell(h, s, Len(s) + 1) = h
        /\ \A i \in 0 .. Len(s) + 1 : Cell(h, s, i) \in {h} \cup Elements(s)
    BY <1>3, CellsOfRing
  <2>2. Len(s) \in 0 .. Len(s) /\ Len(s) \in 0 .. Len(s) + 1
    BY <2>1
  <2>3. s \in Seq(W) /\ h \in W /\ Agree(l, W)
    <3>1. Elements(s) \subseteq W
      BY <1>3
    <3> HIDE DEF W
    <3>2. s \in Seq(W)
      BY <1>3, <3>1, SeqOfElements
    <3> QED  BY <3>2 DEF W
  <2>4. Distinct(s) /\ h \notin Elements(s) /\ Ring(l, h, s)
    BY <1>3
  <2> HIDE DEF s, W
  <2>5. l.prev[Cell(h, s, Len(s) + 1)] = Cell(h, s, Len(s))
    BY <2>2, <2>3, <2>4, RingBack
  <2> QED  BY <2>1, <2>2, <2>5 DEF s
<1>5. ASSUME NEW g \in Heads, g # h
      PROVE  Ring(a, g, q[g]) /\ Ring(p, g, q[g])
  <2>1. Elements(q[g]) \cap Elements(q[h]) = {}
    BY <1>5 DEF Laid
  <2>2. \A c \in {g} \cup Elements(q[g]) :
          c \in Cells /\ c # n /\ c # h /\ c # l.prev[h]
    BY <1>3, <1>4, <1>5, <2>1 DEF Cells
  <2>3. \A c \in {g} \cup Elements(q[g]) :
          a.next[c] = l.next[c] /\ p.next[c] = l.next[c]
    BY <1>2, <2>2
  <2> QED  BY <1>3, <2>3, RingSame
<1>6. \A c \in {h, n} \cup Elements(q[h]) : c \in Cells
  BY <1>1, <1>3 DEF Cells
<1>7. Ring(a, h, queue_append(q[h], n))
  <2>1. \A c \in {h, n} \cup Elements(q[h]) :
          a.next[c] = IF c = l.prev[h] THEN n
                      ELSE IF c = n THEN h ELSE l.next[c]
    BY <1>2, <1>6
  <2>2. n \in U
    OBVIOUS
  <2> HIDE DEF U
  <2> QED  BY <1>1, <1>3, <1>4, <2>1, <2>2, RingAppended
<1>8. Ring(p, h, queue_prepend(q[h], n))
  <2>1. \A c \in {h, n} \cup Elements(q[h]) :
          p.next[c] = IF c = h THEN n
                      ELSE IF c = n THEN l.next[h] ELSE l.next[c]
    BY <1>2, <1>6
  <2>2. n \in U
    OBVIOUS
  <2> HIDE DEF U
  <2> QED  BY <1>1, <1>3, <2>1, <2>2, RingPrepended
\* What both have in common.
<1>9. ASSUME NEW m, NEW s \in Seq(U), Distinct(s), Ring(m, h, s),
             Elements(s) = Elements(q[h]) \cup {n},
             \A g \in Heads : g # h => Ring(m, g, q[g]),
             \A c \in V : l.next[c] = c => m.next[c] = c
      PROVE  Laid(m, [q EXCEPT ![h] = s], U)
  <2> DEFINE r == [q EXCEPT ![h] = s]
  <2>1. \A g \in Heads : r[g] = IF g = h THEN s ELSE q[g]
    BY <1>1
  <2>2. r \in [Heads -> Seq(U)]
    BY <1>1, <1>3, <1>9, <2>1
  <2> HIDE DEF r
  <2>3. \A g \in Heads : Distinct(r[g]) /\ Ring(m, g, r[g])
    BY <1>3, <1>9, <2>1
  <2>4. \A f, g \in Heads : f # g => Elements(r[f]) \cap Elements(r[g]) = {}
    <3> SUFFICES ASSUME NEW f \in Heads, NEW g \in Heads, f # g
                 PROVE  Elements(r[f]) \cap Elements(r[g]) = {}
      OBVIOUS
    <3>1. Elements(q[f]) \cap Elements(q[g]) = {}
      BY DEF Laid
    <3> QED  BY <1>3, <1>9, <2>1, <3>1
  <2>5. ASSUME NEW c \in U, \A g \in Heads : c \notin Elements(r[g])
        PROVE  m.next[c] = c
    <3>1. c # n /\ c \in V
      BY <1>9, <2>1, <2>5
    <3>2. \A g \in Heads : c \notin Elements(q[g])
      BY <1>9, <2>1, <2>5
    <3>3. l.next[c] = c
      BY <3>1, <3>2 DEF Laid
    <3> QED  BY <1>9, <3>1, <3>3
  <2> QED  BY <2>2, <2>3, <2>4, <2>5 DEF Laid, r
<1>10. ASSUME NEW c \in V, l.next[c] = c
       PROVE  a.next[c] = c /\ p.next[c] = c
  <2>1. c \in Cells /\ c # n /\ c # h
    BY <1>3 DEF Cells
  <2>2. c # l.prev[h]
    <3>1. l.next[l.prev[h]] = h
      BY DEF Agree
    <3> QED  BY <1>10, <2>1, <3>1
  <2> QED  BY <1>2, <1>10, <2>1, <2>2
<1>11. /\ queue_append(q[h], n) \in Seq(U)
       /\ Elements(queue_append(q[h], n)) = Elements(q[h]) \cup {n}
       /\ Distinct(queue_append(q[h], n))
       /\ queue_prepend(q[h], n) \in Seq(U)
       /\ Elements(queue_prepend(q[h], n)) = Elements(q[h]) \cup {n}
       /\ Distinct(queue_prepend(q[h], n))
  <2>1. n \in U
    OBVIOUS
  <2> HIDE DEF U
  <2> QED  BY <1>3, <2>1, AppendElements, PrependElements
<1>12. Laid(a, [q EXCEPT ![h] = queue_append(q[h], n)], U)
  BY <1>5, <1>7, <1>9, <1>10, <1>11
<1>13. Laid(p, [q EXCEPT ![h] = queue_prepend(q[h], n)], U)
  BY <1>5, <1>8, <1>9, <1>10, <1>11
<1> QED  BY <1>12, <1>13 DEF a, p

(* A node is prepared, and starts a ring of its own.                       *)
LEMMA LaidPrepared ==
  ASSUME NEW l \in Links, NEW q, NEW V \in SUBSET Nodes, Laid(l, q, V),
         NEW n \in Nodes, n \notin V
  PROVE  Laid(Rings!queue_node_init(l, n), q, V \cup {n})
<1> DEFINE U == V \cup {n}
           m == Rings!queue_node_init(l, n)
<1>1. \A c \in Cells : m.next[c] = IF c = n THEN n ELSE l.next[c]
  BY DEF Rings!queue_node_init, Links, Cells
<1> HIDE DEF m
<1>2. ASSUME NEW g \in Heads
      PROVE  /\ q[g] \in Seq(U) /\ Distinct(q[g]) /\ Ring(m, g, q[g])
  <2>1. /\ q[g] \in Seq(V) /\ Distinct(q[g]) /\ Ring(l, g, q[g])
        /\ Elements(q[g]) \subseteq V /\ g \notin Elements(q[g])
    BY LaidQueue
  <2>2. \A c \in {g} \cup Elements(q[g]) : c \in Cells /\ c # n
    BY <2>1, QueueAssumption DEF Cells
  <2>3. \A c \in {g} \cup Elements(q[g]) : m.next[c] = l.next[c]
    BY <1>1, <2>2
  <2>4. Ring(m, g, q[g])
    BY <2>1, <2>3, RingSame
  <2>5. Elements(q[g]) \subseteq U
    BY <2>1
  <2> HIDE DEF U
  <2> QED  BY <2>1, <2>4, <2>5, SeqOfElements
<1>3. q \in [Heads -> Seq(U)]
  <2>1. q \in [Heads -> Seq(V)]
    BY DEF Laid
  <2> QED  BY <1>2, <2>1
<1>4. \A f, g \in Heads : f # g => Elements(q[f]) \cap Elements(q[g]) = {}
  BY DEF Laid
<1>5. ASSUME NEW c \in U, \A g \in Heads : c \notin Elements(q[g])
      PROVE  m.next[c] = c
  <2>1. c \in Cells
    BY DEF Cells
  <2>2. CASE c = n
    BY <1>1, <2>1, <2>2
  <2>3. CASE c # n
    <3>1. l.next[c] = c
      BY <1>5, <2>3 DEF Laid
    <3> QED  BY <1>1, <2>1, <2>3, <3>1
  <2> QED  BY <2>2, <2>3
<1> QED  BY <1>2, <1>3, <1>4, <1>5 DEF Laid, m

(* A node that is on no queue leaves none behind.                          *)
LEMMA LaidLeft ==
  ASSUME NEW l, NEW q, NEW U \in SUBSET Nodes, Laid(l, q, U),
         NEW n \in U, \A h \in Heads : n \notin Elements(q[h])
  PROVE  Laid(l, q, U \ {n}) /\ Without(q, n) = q
<1>1. ASSUME NEW h \in Heads
      PROVE  q[h] \in Seq(U \ {n})
  <2>1. q[h] \in Seq(U) /\ Elements(q[h]) \subseteq U \ {n}
    BY LaidQueue
  <2> QED  BY <2>1, SeqOfElements
<1>2. q \in [Heads -> Seq(U)]
  BY DEF Laid
<1>3. q \in [Heads -> Seq(U \ {n})]
  BY <1>1, <1>2
<1>4. Laid(l, q, U \ {n})
  BY <1>3 DEF Laid
<1>5. Without(q, n) = [h \in Heads |-> q[h]]
  BY DEF Without, queue_remove
<1> QED  BY <1>2, <1>4, <1>5

(* Read from the heads, the pointers are the queues they form.             *)
LEMMA QueuesAreRead ==
  ASSUME NEW q, live \in SUBSET Nodes, Laid(links, q, live)
  PROVE  Rings!queues = q
<1>1. ASSUME NEW h \in Heads PROVE Rings!Follow(h) = q[h]
  <2>1. /\ q[h] \in Seq(live) /\ Distinct(q[h]) /\ Ring(links, h, q[h])
        /\ Elements(q[h]) \subseteq live
    BY LaidQueue
  <2>2. q[h] \in Seq(Nodes)
    BY <2>1, SeqOfElements
  <2>3. PICK f : /\ Walks(f, links, h, Rings!Cardinality(Nodes) + 1)
                 /\ Rings!Follow(h) = Read(f, h)
    BY FollowReads
  <2> QED  BY <2>1, <2>2, <2>3, RingIsRead
<1>2. q = [h \in Heads |-> q[h]]
  BY DEF Laid
<1> QED  BY <1>1, <1>2 DEF Rings!queues

LEMMA QueuesAreReadPrimed ==
  ASSUME NEW q, live' \in SUBSET Nodes, Laid(links', q, live')
  PROVE  Rings!queues' = q
<1>1. ASSUME NEW h \in Heads PROVE Rings!Follow(h)' = q[h]
  <2>1. /\ q[h] \in Seq(live') /\ Distinct(q[h]) /\ Ring(links', h, q[h])
        /\ Elements(q[h]) \subseteq live'
    BY LaidQueue
  <2>2. q[h] \in Seq(Nodes)
    BY <2>1, SeqOfElements
  <2>3. PICK f : /\ Walks(f, links', h, Rings!Cardinality(Nodes) + 1)
                 /\ Rings!Follow(h)' = Read(f, h)
    BY FollowReadsPrimed
  <2> QED  BY <2>1, <2>2, <2>3, RingIsRead
<1>2. q = [h \in Heads |-> q[h]]
  BY DEF Laid
<1> QED  BY <1>1, <1>2 DEF Rings!queues

-----------------------------------------------------------------------------
(* The operations on the pointers are those on sequences.                  *)

LEMMA SameOperations ==
  /\ \A q : Rings!Promise!Elements(q) = Elements(q)
  /\ \A q : Rings!Seqs!Elements(q) = Elements(q)
  /\ \A q : Rings!Seqs!Distinct(q) = Distinct(q)
  /\ \A q, n : Rings!Promise!queue_append(q, n) = queue_append(q, n)
  /\ \A q, n : Rings!Promise!queue_remove(q, n) = queue_remove(q, n)
  /\ \A q, n : Rings!Promise!queue_move_to_start(q, n)
                 = queue_move_to_start(q, n)
  /\ \A q, n : Rings!Promise!queue_move_to_end(q, n)
                 = queue_move_to_end(q, n)
<1>1. /\ \A q : Rings!Promise!Elements(q) = Elements(q)
      /\ \A q : Rings!Seqs!Elements(q) = Elements(q)
  BY DEF Rings!Promise!Elements, Rings!Seqs!Elements, Elements
<1>2. \A q : Rings!Seqs!Distinct(q) = Distinct(q)
  BY DEF Rings!Seqs!Distinct, Distinct
<1>3. \A q, n : /\ Rings!Promise!queue_append(q, n) = queue_append(q, n)
                /\ Rings!Promise!queue_prepend(q, n) = queue_prepend(q, n)
  BY DEF Rings!Promise!queue_append, queue_append,
         Rings!Promise!queue_prepend, queue_prepend
<1>4. \A q, n : Rings!Promise!queue_remove(q, n) = queue_remove(q, n)
  <2>1. \A q, n : Rings!Promise!Position(q, n) = Position(q, n)
    BY DEF Rings!Promise!Position, Position
  <2> QED  BY <1>1, <2>1 DEF Rings!Promise!queue_remove, queue_remove
<1> QED
  BY <1>1, <1>2, <1>3, <1>4
  DEF Rings!Promise!queue_move_to_start, queue_move_to_start,
      Rings!Promise!queue_move_to_end, queue_move_to_end

\* Some sequences describe the pointers.
Whole == \E q : Laid(links, q, live)

LEMMA StepKeepsWhole ==
  ASSUME RingInv, RingInv', Whole, [Rings!Next]_(Rings!vars)
  PROVE  Whole' /\ [Rings!Promise!Next]_(Rings!Promise!vars)
<1>1. /\ links \in Links /\ live \in SUBSET Nodes /\ Used = Heads \cup live
      /\ Agree(links, Used) /\ live' \in SUBSET Nodes
  BY LinksAgreeIsAgree
  DEF RingInv, Rings!TypeOK, Links, Used, Cells, Rings!Cells
<1>2. PICK q : Laid(links, q, live)
  BY DEF Whole
<1>3. Rings!queues = q
  BY <1>1, <1>2, QueuesAreRead
\* It suffices to name the queues after the step.
<1>4. ASSUME NEW r, Laid(links', r, live'),
             Rings!queues' = r => [Rings!Promise!Next]_(Rings!Promise!vars)
      PROVE  Whole' /\ [Rings!Promise!Next]_(Rings!Promise!vars)
  <2>1. Rings!queues' = r
    BY <1>1, <1>4, QueuesAreReadPrimed
  <2> QED  BY <1>4, <2>1 DEF Whole
<1>5. CASE UNCHANGED Rings!vars
  <2>1. links' = links /\ live' = live
    BY <1>5 DEF Rings!vars
  <2>2. Laid(links', q, live')
    BY <1>2, <2>1
  <2>3. Rings!queues' = q => [Rings!Promise!Next]_(Rings!Promise!vars)
    BY <1>3, <2>1 DEF Rings!Promise!vars
  <2> QED  BY <1>4, <2>2, <2>3
<1> SUFFICES ASSUME NEW n \in Nodes,
                    \/ Rings!New(n) \/ Rings!Remove(n) \/ Rings!Delete(n)
                    \/ \E h \in Heads : Rings!Add(h, n) \/ Rings!Move(h, n)
             PROVE  Whole' /\ [Rings!Promise!Next]_(Rings!Promise!vars)
  BY <1>5 DEF Rings!Next
\* What is left of the others once n is out.
<1> DEFINE Rest == live \ {n}
<1>6. /\ n \notin Heads /\ n \in Cells /\ Rest \in SUBSET Nodes
      /\ Used \in SUBSET Cells /\ Used \ {n} = Heads \cup Rest
      /\ n \in live => n \in Used /\ live = Rest \cup {n}
  BY <1>1, QueueAssumption DEF Cells
<1>7. n \in live =>
        (links.prev[n] # n <=> \E h \in Heads : n \in Elements(q[h]))
  BY <1>1, <1>2, EnqueuedIsOn
<1>8. ASSUME NEW h \in Heads, n \in Elements(q[h])
      PROVE  /\ Rings!queue__detach_node(links, n) \in Links
             /\ Laid(Rings!queue__detach_node(links, n), Without(q, n), Rest)
             /\ Agree(Rings!queue__detach_node(links, n), Heads \cup Rest)
  <2>1. n \in live
    BY <1>1, <1>2, <1>8, LaidQueue
  <2>2. Laid(Rings!queue__detach_node(links, n), Without(q, n), Rest)
    BY <1>1, <1>2, <1>8, LaidDetached
  <2>3. /\ Rings!queue__detach_node(links, n) \in Links
        /\ Agree(Rings!queue__detach_node(links, n), Used \ {n})
    BY <1>1, <1>6, <2>1, DetachKeeps
  <2> QED  BY <1>6, <2>2, <2>3
<1> HIDE DEF Rest
\* The node is unlinked: what Remove and Delete do.
<1>9. ASSUME NEW h \in Heads, n \in Elements(q[h]), n \in live,
             links' = Rings!queue_remove(links, n)
      PROVE  Laid(links', Without(q, n), live)
  <2> DEFINE d == Rings!queue__detach_node(links, n)
  <2>1. d \in Links /\ Laid(d, Without(q, n), Rest) /\ n \notin Rest
    BY <1>8, <1>9 DEF Rest
  <2>2. links' = Rings!queue_node_init(d, n)
    BY <1>9 DEF Rings!queue_remove
  <2> HIDE DEF d
  <2>3. Laid(Rings!queue_node_init(d, n), Without(q, n), Rest \cup {n})
    BY <1>6, <2>1, LaidPrepared
  <2> QED  BY <1>6, <1>9, <2>2, <2>3
<1>10. Rings!queues' = Without(q, n) => Rings!Promise!Unlink(n)
  BY <1>3, SameOperations DEF Rings!Promise!Unlink, Without
<1>11. CASE Rings!New(n)
  <2>1. /\ n \notin live /\ live' = live \cup {n}
        /\ links' = Rings!queue_node_init(links, n)
    BY <1>11 DEF Rings!New
  <2>2. Laid(links', q, live')
    BY <1>1, <1>2, <2>1, LaidPrepared
  <2>3. Rings!queues' = q => Rings!Promise!New(n)
    BY <1>3, <2>1 DEF Rings!Promise!New
  <2> QED  BY <1>4, <2>2, <2>3 DEF Rings!Promise!Next
<1>12. CASE Rings!Remove(n)
  <2>1. /\ n \in live /\ live' = live /\ links.prev[n] # n
        /\ links' = Rings!queue_remove(links, n)
    BY <1>12 DEF Rings!Remove, Rings!is_enqueued
  <2>2. PICK h \in Heads : n \in Elements(q[h])
    BY <1>7, <2>1
  <2>3. Laid(links', Without(q, n), live')
    BY <1>9, <2>1, <2>2
  <2>4. Rings!queues' = Without(q, n) => Rings!Promise!Remove(n)
    BY <1>10, <2>1 DEF Rings!Promise!Remove
  <2> QED  BY <1>4, <2>3, <2>4 DEF Rings!Promise!Next
<1>13. CASE Rings!Delete(n)
  <2>1. n \in live /\ live' = live \ {n}
    BY <1>13 DEF Rings!Delete
  <2>2. Laid(links', Without(q, n), live')
    <3>1. CASE Rings!is_enqueued(n)
      <4>1. links.prev[n] # n /\ links' = Rings!queue_remove(links, n)
        BY <1>13, <3>1 DEF Rings!Delete, Rings!is_enqueued
      <4>2. PICK h \in Heads : n \in Elements(q[h])
        BY <1>7, <2>1, <4>1
      <4>3. Laid(links', Without(q, n), live)
        BY <1>9, <2>1, <4>1, <4>2
      <4>4. \A g \in Heads : n \notin Elements(Without(q, n)[g])
        <5> TAKE g \in Heads
        <5>1. q[g] \in Seq(live) /\ Distinct(q[g])
          BY <1>2 DEF Laid
        <5>2. Elements(queue_remove(q[g], n)) = Elements(q[g]) \ {n}
          BY <5>1, RemoveElements
        <5> QED  BY <5>2 DEF Without
      <4> QED  BY <1>1, <2>1, <4>3, <4>4, LaidLeft
    <3>2. CASE ~Rings!is_enqueued(n)
      <4>1. links.prev[n] = n /\ links' = links
        BY <1>13, <3>2 DEF Rings!Delete, Rings!is_enqueued
      <4>2. \A h \in Heads : n \notin Elements(q[h])
        BY <1>7, <2>1, <4>1
      <4> QED  BY <1>1, <1>2, <2>1, <4>1, <4>2, LaidLeft
    <3> QED  BY <3>1, <3>2
  <2>3. Rings!queues' = Without(q, n) => Rings!Promise!Delete(n)
    BY <1>10, <2>1 DEF Rings!Promise!Delete
  <2> QED  BY <1>4, <2>2, <2>3 DEF Rings!Promise!Next
<1>14. ASSUME NEW h \in Heads, Rings!Add(h, n)
       PROVE  Whole' /\ [Rings!Promise!Next]_(Rings!Promise!vars)
  <2>1. /\ n \in live /\ live' = live /\ links.prev[n] = n
        /\ links' = Rings!queue_append(links, h, n)
    BY <1>14 DEF Rings!Add, Rings!is_enqueued
  <2>2. \A g \in Heads : n \notin Elements(q[g])
    BY <1>7, <2>1
  <2>3. Laid(links, q, Rest)
    BY <1>1, <1>2, <2>1, <2>2, LaidLeft DEF Rest
  <2>4. Agree(links, Heads \cup Rest) /\ n \notin Rest
    <3>1. Agree(links, Used \ {n})
      BY <1>1, <1>6, <2>1, UnlinkedLeaves
    <3> QED  BY <1>6, <3>1 DEF Rest
  <2> DEFINE r == [q EXCEPT ![h] = queue_append(@, n)]
  <2>5. Laid(links', r, live')
    <3>1. Laid(Rings!queue_append(links, h, n), r, Rest \cup {n})
      BY <1>1, <1>6, <2>3, <2>4, LaidAdded
    <3> QED  BY <1>6, <2>1, <3>1
  <2>6. Rings!queues' = r => Rings!Promise!Add(h, n)
    BY <1>3, <2>1, <2>2, SameOperations
    DEF Rings!Promise!Add, Rings!Promise!On
  <2> QED  BY <1>4, <2>5, <2>6 DEF Rings!Promise!Next
<1>15. ASSUME NEW h \in Heads, Rings!Move(h, n)
       PROVE  Whole' /\ [Rings!Promise!Next]_(Rings!Promise!vars)
  <2> DEFINE d == Rings!queue__detach_node(links, n)
             w == Without(q, n)
  <2>1. /\ n \in live /\ live' = live /\ n \in Elements(q[h])
        /\ \/ links' = Rings!queue_prepend(d, h, n)
           \/ links' = Rings!queue_append(d, h, n)
    BY <1>3, <1>15, SameOperations
    DEF Rings!Move, Rings!queue_move_to_start, Rings!queue_move_to_end
  <2>2. d \in Links /\ Laid(d, w, Rest) /\ Agree(d, Heads \cup Rest)
    BY <1>8, <2>1
  <2>3. /\ q \in [Heads -> Seq(live)]
        /\ w = [q EXCEPT ![h] = queue_remove(@, n)]
    <3>1. q \in [Heads -> Seq(live)]
      BY <1>2 DEF Laid
    <3>2. \A g \in Heads : g # h => queue_remove(q[g], n) = q[g]
      <4> TAKE g \in Heads
      <4> HAVE g # h
      <4>1. Elements(q[g]) \cap Elements(q[h]) = {}
        BY <1>2 DEF Laid
      <4> QED  BY <2>1, <4>1 DEF queue_remove
    <3> QED  BY <3>1, <3>2 DEF Without
  <2> HIDE DEF d, w
  <2>4. n \notin Rest
    BY DEF Rest
  <2>5. /\ Laid(Rings!queue_append(d, h, n),
                [w EXCEPT ![h] = queue_append(@, n)], Rest \cup {n})
        /\ Laid(Rings!queue_prepend(d, h, n),
                [w EXCEPT ![h] = queue_prepend(@, n)], Rest \cup {n})
    BY <1>6, <2>2, <2>4, LaidAdded
  <2>6. /\ [w EXCEPT ![h] = queue_append(@, n)]
             = [q EXCEPT ![h] = queue_move_to_end(@, n)]
        /\ [w EXCEPT ![h] = queue_prepend(@, n)]
             = [q EXCEPT ![h] = queue_move_to_start(@, n)]
    BY <2>3 DEF queue_move_to_end, queue_move_to_start
  <2>7. h \in Rings!Promise!On(n)
    BY <1>3, <2>1, SameOperations DEF Rings!Promise!On
  <2>8. CASE links' = Rings!queue_prepend(d, h, n)
    <3> DEFINE r == [q EXCEPT ![h] = queue_move_to_start(@, n)]
    <3>1. Laid(links', r, live')
      BY <1>6, <2>1, <2>5, <2>6, <2>8
    <3>2. Rings!queues' = r => Rings!Promise!Move(h, n)
      BY <1>3, <2>1, <2>7, SameOperations DEF Rings!Promise!Move
    <3> QED  BY <1>4, <3>1, <3>2 DEF Rings!Promise!Next
  <2>9. CASE links' = Rings!queue_append(d, h, n)
    <3> DEFINE r == [q EXCEPT ![h] = queue_move_to_end(@, n)]
    <3>1. Laid(links', r, live')
      BY <1>6, <2>1, <2>5, <2>6, <2>9
    <3>2. Rings!queues' = r => Rings!Promise!Move(h, n)
      BY <1>3, <2>1, <2>7, SameOperations DEF Rings!Promise!Move
    <3> QED  BY <1>4, <3>1, <3>2 DEF Rings!Promise!Next
  <2> QED  BY <2>1, <2>8, <2>9
<1> QED  BY <1>11, <1>12, <1>13, <1>14, <1>15

LEMMA WholeReads ==
  ASSUME RingInv, Whole
  PROVE  Rings!RingsAreWhole
<1>1. /\ links \in Links /\ live \in SUBSET Nodes
      /\ Agree(links, Heads \cup live) /\ Rings!LinksAgree
  BY LinksAgreeIsAgree
  DEF RingInv, Rings!TypeOK, Links, Used, Cells, Rings!Cells
<1>2. PICK q : Laid(links, q, live)
  BY DEF Whole
<1>3. Rings!queues = q
  BY <1>1, <1>2, QueuesAreRead
<1>4. \A n \in live :
        Rings!is_enqueued(n) <=> \E h \in Heads : n \in Elements(q[h])
  <2> TAKE n \in live
  <2>1. links.prev[n] # n <=> \E h \in Heads : n \in Elements(q[h])
    BY <1>1, <1>2, EnqueuedIsOn
  <2> QED  BY <2>1 DEF Rings!is_enqueued
<1>5. \A g, h \in Heads :
        /\ Distinct(q[g])
        /\ g # h => Elements(q[g]) \cap Elements(q[h]) = {}
  BY <1>2 DEF Laid
<1>6. Rings!EnqueuedIsReachable
  BY <1>3, <1>4, <1>5, SameOperations DEF Rings!EnqueuedIsReachable
<1> QED  BY <1>1, <1>6 DEF Rings!RingsAreWhole

LEMMA WholeAtFirst ==
  ASSUME Rings!Init
  PROVE  Whole /\ Rings!Promise!Init
<1> DEFINE q == [h \in Heads |-> <<>>]
<1>1. links.next = [c \in Cells |-> c] /\ live = {}
  BY DEF Rings!Init, Rings!Cells, Cells
<1>2. ASSUME NEW h \in Heads
      PROVE  /\ q[h] \in Seq({}) /\ Distinct(q[h]) /\ Elements(q[h]) = {}
             /\ Ring(links, h, q[h])
  <2>1. q[h] = <<>> /\ h \in Cells
    BY DEF Cells
  <2> HIDE DEF q
  <2>2. Ring(links, h, <<>>)
    BY <1>1, <2>1 DEF Ring, Cell
  <2>3. <<>> \in Seq({}) /\ Distinct(<<>>) /\ Elements(<<>>) = {}
    BY DEF Distinct, Elements
  <2> QED  BY <2>1, <2>2, <2>3
<1>3. q \in [Heads -> Seq({})]
  BY <1>2
<1> HIDE DEF q
<1>4. Laid(links, q, live)
  BY <1>1, <1>2, <1>3 DEF Laid
<1>5. Rings!queues = q
  BY <1>1, <1>4, QueuesAreRead
<1> QED  BY <1>1, <1>4, <1>5 DEF Whole, Rings!Promise!Init, q

(* The pointers of the queues agree, no node is cut off its queue, and     *)
(* queue_is_enqueued is right, for any number of queues and nodes and any  *)
(* sequence of operations.                                                 *)
THEOREM RingsStayWhole == StructuresSpec => []RingsAreWhole
<1> DEFINE I == RingInv /\ Whole
<1>1. Rings!Init => I
  BY RingInit, WholeAtFirst
<1>2. I /\ [Rings!Next]_(Rings!vars) => I'
  BY RingStep, StepKeepsWhole DEF Whole
<1>3. I => RingsAreWhole
  BY WholeReads DEF RingsAreWhole
<1> QED  BY <1>1, <1>2, <1>3, PartsMove, PTL DEF Rings!Spec

(* The pointer operations implement operations on sequences: each step is  *)
(* one of the abstract queues, or leaves them alone.                       *)
THEOREM RingsAreQueues == StructuresSpec => ImplementsQueueSet
<1> DEFINE I == RingInv /\ Whole
<1>1. Rings!Init => I /\ Rings!Promise!Init
  BY RingInit, WholeAtFirst
<1>2. I /\ [Rings!Next]_(Rings!vars) => I'
  BY RingStep, StepKeepsWhole DEF Whole
<1>3. I /\ [Rings!Next]_(Rings!vars) =>
        [part = "queues" => Rings!Promise!Next]_(Rings!Promise!vars)
  BY RingStep, StepKeepsWhole
<1> QED
  BY <1>1, <1>2, <1>3, PartsMove, PTL DEF Rings!Spec, ImplementsQueueSet

-----------------------------------------------------------------------------
(* The resources of the epoll calls.                                       *)

\* How many members of the domain f maps to g.
CountOf(f, g) == Cardinality({x \in DOMAIN f : f[x] = g})

\* r is f without x.
Drops(f, x, r) ==
  /\ x \in DOMAIN f /\ DOMAIN r = DOMAIN f \ {x}
  /\ \A y \in DOMAIN r : r[y] = f[y]

(* A member leaves the domain, or joins it.                                *)
LEMMA CountDrops ==
  ASSUME NEW f, IsFiniteSet(DOMAIN f), NEW g, NEW x, NEW r, Drops(f, x, r)
  PROVE  /\ CountOf(f, g) \in Nat /\ IsFiniteSet(DOMAIN r)
         /\ f[x] = g => CountOf(r, g) = CountOf(f, g) - 1
         /\ f[x] # g => CountOf(r, g) = CountOf(f, g)
<1> DEFINE M == {y \in DOMAIN f : f[y] = g}
           R == {y \in DOMAIN r : r[y] = g}
<1>1. IsFiniteSet(M) /\ Cardinality(M) \in Nat
  BY FS_Subset, FS_CardinalityType
<1>2. IsFiniteSet(DOMAIN r)
  BY FS_Subset DEF Drops
<1>3. R = M \ {x} /\ (x \in M <=> f[x] = g)
  BY DEF Drops
<1>4. Cardinality(R) = Cardinality(M) - IF x \in M THEN 1 ELSE 0
  <2> HIDE DEF M, R
  <2>1. Cardinality(M \ {x}) =
          IF x \in M THEN Cardinality(M) - 1 ELSE Cardinality(M)
    BY <1>1, FS_RemoveElement
  <2> QED  BY <1>1, <1>3, <2>1
<1> QED  BY <1>1, <1>2, <1>3, <1>4 DEF CountOf

\* r is f with x added to its domain.
Grows(f, x, r) ==
  /\ x \notin DOMAIN f /\ DOMAIN r = DOMAIN f \cup {x}
  /\ \A y \in DOMAIN f : r[y] = f[y]

LEMMA CountGrows ==
  ASSUME NEW f, IsFiniteSet(DOMAIN f), NEW g, NEW x, NEW r, Grows(f, x, r)
  PROVE  /\ CountOf(f, g) \in Nat /\ IsFiniteSet(DOMAIN r)
         /\ r[x] = g => CountOf(r, g) = CountOf(f, g) + 1
         /\ r[x] # g => CountOf(r, g) = CountOf(f, g)
<1> DEFINE M == {y \in DOMAIN f : f[y] = g}
           R == {y \in DOMAIN r : r[y] = g}
<1>1. IsFiniteSet(M) /\ Cardinality(M) \in Nat
  BY FS_Subset, FS_CardinalityType
<1>2. IsFiniteSet(DOMAIN r)
  BY FS_AddElement DEF Grows
<1>3. R = (IF r[x] = g THEN M \cup {x} ELSE M) /\ x \notin M
  BY DEF Grows
<1>4. Cardinality(R) = Cardinality(M) + IF r[x] = g THEN 1 ELSE 0
  <2> HIDE DEF M, R
  <2>1. Cardinality(M \cup {x}) = Cardinality(M) + 1
    BY <1>1, <1>3, FS_AddElement
  <2> QED  BY <1>1, <1>3, <2>1
<1> QED  BY <1>1, <1>2, <1>4 DEF CountOf

(* The same of a sequence that grows at its end or loses its first member. *)
LEMMA CountSequence ==
  ASSUME NEW q \in Seq(Nat), NEW g
  PROVE  /\ CountOf(q, g) \in Nat
         /\ \A v \in Nat :
              /\ v = g => CountOf(Append(q, v), g) = CountOf(q, g) + 1
              /\ v # g => CountOf(Append(q, v), g) = CountOf(q, g)
         /\ q # <<>> =>
              /\ Head(q) = g => CountOf(Tail(q), g) = CountOf(q, g) - 1
              /\ Head(q) # g => CountOf(Tail(q), g) = CountOf(q, g)
<1>1. DOMAIN q = 1 .. Len(q) /\ Len(q) \in Nat
  OBVIOUS
<1>2. IsFiniteSet(DOMAIN q)
  BY <1>1, FS_Interval
<1>3. CountOf(q, g) \in Nat
  BY <1>2, FS_Subset, FS_CardinalityType DEF CountOf
<1>4. ASSUME NEW v \in Nat
      PROVE  /\ v = g => CountOf(Append(q, v), g) = CountOf(q, g) + 1
             /\ v # g => CountOf(Append(q, v), g) = CountOf(q, g)
  <2>1. PICK a, x : a = Append(q, v) /\ x = Len(q) + 1
    OBVIOUS
  <2>2. Grows(q, x, a) /\ a[x] = v
    BY <1>1, <2>1 DEF Grows
  <2>3. /\ a[x] = g => CountOf(a, g) = CountOf(q, g) + 1
        /\ a[x] # g => CountOf(a, g) = CountOf(q, g)
    BY <1>2, <2>2, CountGrows
  <2> QED  BY <2>1, <2>2, <2>3
<1>5. ASSUME q # <<>>
      PROVE  /\ Head(q) = g => CountOf(Tail(q), g) = CountOf(q, g) - 1
             /\ Head(q) # g => CountOf(Tail(q), g) = CountOf(q, g)
  <2> DEFINE t == Tail(q)
             r == [y \in DOMAIN q \ {1} |-> q[y]]
             T == {i \in DOMAIN t : t[i] = g}
             R == {i \in DOMAIN r : r[i] = g}
             up == [i \in T |-> i + 1]
  <2>1. /\ Len(q) >= 1 /\ DOMAIN t = 1 .. (Len(q) - 1)
        /\ \A i \in 1 .. (Len(q) - 1) : t[i] = q[i + 1]
        /\ Head(q) = q[1]
    BY <1>1, <1>5
  <2>2. 1 \in DOMAIN q
    BY <1>1, <2>1
  <2>3. /\ q[1] = g => CountOf(r, g) = CountOf(q, g) - 1
        /\ q[1] # g => CountOf(r, g) = CountOf(q, g)
    <3>1. Drops(q, 1, r)
      BY <2>2 DEF Drops
    <3> HIDE DEF r
    <3> QED  BY <1>2, <3>1, CountDrops
  <2> HIDE DEF t
  <2>4. ASSUME NEW i \in T PROVE i + 1 \in R
    BY <1>1, <2>1
  <2>5. ASSUME NEW j \in R PROVE \E i \in T : up[i] = j
    <3>1. j \in 1 .. Len(q) /\ j # 1 /\ q[j] = g
      BY <1>1
    <3>2. j - 1 \in 1 .. (Len(q) - 1) /\ (j - 1) + 1 = j
      BY <1>1, <3>1
    <3>3. j - 1 \in T
      BY <2>1, <3>1, <3>2
    <3> HIDE DEF T, R
    <3> QED  BY <3>2, <3>3
  <2>6. \A i \in T : i \in Nat
    BY <2>1
  <2>7. IsFiniteSet(T)
    <3>1. IsFiniteSet(DOMAIN t)
      BY <1>1, <2>1, FS_Interval
    <3> QED  BY <3>1, FS_Subset
  <2> HIDE DEF T, R
  <2>8. up \in Bijection(T, R)
    <3>1. up \in [T -> R] /\ \A i, j \in T : up[i] = up[j] => i = j
      BY <2>4, <2>6
    <3> HIDE DEF up
    <3> QED  BY <2>5, <3>1
             DEF Bijection, Injection, Surjection, IsInjective
  <2>9. Cardinality(R) = Cardinality(T)
    BY <2>7, <2>8, FS_Bijection DEF ExistsBijection
  <2> QED  BY <2>1, <2>3, <2>9 DEF CountOf, T, R, t
<1> QED  BY <1>3, <1>4, <1>5

-----------------------------------------------------------------------------
(* The steps of a port: its objects hold the places of its groups.         *)

LEMMA SameGroups ==
  /\ Calls!NoGroups = NoGroups
  /\ \A pg : Calls!NeedsNewGroup(pg) <=> NeedsNewGroup(pg)
  /\ \A pg : Calls!AcquiredGroup(pg) = AcquiredGroup(pg)
  /\ \A pg : Calls!poll_group_acquire(pg) = poll_group_acquire(pg)
  /\ \A pg, g : Calls!poll_group_release(pg, g) = poll_group_release(pg, g)
  /\ \A S : Calls!Cardinality(S) = Cardinality(S)
<1>1. \A q : /\ Calls!Elements(q) = Elements(q)
             /\ Calls!queue_last(q) = queue_last(q)
  BY DEF Calls!Elements, Elements, Calls!queue_last, queue_last
<1>2. \A q, n : /\ Calls!queue_append(q, n) = queue_append(q, n)
                /\ Calls!queue_prepend(q, n) = queue_prepend(q, n)
  BY DEF Calls!queue_append, queue_append, Calls!queue_prepend, queue_prepend
<1>3. \A q, n : Calls!queue_remove(q, n) = queue_remove(q, n)
  <2>1. \A q, n : Calls!Position(q, n) = Position(q, n)
    BY DEF Calls!Position, Position
  <2> QED  BY <1>1, <2>1 DEF Calls!queue_remove, queue_remove
<1>4. \A q, n : /\ Calls!queue_move_to_start(q, n) = queue_move_to_start(q, n)
                /\ Calls!queue_move_to_end(q, n) = queue_move_to_end(q, n)
  BY <1>2, <1>3 DEF Calls!queue_move_to_start, queue_move_to_start,
                    Calls!queue_move_to_end, queue_move_to_end
<1>5. \A pg : Calls!NeedsNewGroup(pg) <=> NeedsNewGroup(pg)
  BY <1>1 DEF Calls!NeedsNewGroup, NeedsNewGroup, Calls!Full, Full
<1>6. \A pg : Calls!WithRoom(pg) = WithRoom(pg)
  BY <1>2, <1>5 DEF Calls!WithRoom, WithRoom, Calls!poll_group__new,
                    poll_group__new
<1>7. \A pg : Calls!AcquiredGroup(pg) = AcquiredGroup(pg)
  BY <1>1, <1>6 DEF Calls!AcquiredGroup, AcquiredGroup
<1>8. \A pg : Calls!poll_group_acquire(pg) = poll_group_acquire(pg)
  BY <1>4, <1>6, <1>7 DEF Calls!poll_group_acquire, poll_group_acquire,
                          Calls!Fills, Fills
<1>9. \A pg, g : Calls!poll_group_release(pg, g) = poll_group_release(pg, g)
  BY <1>4 DEF Calls!poll_group_release, poll_group_release
<1>10. Calls!NoGroups = NoGroups
  BY DEF Calls!NoGroups, NoGroups
<1>11. \A S : Calls!Cardinality(S) = Cardinality(S)
  BY DEF Calls!Cardinality, Cardinality
<1> QED  BY <1>5, <1>7, <1>8, <1>9, <1>10, <1>11

\* The places in the groups of p are those of its objects, and one in the
\* group hand unless hand is 0.
Places(p, hand) ==
  /\ hand \in {0} \cup DOMAIN p.groups.size
  /\ \A s \in DOMAIN p.socks : p.socks[s] \in DOMAIN p.groups.size
  /\ \A i \in DOMAIN p.deleted : p.deleted[i] \in DOMAIN p.groups.size
  /\ \A g \in DOMAIN p.groups.size :
       p.groups.size[g] = CountOf(p.socks, g) + CountOf(p.deleted, g)
                          + IF g = hand THEN 1 ELSE 0

SoundPort(p, hand) ==
  p \in Calls!PortStates /\ WellFormed(p.groups) /\ Places(p, hand)

LEMMA PortParts ==
  ASSUME NEW p \in Calls!PortStates
  PROVE  /\ p = [socks |-> p.socks, deleted |-> p.deleted, groups |-> p.groups]
         /\ p.socks \in [DOMAIN p.socks -> Nat]
         /\ DOMAIN p.socks \subseteq Sockets /\ IsFiniteSet(DOMAIN p.socks)
         /\ p.deleted \in Seq(Nat) /\ p.groups \in Groups
         /\ p # NULL
<1>1. /\ p = [socks |-> p.socks, deleted |-> p.deleted, groups |-> p.groups]
      /\ \E S \in SUBSET Sockets : p.socks \in [S -> Nat]
      /\ p.deleted \in Seq(Nat) /\ p.groups \in Groups
  BY DEF Calls!PortStates, Groups
<1>2. p.socks \in [DOMAIN p.socks -> Nat] /\ DOMAIN p.socks \subseteq Sockets
  BY <1>1
<1>3. Calls!IsFiniteSet(Sockets) /\ NULL \notin Calls!PortStates
  BY StructuresAssumption DEF Calls!CallsAssumption
<1>4. IsFiniteSet(Sockets)
  BY <1>3 DEF Calls!IsFiniteSet, IsFiniteSet
<1> QED  BY <1>1, <1>2, <1>3, <1>4, FS_Subset

LEMMA PortMade ==
  ASSUME NEW f, f \in [DOMAIN f -> Nat], DOMAIN f \subseteq Sockets,
         NEW d \in Seq(Nat), NEW g, WellFormed(g)
  PROVE  [socks |-> f, deleted |-> d, groups |-> g] \in Calls!PortStates
<1>1. f \in UNION {[S -> Nat] : S \in SUBSET Sockets}
  OBVIOUS
<1>2. g \in [queue : Seq(Nat), size : Seq(Nat)]
  BY DEF WellFormed, Groups
<1> QED  BY <1>1, <1>2 DEF Calls!PortStates

LEMMA PlacesAreNumbers ==
  ASSUME NEW p, NEW hand, SoundPort(p, hand), NEW g
  PROVE  CountOf(p.socks, g) \in Nat /\ CountOf(p.deleted, g) \in Nat
<1>1. p.deleted \in Seq(Nat) /\ IsFiniteSet(DOMAIN p.socks)
  BY PortParts DEF SoundPort
<1>2. CountOf(p.socks, g) \in Nat
  BY <1>1, FS_Subset, FS_CardinalityType DEF CountOf
<1> QED  BY <1>1, <1>2, CountSequence

LEMMA PortFields ==
  ASSUME NEW p, p = [socks |-> p.socks, deleted |-> p.deleted,
                     groups |-> p.groups],
         NEW v
  PROVE  /\ [p EXCEPT !.deleted = v]
              = [socks |-> p.socks, deleted |-> v, groups |-> p.groups]
         /\ [p EXCEPT !.groups = v]
              = [socks |-> p.socks, deleted |-> p.deleted, groups |-> v]
         /\ [p EXCEPT !.socks = v]
              = [socks |-> v, deleted |-> p.deleted, groups |-> p.groups]
  OBVIOUS

(* A registered socket leaves the tree; its place is in hand.              *)
LEMMA PortUnregisters ==
  ASSUME NEW p, SoundPort(p, 0), NEW s \in DOMAIN p.socks
  PROVE  LET u == Calls!Unregistered(p, s)
         IN  /\ SoundPort(u, p.socks[s]) /\ p.socks[s] \in Nat \ {0}
             /\ u.groups = p.groups /\ u.deleted = p.deleted
             /\ DOMAIN u.socks = DOMAIN p.socks \ {s}
<1> DEFINE u == Calls!Unregistered(p, s)
           f == [x \in DOMAIN p.socks \ {s} |-> p.socks[x]]
           h == p.socks[s]
<1>1. /\ p = [socks |-> p.socks, deleted |-> p.deleted, groups |-> p.groups]
      /\ p.socks \in [DOMAIN p.socks -> Nat]
      /\ DOMAIN p.socks \subseteq Sockets /\ IsFiniteSet(DOMAIN p.socks)
      /\ p.deleted \in Seq(Nat) /\ WellFormed(p.groups)
  BY PortParts DEF SoundPort
<1>2. u = [socks |-> f, deleted |-> p.deleted, groups |-> p.groups]
  <2>1. u = [p EXCEPT !.socks = f]
    BY DEF Calls!Unregistered
  <2> HIDE DEF u, f
  <2> QED  BY <1>1, <2>1, PortFields
<1>3. /\ DOMAIN f = DOMAIN p.socks \ {s} /\ f \in [DOMAIN f -> Nat]
      /\ \A x \in DOMAIN f : f[x] = p.socks[x]
  BY <1>1
<1> HIDE DEF f
<1>4. u \in Calls!PortStates
  BY <1>1, <1>2, <1>3, PortMade
<1>5. /\ u.socks = f /\ u.deleted = p.deleted /\ u.groups = p.groups
  BY <1>2
<1> HIDE DEF u
<1>6. h \in DOMAIN p.groups.size /\ 0 \notin DOMAIN p.groups.size /\ h \in Nat
  BY <1>1 DEF SoundPort, Places, WellFormed, Groups
<1>7. ASSUME NEW g \in DOMAIN p.groups.size
      PROVE  p.groups.size[g] = CountOf(f, g) + CountOf(p.deleted, g)
                                + IF g = h THEN 1 ELSE 0
  <2>1. /\ p.groups.size[g] = CountOf(p.socks, g) + CountOf(p.deleted, g) + 0
        /\ CountOf(p.socks, g) \in Nat /\ CountOf(p.deleted, g) \in Nat
    BY <1>6, PlacesAreNumbers DEF SoundPort, Places
  <2>2. /\ h = g => CountOf(f, g) = CountOf(p.socks, g) - 1
        /\ h # g => CountOf(f, g) = CountOf(p.socks, g)
    <3>1. Drops(p.socks, s, f)
      BY <1>3 DEF Drops
    <3> HIDE DEF f
    <3> QED  BY <1>1, <3>1, CountDrops
  <2> HIDE DEF h
  <2>3. CASE h = g
    BY <2>1, <2>2, <2>3
  <2>4. CASE h # g
    BY <2>1, <2>2, <2>4
  <2> QED  BY <2>3, <2>4
<1>8. Places(u, h)
  <2>1. \A x \in DOMAIN f : f[x] \in DOMAIN p.groups.size
    BY <1>3 DEF SoundPort, Places
  <2>2. \A i \in DOMAIN p.deleted : p.deleted[i] \in DOMAIN p.groups.size
    BY DEF SoundPort, Places
  <2> HIDE DEF h
  <2> QED  BY <1>5, <1>6, <1>7, <2>1, <2>2 DEF Places
<1> QED  BY <1>1, <1>3, <1>4, <1>5, <1>6, <1>8 DEF SoundPort, u

(* A deleted object leaves the queue; its place is in hand.                *)
LEMMA PortPicksDeleted ==
  ASSUME NEW p, SoundPort(p, 0), p.deleted # <<>>
  PROVE  LET u == [p EXCEPT !.deleted = Tail(@)]
             h == Head(p.deleted)
         IN  /\ SoundPort(u, h) /\ h \in Nat \ {0}
             /\ u.groups = p.groups /\ u.socks = p.socks
             /\ Len(u.deleted) = Len(p.deleted) - 1
<1> DEFINE u == [p EXCEPT !.deleted = Tail(@)]
           d == Tail(p.deleted)
           h == Head(p.deleted)
<1>1. /\ p = [socks |-> p.socks, deleted |-> p.deleted, groups |-> p.groups]
      /\ p.socks \in [DOMAIN p.socks -> Nat]
      /\ DOMAIN p.socks \subseteq Sockets
      /\ p.deleted \in Seq(Nat) /\ WellFormed(p.groups)
  BY PortParts DEF SoundPort
<1>2. u = [socks |-> p.socks, deleted |-> d, groups |-> p.groups]
  <2> HIDE DEF d
  <2>1. [p EXCEPT !.deleted = d]
          = [socks |-> p.socks, deleted |-> d, groups |-> p.groups]
    BY <1>1, PortFields
  <2> QED  BY <2>1 DEF d
<1>3. /\ d \in Seq(Nat) /\ Len(d) = Len(p.deleted) - 1 /\ h = p.deleted[1]
      /\ 1 \in DOMAIN p.deleted
      /\ \A i \in DOMAIN d : /\ i + 1 \in DOMAIN p.deleted
                             /\ d[i] = p.deleted[i + 1]
  <2> DEFINE q == p.deleted
  <2>1. q \in Seq(Nat) /\ q # <<>>
    BY <1>1
  <2> HIDE DEF q
  <2>2. /\ Tail(q) \in Seq(Nat) /\ Len(Tail(q)) = Len(q) - 1
        /\ Head(q) = q[1] /\ DOMAIN q = 1 .. Len(q) /\ Len(q) \in Nat \ {0}
        /\ DOMAIN Tail(q) = 1 .. (Len(q) - 1)
        /\ \A i \in 1 .. (Len(q) - 1) : Tail(q)[i] = q[i + 1]
    BY <2>1
  <2>3. 1 \in DOMAIN q /\ \A i \in DOMAIN Tail(q) : i + 1 \in DOMAIN q
    BY <2>2
  <2> QED  BY <2>2, <2>3 DEF q
<1> HIDE DEF d
<1>4. u \in Calls!PortStates
  BY <1>1, <1>2, <1>3, PortMade
<1>5. /\ u.socks = p.socks /\ u.deleted = d /\ u.groups = p.groups
  BY <1>2
<1> HIDE DEF u
<1>6. h \in DOMAIN p.groups.size /\ 0 \notin DOMAIN p.groups.size /\ h \in Nat
  BY <1>1, <1>3 DEF SoundPort, Places, WellFormed, Groups
<1>7. ASSUME NEW g \in DOMAIN p.groups.size
      PROVE  p.groups.size[g] = CountOf(p.socks, g) + CountOf(d, g)
                                + IF g = h THEN 1 ELSE 0
  <2>1. /\ p.groups.size[g] = CountOf(p.socks, g) + CountOf(p.deleted, g) + 0
        /\ CountOf(p.socks, g) \in Nat /\ CountOf(p.deleted, g) \in Nat
    BY <1>6, PlacesAreNumbers DEF SoundPort, Places
  <2>2. /\ h = g => CountOf(d, g) = CountOf(p.deleted, g) - 1
        /\ h # g => CountOf(d, g) = CountOf(p.deleted, g)
    BY <1>1, CountSequence DEF d
  <2> HIDE DEF h
  <2>3. CASE h = g
    BY <2>1, <2>2, <2>3
  <2>4. CASE h # g
    BY <2>1, <2>2, <2>4
  <2> QED  BY <2>3, <2>4
<1>8. Places(u, h)
  <2>1. \A s \in DOMAIN p.socks : p.socks[s] \in DOMAIN p.groups.size
    BY DEF SoundPort, Places
  <2>2. \A i \in DOMAIN d : d[i] \in DOMAIN p.groups.size
    BY <1>3 DEF SoundPort, Places
  <2> HIDE DEF h
  <2> QED  BY <1>5, <1>6, <1>7, <2>1, <2>2 DEF Places
<1> QED  BY <1>1, <1>3, <1>4, <1>5, <1>6, <1>8 DEF SoundPort, u, h

(* An object that has left the tree waits on the queue with its place.     *)
LEMMA PortDefers ==
  ASSUME NEW p, NEW h \in Nat \ {0}, SoundPort(p, h)
  PROVE  LET u == [p EXCEPT !.deleted = Append(@, h)]
         IN  /\ SoundPort(u, 0)
             /\ u.groups = p.groups /\ u.socks = p.socks
             /\ Len(u.deleted) = Len(p.deleted) + 1
<1> DEFINE u == [p EXCEPT !.deleted = Append(@, h)]
           d == Append(p.deleted, h)
<1>1. /\ p = [socks |-> p.socks, deleted |-> p.deleted, groups |-> p.groups]
      /\ p.socks \in [DOMAIN p.socks -> Nat]
      /\ DOMAIN p.socks \subseteq Sockets
      /\ p.deleted \in Seq(Nat) /\ WellFormed(p.groups)
  BY PortParts DEF SoundPort
<1>2. u = [socks |-> p.socks, deleted |-> d, groups |-> p.groups]
  <2> HIDE DEF d
  <2>1. [p EXCEPT !.deleted = d]
          = [socks |-> p.socks, deleted |-> d, groups |-> p.groups]
    BY <1>1, PortFields
  <2> QED  BY <2>1 DEF d
<1>3. /\ d \in Seq(Nat) /\ Len(d) = Len(p.deleted) + 1
      /\ \A i \in DOMAIN d : \/ d[i] = h
                             \/ i \in DOMAIN p.deleted /\ d[i] = p.deleted[i]
  <2> DEFINE q == p.deleted
  <2>1. q \in Seq(Nat)
    BY <1>1
  <2> HIDE DEF q
  <2>2. /\ Append(q, h) \in Seq(Nat) /\ Len(Append(q, h)) = Len(q) + 1
        /\ DOMAIN q = 1 .. Len(q) /\ Len(q) \in Nat
        /\ DOMAIN Append(q, h) = 1 .. (Len(q) + 1)
        /\ \A i \in 1 .. Len(q) : Append(q, h)[i] = q[i]
        /\ Append(q, h)[Len(q) + 1] = h
    BY <2>1
  <2>3. \A i \in DOMAIN Append(q, h) : i = Len(q) + 1 \/ i \in DOMAIN q
    BY <2>2
  <2> QED  BY <2>2, <2>3 DEF q
<1> HIDE DEF d
<1>4. u \in Calls!PortStates
  BY <1>1, <1>2, <1>3, PortMade
<1>5. /\ u.socks = p.socks /\ u.deleted = d /\ u.groups = p.groups
  BY <1>2
<1> HIDE DEF u
<1>6. h \in DOMAIN p.groups.size /\ 0 \notin DOMAIN p.groups.size
  BY <1>1 DEF SoundPort, Places, WellFormed, Groups
<1>7. ASSUME NEW g \in DOMAIN p.groups.size
      PROVE  p.groups.size[g] = CountOf(p.socks, g) + CountOf(d, g)
                                + IF g = 0 THEN 1 ELSE 0
  <2>1. /\ p.groups.size[g] = CountOf(p.socks, g) + CountOf(p.deleted, g)
                              + IF g = h THEN 1 ELSE 0
        /\ CountOf(p.socks, g) \in Nat /\ CountOf(p.deleted, g) \in Nat
    BY PlacesAreNumbers DEF SoundPort, Places
  <2>2. /\ h = g => CountOf(d, g) = CountOf(p.deleted, g) + 1
        /\ h # g => CountOf(d, g) = CountOf(p.deleted, g)
    BY <1>1, CountSequence DEF d
  <2>3. CASE h = g
    BY <1>6, <2>1, <2>2, <2>3
  <2>4. CASE h # g
    BY <1>6, <2>1, <2>2, <2>4
  <2> QED  BY <2>3, <2>4
<1>8. Places(u, 0)
  <2>1. \A s \in DOMAIN p.socks : p.socks[s] \in DOMAIN p.groups.size
    BY DEF SoundPort, Places
  <2>2. \A i \in DOMAIN d : d[i] \in DOMAIN p.groups.size
    BY <1>3, <1>6 DEF SoundPort, Places
  <2> QED  BY <1>5, <1>6, <1>7, <2>1, <2>2 DEF Places
<1> QED  BY <1>1, <1>3, <1>4, <1>5, <1>8 DEF SoundPort, u

LEMMA CountNone ==
  ASSUME NEW f, NEW g, \A x \in DOMAIN f : f[x] # g
  PROVE  CountOf(f, g) = 0
<1>1. {x \in DOMAIN f : f[x] = g} = {}
  OBVIOUS
<1> QED  BY <1>1, FS_EmptySet DEF CountOf

(* A place is given back.                                                  *)
LEMMA PortReleases ==
  ASSUME NEW p, NEW h \in Nat \ {0}, SoundPort(p, h)
  PROVE  LET u == Calls!Freed(p, h)
         IN  /\ SoundPort(u, 0)
             /\ u.socks = p.socks /\ u.deleted = p.deleted
             /\ Len(u.groups.size) = Len(p.groups.size)
<1> DEFINE u == Calls!Freed(p, h)
           r == poll_group_release(p.groups, h)
<1>1. /\ p = [socks |-> p.socks, deleted |-> p.deleted, groups |-> p.groups]
      /\ p.socks \in [DOMAIN p.socks -> Nat]
      /\ DOMAIN p.socks \subseteq Sockets
      /\ p.deleted \in Seq(Nat) /\ WellFormed(p.groups)
  BY PortParts DEF SoundPort
<1>2. u = [socks |-> p.socks, deleted |-> p.deleted, groups |-> r]
  <2>1. u = [p EXCEPT !.groups = r]
    BY SameGroups DEF Calls!Freed
  <2> HIDE DEF u, r
  <2> QED  BY <1>1, <2>1, PortFields
<1>3. /\ p.groups.size[h] = CountOf(p.socks, h) + CountOf(p.deleted, h) + 1
      /\ CountOf(p.socks, h) \in Nat /\ CountOf(p.deleted, h) \in Nat
      /\ h \in DOMAIN p.groups.size
  BY PlacesAreNumbers DEF SoundPort, Places
<1>4. /\ WellFormed(r) /\ DOMAIN r.size = DOMAIN p.groups.size
      /\ r.size[h] = p.groups.size[h] - 1
      /\ \A g \in DOMAIN r.size \ {h} : r.size[g] = p.groups.size[g]
  BY <1>1, <1>3, ReleaseWellFormed
<1> HIDE DEF r
<1>5. Len(r.size) = Len(p.groups.size)
  BY <1>1, <1>4 DEF WellFormed, Groups
<1>6. u \in Calls!PortStates
  BY <1>1, <1>2, <1>4, PortMade
<1>7. u.socks = p.socks /\ u.deleted = p.deleted /\ u.groups = r
  BY <1>2
<1> HIDE DEF u
<1>8. 0 \notin DOMAIN p.groups.size
  BY <1>1 DEF WellFormed, Groups
<1>9. ASSUME NEW g \in DOMAIN r.size
      PROVE  r.size[g] = CountOf(p.socks, g) + CountOf(p.deleted, g)
                         + IF g = 0 THEN 1 ELSE 0
  <2>1. /\ p.groups.size[g] = CountOf(p.socks, g) + CountOf(p.deleted, g)
                              + IF g = h THEN 1 ELSE 0
        /\ CountOf(p.socks, g) \in Nat /\ CountOf(p.deleted, g) \in Nat
    BY <1>4, PlacesAreNumbers DEF SoundPort, Places
  <2>2. CASE h = g
    BY <1>4, <1>8, <2>1, <2>2
  <2>3. CASE h # g
    BY <1>4, <1>8, <2>1, <2>3
  <2> QED  BY <2>2, <2>3
<1>10. Places(u, 0)
  BY <1>4, <1>7, <1>9 DEF SoundPort, Places
<1> QED  BY <1>4, <1>5, <1>6, <1>7, <1>10 DEF SoundPort, u

(* poll_group_acquire takes a place for the object that is being made, in  *)
(* a new group only when it needs one.                                     *)
LEMMA PortAcquires ==
  ASSUME NEW p, SoundPort(p, 0)
  PROVE  LET u == [p EXCEPT !.groups = Calls!poll_group_acquire(@)]
             h == Calls!AcquiredGroup(p.groups)
         IN  /\ SoundPort(u, h) /\ h \in Nat \ {0}
             /\ u.socks = p.socks /\ u.deleted = p.deleted
             /\ NeedsNewGroup(p.groups) =>
                  Len(u.groups.size) = Len(p.groups.size) + 1
             /\ ~NeedsNewGroup(p.groups) =>
                  Len(u.groups.size) = Len(p.groups.size)
<1> DEFINE u == [p EXCEPT !.groups = Calls!poll_group_acquire(@)]
           h == Calls!AcquiredGroup(p.groups)
           a == poll_group_acquire(p.groups)
           w == WithRoom(p.groups)
<1>1. /\ p = [socks |-> p.socks, deleted |-> p.deleted, groups |-> p.groups]
      /\ p.socks \in [DOMAIN p.socks -> Nat]
      /\ DOMAIN p.socks \subseteq Sockets
      /\ p.deleted \in Seq(Nat) /\ WellFormed(p.groups)
  BY PortParts DEF SoundPort
<1>2. u = [socks |-> p.socks, deleted |-> p.deleted, groups |-> a]
  <2>1. u = [p EXCEPT !.groups = a]
    BY SameGroups
  <2> HIDE DEF u, a
  <2> QED  BY <1>1, <2>1, PortFields
<1>3. h = AcquiredGroup(p.groups)
  BY SameGroups
<1>4. /\ WellFormed(w) /\ h \in DOMAIN w.size
      /\ DOMAIN p.groups.size \subseteq DOMAIN w.size
      /\ \A g \in DOMAIN p.groups.size : w.size[g] = p.groups.size[g]
      /\ \A g \in DOMAIN w.size \ DOMAIN p.groups.size : w.size[g] = 0
  BY <1>1, <1>3, WithRoomWellFormed
<1>5. /\ WellFormed(a) /\ DOMAIN a.size = DOMAIN w.size
      /\ a.size[h] = w.size[h] + 1
      /\ \A g \in DOMAIN a.size \ {h} : a.size[g] = w.size[g]
  BY <1>1, <1>3, AcquireWellFormed
<1>6. /\ p.groups.size \in Seq(Nat)
      /\ a.size \in Seq(Nat) /\ w.size \in Seq(Nat)
  BY <1>1, <1>4, <1>5 DEF WellFormed, Groups
<1>7. /\ NeedsNewGroup(p.groups) => Len(w.size) = Len(p.groups.size) + 1
      /\ ~NeedsNewGroup(p.groups) => Len(w.size) = Len(p.groups.size)
  <2>1. CASE NeedsNewGroup(p.groups)
    <3>1. w.size = Append(p.groups.size, 0)
      BY <2>1 DEF WithRoom, poll_group__new
    <3> QED  BY <1>6, <2>1, <3>1
  <2>2. CASE ~NeedsNewGroup(p.groups)
    BY <2>2 DEF WithRoom
  <2> QED  BY <2>1, <2>2
<1> HIDE DEF a, w
<1>8. Len(a.size) = Len(w.size)
  BY <1>5, <1>6
<1>9. u \in Calls!PortStates
  BY <1>1, <1>2, <1>5, PortMade
<1>10. u.socks = p.socks /\ u.deleted = p.deleted /\ u.groups = a
  BY <1>2
<1> HIDE DEF u
<1>11. h \in Nat \ {0} /\ 0 \notin DOMAIN p.groups.size
  BY <1>1, <1>4, <1>6 DEF WellFormed, Groups
<1> HIDE DEF h
<1>12. ASSUME NEW g \in DOMAIN a.size
       PROVE  a.size[g] = CountOf(p.socks, g) + CountOf(p.deleted, g)
                          + IF g = h THEN 1 ELSE 0
  <2>1. w.size[g] = CountOf(p.socks, g) + CountOf(p.deleted, g)
    <3>1. CASE g \in DOMAIN p.groups.size
      <4>1. /\ p.groups.size[g] = CountOf(p.socks, g)
                                  + CountOf(p.deleted, g) + 0
            /\ CountOf(p.socks, g) \in Nat /\ CountOf(p.deleted, g) \in Nat
        BY <1>11, <3>1, PlacesAreNumbers DEF SoundPort, Places
      <4> QED  BY <1>4, <3>1, <4>1
    <3>2. CASE g \notin DOMAIN p.groups.size
      <4>1. CountOf(p.socks, g) = 0
        BY <3>2, CountNone DEF SoundPort, Places
      <4>2. CountOf(p.deleted, g) = 0
        BY <3>2, CountNone DEF SoundPort, Places
      <4> QED  BY <1>4, <1>5, <3>2, <4>1, <4>2
    <3> QED  BY <3>1, <3>2
  <2>2. CountOf(p.socks, g) \in Nat /\ CountOf(p.deleted, g) \in Nat
    BY PlacesAreNumbers
  <2>3. CASE g = h
    BY <1>5, <2>1, <2>2, <2>3
  <2>4. CASE g # h
    BY <1>5, <2>1, <2>2, <2>4
  <2> QED  BY <2>3, <2>4
<1>13. Places(u, h)
  BY <1>4, <1>5, <1>10, <1>12 DEF SoundPort, Places
<1> QED
  BY <1>5, <1>7, <1>8, <1>9, <1>10, <1>11, <1>13 DEF SoundPort, u, h

\* p once the object of s, which has its place in group h, is in its tree.
Registered(p, s, h) ==
  [p EXCEPT !.socks = [x \in DOMAIN p.socks \cup {s} |->
                         IF x = s THEN h ELSE p.socks[x]]]

(* The new object joins the tree with its place.                           *)
LEMMA PortRegisters ==
  ASSUME NEW p, NEW h \in Nat \ {0}, SoundPort(p, h),
         NEW s \in Sockets, s \notin DOMAIN p.socks
  PROVE  LET u == Registered(p, s, h)
         IN  /\ SoundPort(u, 0)
             /\ u.groups = p.groups /\ u.deleted = p.deleted
             /\ DOMAIN u.socks = DOMAIN p.socks \cup {s}
<1> DEFINE f == [x \in DOMAIN p.socks \cup {s} |->
                   IF x = s THEN h ELSE p.socks[x]]
           u == Registered(p, s, h)
<1>0. u = [p EXCEPT !.socks = f]
  BY DEF Registered
<1>1. /\ p = [socks |-> p.socks, deleted |-> p.deleted, groups |-> p.groups]
      /\ p.socks \in [DOMAIN p.socks -> Nat] /\ IsFiniteSet(DOMAIN p.socks)
      /\ DOMAIN p.socks \subseteq Sockets
      /\ p.deleted \in Seq(Nat) /\ WellFormed(p.groups)
  BY PortParts DEF SoundPort
<1>2. /\ DOMAIN f = DOMAIN p.socks \cup {s} /\ f \in [DOMAIN f -> Nat]
      /\ \A x \in DOMAIN p.socks : f[x] = p.socks[x]
      /\ f[s] = h /\ DOMAIN f \subseteq Sockets
  BY <1>1
<1>3. u = [socks |-> f, deleted |-> p.deleted, groups |-> p.groups]
  <2> HIDE DEF f, u
  <2> QED  BY <1>0, <1>1, PortFields
<1> HIDE DEF f, u
<1>4. u \in Calls!PortStates
  BY <1>1, <1>2, <1>3, PortMade
<1>5. u.socks = f /\ u.deleted = p.deleted /\ u.groups = p.groups
  BY <1>3
<1>6. h \in DOMAIN p.groups.size /\ 0 \notin DOMAIN p.groups.size
  BY <1>1 DEF SoundPort, Places, WellFormed, Groups
<1>7. ASSUME NEW v
      PROVE  /\ f[s] = v => CountOf(f, v) = CountOf(p.socks, v) + 1
             /\ f[s] # v => CountOf(f, v) = CountOf(p.socks, v)
  <2>1. Grows(p.socks, s, f)
    BY <1>2 DEF Grows
  <2> QED  BY <1>1, <2>1, CountGrows
<1>8. ASSUME NEW g \in DOMAIN p.groups.size
      PROVE  p.groups.size[g] = CountOf(f, g) + CountOf(p.deleted, g)
                                + IF g = 0 THEN 1 ELSE 0
  <2>1. /\ p.groups.size[g] = CountOf(p.socks, g) + CountOf(p.deleted, g)
                              + IF g = h THEN 1 ELSE 0
        /\ CountOf(p.socks, g) \in Nat /\ CountOf(p.deleted, g) \in Nat
    BY PlacesAreNumbers DEF SoundPort, Places
  <2>2. /\ f[s] = g => CountOf(f, g) = CountOf(p.socks, g) + 1
        /\ f[s] # g => CountOf(f, g) = CountOf(p.socks, g)
    BY <1>7
  <2>3. CASE h = g
    BY <1>2, <1>6, <2>1, <2>2, <2>3
  <2>4. CASE h # g
    BY <1>2, <1>6, <2>1, <2>2, <2>4
  <2> QED  BY <2>3, <2>4
<1>9. Places(u, 0)
  <2>1. \A x \in DOMAIN f : f[x] \in DOMAIN p.groups.size
    BY <1>2, <1>6 DEF SoundPort, Places
  <2>2. \A i \in DOMAIN p.deleted : p.deleted[i] \in DOMAIN p.groups.size
    BY DEF SoundPort, Places
  <2> QED  BY <1>5, <1>8, <2>1, <2>2 DEF Places
<1> QED  BY <1>1, <1>2, <1>4, <1>5, <1>9 DEF SoundPort, u

(* Every group is on the queue once.                                       *)
LEMMA GroupsOnQueue ==
  ASSUME NEW pg, WellFormed(pg)
  PROVE  Len(pg.queue) = Len(pg.size) /\ Len(pg.size) \in Nat
<1>1. /\ pg.queue \in Seq(Nat) /\ pg.size \in Seq(Nat)
      /\ DOMAIN pg.queue = 1 .. Len(pg.queue) /\ Len(pg.queue) \in Nat
      /\ DOMAIN pg.size = 1 .. Len(pg.size) /\ Len(pg.size) \in Nat
      /\ Elements(pg.queue) = DOMAIN pg.size
      /\ Distinct(pg.queue)
  BY DEF WellFormed, Groups, Linked
<1>2. pg.queue \in Bijection(DOMAIN pg.queue, DOMAIN pg.size)
  <2> DEFINE q == pg.queue
  <2>1. DOMAIN pg.size = {q[i] : i \in DOMAIN q}
    BY <1>1 DEF Elements
  <2>2. q \in [DOMAIN q -> DOMAIN pg.size]
    <3>1. q = [i \in DOMAIN q |-> q[i]]
      BY <1>1, LenProperties
    <3> HIDE DEF q
    <3> QED  BY <2>1, <3>1
  <2>3. \A i, j \in DOMAIN q : q[i] = q[j] => i = j
    BY <1>1 DEF Distinct
  <2> QED  BY <2>1, <2>2, <2>3 DEF Bijection, Injection, Surjection, IsInjective
<1>3. /\ IsFiniteSet(DOMAIN pg.queue)
      /\ Cardinality(DOMAIN pg.queue) = Len(pg.queue)
      /\ Cardinality(DOMAIN pg.size) = Len(pg.size)
  <2>1. ASSUME NEW n \in Nat
        PROVE  IsFiniteSet(1 .. n) /\ Cardinality(1 .. n) = n
    <3>1. Cardinality(1 .. n) = IF 1 > n THEN 0 ELSE n - 1 + 1
      BY FS_Interval
    <3>2. IsFiniteSet(1 .. n)
      BY FS_Interval
    <3> QED  BY <3>1, <3>2
  <2> QED  BY <1>1, <2>1
<1>4. Cardinality(DOMAIN pg.queue) = Cardinality(DOMAIN pg.size)
  BY <1>2, <1>3, FS_Bijection DEF ExistsBijection
<1> QED  BY <1>1, <1>3, <1>4

-----------------------------------------------------------------------------
(* What each step of the epoll calls does to the number of groups and of   *)
(* objects.                                                                *)

GroupsOf(p) == IF p = NULL THEN 0 ELSE Len(p.groups.size)

ObjectsOf(p) ==
  IF p = NULL THEN 0 ELSE Cardinality(DOMAIN p.socks) + Len(p.deleted)

LEMMA PortCounts ==
  ASSUME NEW p, NEW hand, SoundPort(p, hand)
  PROVE  /\ p # NULL
         /\ GroupsOf(p) = Len(p.groups.size) /\ GroupsOf(p) \in Nat
         /\ GroupsOf(p) = Len(p.groups.queue)
         /\ ObjectsOf(p) = Cardinality(DOMAIN p.socks) + Len(p.deleted)
         /\ ObjectsOf(p) \in Nat
         /\ Cardinality(DOMAIN p.socks) \in Nat /\ Len(p.deleted) \in Nat
<1>1. /\ p # NULL /\ IsFiniteSet(DOMAIN p.socks)
      /\ p.deleted \in Seq(Nat) /\ WellFormed(p.groups)
  BY PortParts DEF SoundPort
<1>2. Cardinality(DOMAIN p.socks) \in Nat /\ Len(p.deleted) \in Nat
  BY <1>1, FS_CardinalityType
<1>3. Len(p.groups.queue) = Len(p.groups.size) /\ Len(p.groups.size) \in Nat
  BY <1>1, GroupsOnQueue
<1> QED  BY <1>1, <1>2, <1>3 DEF GroupsOf, ObjectsOf

NewPort == [socks |-> <<>>, deleted |-> <<>>, groups |-> Calls!NoGroups]

LEMMA CreatedPort ==
  SoundPort(NewPort, 0) /\ GroupsOf(NewPort) = 0 /\ ObjectsOf(NewPort) = 0
<1>1. WellFormed(NoGroups) /\ NoGroups.size = <<>>
  BY NoGroupsWellFormed DEF NoGroups
<1>2. NewPort = [socks |-> <<>>, deleted |-> <<>>, groups |-> NoGroups]
  BY SameGroups DEF NewPort
<1>3. <<>> \in Seq(Nat) /\ DOMAIN <<>> = {} /\ <<>> \in [DOMAIN <<>> -> Nat]
  OBVIOUS
<1>4. NewPort \in Calls!PortStates
  BY <1>1, <1>2, <1>3, PortMade
<1>5. /\ NewPort.socks = <<>> /\ NewPort.deleted = <<>>
      /\ NewPort.groups = NoGroups
  BY <1>2
<1>6. Places(NewPort, 0)
  BY <1>1, <1>3, <1>5 DEF Places
<1>7. SoundPort(NewPort, 0)
  BY <1>1, <1>4, <1>5, <1>6 DEF SoundPort
<1>8. Cardinality(DOMAIN NewPort.socks) = 0
  BY <1>3, <1>5, FS_EmptySet
<1> QED  BY <1>1, <1>5, <1>7, <1>8, PortCounts

(* An object is freed, from the tree or from the queue, or moves from one  *)
(* to the other.                                                           *)
LEMMA ObjectFreed ==
  ASSUME NEW p, SoundPort(p, 0), NEW s \in DOMAIN p.socks
  PROVE  LET u == Calls!Freed(Calls!Unregistered(p, s), p.socks[s])
         IN  /\ SoundPort(u, 0) /\ GroupsOf(u) = GroupsOf(p)
             /\ ObjectsOf(u) = ObjectsOf(p) - 1
<1> DEFINE m == Calls!Unregistered(p, s)
           u == Calls!Freed(m, p.socks[s])
<1>1. /\ SoundPort(m, p.socks[s]) /\ p.socks[s] \in Nat \ {0}
      /\ m.groups = p.groups /\ m.deleted = p.deleted
      /\ DOMAIN m.socks = DOMAIN p.socks \ {s}
  BY PortUnregisters
<1> HIDE DEF m
<1>2. /\ SoundPort(u, 0)
      /\ u.socks = m.socks /\ u.deleted = m.deleted
      /\ Len(u.groups.size) = Len(m.groups.size)
  BY <1>1, PortReleases
<1> HIDE DEF u
<1>3. Cardinality(DOMAIN m.socks) = Cardinality(DOMAIN p.socks) - 1
  <2>1. IsFiniteSet(DOMAIN p.socks)
    BY PortParts DEF SoundPort
  <2> QED  BY <1>1, <2>1, FS_RemoveElement
<1>4. GroupsOf(u) = GroupsOf(p)
  <2>1. GroupsOf(p) = Len(p.groups.size) /\ GroupsOf(u) = Len(u.groups.size)
    BY <1>2, PortCounts
  <2> QED  BY <1>1, <1>2, <2>1
<1>5. ObjectsOf(u) = ObjectsOf(p) - 1
  <2>1. /\ ObjectsOf(p) = Cardinality(DOMAIN p.socks) + Len(p.deleted)
        /\ Cardinality(DOMAIN p.socks) \in Nat /\ Len(p.deleted) \in Nat
    BY PortCounts
  <2>2. ObjectsOf(u) = Cardinality(DOMAIN u.socks) + Len(u.deleted)
    BY <1>2, PortCounts
  <2> QED  BY <1>1, <1>2, <1>3, <2>1, <2>2
<1> QED  BY <1>2, <1>4, <1>5 DEF u, m

LEMMA ObjectDeferred ==
  ASSUME NEW p, SoundPort(p, 0), NEW s \in DOMAIN p.socks
  PROVE  LET u == [Calls!Unregistered(p, s) EXCEPT
                     !.deleted = Append(@, p.socks[s])]
         IN  /\ SoundPort(u, 0) /\ GroupsOf(u) = GroupsOf(p)
             /\ ObjectsOf(u) = ObjectsOf(p)
<1> DEFINE m == Calls!Unregistered(p, s)
           u == [m EXCEPT !.deleted = Append(@, p.socks[s])]
<1>1. /\ SoundPort(m, p.socks[s]) /\ p.socks[s] \in Nat \ {0}
      /\ m.groups = p.groups /\ m.deleted = p.deleted
      /\ DOMAIN m.socks = DOMAIN p.socks \ {s}
  BY PortUnregisters
<1> HIDE DEF m
<1>2. /\ SoundPort(u, 0)
      /\ u.socks = m.socks /\ u.groups = m.groups
      /\ Len(u.deleted) = Len(m.deleted) + 1
  BY <1>1, PortDefers
<1> HIDE DEF u
<1>3. Cardinality(DOMAIN m.socks) = Cardinality(DOMAIN p.socks) - 1
  <2>1. IsFiniteSet(DOMAIN p.socks)
    BY PortParts DEF SoundPort
  <2> QED  BY <1>1, <2>1, FS_RemoveElement
<1>4. GroupsOf(u) = GroupsOf(p)
  <2>1. GroupsOf(p) = Len(p.groups.size) /\ GroupsOf(u) = Len(u.groups.size)
    BY <1>2, PortCounts
  <2> QED  BY <1>1, <1>2, <2>1
<1>5. ObjectsOf(u) = ObjectsOf(p)
  <2>1. /\ ObjectsOf(p) = Cardinality(DOMAIN p.socks) + Len(p.deleted)
        /\ Cardinality(DOMAIN p.socks) \in Nat /\ Len(p.deleted) \in Nat
    BY PortCounts
  <2>2. ObjectsOf(u) = Cardinality(DOMAIN u.socks) + Len(u.deleted)
    BY <1>2, PortCounts
  <2> QED  BY <1>1, <1>2, <1>3, <2>1, <2>2
<1> QED  BY <1>2, <1>4, <1>5 DEF u, m

LEMMA DeletedFreed ==
  ASSUME NEW p, SoundPort(p, 0), p.deleted # <<>>
  PROVE  LET u == Calls!Freed([p EXCEPT !.deleted = Tail(@)], Head(p.deleted))
         IN  /\ SoundPort(u, 0) /\ GroupsOf(u) = GroupsOf(p)
             /\ ObjectsOf(u) = ObjectsOf(p) - 1
<1> DEFINE m == [p EXCEPT !.deleted = Tail(@)]
           h == Head(p.deleted)
           u == Calls!Freed(m, h)
<1>1. /\ SoundPort(m, h) /\ h \in Nat \ {0}
      /\ m.groups = p.groups /\ m.socks = p.socks
      /\ Len(m.deleted) = Len(p.deleted) - 1
  BY PortPicksDeleted
<1> HIDE DEF m, h
<1>2. /\ SoundPort(u, 0)
      /\ u.socks = m.socks /\ u.deleted = m.deleted
      /\ Len(u.groups.size) = Len(m.groups.size)
  BY <1>1, PortReleases
<1> HIDE DEF u
<1>3. GroupsOf(u) = GroupsOf(p)
  <2>1. GroupsOf(p) = Len(p.groups.size) /\ GroupsOf(u) = Len(u.groups.size)
    BY <1>2, PortCounts
  <2> QED  BY <1>1, <1>2, <2>1
<1>4. ObjectsOf(u) = ObjectsOf(p) - 1
  <2>1. /\ ObjectsOf(p) = Cardinality(DOMAIN p.socks) + Len(p.deleted)
        /\ Cardinality(DOMAIN p.socks) \in Nat /\ Len(p.deleted) \in Nat
    BY PortCounts
  <2>2. ObjectsOf(u) = Cardinality(DOMAIN u.socks) + Len(u.deleted)
    BY <1>2, PortCounts
  <2> QED  BY <1>1, <1>2, <2>1, <2>2
<1> QED  BY <1>2, <1>3, <1>4 DEF u, m, h

(* The steps of an addition.                                               *)
LEMMA GroupAcquired ==
  ASSUME NEW p, SoundPort(p, 0)
  PROVE  LET u == [p EXCEPT !.groups = Calls!poll_group_acquire(@)]
             h == Calls!AcquiredGroup(p.groups)
         IN  /\ SoundPort(u, h) /\ h \in Nat \ {0}
             /\ ObjectsOf(u) = ObjectsOf(p)
             /\ NeedsNewGroup(p.groups) => GroupsOf(u) = GroupsOf(p) + 1
             /\ ~NeedsNewGroup(p.groups) => GroupsOf(u) = GroupsOf(p)
<1> DEFINE h == Calls!AcquiredGroup(p.groups)
           u == [p EXCEPT !.groups = Calls!poll_group_acquire(@)]
<1>1. /\ SoundPort(u, h) /\ h \in Nat \ {0}
      /\ u.socks = p.socks /\ u.deleted = p.deleted
      /\ NeedsNewGroup(p.groups) =>
           Len(u.groups.size) = Len(p.groups.size) + 1
      /\ ~NeedsNewGroup(p.groups) =>
           Len(u.groups.size) = Len(p.groups.size)
  BY PortAcquires
<1> HIDE DEF u, h
<1>2. /\ GroupsOf(p) = Len(p.groups.size) /\ GroupsOf(u) = Len(u.groups.size)
      /\ ObjectsOf(p) = Cardinality(DOMAIN p.socks) + Len(p.deleted)
      /\ ObjectsOf(u) = Cardinality(DOMAIN u.socks) + Len(u.deleted)
  BY <1>1, PortCounts
<1> QED  BY <1>1, <1>2 DEF u, h

LEMMA PlaceReturned ==
  ASSUME NEW p, NEW h \in Nat \ {0}, SoundPort(p, h)
  PROVE  LET u == Calls!Freed(p, h)
         IN  /\ SoundPort(u, 0) /\ GroupsOf(u) = GroupsOf(p)
             /\ ObjectsOf(u) = ObjectsOf(p)
<1> DEFINE u == Calls!Freed(p, h)
<1>1. /\ SoundPort(u, 0)
      /\ u.socks = p.socks /\ u.deleted = p.deleted
      /\ Len(u.groups.size) = Len(p.groups.size)
  BY PortReleases
<1> HIDE DEF u
<1>2. /\ GroupsOf(p) = Len(p.groups.size) /\ GroupsOf(u) = Len(u.groups.size)
      /\ ObjectsOf(p) = Cardinality(DOMAIN p.socks) + Len(p.deleted)
      /\ ObjectsOf(u) = Cardinality(DOMAIN u.socks) + Len(u.deleted)
  BY <1>1, PortCounts
<1> QED  BY <1>1, <1>2 DEF u

LEMMA ObjectRegistered ==
  ASSUME NEW p, NEW h \in Nat \ {0}, SoundPort(p, h),
         NEW s \in Sockets, s \notin DOMAIN p.socks
  PROVE  LET u == Registered(p, s, h)
         IN  /\ SoundPort(u, 0) /\ GroupsOf(u) = GroupsOf(p)
             /\ ObjectsOf(u) = ObjectsOf(p) + 1
<1> DEFINE u == Registered(p, s, h)
<1>1. /\ SoundPort(u, 0)
      /\ u.groups = p.groups /\ u.deleted = p.deleted
      /\ DOMAIN u.socks = DOMAIN p.socks \cup {s}
  BY PortRegisters
<1> HIDE DEF u
<1>2. Cardinality(DOMAIN u.socks) = Cardinality(DOMAIN p.socks) + 1
  <2>1. IsFiniteSet(DOMAIN p.socks)
    BY PortParts DEF SoundPort
  <2> QED  BY <1>1, <2>1, FS_AddElement
<1>3. /\ GroupsOf(p) = Len(p.groups.size) /\ GroupsOf(u) = Len(u.groups.size)
      /\ ObjectsOf(p) = Cardinality(DOMAIN p.socks) + Len(p.deleted)
      /\ ObjectsOf(u) = Cardinality(DOMAIN u.socks) + Len(u.deleted)
      /\ Cardinality(DOMAIN p.socks) \in Nat /\ Len(p.deleted) \in Nat
  BY <1>1, PortCounts
<1> QED  BY <1>1, <1>2, <1>3 DEF u

-----------------------------------------------------------------------------
(* The inductive invariant of the epoll calls.                             *)

CtlCalls ==
  LET handles == Sockets \cup {Port, File, Bad}
  IN  [fn : {"epoll_ctl"}, ephnd : {Port, File, Bad}, op : Calls!Ops,
       sock : Sockets \cup {Bad}, group : Nat,
       wasOpen : SUBSET handles, wasClosed : SUBSET handles]

Making  == {"poll_group__new", "NtCreateFile", "CreateIoCompletionPort"}
Placed  == {"sock__alloc", "port_register_socket"}
Adding  == Making \cup {"poll_group_acquire"} \cup Placed
Working == Calls!Ops \cup Adding \cup {"ts_tree_find_and_ref", "check_sock"}

\* The call is what the label says, and finds the port there that it needs.
CallSound ==
  /\ call.fn = "epoll_ctl" => call \in CtlCalls
  /\ pc \in Working => call.fn = "epoll_ctl"
  /\ pc \in Adding => call.sock \in Sockets
  /\ pc \in (Calls!Ops \ {"other"}) \cup Adding \cup {"port_delete"} =>
       port # NULL
  /\ pc \in {"port__alloc", "port__create_iocp"} =>
       port = NULL /\ call.fn = "epoll_create"
  /\ pc \in Making => NeedsNewGroup(port.groups)
  /\ pc \in Placed => call.group # 0

\* The place that a call has taken for the object that it still makes.
InHand == IF pc \in Placed THEN call.group ELSE 0

PortSound == port = NULL \/ SoundPort(port, InHand)

\* A group is made, and stands on no queue yet.
Between(p, l) == l = "poll_group_acquire" /\ NeedsNewGroup(p.groups)

On(c) == IF c THEN 1 ELSE 0

\* h counts what the port p uses, and what the call has in hand at label l.
HeldFor(h, p, l) ==
  /\ h \in [Calls!Resources -> Int]
  /\ h["port_state"] = On(p # NULL \/ l = "port__create_iocp")
  /\ h["iocp"] = On(p # NULL /\ l # "port_delete")
  /\ h["poll_group"] = GroupsOf(p)
       + On(l \in {"NtCreateFile", "CreateIoCompletionPort"} \/ Between(p, l))
  /\ h["afd_device"] = GroupsOf(p)
       + On(l = "CreateIoCompletionPort" \/ Between(p, l))
  /\ h["sock_state"] = ObjectsOf(p) + On(l = "port_register_socket")

\* The call has seen which of its handles were open and closed meanwhile.
Watched ==
  /\ Bad \notin open
  /\ call.fn = "epoll_ctl" =>
       /\ {call.ephnd, call.sock} \cap open \subseteq call.wasOpen
       /\ {call.ephnd, call.sock} \ open \subseteq call.wasClosed
       /\ pc = "check_sock" /\ call.ephnd \notin call.wasOpen =>
            errno = "EBADF"
       /\ errno = "EBADF" => call.wasClosed # {}
       /\ pc = "failed" /\ {call.ephnd, call.sock} \ call.wasOpen # {} =>
            errno = "EBADF"

CallsInv ==
  CallSound /\ PortSound /\ HeldFor(held, port, pc) /\ Watched

LEMMA CallsInit == Calls!Init => CallsInv
<1> SUFFICES ASSUME Calls!Init PROVE CallsInv
  OBVIOUS
<1>1. /\ port = NULL /\ pc = "outside" /\ call.fn = "none" /\ open = {File}
      /\ held = [r \in Calls!Resources |-> 0]
  BY DEF Calls!Init, Calls!NoCall
<1>2. Bad # File
  BY StructuresAssumption DEF Calls!CallsAssumption
<1>3. CallSound
  BY <1>1 DEF CallSound, Working, Adding, Making, Placed, Calls!Ops
<1>4. HeldFor(held, port, pc)
  BY <1>1 DEF HeldFor, On, Between, GroupsOf, ObjectsOf, Calls!Resources
<1> QED  BY <1>1, <1>2, <1>3, <1>4 DEF CallsInv, PortSound, Watched

\* The errors of a failed step say EBADF only of a bad handle.
LEMMA ErrnoOf ==
  /\ Calls!err__map_win_error_to_errno("ERROR_INVALID_HANDLE") = "EBADF"
  /\ \A e \in {"ERROR_INVALID_PARAMETER", "ERROR_NOT_ENOUGH_MEMORY",
               "ERROR_ALREADY_EXISTS", "ERROR_NOT_FOUND", "WSAENOTSOCK",
               "WSAEOPNOTSUPP", "NTSTATUS"} :
       Calls!err__map_win_error_to_errno(e) # "EBADF"
  BY DEF Calls!err__map_win_error_to_errno, Calls!Mapped

\* A step that neither starts nor ends where a call has something in hand.
Plain(l) ==
  l \notin Placed \cup {"port__create_iocp", "port_delete", "NtCreateFile",
                        "CreateIoCompletionPort", "poll_group_acquire"}

LEMMA PlainStep ==
  ASSUME CallsInv, UNCHANGED <<port, held>>, Plain(pc), Plain(pc')
  PROVE  PortSound' /\ HeldFor(held, port, pc)'
  BY DEF CallsInv, PortSound, InHand, HeldFor, Between, Plain, Placed

LEMMA HeldMoves ==
  ASSUME held \in [Calls!Resources -> Int]
  PROVE  /\ \A rs : Calls!GiveBack(rs) =>
              /\ held' \in [Calls!Resources -> Int]
              /\ \A r \in Calls!Resources : held'[r] = held[r] - On(r \in rs)
         /\ \A t \in Calls!Resources : Calls!Take(t) =>
              /\ held' \in [Calls!Resources -> Int]
              /\ \A r \in Calls!Resources : held'[r] = held[r] + On(r = t)
  BY DEF Calls!GiveBack, Calls!Take, On

(* The steps keep the books: one lemma for each operation.                 *)
LEMMA CreateKeepsBooks ==
  ASSUME CallsInv,
         Calls!epoll_create \/ Calls!port__alloc \/ Calls!port__create_iocp
  PROVE  PortSound' /\ HeldFor(held, port, pc)'
<1>1. HeldFor(held, port, pc) /\ held \in [Calls!Resources -> Int]
  BY DEF CallsInv, HeldFor
<1>2. CASE Calls!epoll_create
  <2>1. UNCHANGED <<port, held>> /\ Plain(pc) /\ Plain(pc')
    BY <1>2 DEF Calls!epoll_create, Plain, Placed
  <2> QED  BY <2>1, PlainStep
<1>3. CASE Calls!port__alloc
  <2>1. /\ port = NULL /\ port' = NULL /\ pc = "port__alloc"
        /\ call.fn = "epoll_create"
    BY <1>3 DEF Calls!port__alloc, CallsInv, CallSound
  <2>2. CASE Calls!Take("port_state") /\ pc' = "port__create_iocp"
    <3>1. /\ held' \in [Calls!Resources -> Int]
          /\ \A r \in Calls!Resources :
               held'[r] = held[r] + On(r = "port_state")
      BY <1>1, <2>2, HeldMoves DEF Calls!Resources
    <3>2. HeldFor(held, port, pc)'
      BY <1>1, <2>1, <2>2, <3>1
      DEF HeldFor, Between, On, GroupsOf, ObjectsOf, Calls!Resources
    <3> QED  BY <2>1, <3>2 DEF PortSound
  <2>3. CASE UNCHANGED held /\ pc' = "failed"
    <3>1. Plain(pc) /\ Plain(pc')
      BY <2>1, <2>3 DEF Plain, Placed
    <3> QED  BY <2>1, <2>3, <3>1, PlainStep
  <2> QED
    BY <1>3, <2>1, <2>2, <2>3
    DEF Calls!port__alloc, Calls!Goto, Calls!Fail, Calls!Failed
<1>4. CASE Calls!port__create_iocp
  <2>1. port = NULL /\ pc = "port__create_iocp" /\ call.fn = "epoll_create"
    BY <1>4 DEF Calls!port__create_iocp, CallsInv, CallSound
  <2>2. CASE Calls!Take("iocp") /\ pc' = "returned" /\ port' = NewPort
    <3>1. /\ held' \in [Calls!Resources -> Int]
          /\ \A r \in Calls!Resources : held'[r] = held[r] + On(r = "iocp")
      BY <1>1, <2>2, HeldMoves DEF Calls!Resources
    <3>2. /\ SoundPort(port', 0) /\ GroupsOf(port') = 0
          /\ ObjectsOf(port') = 0 /\ port' # NULL
          /\ GroupsOf(port) = 0 /\ ObjectsOf(port) = 0
      BY <2>1, <2>2, CreatedPort, PortCounts DEF GroupsOf, ObjectsOf
    <3>3. HeldFor(held, port, pc)'
      BY <1>1, <2>1, <2>2, <3>1, <3>2
      DEF HeldFor, Between, On, Calls!Resources
    <3>4. InHand' = 0
      BY <2>2 DEF InHand, Placed
    <3> QED  BY <3>2, <3>3, <3>4 DEF PortSound
  <2>3. CASE /\ Calls!GiveBack({"port_state"}) /\ pc' = "failed"
             /\ UNCHANGED port
    <3>1. /\ held' \in [Calls!Resources -> Int]
          /\ \A r \in Calls!Resources :
               held'[r] = held[r] - On(r \in {"port_state"})
      BY <1>1, <2>3, HeldMoves
    <3>2. HeldFor(held, port, pc)'
      BY <1>1, <2>1, <2>3, <3>1
      DEF HeldFor, Between, On, GroupsOf, ObjectsOf, Calls!Resources
    <3> QED  BY <2>1, <2>3, <3>2 DEF PortSound
  <2> QED
    BY <1>4, <2>1, <2>2, <2>3
    DEF Calls!port__create_iocp, Calls!Goto, Calls!Fail, Calls!Failed, NewPort
<1> QED  BY <1>2, <1>3, <1>4

\* The port of a step that finds one, and what is held for it.
LEMMA PortInHand ==
  ASSUME CallsInv, port # NULL
  PROVE  /\ SoundPort(port, InHand)
         /\ pc \notin Placed => SoundPort(port, 0)
         /\ GroupsOf(port) \in Nat /\ ObjectsOf(port) \in Nat
         /\ held \in [Calls!Resources -> Int]
  BY PortCounts DEF CallsInv, PortSound, InHand, HeldFor

LEMMA CtlKeepsBooks ==
  ASSUME CallsInv,
         \/ Calls!ts_tree_find_and_ref \/ Calls!port__ctl_op_default
         \/ Calls!port__ctl_mod \/ Calls!port__ctl_del
         \/ Calls!ws_get_base_socket
  PROVE  PortSound' /\ HeldFor(held, port, pc)'
<1>1. /\ HeldFor(held, port, pc) /\ held \in [Calls!Resources -> Int]
      /\ CallSound
  BY DEF CallsInv, HeldFor
<1>2. CASE Calls!ts_tree_find_and_ref
  <2>1. call.op \in Calls!Ops
    BY <1>1, <1>2
    DEF Calls!ts_tree_find_and_ref, CallSound, Working, CtlCalls
  <2>2. UNCHANGED <<port, held>> /\ Plain(pc) /\ Plain(pc')
    BY <1>2, <2>1 DEF Calls!ts_tree_find_and_ref, Plain, Placed, Calls!Goto,
                      Calls!Fail, Calls!Failed, Calls!Ops
  <2> QED  BY <2>2, PlainStep
<1>3. CASE Calls!port__ctl_op_default
  <2>1. UNCHANGED <<port, held>> /\ Plain(pc) /\ Plain(pc')
    BY <1>3 DEF Calls!port__ctl_op_default, Plain, Placed, Calls!Fail,
                Calls!Failed
  <2> QED  BY <2>1, PlainStep
<1>4. CASE Calls!port__ctl_mod
  <2>1. UNCHANGED <<port, held>> /\ Plain(pc) /\ Plain(pc')
    BY <1>4 DEF Calls!port__ctl_mod, Plain, Placed, Calls!Fail, Calls!Goto,
                Calls!Failed
  <2> QED  BY <2>1, PlainStep
<1>5. CASE Calls!port__ctl_del
  <2>1. /\ pc = "EPOLL_CTL_DEL" /\ port # NULL /\ pc \notin Placed
        /\ pc' \in {"returned", "failed", "check_ephnd"}
    BY <1>1, <1>5 DEF Calls!port__ctl_del, CallSound, Calls!Ops, Placed,
                      Calls!Goto, Calls!Fail, Calls!Failed
  <2>2. SoundPort(port, 0) /\ GroupsOf(port) \in Nat /\ ObjectsOf(port) \in Nat
    BY <2>1, PortInHand
  <2>3. InHand' = 0
    BY <2>1 DEF InHand, Placed
  <2>4. CASE call.sock \notin DOMAIN port.socks
    <3>1. UNCHANGED <<port, held>> /\ Plain(pc) /\ Plain(pc')
      BY <1>5, <2>1, <2>4 DEF Calls!port__ctl_del, Plain, Placed
    <3> QED  BY <3>1, PlainStep
  <2>5. CASE /\ call.sock \in DOMAIN port.socks
             /\ port' = Calls!Freed(Calls!Unregistered(port, call.sock),
                                    port.socks[call.sock])
             /\ Calls!GiveBack({"sock_state"})
    <3>1. /\ SoundPort(port', 0) /\ GroupsOf(port') = GroupsOf(port)
          /\ ObjectsOf(port') = ObjectsOf(port) - 1 /\ port' # NULL
      BY <2>2, <2>5, ObjectFreed, PortCounts
    <3>2. /\ held' \in [Calls!Resources -> Int]
          /\ \A r \in Calls!Resources :
               held'[r] = held[r] - On(r \in {"sock_state"})
      BY <1>1, <2>5, HeldMoves
    <3>3. HeldFor(held, port, pc)'
      BY <1>1, <2>1, <2>2, <3>1, <3>2
      DEF HeldFor, Between, On, Calls!Resources
    <3> QED  BY <2>3, <3>1, <3>3 DEF PortSound
  <2>6. CASE /\ call.sock \in DOMAIN port.socks /\ UNCHANGED held
             /\ port' = [Calls!Unregistered(port, call.sock) EXCEPT
                           !.deleted = Append(@, port.socks[call.sock])]
    <3>1. /\ SoundPort(port', 0) /\ GroupsOf(port') = GroupsOf(port)
          /\ ObjectsOf(port') = ObjectsOf(port) /\ port' # NULL
      BY <2>2, <2>6, ObjectDeferred, PortCounts
    <3>2. HeldFor(held, port, pc)'
      BY <1>1, <2>1, <2>2, <2>6, <3>1
      DEF HeldFor, Between, On, Calls!Resources
    <3> QED  BY <2>3, <3>1, <3>2 DEF PortSound
  <2> QED  BY <1>5, <2>4, <2>5, <2>6 DEF Calls!port__ctl_del
<1>6. CASE Calls!ws_get_base_socket
  <2>1. /\ pc = "EPOLL_CTL_ADD" /\ port # NULL /\ UNCHANGED <<port, held>>
        /\ Plain(pc)
    BY <1>1, <1>6 DEF Calls!ws_get_base_socket, CallSound, Calls!Ops, Plain,
                      Placed
  <2>2. CASE pc' # "poll_group_acquire"
    <3>1. Plain(pc')
      BY <1>6, <2>2 DEF Calls!ws_get_base_socket, Calls!Fail, Calls!Goto,
                        Calls!Failed, Plain, Placed
    <3> QED  BY <2>1, <3>1, PlainStep
  <2>3. CASE pc' = "poll_group_acquire"
    <3>1. ~NeedsNewGroup(port.groups)
      BY <1>6, <2>3, SameGroups
      DEF Calls!ws_get_base_socket, Calls!Fail, Calls!Goto, Calls!Failed
    <3>2. HeldFor(held, port, pc)'
      BY <1>1, <2>1, <2>3, <3>1 DEF HeldFor, Between, On
    <3>3. SoundPort(port, 0)
      BY <2>1, PortInHand DEF Placed
    <3>4. PortSound'
      BY <2>1, <2>3, <3>3 DEF PortSound, InHand, Placed
    <3> QED  BY <3>2, <3>4
  <2> QED  BY <2>2, <2>3
<1> QED  BY <1>2, <1>3, <1>4, <1>5, <1>6

LEMMA GroupKeepsBooks ==
  ASSUME CallsInv,
         \/ Calls!AllocGroup \/ Calls!NtCreateFile
         \/ Calls!CreateIoCompletionPort \/ Calls!AcquireGroup
  PROVE  PortSound' /\ HeldFor(held, port, pc)'
<1>1. /\ HeldFor(held, port, pc) /\ held \in [Calls!Resources -> Int]
      /\ CallSound
  BY DEF CallsInv, HeldFor
<1>2. /\ port # NULL /\ pc \in Making \cup {"poll_group_acquire"}
      /\ pc \in Making => NeedsNewGroup(port.groups)
  BY <1>1 DEF CallSound, Adding, Making, Calls!AllocGroup,
              Calls!NtCreateFile, Calls!CreateIoCompletionPort,
              Calls!AcquireGroup
<1>3. SoundPort(port, 0) /\ GroupsOf(port) \in Nat /\ ObjectsOf(port) \in Nat
  BY <1>2, PortInHand DEF Making, Placed
<1>4. ASSUME UNCHANGED port, pc' \notin Placed PROVE PortSound'
  BY <1>3, <1>4 DEF PortSound, InHand
<1>5. call.fn # "epoll_create"
  BY <1>1, <1>2 DEF CallSound, Working, Adding
<1>6. CASE Calls!AllocGroup
  <2>1. CASE Calls!Take("poll_group") /\ pc' = "NtCreateFile"
    <3>1. /\ held' \in [Calls!Resources -> Int]
          /\ \A r \in Calls!Resources :
               held'[r] = held[r] + On(r = "poll_group")
      BY <1>1, <2>1, HeldMoves DEF Calls!Resources
    <3>2. pc = "poll_group__new" /\ UNCHANGED port
      BY <1>6 DEF Calls!AllocGroup
    <3>3. HeldFor(held, port, pc)'
      BY <1>1, <1>2, <1>3, <2>1, <3>1, <3>2
      DEF HeldFor, Between, On, Calls!Resources
    <3> QED  BY <1>4, <2>1, <3>2, <3>3 DEF Placed
  <2>2. CASE UNCHANGED held /\ pc' = "check_ephnd"
    <3>1. UNCHANGED <<port, held>> /\ Plain(pc) /\ Plain(pc')
      BY <1>6, <2>2 DEF Calls!AllocGroup, Plain, Placed
    <3> QED  BY <3>1, PlainStep
  <2> QED
    BY <1>5, <1>6, <2>1, <2>2
    DEF Calls!AllocGroup, Calls!Goto, Calls!Fail, Calls!Failed
<1>7. CASE Calls!NtCreateFile
  <2>1. pc = "NtCreateFile" /\ UNCHANGED port
    BY <1>7 DEF Calls!NtCreateFile
  <2>2. CASE Calls!Take("afd_device") /\ pc' = "CreateIoCompletionPort"
    <3>1. /\ held' \in [Calls!Resources -> Int]
          /\ \A r \in Calls!Resources :
               held'[r] = held[r] + On(r = "afd_device")
      BY <1>1, <2>2, HeldMoves DEF Calls!Resources
    <3>2. HeldFor(held, port, pc)'
      BY <1>1, <1>2, <1>3, <2>1, <2>2, <3>1
      DEF HeldFor, Between, On, Calls!Resources
    <3> QED  BY <1>4, <2>1, <2>2, <3>2 DEF Placed
  <2>3. CASE Calls!GiveBack({"poll_group"}) /\ pc' = "check_ephnd"
    <3>1. /\ held' \in [Calls!Resources -> Int]
          /\ \A r \in Calls!Resources :
               held'[r] = held[r] - On(r \in {"poll_group"})
      BY <1>1, <2>3, HeldMoves
    <3>2. HeldFor(held, port, pc)'
      BY <1>1, <1>2, <1>3, <2>1, <2>3, <3>1
      DEF HeldFor, Between, On, Calls!Resources
    <3> QED  BY <1>4, <2>1, <2>3, <3>2 DEF Placed
  <2> QED
    BY <1>5, <1>7, <2>2, <2>3
    DEF Calls!NtCreateFile, Calls!Goto, Calls!Fail, Calls!Failed
<1>8. CASE Calls!CreateIoCompletionPort
  <2>1. pc = "CreateIoCompletionPort" /\ UNCHANGED port
    BY <1>8 DEF Calls!CreateIoCompletionPort
  <2>2. CASE UNCHANGED held /\ pc' = "poll_group_acquire"
    <3>1. HeldFor(held, port, pc)'
      BY <1>1, <1>2, <1>3, <2>1, <2>2
      DEF HeldFor, Between, On, Making
    <3> QED  BY <1>4, <2>1, <2>2, <3>1 DEF Placed
  <2>3. CASE Calls!GiveBack({"afd_device", "poll_group"})
             /\ pc' = "check_ephnd"
    <3>1. /\ held' \in [Calls!Resources -> Int]
          /\ \A r \in Calls!Resources :
               held'[r] = held[r] - On(r \in {"afd_device", "poll_group"})
      BY <1>1, <2>3, HeldMoves
    <3>2. HeldFor(held, port, pc)'
      BY <1>1, <1>2, <1>3, <2>1, <2>3, <3>1
      DEF HeldFor, Between, On, Calls!Resources
    <3> QED  BY <1>4, <2>1, <2>3, <3>2 DEF Placed
  <2> QED
    BY <1>5, <1>8, <2>2, <2>3
    DEF Calls!CreateIoCompletionPort, Calls!ClosesDevice, Calls!Goto,
        Calls!Fail, Calls!Failed
<1>9. CASE Calls!AcquireGroup
  <2>1. /\ pc = "poll_group_acquire" /\ pc' = "sock__alloc" /\ UNCHANGED held
        /\ port' = [port EXCEPT !.groups = Calls!poll_group_acquire(@)]
        /\ call' = [call EXCEPT !.group = Calls!AcquiredGroup(port.groups)]
    BY <1>9 DEF Calls!AcquireGroup, Calls!Goto
  <2> DEFINE h == Calls!AcquiredGroup(port.groups)
  <2>2. /\ SoundPort(port', h)
        /\ ObjectsOf(port') = ObjectsOf(port)
        /\ NeedsNewGroup(port.groups) => GroupsOf(port') = GroupsOf(port) + 1
        /\ ~NeedsNewGroup(port.groups) => GroupsOf(port') = GroupsOf(port)
    BY <1>3, <2>1, GroupAcquired
  <2> HIDE DEF h
  <2>3. port' # NULL /\ GroupsOf(port') \in Nat
    BY <2>2, PortCounts
  <2>4. call'.group = h
    <3>1. call \in CtlCalls
      BY <1>1, <2>1 DEF CallSound, Working, Adding
    <3> QED  BY <2>1, <3>1 DEF CtlCalls, h
  <2>5. PortSound'
    BY <2>1, <2>2, <2>4 DEF PortSound, InHand, Placed
  <2>6. HeldFor(held, port, pc)'
    <3>1. CASE NeedsNewGroup(port.groups)
      BY <1>1, <1>2, <1>3, <2>1, <2>2, <2>3, <3>1 DEF HeldFor, Between, On
    <3>2. CASE ~NeedsNewGroup(port.groups)
      BY <1>1, <1>2, <1>3, <2>1, <2>2, <2>3, <3>2 DEF HeldFor, Between, On
    <3> QED  BY <3>1, <3>2
  <2> QED  BY <2>5, <2>6
<1> QED  BY <1>6, <1>7, <1>8, <1>9

LEMMA SockKeepsBooks ==
  ASSUME CallsInv, Calls!sock__alloc \/ Calls!port_register_socket
  PROVE  PortSound' /\ HeldFor(held, port, pc)'
<1>1. /\ HeldFor(held, port, pc) /\ held \in [Calls!Resources -> Int]
      /\ CallSound
  BY DEF CallsInv, HeldFor
<1>2. /\ port # NULL /\ pc \in Placed /\ UNCHANGED call
      /\ call \in CtlCalls /\ call.group # 0 /\ call.fn = "epoll_ctl"
      /\ call.sock \in Sockets
  BY <1>1 DEF CallSound, Adding, Placed, Working, Calls!sock__alloc,
              Calls!port_register_socket
<1>3. /\ SoundPort(port, call.group) /\ call.group \in Nat \ {0}
      /\ GroupsOf(port) \in Nat /\ ObjectsOf(port) \in Nat
  BY <1>2, PortInHand DEF InHand, CtlCalls
<1>4. ASSUME port' = Calls!err1(port, call.group)
      PROVE  /\ SoundPort(port', 0) /\ port' # NULL
             /\ GroupsOf(port') = GroupsOf(port)
             /\ ObjectsOf(port') = ObjectsOf(port)
  BY <1>3, <1>4, PlaceReturned, PortCounts DEF Calls!err1
<1>5. CASE Calls!sock__alloc
  <2>1. pc = "sock__alloc"
    BY <1>5 DEF Calls!sock__alloc
  <2>2. CASE /\ Calls!Take("sock_state") /\ pc' = "port_register_socket"
             /\ UNCHANGED port
    <3>1. /\ held' \in [Calls!Resources -> Int]
          /\ \A r \in Calls!Resources :
               held'[r] = held[r] + On(r = "sock_state")
      BY <1>1, <2>2, HeldMoves DEF Calls!Resources
    <3>2. HeldFor(held, port, pc)'
      BY <1>1, <1>2, <1>3, <2>1, <2>2, <3>1
      DEF HeldFor, Between, On, Calls!Resources
    <3>3. PortSound'
      BY <1>2, <1>3, <2>2 DEF PortSound, InHand, Placed
    <3> QED  BY <3>2, <3>3
  <2>3. CASE /\ UNCHANGED held /\ pc' = "check_ephnd"
             /\ port' = Calls!err1(port, call.group)
    <3>1. HeldFor(held, port, pc)'
      BY <1>1, <1>2, <1>3, <1>4, <2>1, <2>3 DEF HeldFor, Between, On
    <3>2. PortSound'
      BY <1>4, <2>3 DEF PortSound, InHand, Placed
    <3> QED  BY <3>1, <3>2
  <2> QED
    BY <1>2, <1>5, <2>2, <2>3
    DEF Calls!sock__alloc, Calls!Goto, Calls!Fail, Calls!Failed
<1>6. CASE Calls!port_register_socket
  <2>1. pc = "port_register_socket"
    BY <1>6 DEF Calls!port_register_socket
  <2>2. CASE call.sock \in DOMAIN port.socks
    <3>1. /\ Calls!GiveBack({"sock_state"}) /\ pc' = "check_ephnd"
          /\ port' = Calls!err1(port, call.group)
      BY <1>2, <1>6, <2>2
      DEF Calls!port_register_socket, Calls!Fail, Calls!Failed
    <3>2. /\ held' \in [Calls!Resources -> Int]
          /\ \A r \in Calls!Resources :
               held'[r] = held[r] - On(r \in {"sock_state"})
      BY <1>1, <3>1, HeldMoves
    <3>3. HeldFor(held, port, pc)'
      BY <1>1, <1>2, <1>3, <1>4, <2>1, <3>1, <3>2
      DEF HeldFor, Between, On, Calls!Resources
    <3>4. PortSound'
      BY <1>4, <3>1 DEF PortSound, InHand, Placed
    <3> QED  BY <3>3, <3>4
  <2>3. CASE call.sock \notin DOMAIN port.socks
    <3>1. /\ UNCHANGED held /\ pc' = "returned"
          /\ port' = Registered(port, call.sock, call.group)
      BY <1>6, <2>3 DEF Calls!port_register_socket, Calls!Goto, Registered
    <3>2. /\ SoundPort(port', 0) /\ GroupsOf(port') = GroupsOf(port)
          /\ ObjectsOf(port') = ObjectsOf(port) + 1
      BY <1>2, <1>3, <2>3, <3>1, ObjectRegistered
    <3>3. port' # NULL
      BY <3>2, PortCounts
    <3>4. HeldFor(held, port, pc)'
      BY <1>1, <1>2, <1>3, <2>1, <3>1, <3>2, <3>3
      DEF HeldFor, Between, On
    <3>5. PortSound'
      BY <3>1, <3>2 DEF PortSound, InHand, Placed
    <3> QED  BY <3>4, <3>5
  <2> QED  BY <2>2, <2>3
<1> QED  BY <1>5, <1>6

LEMMA CloseKeepsBooks ==
  ASSUME CallsInv,
         \/ \E ephnd \in {Port, File, Bad} : Calls!epoll_close(ephnd)
         \/ Calls!port_delete
  PROVE  PortSound' /\ HeldFor(held, port, pc)'
<1>1. /\ HeldFor(held, port, pc) /\ held \in [Calls!Resources -> Int]
      /\ CallSound
  BY DEF CallsInv, HeldFor
<1>2. ASSUME NEW ephnd \in {Port, File, Bad}, Calls!epoll_close(ephnd)
      PROVE  PortSound' /\ HeldFor(held, port, pc)'
  <2>1. pc = "outside" /\ UNCHANGED port
    BY <1>2 DEF Calls!epoll_close
  <2>2. CASE port # NULL /\ Calls!GiveBack({"iocp"}) /\ pc' = "port_delete"
    <3>1. /\ held' \in [Calls!Resources -> Int]
          /\ \A r \in Calls!Resources :
               held'[r] = held[r] - On(r \in {"iocp"})
      BY <1>1, <2>2, HeldMoves
    <3>2. /\ SoundPort(port, 0)
          /\ GroupsOf(port) \in Nat /\ ObjectsOf(port) \in Nat
      BY <2>1, <2>2, PortInHand DEF Placed
    <3>3. HeldFor(held, port, pc)'
      BY <1>1, <2>1, <2>2, <3>1, <3>2
      DEF HeldFor, Between, On, Calls!Resources
    <3> QED  BY <2>1, <2>2, <3>2, <3>3 DEF PortSound, InHand, Placed
  <2>3. CASE UNCHANGED held /\ pc' = "check_ephnd"
    <3>1. Plain(pc) /\ Plain(pc')
      BY <2>1, <2>3 DEF Plain, Placed
    <3> QED  BY <2>1, <2>3, <3>1, PlainStep
  <2> QED  BY <1>2, <2>2, <2>3 DEF Calls!epoll_close, Calls!Fail
<1>3. CASE Calls!port_delete
  <2>1. pc = "port_delete" /\ port # NULL /\ pc \notin Placed
    BY <1>1, <1>3 DEF Calls!port_delete, CallSound, Placed
  <2>2. SoundPort(port, 0) /\ GroupsOf(port) \in Nat /\ ObjectsOf(port) \in Nat
    BY <2>1, PortInHand
  <2>3. ASSUME NEW p, SoundPort(p, 0), GroupsOf(p) = GroupsOf(port),
               ObjectsOf(p) = ObjectsOf(port) - 1, port' = p,
               Calls!GiveBack({"sock_state"}), pc' = "port_delete"
        PROVE  PortSound' /\ HeldFor(held, port, pc)'
    <3>1. /\ held' \in [Calls!Resources -> Int]
          /\ \A r \in Calls!Resources :
               held'[r] = held[r] - On(r \in {"sock_state"})
      BY <1>1, <2>3, HeldMoves
    <3>2. port' # NULL
      BY <2>3, PortCounts
    <3>3. HeldFor(held, port, pc)'
      BY <1>1, <2>1, <2>2, <2>3, <3>1, <3>2
      DEF HeldFor, Between, On, Calls!Resources
    <3> QED  BY <2>3, <3>3 DEF PortSound, InHand, Placed
  <2>4. CASE DOMAIN port.socks # {}
    <3>1. PICK s \in DOMAIN port.socks :
            /\ port' = Calls!Freed(Calls!Unregistered(port, s), port.socks[s])
            /\ Calls!GiveBack({"sock_state"})
      BY <1>3, <2>4 DEF Calls!port_delete, Calls!ForceDelete
    <3>2. pc' = "port_delete"
      BY <1>3, <2>4 DEF Calls!port_delete, Calls!Goto
    <3>3. /\ SoundPort(port', 0) /\ GroupsOf(port') = GroupsOf(port)
          /\ ObjectsOf(port') = ObjectsOf(port) - 1
      BY <2>2, <3>1, ObjectFreed
    <3> QED  BY <2>3, <3>1, <3>2, <3>3
  <2>5. CASE DOMAIN port.socks = {} /\ port.deleted # <<>>
    <3>1. /\ port' = Calls!Freed([port EXCEPT !.deleted = Tail(@)],
                                 Head(port.deleted))
          /\ Calls!GiveBack({"sock_state"}) /\ pc' = "port_delete"
      BY <1>3, <2>5 DEF Calls!port_delete, Calls!ForceDelete, Calls!Goto
    <3>2. /\ SoundPort(port', 0) /\ GroupsOf(port') = GroupsOf(port)
          /\ ObjectsOf(port') = ObjectsOf(port) - 1
      BY <2>2, <2>5, <3>1, DeletedFreed
    <3> QED  BY <2>3, <3>1, <3>2
  <2>6. CASE DOMAIN port.socks = {} /\ port.deleted = <<>>
    <3> DEFINE n == Len(port.groups.queue)
    <3>1. /\ held' = [held EXCEPT !["poll_group"] = @ - n,
                                  !["afd_device"] = @ - n,
                                  !["port_state"] = @ - 1]
          /\ port' = NULL /\ pc' = "returned"
      BY <1>3, <2>6 DEF Calls!port_delete, Calls!Goto
    <3>2. n = GroupsOf(port) /\ n \in Nat
      BY <2>2, PortCounts
    <3>3. ObjectsOf(port) = 0
      <4>1. Cardinality(DOMAIN port.socks) = 0 /\ Len(port.deleted) = 0
        BY <2>6, FS_EmptySet
      <4> QED  BY <2>2, <4>1, PortCounts
    <3>4. GroupsOf(port') = 0 /\ ObjectsOf(port') = 0
      BY <3>1 DEF GroupsOf, ObjectsOf
    <3> HIDE DEF n
    <3>5. /\ held' \in [Calls!Resources -> Int]
          /\ held'["poll_group"] = held["poll_group"] - n
          /\ held'["afd_device"] = held["afd_device"] - n
          /\ held'["port_state"] = held["port_state"] - 1
          /\ held'["iocp"] = held["iocp"]
          /\ held'["sock_state"] = held["sock_state"]
      BY <1>1, <3>1, <3>2 DEF Calls!Resources
    <3>6. HeldFor(held, port, pc)'
      BY <1>1, <2>1, <2>2, <3>1, <3>2, <3>3, <3>4, <3>5
      DEF HeldFor, Between, On
    <3> QED  BY <3>1, <3>6 DEF PortSound
  <2> QED  BY <2>4, <2>5, <2>6
<1> QED  BY <1>2, <1>3

\* The rest of Next.
LEMMA OthersKeepBooks ==
  ASSUME CallsInv,
         \/ \E ephnd \in {Port, File, Bad}, op \in Calls!Ops,
               sock \in Sockets \cup {Bad} : Calls!epoll_ctl(ephnd, op, sock)
         \/ Calls!CheckPort \/ Calls!CheckSock \/ Calls!Return
         \/ Calls!FeedDeleted
         \/ \E h \in Sockets \cup {File} : Calls!World(h)
         \/ UNCHANGED Calls!vars
  PROVE  PortSound' /\ HeldFor(held, port, pc)'
<1>1. /\ HeldFor(held, port, pc) /\ held \in [Calls!Resources -> Int]
      /\ CallSound
  BY DEF CallsInv, HeldFor
<1>2. ASSUME NEW ephnd \in {Port, File, Bad}, NEW op \in Calls!Ops,
             NEW sock \in Sockets \cup {Bad}, Calls!epoll_ctl(ephnd, op, sock)
      PROVE  PortSound' /\ HeldFor(held, port, pc)'
  <2>1. UNCHANGED <<port, held>> /\ Plain(pc) /\ Plain(pc')
    BY <1>2 DEF Calls!epoll_ctl, Plain, Placed
  <2> QED  BY <2>1, PlainStep
<1>3. CASE Calls!CheckPort \/ Calls!CheckSock \/ Calls!Return
  <2>1. UNCHANGED <<port, held>> /\ Plain(pc) /\ Plain(pc')
    BY <1>3 DEF Calls!CheckPort, Calls!CheckSock, Calls!Return, Calls!Goto,
                Calls!err_check_handle, Calls!Fail, Plain, Placed
  <2> QED  BY <2>1, PlainStep
<1>4. CASE Calls!FeedDeleted
  <2>1. /\ pc = "outside" /\ pc' = "outside" /\ port # NULL
        /\ pc \notin Placed /\ port.deleted # <<>>
        /\ port' = Calls!Freed([port EXCEPT !.deleted = Tail(@)],
                               Head(port.deleted))
        /\ Calls!GiveBack({"sock_state"})
    BY <1>4 DEF Calls!FeedDeleted, Calls!ForceDelete, Placed
  <2>2. SoundPort(port, 0) /\ GroupsOf(port) \in Nat /\ ObjectsOf(port) \in Nat
    BY <2>1, PortInHand
  <2>3. /\ SoundPort(port', 0) /\ GroupsOf(port') = GroupsOf(port)
        /\ ObjectsOf(port') = ObjectsOf(port) - 1
    BY <2>1, <2>2, DeletedFreed
  <2>4. port' # NULL
    BY <2>3, PortCounts
  <2>5. /\ held' \in [Calls!Resources -> Int]
        /\ \A r \in Calls!Resources :
             held'[r] = held[r] - On(r \in {"sock_state"})
    BY <1>1, <2>1, HeldMoves
  <2>6. HeldFor(held, port, pc)'
    BY <1>1, <2>1, <2>2, <2>3, <2>4, <2>5
    DEF HeldFor, Between, On, Calls!Resources
  <2> QED  BY <2>1, <2>3, <2>6 DEF PortSound, InHand, Placed
<1>5. ASSUME NEW h \in Sockets \cup {File}, Calls!World(h)
      PROVE  PortSound' /\ HeldFor(held, port, pc)'
  <2>1. UNCHANGED <<port, held, pc>>
    BY <1>5 DEF Calls!World
  <2>2. pc \in Placed => call'.group = call.group
    <3> SUFFICES ASSUME pc \in Placed PROVE call'.group = call.group
      OBVIOUS
    <3>1. call \in CtlCalls
      BY <1>1 DEF CallSound, Working, Adding
    <3> QED  BY <1>5, <3>1 DEF Calls!World, CtlCalls
  <2>3. InHand' = InHand
    BY <2>1, <2>2 DEF InHand
  <2> QED  BY <1>1, <2>1, <2>3 DEF CallsInv, PortSound, HeldFor, Between
<1>6. CASE UNCHANGED Calls!vars
  BY <1>1, <1>6
  DEF CallsInv, PortSound, InHand, HeldFor, Between, Calls!vars
<1> QED  BY <1>2, <1>3, <1>4, <1>5, <1>6

LEMMA CallStaysSound ==
  ASSUME CallsInv, [Calls!Next]_(Calls!vars)
  PROVE  CallSound'
<1>1. CallSound
  BY DEF CallsInv
<1> USE DEF Working, Adding, Making, Placed
<1>2. CASE \/ Calls!epoll_create \/ Calls!port__alloc
           \/ Calls!port__create_iocp
  BY <1>1, <1>2
  DEF CallSound, Calls!epoll_create, Calls!port__alloc,
      Calls!port__create_iocp, Calls!Goto, Calls!Fail, Calls!Failed,
      Calls!Ops
<1>3. ASSUME NEW ephnd \in {Port, File, Bad}, NEW op \in Calls!Ops,
             NEW sock \in Sockets \cup {Bad}, Calls!epoll_ctl(ephnd, op, sock)
      PROVE  CallSound'
  <2> DEFINE handles == Sockets \cup {Port, File, Bad}
  <2>1. /\ {ephnd, sock} \cap open \in SUBSET handles
        /\ {ephnd, sock} \ open \in SUBSET handles
    OBVIOUS
  <2>2. call' \in CtlCalls /\ call'.fn = "epoll_ctl"
    BY <1>3, <2>1 DEF Calls!epoll_ctl, CtlCalls
  <2>3. pc' = "ts_tree_find_and_ref"
    BY <1>3 DEF Calls!epoll_ctl
  <2> QED  BY <2>2, <2>3 DEF CallSound, Calls!Ops
<1>4. CASE Calls!ts_tree_find_and_ref
  <2>1. call \in CtlCalls /\ call.op \in Calls!Ops /\ call.fn = "epoll_ctl"
    BY <1>1, <1>4 DEF Calls!ts_tree_find_and_ref, CallSound, CtlCalls
  <2>2. /\ UNCHANGED <<port, call>>
        /\ (port # NULL /\ pc' \in Calls!Ops) \/ pc' = "check_ephnd"
    BY <1>4, <2>1 DEF Calls!ts_tree_find_and_ref, Calls!Goto, Calls!Fail,
                      Calls!Failed
  <2> QED  BY <2>1, <2>2 DEF CallSound, Calls!Ops
<1>5. CASE Calls!port__ctl_op_default \/ Calls!port__ctl_mod
  BY <1>1, <1>5
  DEF CallSound, Calls!port__ctl_op_default, Calls!port__ctl_mod,
      Calls!Goto, Calls!Fail, Calls!Failed, Calls!Ops
<1>6. CASE Calls!port__ctl_del
  <2>1. /\ call.fn = "epoll_ctl" /\ call \in CtlCalls /\ UNCHANGED call
        /\ pc' \in {"returned", "check_ephnd"}
    BY <1>1, <1>6 DEF Calls!port__ctl_del, CallSound, Calls!Goto, Calls!Fail,
                      Calls!Failed, Calls!Ops
  <2> QED  BY <2>1 DEF CallSound, Calls!Ops
<1>7. CASE Calls!ws_get_base_socket
  <2>1. /\ call.fn = "epoll_ctl" /\ call \in CtlCalls /\ port # NULL
        /\ UNCHANGED <<port, call>>
    BY <1>1, <1>7 DEF Calls!ws_get_base_socket, CallSound, Calls!Ops
  <2>2. CASE pc' = "check_ephnd"
    BY <2>1, <2>2 DEF CallSound, Calls!Ops
  <2>3. CASE /\ call.sock \in open
             /\ pc' = IF NeedsNewGroup(port.groups) THEN "poll_group__new"
                      ELSE "poll_group_acquire"
    <3>1. call.sock \in Sockets
      BY <2>1, <2>3 DEF CtlCalls, CallsInv, Watched
    <3> QED  BY <2>1, <2>3, <3>1 DEF CallSound, Calls!Ops
  <2> QED
    BY <1>7, <2>1, <2>2, <2>3, SameGroups
    DEF Calls!ws_get_base_socket, Calls!Goto, Calls!Fail, Calls!Failed
<1>8. CASE \/ Calls!AllocGroup \/ Calls!NtCreateFile
           \/ Calls!CreateIoCompletionPort
  <2>1. /\ call.fn = "epoll_ctl" /\ call \in CtlCalls /\ port # NULL
        /\ call.sock \in Sockets /\ NeedsNewGroup(port.groups)
        /\ UNCHANGED <<port, call>>
    BY <1>1, <1>8 DEF CallSound, Calls!Ops, Calls!AllocGroup,
       Calls!NtCreateFile, Calls!CreateIoCompletionPort
  <2>2. pc' \in {"NtCreateFile", "CreateIoCompletionPort",
                 "poll_group_acquire", "check_ephnd"}
    BY <1>8, <2>1
    DEF Calls!AllocGroup, Calls!NtCreateFile, Calls!CreateIoCompletionPort,
        Calls!Goto, Calls!Fail, Calls!Failed
  <2> QED  BY <2>1, <2>2 DEF CallSound, Calls!Ops
<1>9. CASE Calls!AcquireGroup
  <2> DEFINE h == Calls!AcquiredGroup(port.groups)
  <2>1. /\ call.fn = "epoll_ctl" /\ call \in CtlCalls /\ port # NULL
        /\ call.sock \in Sockets /\ pc \notin Placed
    BY <1>1, <1>9 DEF CallSound, Calls!Ops, Calls!AcquireGroup
  <2>2. /\ pc' = "sock__alloc" /\ call' = [call EXCEPT !.group = h]
        /\ port' = [port EXCEPT !.groups = Calls!poll_group_acquire(@)]
    BY <1>9 DEF Calls!AcquireGroup, Calls!Goto
  <2>3. SoundPort(port, 0)
    BY <2>1, PortInHand
  <2>4. SoundPort(port', h) /\ h \in Nat \ {0}
    BY <2>2, <2>3, GroupAcquired
  <2> HIDE DEF h
  <2>5. port' # NULL
    BY <2>4, PortCounts
  <2>6. /\ call' \in CtlCalls /\ call'.fn = "epoll_ctl"
        /\ call'.sock = call.sock /\ call'.group = h
    BY <2>1, <2>2, <2>4 DEF CtlCalls
  <2> QED  BY <2>1, <2>2, <2>4, <2>5, <2>6 DEF CallSound, Calls!Ops
<1>10. CASE Calls!sock__alloc
  <2>1. /\ call.fn = "epoll_ctl" /\ call \in CtlCalls /\ port # NULL
        /\ call.sock \in Sockets /\ call.group # 0
        /\ UNCHANGED call
    BY <1>1, <1>10 DEF CallSound, Calls!Ops, Calls!sock__alloc
  <2>2. \/ pc' = "port_register_socket" /\ UNCHANGED port
        \/ pc' = "check_ephnd"
    BY <1>10, <2>1 DEF Calls!sock__alloc, Calls!Goto, Calls!Fail,
                       Calls!Failed
  <2> QED  BY <2>1, <2>2 DEF CallSound, Calls!Ops
<1>11. CASE Calls!port_register_socket
  <2>1. /\ call.fn = "epoll_ctl" /\ call \in CtlCalls /\ UNCHANGED call
        /\ pc' \in {"returned", "check_ephnd"}
    BY <1>1, <1>11 DEF CallSound, Calls!Ops, Calls!port_register_socket,
                       Calls!Goto, Calls!Fail, Calls!Failed
  <2> QED  BY <2>1 DEF CallSound, Calls!Ops
<1>12. CASE Calls!CheckPort \/ Calls!CheckSock
  BY <1>1, <1>12
  DEF CallSound, Calls!Ops, Calls!CheckPort, Calls!CheckSock,
      Calls!err_check_handle, Calls!Goto, Calls!Fail
<1>13. ASSUME NEW ephnd \in {Port, File, Bad}, Calls!epoll_close(ephnd)
       PROVE  CallSound'
  <2>1. /\ call'.fn = "epoll_close" /\ UNCHANGED port
        /\ (pc' = "port_delete" /\ port # NULL) \/ pc' = "check_ephnd"
    BY <1>13 DEF Calls!epoll_close, Calls!Fail
  <2> QED  BY <2>1 DEF CallSound, Calls!Ops
<1>14. CASE Calls!port_delete
  <2>1. /\ pc = "port_delete" /\ port # NULL /\ UNCHANGED call
        /\ pc \notin Placed
    BY <1>1, <1>14 DEF Calls!port_delete, CallSound
  <2>2. SoundPort(port, 0)
    BY <2>1, PortInHand
  <2>3. pc' = "returned" \/ (pc' = "port_delete" /\ port' # NULL)
    <3>1. CASE DOMAIN port.socks # {}
      <4>1. PICK s \in DOMAIN port.socks :
              port' = Calls!Freed(Calls!Unregistered(port, s), port.socks[s])
        BY <1>14, <3>1 DEF Calls!port_delete, Calls!ForceDelete
      <4>2. SoundPort(port', 0)
        BY <2>2, <4>1, ObjectFreed
      <4>3. port' # NULL
        BY <4>2, PortCounts
      <4> QED  BY <1>14, <3>1, <4>3 DEF Calls!port_delete, Calls!Goto
    <3>2. CASE DOMAIN port.socks = {} /\ port.deleted # <<>>
      <4>1. port' = Calls!Freed([port EXCEPT !.deleted = Tail(@)],
                                Head(port.deleted))
        BY <1>14, <3>2 DEF Calls!port_delete, Calls!ForceDelete
      <4>2. SoundPort(port', 0)
        BY <2>2, <3>2, <4>1, DeletedFreed
      <4>3. port' # NULL
        BY <4>2, PortCounts
      <4>4. pc' = "port_delete"
        BY <1>14, <3>2 DEF Calls!port_delete, Calls!Goto
      <4> QED  BY <4>3, <4>4
    <3>3. CASE DOMAIN port.socks = {} /\ port.deleted = <<>>
      BY <1>14, <3>3 DEF Calls!port_delete, Calls!Goto
    <3> QED  BY <3>1, <3>2, <3>3
  <2> QED  BY <1>1, <2>1, <2>3 DEF CallSound, Calls!Ops
<1>15. CASE Calls!Return
  <2>1. pc' = "outside" /\ call'.fn = "none"
    BY <1>15 DEF Calls!Return, Calls!NoCall
  <2> QED  BY <2>1 DEF CallSound, Calls!Ops
<1>16. CASE Calls!FeedDeleted
  <2>1. pc = "outside" /\ UNCHANGED <<pc, call>>
    BY <1>16 DEF Calls!FeedDeleted
  <2> QED  BY <1>1, <2>1 DEF CallSound, Calls!Ops
<1>17. ASSUME NEW h \in Sockets \cup {File}, Calls!World(h)
       PROVE  CallSound'
  <2>1. UNCHANGED <<port, pc>>
    BY <1>17 DEF Calls!World
  <2>2. CASE UNCHANGED call
    BY <1>1, <2>1, <2>2 DEF CallSound
  <2>3. CASE /\ call.fn = "epoll_ctl"
             /\ call' = [call EXCEPT
                  !.wasOpen   = IF h \in open' THEN @ \cup {h} ELSE @,
                  !.wasClosed = IF h \in open' THEN @ ELSE @ \cup {h}]
    <3>1. call \in CtlCalls
      BY <1>1, <2>3 DEF CallSound
    <3>2. /\ call' \in CtlCalls /\ call'.fn = "epoll_ctl"
          /\ call'.sock = call.sock /\ call'.group = call.group
      BY <2>3, <3>1 DEF CtlCalls
    <3> QED  BY <1>1, <2>1, <2>3, <3>2 DEF CallSound
  <2> QED  BY <1>17, <2>2, <2>3 DEF Calls!World
<1>18. CASE UNCHANGED Calls!vars
  BY <1>1, <1>18 DEF CallSound, Calls!vars
<1> QED
  BY <1>2, <1>3, <1>4, <1>5, <1>6, <1>7, <1>8, <1>9, <1>10, <1>11, <1>12,
     <1>13, <1>14, <1>15, <1>16, <1>17, <1>18 DEF Calls!Next

\* What the two last checks do, in the words of the invariant.
LEMMA ChecksHandle ==
  ASSUME NEW h, NEW l, Calls!err_check_handle(h, l), Bad \notin open
  PROVE  /\ pc' = l
         /\ h \notin open => errno' = "EBADF"
         /\ errno' # errno => errno' = "EBADF" /\ h \notin open
  BY ErrnoOf DEF Calls!err_check_handle, Calls!Fail, Calls!Goto

LEMMA WatchStays ==
  ASSUME CallsInv, [Calls!Next]_(Calls!vars)
  PROVE  Watched'
<1>1. CallSound /\ Watched
  BY DEF CallsInv
<1>2. Bad \notin Sockets /\ Bad # Port /\ Bad # File /\ NULL # "EBADF"
  BY StructuresAssumption DEF Calls!CallsAssumption
\* A step of epoll_ctl that ends in none of the last two labels.
<1>3. ASSUME UNCHANGED <<open, call>>, pc' \notin {"check_sock", "failed"},
             errno' = errno \/ errno' # "EBADF"
      PROVE  Watched'
  BY <1>1, <1>3 DEF Watched
<1>4. CASE \/ Calls!epoll_create \/ Calls!port__alloc
           \/ Calls!port__create_iocp
  <2>1. call'.fn = "epoll_create"
    BY <1>1, <1>4 DEF CallSound, Calls!epoll_create, Calls!port__alloc,
                      Calls!port__create_iocp
  <2>2. open' \in {open, open \cup {Port}}
    BY <1>4 DEF Calls!epoll_create, Calls!port__alloc,
                Calls!port__create_iocp
  <2> QED  BY <1>1, <1>2, <2>1, <2>2 DEF Watched
<1>5. ASSUME NEW ephnd \in {Port, File, Bad}, NEW op \in Calls!Ops,
             NEW sock \in Sockets \cup {Bad}, Calls!epoll_ctl(ephnd, op, sock)
      PROVE  Watched'
  <2>1. /\ call'.ephnd = ephnd /\ call'.sock = sock
        /\ call'.wasOpen = {ephnd, sock} \cap open
        /\ call'.wasClosed = {ephnd, sock} \ open
        /\ open' = open /\ errno' = NULL /\ pc' = "ts_tree_find_and_ref"
    BY <1>5 DEF Calls!epoll_ctl
  <2> QED  BY <1>1, <1>2, <2>1 DEF Watched
<1>6. CASE Calls!ts_tree_find_and_ref
  <2>1. /\ call.op \in Calls!Ops /\ call.fn = "epoll_ctl"
        /\ UNCHANGED <<open, call>>
    BY <1>1, <1>6
    DEF Calls!ts_tree_find_and_ref, CallSound, CtlCalls, Working
  <2>2. /\ pc' \notin {"check_sock", "failed"}
        /\ errno' = errno \/ errno' # "EBADF"
    BY <1>6, <2>1, ErrnoOf
    DEF Calls!ts_tree_find_and_ref, Calls!Goto, Calls!Fail, Calls!Failed,
        Calls!Ops
  <2> QED  BY <1>3, <2>1, <2>2
<1>7. CASE \/ Calls!port__ctl_op_default \/ Calls!port__ctl_mod
           \/ Calls!port__ctl_del
  <2>1. call.fn = "epoll_ctl" /\ UNCHANGED <<open, call>>
    BY <1>1, <1>7
    DEF Calls!port__ctl_op_default, Calls!port__ctl_mod, Calls!port__ctl_del,
        CallSound, Working, Calls!Ops
  <2>2. /\ pc' \notin {"check_sock", "failed"}
        /\ errno' = errno \/ errno' # "EBADF"
    BY <1>7, <2>1, ErrnoOf
    DEF Calls!port__ctl_op_default, Calls!port__ctl_mod, Calls!port__ctl_del,
        Calls!Goto, Calls!Fail, Calls!Failed
  <2> QED  BY <1>3, <2>1, <2>2
<1>8. CASE Calls!ws_get_base_socket
  <2>1. call.fn = "epoll_ctl" /\ UNCHANGED <<open, call>>
    BY <1>1, <1>8 DEF Calls!ws_get_base_socket, CallSound, Working, Calls!Ops
  <2>2. pc' \notin {"check_sock", "failed"}
    BY <1>8, <2>1
    DEF Calls!ws_get_base_socket, Calls!Goto, Calls!Fail, Calls!Failed
  <2>3. \/ call.sock = Bad \/ errno' = errno \/ errno' # "EBADF"
    BY <1>8, ErrnoOf DEF Calls!ws_get_base_socket, Calls!Goto, Calls!Fail
  <2>4. call.sock = Bad => call.wasClosed # {}
    BY <1>1, <2>1 DEF Watched
  <2> QED  BY <1>1, <2>1, <2>2, <2>3, <2>4 DEF Watched
<1>9. CASE \/ Calls!AllocGroup \/ Calls!NtCreateFile
           \/ Calls!CreateIoCompletionPort \/ Calls!AcquireGroup
  <2>1. call.fn = "epoll_ctl" /\ UNCHANGED open /\ call \in CtlCalls
    BY <1>1, <1>9
    DEF Calls!AllocGroup, Calls!NtCreateFile, Calls!CreateIoCompletionPort,
        Calls!AcquireGroup, CallSound, Working, Adding, Making
  <2>2. /\ pc' \notin {"check_sock", "failed"}
        /\ errno' = errno \/ errno' # "EBADF"
    BY <1>9, <2>1, ErrnoOf
    DEF Calls!AllocGroup, Calls!NtCreateFile, Calls!CreateIoCompletionPort,
        Calls!AcquireGroup, Calls!Goto, Calls!Fail, Calls!Failed
  <2>3. CASE UNCHANGED call
    BY <1>3, <2>1, <2>2, <2>3
  <2>4. CASE call' = [call EXCEPT !.group = Calls!AcquiredGroup(port.groups)]
    <3>1. /\ call'.ephnd = call.ephnd /\ call'.sock = call.sock
          /\ call'.wasOpen = call.wasOpen /\ call'.wasClosed = call.wasClosed
      BY <2>1, <2>4 DEF CtlCalls
    <3> QED  BY <1>1, <2>1, <2>2, <3>1 DEF Watched
  <2> QED
    BY <1>9, <2>3, <2>4
    DEF Calls!AllocGroup, Calls!NtCreateFile, Calls!CreateIoCompletionPort,
        Calls!AcquireGroup
<1>10. CASE Calls!sock__alloc \/ Calls!port_register_socket
  <2>1. call.fn = "epoll_ctl" /\ UNCHANGED <<open, call>>
    BY <1>1, <1>10
    DEF Calls!sock__alloc, Calls!port_register_socket, CallSound, Working,
        Adding, Placed
  <2>2. /\ pc' \notin {"check_sock", "failed"}
        /\ errno' = errno \/ errno' # "EBADF"
    BY <1>10, <2>1, ErrnoOf
    DEF Calls!sock__alloc, Calls!port_register_socket, Calls!Goto,
        Calls!Fail, Calls!Failed
  <2> QED  BY <1>3, <2>1, <2>2
<1>11. CASE Calls!CheckPort
  <2>1. UNCHANGED <<open, call>>
    BY <1>11 DEF Calls!CheckPort
  <2>2. CASE call.fn # "epoll_ctl"
    BY <1>1, <2>1, <2>2 DEF Watched
  <2>3. CASE call.fn = "epoll_ctl"
    <3>1. Calls!err_check_handle(call.ephnd, "check_sock")
      BY <1>11, <2>3 DEF Calls!CheckPort
    <3>2. /\ pc' = "check_sock"
          /\ call.ephnd \notin open => errno' = "EBADF"
          /\ errno' # errno => errno' = "EBADF" /\ call.ephnd \notin open
      BY <1>1, <3>1, ChecksHandle DEF Watched
    <3> QED  BY <1>1, <2>1, <2>3, <3>2 DEF Watched
  <2> QED  BY <2>2, <2>3
<1>12. CASE Calls!CheckSock
  <2>1. /\ UNCHANGED <<open, call>> /\ pc = "check_sock"
        /\ call.fn = "epoll_ctl"
        /\ Calls!err_check_handle(call.sock, "failed")
    BY <1>1, <1>12 DEF Calls!CheckSock, CallSound, Working
  <2>2. /\ pc' = "failed"
        /\ call.sock \notin open => errno' = "EBADF"
        /\ errno' # errno => errno' = "EBADF" /\ call.sock \notin open
    BY <1>1, <2>1, ChecksHandle DEF Watched
  <2> QED  BY <1>1, <2>1, <2>2 DEF Watched
<1>13. ASSUME NEW ephnd \in {Port, File, Bad}, Calls!epoll_close(ephnd)
       PROVE  Watched'
  <2>1. call'.fn = "epoll_close" /\ open' \subseteq open
    BY <1>13 DEF Calls!epoll_close
  <2> QED  BY <1>1, <2>1 DEF Watched
<1>14. CASE Calls!port_delete
  <2>1. /\ UNCHANGED <<open, call, errno>>
        /\ pc' \in {"port_delete", "returned"}
    BY <1>14 DEF Calls!port_delete, Calls!Goto
  <2> QED  BY <1>3, <2>1
<1>15. CASE Calls!Return
  <2>1. call'.fn = "none" /\ UNCHANGED open
    BY <1>15 DEF Calls!Return, Calls!NoCall
  <2> QED  BY <1>1, <2>1 DEF Watched
<1>16. CASE Calls!FeedDeleted \/ UNCHANGED Calls!vars
  BY <1>1, <1>16 DEF Calls!FeedDeleted, Calls!vars, Watched
<1>17. ASSUME NEW h \in Sockets \cup {File}, Calls!World(h)
       PROVE  Watched'
  <2>1. /\ UNCHANGED <<pc, errno>> /\ h # Bad
        /\ open' = IF h \in open THEN open \ {h} ELSE open \cup {h}
    BY <1>2, <1>17 DEF Calls!World
  <2>2. CASE call.fn # "epoll_ctl"
    BY <1>1, <1>17, <2>1, <2>2 DEF Calls!World, Watched
  <2>3. CASE call.fn = "epoll_ctl" /\ h \notin {call.ephnd, call.sock}
    BY <1>1, <1>17, <2>1, <2>3 DEF Calls!World, Watched
  <2>4. CASE call.fn = "epoll_ctl" /\ h \in {call.ephnd, call.sock}
    <3>1. call \in CtlCalls
      BY <1>1, <2>4 DEF CallSound
    <3>2. call' = [call EXCEPT
            !.wasOpen   = IF h \in open' THEN @ \cup {h} ELSE @,
            !.wasClosed = IF h \in open' THEN @ ELSE @ \cup {h}]
      BY <1>17, <2>4 DEF Calls!World
    <3>3. /\ call'.fn = "epoll_ctl" /\ call'.ephnd = call.ephnd
          /\ call'.sock = call.sock
          /\ call'.wasOpen =
               IF h \in open' THEN call.wasOpen \cup {h} ELSE call.wasOpen
          /\ call'.wasClosed =
               IF h \in open' THEN call.wasClosed
               ELSE call.wasClosed \cup {h}
      BY <3>1, <3>2 DEF CtlCalls
    <3> QED  BY <1>1, <2>1, <2>4, <3>3 DEF Watched
  <2> QED  BY <2>2, <2>3, <2>4
<1> QED
  BY <1>4, <1>5, <1>6, <1>7, <1>8, <1>9, <1>10, <1>11, <1>12, <1>13, <1>14,
     <1>15, <1>16, <1>17 DEF Calls!Next

LEMMA CallsInductive == Calls!Spec => []CallsInv
<1>1. CallsInv /\ [Calls!Next]_(Calls!vars) => CallsInv'
  <2> SUFFICES ASSUME CallsInv, [Calls!Next]_(Calls!vars) PROVE CallsInv'
    OBVIOUS
  <2>1. PortSound' /\ HeldFor(held, port, pc)'
    BY CreateKeepsBooks, CtlKeepsBooks, GroupKeepsBooks, SockKeepsBooks,
       CloseKeepsBooks, OthersKeepBooks DEF Calls!Next
  <2> QED  BY <2>1, CallStaysSound, WatchStays DEF CallsInv
<1> QED  BY <1>1, CallsInit, PTL DEF Calls!Spec

LEMMA BooksAreExact ==
  ASSUME CallsInv
  PROVE  Calls!ResourcesAreExact
<1>1. HeldFor(held, port, pc)
  BY DEF CallsInv
<1>2. Calls!NothingLeaks
  <2> SUFFICES ASSUME Calls!Quiet PROVE Calls!NothingLeaks
    BY DEF Calls!NothingLeaks
  <2>1. pc \notin Placed /\ Plain(pc)
    BY DEF Calls!Quiet, Placed, Plain
  <2>2. /\ held \in [Calls!Resources -> Int]
        /\ held["port_state"] = On(port # NULL)
        /\ held["iocp"] = On(port # NULL)
        /\ held["poll_group"] = GroupsOf(port) + 0
        /\ held["afd_device"] = GroupsOf(port) + 0
        /\ held["sock_state"] = ObjectsOf(port) + 0
    BY <1>1, <2>1 DEF HeldFor, Plain, Placed, Between, On
  <2>3. CASE port = NULL
    <3>1. GroupsOf(port) = 0 /\ ObjectsOf(port) = 0
      BY <2>3 DEF GroupsOf, ObjectsOf
    <3>2. \A r \in Calls!Resources : held[r] = 0
      BY <2>2, <2>3, <3>1 DEF On, Calls!Resources
    <3>3. held = [r \in Calls!Resources |-> 0]
      BY <2>2, <3>2
    <3> QED  BY <2>3, <3>3 DEF Calls!NothingLeaks
  <2>4. CASE port # NULL
    <3>1. /\ GroupsOf(port) = Len(port.groups.size)
          /\ ObjectsOf(port) = Cardinality(DOMAIN port.socks)
                               + Len(port.deleted)
          /\ GroupsOf(port) \in Nat /\ ObjectsOf(port) \in Nat
      BY <2>1, <2>4, PortInHand, PortCounts
    <3>2. PICK n, m : n = GroupsOf(port) /\ m = ObjectsOf(port)
      OBVIOUS
    <3>3. /\ held["port_state"] = 1 /\ held["iocp"] = 1
          /\ held["poll_group"] = n /\ held["afd_device"] = n
          /\ held["sock_state"] = m
      BY <2>2, <2>4, <3>1, <3>2 DEF On
    <3>4. held = [port_state |-> 1, iocp |-> 1, poll_group |-> n,
                  afd_device |-> n, sock_state |-> m]
      BY <2>2, <3>3 DEF Calls!Resources
    <3>5. /\ n = Len(port.groups.size)
          /\ m = Calls!Cardinality(DOMAIN port.socks) + Len(port.deleted)
      BY <3>1, <3>2, SameGroups
    <3> QED  BY <2>4, <3>4, <3>5 DEF Calls!NothingLeaks
  <2> QED  BY <2>3, <2>4
<1>3. Calls!PlacesAreReturned
  <2> SUFFICES ASSUME port # NULL, pc \notin Placed,
                      NEW g \in DOMAIN port.groups.size
               PROVE  port.groups.size[g] =
                        Calls!Cardinality({s \in DOMAIN port.socks :
                                             port.socks[s] = g})
                        + Calls!Cardinality({i \in DOMAIN port.deleted :
                                               port.deleted[i] = g})
    BY DEF Calls!PlacesAreReturned, Placed
  <2>1. SoundPort(port, 0)
    BY PortInHand
  <2>2. g # 0
    BY <2>1 DEF SoundPort, WellFormed, Groups
  <2>3. /\ port.groups.size[g] =
             CountOf(port.socks, g) + CountOf(port.deleted, g) + 0
        /\ CountOf(port.socks, g) \in Nat /\ CountOf(port.deleted, g) \in Nat
    BY <2>1, <2>2, PlacesAreNumbers DEF SoundPort, Places
  <2>4. port.groups.size[g] = CountOf(port.socks, g) + CountOf(port.deleted, g)
    BY <2>3
  <2> QED  BY <2>4, SameGroups DEF CountOf
<1> QED  BY <1>2, <1>3 DEF Calls!ResourcesAreExact

(* What the epoll calls take they give back, whichever step fails: between *)
(* calls exactly the resources are allocated that the port uses, and the   *)
(* places taken in its groups are those of its objects.                    *)
THEOREM CallsLoseNothing == StructuresSpec => []ResourcesAreExact
<1>1. CallsInv => ResourcesAreExact
  BY BooksAreExact DEF ResourcesAreExact
<1> QED  BY <1>1, PartsMove, CallsInductive, PTL

(* A failed epoll_ctl says EBADF exactly when a handle of its was bad,     *)
(* whatever error it met first and whoever closes handles meanwhile.       *)
THEOREM BadHandlesAreTold == StructuresSpec => []EBADFIsExact
<1>1. CallsInv => EBADFIsExact
  BY DEF CallsInv, Watched, EBADFIsExact, Calls!EBADFIsExact,
         Calls!BadHandleIsEBADF, Calls!EBADFIsBadHandle
<1> QED  BY <1>1, PartsMove, CallsInductive, PTL
=============================================================================

---------------------------- MODULE PollGroupPool ----------------------------
(***************************************************************************)
(* The poll groups of one port under any order of sock_new and of frees:   *)
(* each socket holds a place in one group from poll_group_acquire to       *)
(* poll_group_release.                                                     *)
(***************************************************************************)
EXTENDS PollGroups, FiniteSets

CONSTANT Members    \* the sock_state objects that may hold a place

ASSUME MembersAssumption == IsFiniteSet(Members)

VARIABLES groups, member    \* member[m] is the group of m, 0 for none

vars == <<groups, member>>

Init ==
  /\ groups = NoGroups
  /\ member = [m \in Members |-> 0]

Acquire(m) ==
  /\ member[m] = 0
  /\ member' = [member EXCEPT ![m] = AcquiredGroup(groups)]
  /\ groups' = poll_group_acquire(groups)

Release(m) ==
  /\ member[m] # 0
  /\ member' = [member EXCEPT ![m] = 0]
  /\ groups' = poll_group_release(groups, member[m])

Next == \E m \in Members : Acquire(m) \/ Release(m)
Spec == Init /\ [][Next]_vars

TypeOK ==
  /\ groups.size \in Seq(Nat)
  /\ groups.queue \in Seq(DOMAIN groups.size)
  /\ member \in [Members -> {0} \cup DOMAIN groups.size]

(* Every group is linked exactly once, whatever moves it back and forth,   *)
(* and never holds more than MaxGroupSize sockets (the assertion of        *)
(* poll_group_release).                                                    *)
EveryGroupLinked ==
  /\ Elements(groups.queue) = DOMAIN groups.size
  /\ Distinct(groups.queue)
  /\ \A g \in DOMAIN groups.size : groups.size[g] \in 0 .. MaxGroupSize

(* poll_group_acquire looks at the last group only.  That is enough since  *)
(* the full groups all stand in front of those with room.                  *)
FullGroupsFirst ==
  \A i, j \in DOMAIN groups.queue :
    i < j /\ Full(groups, groups.queue[j]) => Full(groups, groups.queue[i])

(* The size a group records is the number of sockets that hold a place.    *)
SizeCountsMembers ==
  \A g \in DOMAIN groups.size :
    groups.size[g] = Cardinality({m \in Members : member[m] = g})

(* Groups, sizes and the order of the queue, which the search for a place  *)
(* relies on.                                                              *)
GroupsAreSound == EveryGroupLinked /\ FullGroupsFirst /\ SizeCountsMembers

(* A device handle is opened only when no open one has room.               *)
NewGroupOnlyWhenAllFull ==
  [][Len(groups'.size) > Len(groups.size) =>
       \A g \in DOMAIN groups.size : Full(groups, g)]_vars
=============================================================================

---------------------------- MODULE TsTreeProofs -----------------------------
(***************************************************************************)
(* The handle tree and the reflock are safe for any number of threads the  *)
(* reference count can hold, of nodes and of handles, and implement        *)
(* PortLifetime.                                                           *)
(***************************************************************************)
EXTENDS TsTree, FiniteSetTheorems, TLAPS

----------------------------------------------------------------------------
(* The inductive invariant                                                 *)

\* What pc says of the other variables of a thread.
Places ==
  \A t \in Threads :
    /\ pc[t] \in {"idle", "find"} => found[t] = NULL
    /\ pc[t] \notin {"idle", "find", "unlock"} => found[t] # NULL
    /\ pc[t] # "idle" => key[t] # NULL
    /\ t \in readers <=> pc[t] \in {"find", "ref", "unlock"}

\* The tree has allocated nodes only, each under its open handle.
TreeSound ==
  /\ \A h \in Handles :
       tree[h] # NULL => tree[h] \in allocated /\ handle[tree[h]] = h
  /\ \A m, n \in Nodes : handle[m] # NULL /\ handle[m] = handle[n] => m = n

\* The thread that creates or closes the port.
Owns(t) == pc[t] \in {"add", "close", "destroy", "await", "poison", "delete"}

\* Outside of the tree a node belongs to one thread.
OneOwner ==
  \A t \in Threads : Owns(t) =>
    /\ found[t] \in allocated
    /\ \A h \in Handles : tree[h] # found[t]
    /\ \A u \in Threads : Owns(u) /\ found[u] = found[t] => u = t
    /\ pc[t] = "add" => handle[found[t]] = key[t]
    /\ pc[t] \notin {"add", "close"} => handle[found[t]] = NULL

Open(n)    == \E h \in Handles : tree[h] = n
Closing(n) == \E u \in Threads :
                found[u] = n /\ pc[u] \in {"close", "destroy", "await"}

\* Whoever uses a node came upon it in the tree, and its owner has not got
\* past the wait for the users.
Visitors ==
  \A t \in Threads :
    /\ pc[t] = "ref" => tree[key[t]] = found[t]
    /\ pc[t] \in {"unlock", "using"} /\ found[t] # NULL =>
         Open(found[t]) \/ Closing(found[t])

\* Who is about to wake up the owner was the last user, and is alone.
OneSignal ==
  \A t \in Threads : pc[t] = "signal" =>
    /\ \E u \in Threads : pc[u] = "await" /\ found[u] = found[t]
    /\ Holders(found[t]) = {}
    /\ \A u \in Threads : pc[u] = "signal" /\ found[u] = found[t] => u = t

Deleting(n) == \E t \in Threads : pc[t] = "delete" /\ found[t] = n

\* The word of each node, until it is poisoned.
Counts ==
  \A n \in allocated :
    state[n] = IF Deleting(n) THEN Poison
               ELSE Cardinality(Holders(n))
                      + IF Destroying(n) = {} THEN 0 ELSE REFLOCK__DESTROY

IInv ==
  /\ TypeOK /\ Places /\ TreeSound /\ OneOwner /\ Visitors /\ OneSignal
  /\ Counts /\ AssertionsHold

----------------------------------------------------------------------------
(* Numbers and sets of threads                                             *)

LEMMA DestroyPositive == REFLOCK__DESTROY \in Nat /\ REFLOCK__DESTROY > 0
<1>1. Cardinality(Threads) \in Nat
  BY ReflockAssumption, FS_CardinalityType
<1> QED  BY <1>1, ReflockAssumption

(* A count that stays below the first mark, with and without the mark.     *)
LEMMA WordFacts ==
  ASSUME NEW c \in Nat, c < REFLOCK__DESTROY
  PROVE  /\ Marks(c) = 0
         /\ Marks(c + REFLOCK__DESTROY) = 1
         /\ RefCount(c + REFLOCK__DESTROY) = c
         /\ c # Poison /\ c + REFLOCK__DESTROY # Poison
<1> USE DestroyPositive
<1>1. Marks(c) = 0
  BY DEF Marks
<1>2. Marks(c + REFLOCK__DESTROY) = 1
  BY DEF Marks
<1>3. RefCount(c + REFLOCK__DESTROY) = c
  BY DEF RefCount
<1>4. c # Poison /\ c + REFLOCK__DESTROY # Poison
  BY DEF Poison
<1> QED  BY <1>1, <1>2, <1>3, <1>4

LEMMA CountFacts ==
  ASSUME NEW S \in SUBSET Threads
  PROVE  /\ Cardinality(S) \in Nat
         /\ Cardinality(S) < REFLOCK__DESTROY
         /\ Cardinality(S) = 0 <=> S = {}
<1>1. IsFiniteSet(S) /\ Cardinality(S) <= Cardinality(Threads)
  BY ReflockAssumption, FS_Subset
<1>2. Cardinality(S) \in Nat /\ Cardinality(Threads) \in Nat
  BY <1>1, ReflockAssumption, FS_CardinalityType
<1>3. Cardinality(S) = 0 <=> S = {}
  BY <1>1, FS_EmptySet
<1> QED  BY <1>1, <1>2, <1>3, ReflockAssumption

LEMMA Joins ==
  ASSUME NEW S \in SUBSET Threads, NEW t \in Threads \ S
  PROVE  Cardinality(S \cup {t}) = Cardinality(S) + 1
  BY ReflockAssumption, FS_Subset, FS_AddElement

LEMMA Leaves ==
  ASSUME NEW S \in SUBSET Threads, NEW t \in S
  PROVE  Cardinality(S \ {t}) = Cardinality(S) - 1
  BY ReflockAssumption, FS_Subset, FS_RemoveElement

----------------------------------------------------------------------------
(* Types                                                                   *)

LEMMA AtNode ==
  ASSUME TypeOK, Places, NEW t \in Threads,
         pc[t] \notin {"idle", "find", "unlock"}
  PROVE  found[t] \in Nodes
  BY DEF TypeOK, Places

LEMMA TypeStep == TypeOK /\ Places /\ [Next]_vars => TypeOK'
<1> SUFFICES ASSUME TypeOK, Places, [Next]_vars PROVE TypeOK'
  OBVIOUS
<1> USE DEF TypeOK
<1>1. ASSUME NEW t \in Threads, port_new(t) PROVE TypeOK'
  BY <1>1 DEF port_new, Goto, Labels
<1>2. ASSUME NEW t \in Threads, ts_tree_add(t) PROVE TypeOK'
  BY <1>2 DEF ts_tree_add, Return, Goto, Labels, Places
<1>3. ASSUME NEW t \in Threads, NEW h \in Handles, AcquireShared(t, h)
      PROVE  TypeOK'
  BY <1>3 DEF AcquireShared, Goto, Labels
<1>4. ASSUME NEW t \in Threads, Find(t) PROVE TypeOK'
  BY <1>4 DEF Find, Goto, Labels, Lookup, Places
<1>5. ASSUME NEW t \in Threads, reflock_ref(t) PROVE TypeOK'
  <2>1. failed' \in BOOLEAN
    BY <1>5 DEF reflock_ref, Check
  <2>2. found[t] \in Nodes
    BY <1>5, AtNode DEF reflock_ref
  <2> QED  BY <1>5, <2>1, <2>2 DEF reflock_ref, Goto, Labels, Add
<1>6. ASSUME NEW t \in Threads, ReleaseShared(t) PROVE TypeOK'
  BY <1>6 DEF ReleaseShared, Return, Goto, Labels
<1>7. ASSUME NEW t \in Threads, reflock_unref(t) PROVE TypeOK'
  <2>1. failed' \in BOOLEAN
    BY <1>7 DEF reflock_unref, Check
  <2>2. found[t] \in Nodes
    BY <1>7, AtNode DEF reflock_unref
  <2> QED  BY <1>7, <2>1, <2>2 DEF reflock_unref, Return, Goto, Labels, Add
<1>8. ASSUME NEW t \in Threads, NEW h \in Handles, ts_tree_del_and_ref(t, h)
      PROVE  TypeOK'
  <2>1. failed' \in BOOLEAN
    BY <1>8 DEF ts_tree_del_and_ref, Check
  <2> QED  BY <1>8, <2>1 DEF ts_tree_del_and_ref, Goto, Labels, Add, OneRef
<1>9. ASSUME NEW t \in Threads, port_close(t) PROVE TypeOK'
  BY <1>9 DEF port_close, Goto, Labels
<1>10. ASSUME NEW t \in Threads, reflock_unref_and_destroy(t) PROVE TypeOK'
  <2>1. failed' \in BOOLEAN
    BY <1>10 DEF reflock_unref_and_destroy, Check
  <2>2. found[t] \in Nodes
    BY <1>10, AtNode DEF reflock_unref_and_destroy
  <2> QED
    BY <1>10, <2>1, <2>2, DestroyPositive
       DEF reflock_unref_and_destroy, Goto, Labels, Add
<1>11. ASSUME NEW t \in Threads, NEW u \in Threads, KeyedEvent(t, u)
       PROVE  TypeOK'
  BY <1>11 DEF KeyedEvent, Labels
<1>12. ASSUME NEW t \in Threads, SetPoison(t) PROVE TypeOK'
  <2>1. failed' \in BOOLEAN
    BY <1>12 DEF SetPoison, Check
  <2>2. found[t] \in Nodes /\ Poison \in Int
    BY <1>12, AtNode, DestroyPositive DEF SetPoison, Poison
  <2> QED  BY <1>12, <2>1, <2>2 DEF SetPoison, Goto, Labels
<1>13. ASSUME NEW t \in Threads, port_delete(t) PROVE TypeOK'
  BY <1>13 DEF port_delete, Return, Goto, Labels, Check
<1>14. CASE UNCHANGED vars
  BY <1>14 DEF vars
<1> QED
  BY <1>1, <1>2, <1>3, <1>4, <1>5, <1>6, <1>7, <1>8, <1>9, <1>10, <1>11,
     <1>12, <1>13, <1>14 DEF Next, Call, Step

----------------------------------------------------------------------------
(* Threads and the tree                                                    *)

LEMMA PlacesStep == TypeOK /\ Places /\ [Next]_vars => Places'
<1> SUFFICES ASSUME TypeOK, Places, [Next]_vars PROVE Places'
  OBVIOUS
<1> USE ReflockAssumption DEF TypeOK, Places
<1>1. ASSUME NEW t \in Threads, port_new(t) \/ ts_tree_add(t) PROVE Places'
  BY <1>1 DEF port_new, ts_tree_add, Return, Goto
<1>2. ASSUME NEW t \in Threads, NEW h \in Handles, AcquireShared(t, h)
      PROVE  Places'
  BY <1>2 DEF AcquireShared, Goto
<1>3. ASSUME NEW t \in Threads, Find(t) PROVE Places'
  BY <1>3 DEF Find, Goto, Lookup
<1>4. ASSUME NEW t \in Threads, reflock_ref(t) PROVE Places'
  BY <1>4 DEF reflock_ref, Goto
<1>5. ASSUME NEW t \in Threads, ReleaseShared(t) PROVE Places'
  BY <1>5 DEF ReleaseShared, Return, Goto
<1>6. ASSUME NEW t \in Threads, reflock_unref(t) PROVE Places'
  BY <1>6 DEF reflock_unref, Return, Goto
<1>7. ASSUME NEW t \in Threads, NEW h \in Handles, ts_tree_del_and_ref(t, h)
      PROVE  Places'
  BY <1>7 DEF ts_tree_del_and_ref, Goto
<1>8. ASSUME NEW t \in Threads, port_close(t) PROVE Places'
  BY <1>8 DEF port_close, Goto
<1>9. ASSUME NEW t \in Threads, reflock_unref_and_destroy(t) PROVE Places'
  BY <1>9 DEF reflock_unref_and_destroy, Goto
<1>10. ASSUME NEW t \in Threads, NEW u \in Threads, KeyedEvent(t, u)
       PROVE  Places'
  BY <1>10 DEF KeyedEvent
<1>11. ASSUME NEW t \in Threads, SetPoison(t) \/ port_delete(t) PROVE Places'
  BY <1>11 DEF SetPoison, port_delete, Return, Goto
<1>12. CASE UNCHANGED vars
  BY <1>12 DEF vars
<1> QED
  BY <1>1, <1>2, <1>3, <1>4, <1>5, <1>6, <1>7, <1>8, <1>9, <1>10, <1>11, <1>12
     DEF Next, Call, Step

\* The steps that leave the tree, the allocations and the handles alone.
LEMMA TreeSteps ==
  ASSUME [Next]_vars
  PROVE  \/ \E t \in Threads : \/ port_new(t) \/ ts_tree_add(t) \/ port_close(t)
                               \/ port_delete(t)
                               \/ \E h \in Handles : ts_tree_del_and_ref(t, h)
         \/ UNCHANGED <<tree, allocated, handle>>
  BY DEF Next, Call, Step, vars, AcquireShared, Find, reflock_ref,
         ReleaseShared, reflock_unref, reflock_unref_and_destroy, KeyedEvent,
         SetPoison

LEMMA TreeSoundStep ==
  TypeOK /\ Places /\ TreeSound /\ OneOwner /\ [Next]_vars => TreeSound'
<1> SUFFICES ASSUME TypeOK, Places, TreeSound, OneOwner, [Next]_vars
             PROVE  TreeSound'
  OBVIOUS
<1> USE ReflockAssumption DEF TypeOK, TreeSound
<1>1. ASSUME NEW t \in Threads, port_new(t) PROVE TreeSound'
  BY <1>1 DEF port_new
<1>2. ASSUME NEW t \in Threads, ts_tree_add(t) PROVE TreeSound'
  BY <1>2 DEF ts_tree_add, OneOwner, Owns, Places
<1>3. ASSUME NEW t \in Threads, port_close(t) PROVE TreeSound'
  BY <1>3 DEF port_close, OneOwner, Owns
<1>4. ASSUME NEW t \in Threads, port_delete(t) PROVE TreeSound'
  BY <1>4 DEF port_delete, OneOwner, Owns
<1>5. ASSUME NEW t \in Threads, NEW h \in Handles, ts_tree_del_and_ref(t, h)
      PROVE  TreeSound'
  BY <1>5 DEF ts_tree_del_and_ref
<1>6. CASE UNCHANGED <<tree, allocated, handle>>
  BY <1>6
<1> QED  BY <1>1, <1>2, <1>3, <1>4, <1>5, <1>6, TreeSteps

LEMMA OneOwnerStep ==
  TypeOK /\ Places /\ TreeSound /\ OneOwner /\ [Next]_vars => OneOwner'
<1> SUFFICES ASSUME TypeOK, Places, TreeSound, OneOwner, [Next]_vars
             PROVE  OneOwner'
  OBVIOUS
<1> USE ReflockAssumption DEF TypeOK, OneOwner, Owns
<1>1. ASSUME NEW t \in Threads, port_new(t) PROVE OneOwner'
  BY <1>1 DEF port_new, Goto, TreeSound
<1>2. ASSUME NEW t \in Threads, ts_tree_add(t) PROVE OneOwner'
  BY <1>2 DEF ts_tree_add, Return, Goto
<1>3. ASSUME NEW t \in Threads, NEW h \in Handles, ts_tree_del_and_ref(t, h)
      PROVE  OneOwner'
  BY <1>3 DEF ts_tree_del_and_ref, Goto, TreeSound
<1>4. ASSUME NEW t \in Threads, port_close(t) PROVE OneOwner'
  BY <1>4 DEF port_close, Goto
<1>5. ASSUME NEW t \in Threads, reflock_unref_and_destroy(t) PROVE OneOwner'
  BY <1>5 DEF reflock_unref_and_destroy, Goto
<1>6. ASSUME NEW t \in Threads, NEW u \in Threads, KeyedEvent(t, u)
      PROVE  OneOwner'
  BY <1>6 DEF KeyedEvent
<1>7. ASSUME NEW t \in Threads, SetPoison(t) PROVE OneOwner'
  BY <1>7 DEF SetPoison, Goto
<1>8. ASSUME NEW t \in Threads, port_delete(t) PROVE OneOwner'
  BY <1>8 DEF port_delete, Return, Goto
<1>9. ASSUME NEW t \in Threads,
             \/ Find(t) \/ reflock_ref(t) \/ ReleaseShared(t)
             \/ reflock_unref(t) \/ \E h \in Handles : AcquireShared(t, h)
      PROVE  OneOwner'
  BY <1>9 DEF Find, reflock_ref, ReleaseShared, reflock_unref, AcquireShared,
              Return, Goto
<1>10. CASE UNCHANGED vars
  BY <1>10 DEF vars
<1> QED
  BY <1>1, <1>2, <1>3, <1>4, <1>5, <1>6, <1>7, <1>8, <1>9, <1>10
     DEF Next, Call, Step

----------------------------------------------------------------------------
(* What the word of a node says in each state of its port                  *)

LEMMA UsedNode ==
  ASSUME TypeOK, TreeSound, OneOwner, NEW n \in Nodes, Open(n) \/ Closing(n)
  PROVE  /\ n \in allocated
         /\ \A u \in Threads : pc[u] \in {"poison", "delete"} => found[u] # n
         /\ Open(n) => Destroying(n) = {}
<1> USE ReflockAssumption DEF TypeOK
<1>1. CASE Open(n)
  BY <1>1 DEF TreeSound, OneOwner, Owns, Open, Destroying
<1>2. CASE Closing(n)
  BY <1>2 DEF OneOwner, Owns, Open, Closing
<1> QED  BY <1>1, <1>2

LEMMA HoldersAreThreads == \A n : Holders(n) \in SUBSET Threads
  BY DEF Holders

\* A node that is used and not being destroyed has the count alone.
LEMMA CountOnly ==
  ASSUME TypeOK, TreeSound, OneOwner, Counts, NEW n \in Nodes,
         Open(n) \/ Closing(n), Destroying(n) = {}
  PROVE  state[n] = Cardinality(Holders(n))
<1>1. n \in allocated /\ ~Deleting(n)
  BY UsedNode DEF Deleting
<1>2. Cardinality(Holders(n)) \in Nat
  BY CountFacts, HoldersAreThreads
<1> QED  BY <1>1, <1>2 DEF Counts

\* ts_tree_find_and_ref and ts_tree_del_and_ref find no mark.
LEMMA RefFacts ==
  ASSUME IInv, NEW n \in Nodes, Open(n), NEW t \in Threads \ Holders(n)
  PROVE  /\ state[n] + 1 = Cardinality(Holders(n) \cup {t})
         /\ Marks(state[n] + 1) = 0
<1>1. state[n] = Cardinality(Holders(n))
  BY CountOnly, UsedNode DEF IInv
<1>2. Cardinality(Holders(n) \cup {t}) = Cardinality(Holders(n)) + 1
  BY Joins, HoldersAreThreads
<1>3. Holders(n) \cup {t} \in SUBSET Threads
  BY HoldersAreThreads
<1>4. /\ Cardinality(Holders(n) \cup {t}) \in Nat
      /\ Cardinality(Holders(n) \cup {t}) < REFLOCK__DESTROY
  BY <1>3, CountFacts
<1> QED  BY <1>1, <1>2, <1>4, WordFacts

\* ts_tree_node_unref by t.
LEMMA UnrefFacts ==
  ASSUME IInv, NEW t \in Threads, pc[t] = "using"
  PROVE  LET n == found[t]
             c == Cardinality(Holders(n) \ {t})
         IN  /\ n \in allocated
             /\ t \in Holders(n)
             /\ state[n] - 1 = c + IF Destroying(n) = {} THEN 0
                                   ELSE REFLOCK__DESTROY
             /\ Marks(state[n] - 1) \in {0, 1}
             /\ WasLast(state[n] - 1) <=>
                  Holders(n) \ {t} = {} /\ Destroying(n) # {}
             /\ Destroying(n) # {} =>
                  \E u \in Threads : pc[u] = "await" /\ found[u] = n
<1> DEFINE n == found[t]
           c == Cardinality(Holders(n) \ {t})
<1>1. n \in Nodes /\ (Open(n) \/ Closing(n)) /\ t \in Holders(n)
  BY AtNode DEF IInv, Visitors, Places, Holders
<1>2. /\ n \in allocated /\ ~Deleting(n)
      /\ \A u \in Threads : pc[u] \in {"poison", "delete"} => found[u] # n
  BY <1>1, UsedNode DEF IInv, Deleting
<1>3. c = Cardinality(Holders(n)) - 1
  BY <1>1, HoldersAreThreads, Leaves
<1>4. Holders(n) \ {t} \in SUBSET Threads
  BY HoldersAreThreads
<1>5. c \in Nat /\ c < REFLOCK__DESTROY /\ (c = 0 <=> Holders(n) \ {t} = {})
  BY <1>4, CountFacts
<1>6. Cardinality(Holders(n)) \in Nat
  BY HoldersAreThreads, CountFacts
<1>7. state[n] - 1 = c + IF Destroying(n) = {} THEN 0 ELSE REFLOCK__DESTROY
  BY <1>2, <1>3, <1>5, <1>6, DestroyPositive DEF IInv, Counts
<1>8. Marks(state[n] - 1) \in {0, 1}
  BY <1>5, <1>7, WordFacts
<1>9. WasLast(state[n] - 1) <=> Holders(n) \ {t} = {} /\ Destroying(n) # {}
  BY <1>5, <1>7, DestroyPositive DEF WasLast
<1>10. Destroying(n) # {} =>
         \E u \in Threads : pc[u] = "await" /\ found[u] = n
  BY <1>2 DEF Destroying
<1> QED  BY <1>1, <1>2, <1>7, <1>8, <1>9, <1>10

\* ts_tree_node_unref_and_destroy by t.
LEMMA DestroyFacts ==
  ASSUME IInv, NEW t \in Threads, pc[t] = "destroy"
  PROVE  LET n == found[t]
             c == Cardinality(Holders(n) \ {t})
             s == state[n] + (REFLOCK__DESTROY - 1)
         IN  /\ n \in allocated
             /\ t \in Holders(n)
             /\ s = c + REFLOCK__DESTROY
             /\ Marks(s) = 1
             /\ HasUsers(s) <=> Holders(n) \ {t} # {}
<1> DEFINE n == found[t]
           c == Cardinality(Holders(n) \ {t})
           s == state[n] + (REFLOCK__DESTROY - 1)
<1>1. n \in Nodes /\ Closing(n) /\ t \in Holders(n)
  BY AtNode DEF IInv, Closing, Holders
<1>2. Destroying(n) = {}
  BY DEF IInv, OneOwner, Owns, Destroying
<1>3. n \in allocated /\ state[n] = Cardinality(Holders(n))
  BY <1>1, <1>2, UsedNode, CountOnly DEF IInv
<1>4. c = Cardinality(Holders(n)) - 1
  BY <1>1, HoldersAreThreads, Leaves
<1>5. Holders(n) \ {t} \in SUBSET Threads
  BY HoldersAreThreads
<1>6. c \in Nat /\ c < REFLOCK__DESTROY /\ (c = 0 <=> Holders(n) \ {t} = {})
  BY <1>5, CountFacts
<1>7. Cardinality(Holders(n)) \in Nat
  BY HoldersAreThreads, CountFacts
<1>8. s = c + REFLOCK__DESTROY
  BY <1>3, <1>4, <1>6, <1>7, DestroyPositive
<1>9. Marks(s) = 1 /\ RefCount(s) = c
  BY <1>6, <1>8, WordFacts
<1> QED  BY <1>1, <1>3, <1>6, <1>8, <1>9 DEF HasUsers

----------------------------------------------------------------------------
(* Visitors and the wake-up                                                *)

LEMMA VisitorsStep == IInv /\ [Next]_vars => Visitors'
<1> SUFFICES ASSUME IInv, [Next]_vars PROVE Visitors'
  OBVIOUS
<1> USE ReflockAssumption DEF TypeOK, Visitors, Open, Closing
<1>1. ASSUME NEW t \in Threads, port_new(t) PROVE Visitors'
  BY <1>1 DEF IInv, port_new, Goto
<1>2. ASSUME NEW t \in Threads, ts_tree_add(t) PROVE Visitors'
  BY <1>2 DEF IInv, ts_tree_add, ExclusiveFree, Return, Goto, Places
<1>3. ASSUME NEW t \in Threads, NEW h \in Handles, AcquireShared(t, h)
      PROVE  Visitors'
  BY <1>3 DEF IInv, AcquireShared, Goto
<1>4. ASSUME NEW t \in Threads, Find(t) PROVE Visitors'
  BY <1>4 DEF IInv, Find, Lookup, Goto, Places
<1>5. ASSUME NEW t \in Threads, reflock_ref(t) PROVE Visitors'
  BY <1>5 DEF IInv, reflock_ref, Goto, Places
<1>6. ASSUME NEW t \in Threads, ReleaseShared(t) PROVE Visitors'
  BY <1>6 DEF IInv, ReleaseShared, Return, Goto
<1>7. ASSUME NEW t \in Threads, reflock_unref(t) PROVE Visitors'
  BY <1>7 DEF IInv, reflock_unref, Return, Goto
<1>8. ASSUME NEW t \in Threads, NEW h \in Handles, ts_tree_del_and_ref(t, h)
      PROVE  Visitors'
  BY <1>8 DEF IInv, ts_tree_del_and_ref, ExclusiveFree, Goto, Places
<1>9. ASSUME NEW t \in Threads, port_close(t) PROVE Visitors'
  BY <1>9 DEF IInv, port_close, Goto
<1>10. ASSUME NEW t \in Threads, reflock_unref_and_destroy(t) PROVE Visitors'
  <2>1. HasUsers(state'[found[t]]) <=> Holders(found[t]) \ {t} # {}
    BY <1>10, AtNode, DestroyFacts
       DEF IInv, reflock_unref_and_destroy, Add
  <2> QED
    BY <1>10, <2>1 DEF IInv, reflock_unref_and_destroy, Goto, Holders
<1>11. ASSUME NEW t \in Threads, NEW u \in Threads, KeyedEvent(t, u)
       PROVE  Visitors'
  <2>1. Holders(found[u]) = {}
    BY <1>11 DEF IInv, KeyedEvent, OneSignal
  <2> QED  BY <1>11, <2>1 DEF IInv, KeyedEvent, Holders
<1>12. ASSUME NEW t \in Threads, SetPoison(t) \/ port_delete(t)
       PROVE  Visitors'
  BY <1>12 DEF IInv, SetPoison, port_delete, Return, Goto
<1>13. CASE UNCHANGED vars
  BY <1>13 DEF IInv, vars
<1> QED
  BY <1>1, <1>2, <1>3, <1>4, <1>5, <1>6, <1>7, <1>8, <1>9, <1>10, <1>11,
     <1>12, <1>13 DEF Next, Call, Step

LEMMA OneSignalStep == IInv /\ [Next]_vars => OneSignal'
<1> SUFFICES ASSUME IInv, [Next]_vars PROVE OneSignal'
  OBVIOUS
<1> USE ReflockAssumption DEF TypeOK, OneSignal, Holders
<1>1. ASSUME NEW t \in Threads,
             \/ port_new(t) \/ ts_tree_add(t) \/ port_close(t)
             \/ \E h \in Handles : AcquireShared(t, h)
      PROVE  OneSignal'
  BY <1>1 DEF IInv, port_new, ts_tree_add, port_close, AcquireShared, Return,
              Goto
<1>2. ASSUME NEW t \in Threads, Find(t) \/ ReleaseShared(t) PROVE OneSignal'
  BY <1>2 DEF IInv, Find, Lookup, ReleaseShared, Return, Goto, Places
<1>3. ASSUME NEW t \in Threads, reflock_ref(t) PROVE OneSignal'
  BY <1>3 DEF IInv, reflock_ref, Goto, Visitors, OneOwner, Owns, Places
<1>4. ASSUME NEW t \in Threads, reflock_unref(t) PROVE OneSignal'
  <2>1. /\ WasLast(state[found[t]] - 1) =>
             /\ Holders(found[t]) \ {t} = {}
             /\ \E u \in Threads : pc[u] = "await" /\ found[u] = found[t]
        /\ t \in Holders(found[t])
    BY <1>4, UnrefFacts DEF reflock_unref
  <2> QED  BY <1>4, <2>1 DEF IInv, reflock_unref, Return, Goto
<1>5. ASSUME NEW t \in Threads, NEW h \in Handles, ts_tree_del_and_ref(t, h)
      PROVE  OneSignal'
  BY <1>5 DEF IInv, ts_tree_del_and_ref, Goto, OneOwner, Owns
<1>6. ASSUME NEW t \in Threads, reflock_unref_and_destroy(t) PROVE OneSignal'
  BY <1>6 DEF IInv, reflock_unref_and_destroy, Goto
<1>7. ASSUME NEW t \in Threads, NEW u \in Threads, KeyedEvent(t, u)
      PROVE  OneSignal'
  BY <1>7 DEF IInv, KeyedEvent, OneOwner, Owns
<1>8. ASSUME NEW t \in Threads, SetPoison(t) \/ port_delete(t)
      PROVE  OneSignal'
  BY <1>8 DEF IInv, SetPoison, port_delete, Return, Goto
<1>9. CASE UNCHANGED vars
  BY <1>9 DEF IInv, vars
<1> QED
  BY <1>1, <1>2, <1>3, <1>4, <1>5, <1>6, <1>7, <1>8, <1>9
     DEF Next, Call, Step

----------------------------------------------------------------------------
(* The word of each node                                                   *)

LEMMA InUse ==
  ASSUME TypeOK, Places, TreeSound, OneOwner, Visitors, OneSignal
  PROVE  NoUseAfterFree
<1> SUFFICES ASSUME NEW t \in Threads, found[t] # NULL
             PROVE  found[t] \in allocated
  BY DEF NoUseAfterFree
<1> USE DEF TypeOK
<1>1. pc[t] \in Labels /\ pc[t] \notin {"idle", "find"} /\ found[t] \in Nodes
  BY DEF Places
<1>2. CASE Owns(t)
  BY <1>2 DEF OneOwner
<1>3. CASE pc[t] = "ref"
  BY <1>1, <1>3 DEF Visitors, TreeSound, Places
<1>4. CASE pc[t] \in {"unlock", "using"}
  BY <1>1, <1>4, UsedNode DEF Visitors
<1>5. CASE pc[t] = "signal"
  BY <1>5 DEF OneSignal, OneOwner, Owns
<1> QED  BY <1>1, <1>2, <1>3, <1>4, <1>5 DEF Labels, Owns

\* What keeps a word right: the same threads at the same node.
LEMMA SameWord ==
  ASSUME Counts, NEW n \in allocated,
         state'[n] = state[n],
         Holders(n)' = Holders(n),
         Destroying(n)' = {} <=> Destroying(n) = {},
         Deleting(n)' <=> Deleting(n)
  PROVE  state'[n] = IF Deleting(n)' THEN Poison
                     ELSE Cardinality(Holders(n)')
                            + IF Destroying(n)' = {} THEN 0
                              ELSE REFLOCK__DESTROY
  BY DEF Counts

LEMMA CountsStep == IInv /\ [Next]_vars => Counts'
<1> SUFFICES ASSUME IInv, [Next]_vars, NEW n \in allocated'
             PROVE  (state[n] = IF Deleting(n) THEN Poison
                       ELSE Cardinality(Holders(n))
                              + IF Destroying(n) = {} THEN 0
                                ELSE REFLOCK__DESTROY)'
  BY DEF Counts
<1> USE ReflockAssumption DEF TypeOK
<1> DEFINE Right ==
      state'[n] = IF Deleting(n)' THEN Poison
                  ELSE Cardinality(Holders(n)')
                         + IF Destroying(n)' = {} THEN 0
                           ELSE REFLOCK__DESTROY
           Same == /\ n \in allocated
                   /\ state'[n] = state[n]
                   /\ Holders(n)' = Holders(n)
                   /\ Destroying(n)' = {} <=> Destroying(n) = {}
                   /\ Deleting(n)' <=> Deleting(n)
<1>a. n \in Nodes
  BY TypeStep DEF IInv
<1>b. ASSUME Same PROVE Right
  BY <1>b, SameWord DEF IInv
<1>1. ASSUME NEW t \in Threads, port_new(t) PROVE Right
  <2>1. CASE n \in allocated
    <3>1. n # found'[t] /\ state'[n] = state[n] /\ found[t] = NULL
      BY <1>1, <2>1 DEF port_new, IInv, Places
    <3>2. n # NULL
      BY <1>a
    <3>3. Same
      BY <1>1, <2>1, <3>1, <3>2
         DEF port_new, Goto, IInv, Holders, Destroying, Deleting
    <3> QED  BY <3>3, <1>b
  <2>2. CASE n \notin allocated
    <3>1. state'[n] = 0 /\ found' = [found EXCEPT ![t] = n] /\ Goto(t, "add")
      <4>1. PICK m \in Nodes \ allocated :
              /\ allocated' = allocated \cup {m}
              /\ state' = [state EXCEPT ![m] = 0]
              /\ found' = [found EXCEPT ![t] = m]
        BY <1>1 DEF port_new
      <4>2. m = n
        BY <4>1, <2>2
      <4> QED  BY <1>1, <4>1, <4>2, <1>a DEF port_new, IInv
    <3>2. \A u \in Threads : found[u] # n
      BY <2>2, <1>a, InUse DEF IInv, NoUseAfterFree
    <3>3. Holders(n)' = {} /\ Destroying(n)' = {} /\ ~Deleting(n)'
      BY <3>1, <3>2 DEF IInv, Goto, Holders, Destroying, Deleting
    <3>4. Cardinality({}) = 0
      BY FS_EmptySet
    <3> QED  BY <3>1, <3>3, <3>4
  <2> QED  BY <2>1, <2>2
<1>2. ASSUME NEW t \in Threads,
             \/ ts_tree_add(t) \/ port_close(t)
             \/ \E h \in Handles : AcquireShared(t, h)
      PROVE  Right
  <2>1. n # NULL
    BY <1>a
  <2>2. Same
    BY <1>2, <1>a, <2>1
       DEF ts_tree_add, port_close, AcquireShared, Return, Goto, IInv, Places,
           Holders, Destroying, Deleting
  <2> QED  BY <2>2, <1>b
<1>3. ASSUME NEW t \in Threads, Find(t) \/ ReleaseShared(t) PROVE Right
  <2>1. n # NULL
    BY <1>a
  <2>2. Same
    BY <1>3, <1>a, <2>1
       DEF Find, ReleaseShared, Lookup, Return, Goto, IInv, Places,
           Holders, Destroying, Deleting
  <2> QED  BY <2>2, <1>b
<1>4. ASSUME NEW t \in Threads, reflock_ref(t) PROVE Right
  <2>1. CASE n # found[t]
    <3>1. Same
      BY <1>4, <2>1
         DEF reflock_ref, Add, Goto, IInv, Holders, Destroying, Deleting
    <3> QED  BY <3>1, <1>b
  <2>2. CASE n = found[t]
    <3>1. Open(n) /\ t \notin Holders(n)
      BY <1>4, <2>2, <1>a DEF reflock_ref, IInv, Visitors, Open, Holders, Places
    <3>2. state'[n] = Cardinality(Holders(n) \cup {t})
      BY <1>4, <2>2, <1>a, <3>1, RefFacts DEF reflock_ref, Add, IInv
    <3>3. Holders(n)' = Holders(n) \cup {t}
      BY <1>4, <2>2 DEF reflock_ref, Goto, IInv, Holders
    <3>4. Destroying(n)' = Destroying(n)
      BY <1>4 DEF reflock_ref, Goto, IInv, Destroying
    <3>5. ~Deleting(n)'
      BY <1>4, <3>1, <1>a, UsedNode DEF reflock_ref, Goto, IInv, Deleting
    <3>6. Destroying(n) = {}
      BY <3>1, <1>a, UsedNode DEF IInv
    <3>7. Cardinality(Holders(n) \cup {t}) \in Nat
      BY CountFacts DEF Holders
    <3> QED  BY <3>2, <3>3, <3>4, <3>5, <3>6, <3>7
  <2> QED  BY <2>1, <2>2
<1>5. ASSUME NEW t \in Threads, reflock_unref(t) PROVE Right
  <2>1. CASE n # found[t]
    <3>1. Same
      BY <1>5, <2>1, <1>a
         DEF reflock_unref, Add, Return, Goto, IInv, Holders, Destroying,
             Deleting
    <3> QED  BY <3>1, <1>b
  <2>2. CASE n = found[t]
    <3>1. state'[n] = Cardinality(Holders(n) \ {t})
                        + IF Destroying(n) = {} THEN 0 ELSE REFLOCK__DESTROY
      <4>1. state'[n] = state[n] + (-1) /\ state[n] \in Int
        BY <1>5, <2>2, <1>a DEF reflock_unref, Add, IInv
      <4>2. state'[n] = state[n] - 1
        BY <4>1
      <4> QED  BY <1>5, <2>2, <4>2, UnrefFacts DEF reflock_unref
    <3>2. Holders(n)' = Holders(n) \ {t}
      BY <1>5, <2>2, <1>a DEF reflock_unref, Return, Goto, IInv, Holders
    <3>3. Destroying(n)' = Destroying(n)
      BY <1>5, <1>a DEF reflock_unref, Return, Goto, IInv, Destroying
    <3>4. Open(n) \/ Closing(n)
      BY <1>5, <2>2, <1>a DEF reflock_unref, IInv, Visitors
    <3>5. ~Deleting(n)'
      BY <1>5, <3>4, <1>a, UsedNode
         DEF reflock_unref, Return, Goto, IInv, Deleting
    <3> QED  BY <3>1, <3>2, <3>3, <3>5
  <2> QED  BY <2>1, <2>2
<1>6. ASSUME NEW t \in Threads, NEW h \in Handles, ts_tree_del_and_ref(t, h)
      PROVE  Right
  <2>1. CASE n # tree[h]
    <3>1. found[t] = NULL /\ n # NULL
      BY <1>6, <1>a DEF ts_tree_del_and_ref, IInv, Places
    <3>2. Same
      BY <1>6, <2>1, <3>1, <1>a
         DEF ts_tree_del_and_ref, Add, Goto, IInv, Holders, Destroying,
             Deleting
    <3> QED  BY <3>2, <1>b
  <2>2. CASE n = tree[h]
    <3>1. Open(n) /\ t \notin Holders(n)
      BY <1>6, <2>2 DEF ts_tree_del_and_ref, Open, Holders
    <3>2. state'[n] = Cardinality(Holders(n) \cup {t})
      BY <1>6, <2>2, <1>a, <3>1, RefFacts
         DEF ts_tree_del_and_ref, Add, OneRef, IInv
    <3>3. Holders(n)' = Holders(n) \cup {t}
      BY <1>6, <2>2 DEF ts_tree_del_and_ref, Goto, IInv, Holders
    <3>4. Destroying(n) = {} /\ ~Deleting(n)
      BY <3>1, <1>a, UsedNode DEF IInv, Deleting
    <3>5. Destroying(n)' = {} /\ ~Deleting(n)'
      BY <1>6, <3>4
         DEF ts_tree_del_and_ref, Goto, IInv, Destroying, Deleting
    <3>6. Cardinality(Holders(n) \cup {t}) \in Nat
      BY CountFacts DEF Holders
    <3> QED  BY <3>2, <3>3, <3>5, <3>6
  <2> QED  BY <2>1, <2>2
<1>7. ASSUME NEW t \in Threads, reflock_unref_and_destroy(t) PROVE Right
  <2>1. CASE n # found[t]
    <3>1. Same
      BY <1>7, <2>1
         DEF reflock_unref_and_destroy, Add, Goto, IInv, Holders, Destroying,
             Deleting
    <3> QED  BY <3>1, <1>b
  <2>2. CASE n = found[t]
    <3>1. state'[n] = Cardinality(Holders(n) \ {t}) + REFLOCK__DESTROY
      BY <1>7, <2>2, <1>a, DestroyFacts
         DEF reflock_unref_and_destroy, Add, IInv
    <3>2. Holders(n)' = Holders(n) \ {t}
      BY <1>7, <2>2 DEF reflock_unref_and_destroy, Goto, IInv, Holders
    <3>3. t \in Destroying(n)'
      BY <1>7, <2>2 DEF reflock_unref_and_destroy, Goto, IInv, Destroying
    <3>4. ~Deleting(n)
      BY <1>7, <2>2
         DEF reflock_unref_and_destroy, IInv, OneOwner, Owns, Deleting
    <3>5. ~Deleting(n)'
      BY <1>7, <3>4 DEF reflock_unref_and_destroy, Goto, IInv, Deleting
    <3> QED  BY <3>1, <3>2, <3>3, <3>5
  <2> QED  BY <2>1, <2>2
<1>8. ASSUME NEW t \in Threads, NEW u \in Threads, KeyedEvent(t, u)
      PROVE  Right
  <2>1. n # NULL
    BY <1>a
  <2>2. n \in allocated /\ state'[n] = state[n] /\ Holders(n)' = Holders(n)
    BY <1>8, <2>1 DEF KeyedEvent, IInv, Holders
  <2>3. Destroying(n)' = Destroying(n)
    BY <1>8, <2>1 DEF KeyedEvent, IInv, Destroying
  <2>4. Deleting(n)' <=> Deleting(n)
    BY <1>8, <2>1 DEF KeyedEvent, IInv, Deleting
  <2> QED  BY <2>2, <2>3, <2>4, <1>b
<1>9. ASSUME NEW t \in Threads, SetPoison(t) PROVE Right
  <2>1. CASE n # found[t]
    <3>1. Same
      BY <1>9, <2>1
         DEF SetPoison, Goto, IInv, Holders, Destroying, Deleting
    <3> QED  BY <3>1, <1>b
  <2>2. CASE n = found[t]
    <3>1. state'[n] = Poison
      BY <1>9, <2>2, <1>a DEF SetPoison, IInv
    <3>2. Deleting(n)'
      BY <1>9, <2>2 DEF SetPoison, Goto, IInv, Deleting
    <3> QED  BY <3>1, <3>2
  <2> QED  BY <2>1, <2>2
<1>10. ASSUME NEW t \in Threads, port_delete(t) PROVE Right
  <2>1. n # found[t] /\ n # NULL /\ n \in allocated
    BY <1>10, <1>a DEF port_delete
  <2>2. Same
    BY <1>10, <2>1
       DEF port_delete, Return, Goto, IInv, Holders, Destroying, Deleting
  <2> QED  BY <2>2, <1>b
<1>11. CASE UNCHANGED vars
  <2>1. Same
    BY <1>11 DEF vars, Holders, Destroying, Deleting
  <2> QED  BY <2>1, <1>b
<1> QED
  BY <1>1, <1>2, <1>3, <1>4, <1>5, <1>6, <1>7, <1>8, <1>9, <1>10, <1>11
     DEF Next, Call, Step

----------------------------------------------------------------------------
(* The assertions                                                          *)

LEMMA AssertionsStep == IInv /\ [Next]_vars => AssertionsHold'
<1> SUFFICES ASSUME IInv, [Next]_vars PROVE ~failed'
  BY DEF AssertionsHold
<1>0. ~failed
  BY DEF IInv, AssertionsHold
<1> USE ReflockAssumption DEF TypeOK
<1>1. ASSUME NEW t \in Threads, ts_tree_add(t) PROVE ~failed'
  <2>1. key[t] \in Handles /\ found[t] \in Nodes /\ handle[found[t]] = key[t]
    BY <1>1, AtNode DEF ts_tree_add, IInv, Places, OneOwner, Owns
  <2>2. tree[key[t]] = NULL
    BY <1>1, <2>1 DEF ts_tree_add, IInv, TreeSound, OneOwner, Owns
  <2> QED  BY <1>0, <1>1, <2>2 DEF ts_tree_add
<1>2. ASSUME NEW t \in Threads, reflock_ref(t) PROVE ~failed'
  <2>1. found[t] \in Nodes /\ Open(found[t]) /\ t \notin Holders(found[t])
    BY <1>2, AtNode DEF reflock_ref, IInv, Visitors, Open, Holders, Places
  <2>2. state'[found[t]] = state[found[t]] + 1
    BY <1>2, <2>1 DEF reflock_ref, Add, IInv
  <2>3. Marks(state'[found[t]]) = 0
    BY <2>1, <2>2, RefFacts
  <2> QED  BY <1>0, <1>2, <2>3 DEF reflock_ref, Check
<1>3. ASSUME NEW t \in Threads, reflock_unref(t) PROVE ~failed'
  <2>1. Marks(state[found[t]] - 1) \in {0, 1}
    BY <1>3, UnrefFacts DEF reflock_unref
  <2> QED  BY <1>0, <1>3, <2>1 DEF reflock_unref, Check
<1>4. ASSUME NEW t \in Threads, NEW h \in Handles, ts_tree_del_and_ref(t, h)
      PROVE  ~failed'
  <2>1. tree[h] \in Nodes /\ Open(tree[h]) /\ t \notin Holders(tree[h])
    BY <1>4 DEF ts_tree_del_and_ref, IInv, Open, Holders
  <2>2. state'[tree[h]] = state[tree[h]] + 1
    BY <1>4, <2>1 DEF ts_tree_del_and_ref, Add, OneRef, IInv
  <2>3. Marks(state'[tree[h]]) = 0
    BY <2>1, <2>2, RefFacts
  <2> QED  BY <1>0, <1>4, <2>3 DEF ts_tree_del_and_ref, Check
<1>5. ASSUME NEW t \in Threads, reflock_unref_and_destroy(t) PROVE ~failed'
  <2>1. found[t] \in Nodes
    BY <1>5, AtNode DEF reflock_unref_and_destroy, IInv
  <2>2. state'[found[t]] = state[found[t]] + (REFLOCK__DESTROY - 1)
    BY <1>5, <2>1 DEF reflock_unref_and_destroy, Add, IInv
  <2>3. Marks(state'[found[t]]) = 1
    BY <1>5, <2>1, <2>2, DestroyFacts DEF reflock_unref_and_destroy
  <2> QED  BY <1>0, <1>5, <2>3 DEF reflock_unref_and_destroy, Check
<1>6. ASSUME NEW t \in Threads, SetPoison(t) PROVE ~failed'
  <2> DEFINE n == found[t]
  <2>1. n \in Nodes /\ n \in allocated /\ ~Open(n)
    BY <1>6, AtNode DEF SetPoison, IInv, OneOwner, Owns, Open
  <2>2. ~Closing(n) /\ ~Deleting(n) /\ t \in Destroying(n)
    BY <1>6
       DEF SetPoison, IInv, OneOwner, Owns, Closing, Deleting, Destroying
  <2>3. \A u \in Threads : found[u] = n => pc[u] \notin {"unlock", "using"}
    BY <2>1, <2>2 DEF IInv, Visitors
  <2>4. Holders(n) = {}
    BY <2>2, <2>3 DEF Holders, Closing
  <2>5. state[n] = Cardinality({}) + REFLOCK__DESTROY
    BY <2>1, <2>2, <2>4 DEF IInv, Counts
  <2>6. state[n] = REFLOCK__DESTROY
    BY <2>5, FS_EmptySet, DestroyPositive
  <2> QED  BY <1>0, <1>6, <2>6 DEF SetPoison, Check
<1>7. ASSUME NEW t \in Threads, port_delete(t) PROVE ~failed'
  <2>1. handle[found[t]] = NULL
    BY <1>7 DEF port_delete, IInv, OneOwner, Owns
  <2> QED  BY <1>0, <1>7, <2>1 DEF port_delete, Check
<1>8. ASSUME \/ UNCHANGED vars
             \/ \E t, u \in Threads : KeyedEvent(t, u)
             \/ \E t \in Threads :
                  \/ port_new(t) \/ Find(t) \/ ReleaseShared(t)
                  \/ port_close(t)
                  \/ \E h \in Handles : AcquireShared(t, h)
      PROVE  ~failed'
  BY <1>0, <1>8 DEF vars, KeyedEvent, port_new, Find, ReleaseShared,
                    port_close, AcquireShared
<1> QED
  BY <1>1, <1>2, <1>3, <1>4, <1>5, <1>6, <1>7, <1>8 DEF Next, Call, Step

----------------------------------------------------------------------------
(* The theorems                                                            *)

LEMMA InitIInv == Init => IInv
<1> SUFFICES ASSUME Init PROVE IInv
  OBVIOUS
<1> USE ReflockAssumption DEF Init
<1>0. Poison \in Int
  BY DestroyPositive DEF Poison
<1>1. TypeOK
  BY <1>0 DEF TypeOK, Labels
<1>2. Places /\ TreeSound /\ AssertionsHold
  BY DEF Places, TreeSound, AssertionsHold
<1>3. OneOwner /\ Visitors /\ OneSignal /\ Counts
  BY DEF OneOwner, Owns, Visitors, OneSignal, Counts
<1> QED  BY <1>1, <1>2, <1>3 DEF IInv

LEMMA NextIInv == IInv /\ [Next]_vars => IInv'
<1> SUFFICES ASSUME IInv, [Next]_vars PROVE IInv'
  OBVIOUS
<1>1. TypeOK' /\ Places' /\ TreeSound' /\ OneOwner'
  BY TypeStep, PlacesStep, TreeSoundStep, OneOwnerStep DEF IInv
<1>2. Visitors' /\ OneSignal' /\ Counts' /\ AssertionsHold'
  BY VisitorsStep, OneSignalStep, CountsStep, AssertionsStep
<1> QED  BY <1>1, <1>2 DEF IInv

(* The inductive invariant holds of every run of the tree's calls.         *)
THEOREM Inductive == Spec => []IInv
  BY InitIInv, NextIInv, PTL DEF Spec

(* The one word of a reflock always tells how many calls hold the port and *)
(* whether one has begun to destroy it, for every number of threads below  *)
(* REFLOCK__DESTROY: the count never carries into the marks above it.      *)
THEOREM WordIsExact == Spec => []RefCountExact
<1>1. IInv => RefCountExact
  <2> SUFFICES ASSUME IInv, NEW n \in allocated, state[n] # Poison
               PROVE  state[n] = Cardinality(Holders(n))
                        + REFLOCK__DESTROY * Cardinality(Destroying(n))
    BY DEF RefCountExact
  <2>1. state[n] = Cardinality(Holders(n))
                     + IF Destroying(n) = {} THEN 0 ELSE REFLOCK__DESTROY
    BY DEF IInv, Counts
  <2>2. CASE Destroying(n) = {}
    BY <2>1, <2>2, FS_EmptySet, DestroyPositive
  <2>3. CASE Destroying(n) # {}
    <3>1. PICK t \in Threads : Destroying(n) = {t}
      BY <2>3 DEF IInv, OneOwner, Owns, Destroying
    <3>2. Cardinality(Destroying(n)) = 1
      BY <3>1, FS_Singleton
    <3> QED  BY <2>1, <2>3, <3>2, DestroyPositive
  <2> QED  BY <2>2, <2>3
<1> QED  BY <1>1, Inductive, PTL

(* Whoever meets at a port: the thread that destroys it is alone with it   *)
(* once its wait is over, no call works on a port that was freed, none of  *)
(* the assertions fails, and whoever signals the keyed event finds the     *)
(* destroying thread of the same port waiting for it.                      *)
THEOREM PortsAreSafe == Spec => []UsersAreSafe
<1>1. IInv => DestroyedAlone
  <2> SUFFICES ASSUME IInv, NEW t \in Threads, pc[t] \in {"poison", "delete"}
               PROVE  /\ \A u \in Threads \ {t} : found[u] # found[t]
                      /\ \A h \in Handles : tree[h] # found[t]
    BY DEF DestroyedAlone
  <2> DEFINE n == found[t]
  <2>1. n \in Nodes /\ n # NULL /\ ~Open(n)
    BY AtNode, ReflockAssumption DEF IInv, OneOwner, Owns, Open
  <2>2. \A u \in Threads \ {t} : Owns(u) => found[u] # n
    BY DEF IInv, OneOwner, Owns
  <2>3. ~Closing(n)
    BY <2>2 DEF Closing, Owns
  <2>4. ASSUME NEW u \in Threads \ {t}, found[u] = n PROVE FALSE
    <3>1. pc[u] \in Labels /\ pc[u] \notin {"idle", "find"}
      BY <2>1, <2>4 DEF IInv, TypeOK, Places
    <3>2. pc[u] # "ref"
      BY <2>1, <2>4 DEF IInv, TypeOK, Places, Visitors, Open
    <3>3. pc[u] \notin {"unlock", "using"}
      BY <2>1, <2>3, <2>4 DEF IInv, Visitors
    <3>4. pc[u] # "signal"
      BY <2>3, <2>4 DEF IInv, OneSignal, Closing
    <3> QED  BY <2>2, <2>4, <3>1, <3>2, <3>3, <3>4 DEF Labels, Owns
  <2> QED  BY <2>1, <2>4 DEF Open
<1>2. IInv => NoUseAfterFree /\ AssertionsHold /\ SignalMeetsAwait
  BY InUse DEF IInv, OneSignal, SignalMeetsAwait
<1>3. IInv => UsersAreSafe
  BY <1>1, <1>2 DEF UsersAreSafe
<1> QED  BY <1>3, Inductive, PTL

----------------------------------------------------------------------------
(* The refinement of PortLifetime                                          *)

\* The status of a port by who has it.
StatusIs ==
  \A n \in Nodes :
    /\ Open(n) => ~Closing(n) /\ Status(n) = "open"
    /\ Closing(n) => Status(n) = "closing"
    /\ ~Open(n) /\ ~Closing(n) => Status(n) = "absent"

LEMMA StatusFacts == TypeOK /\ OneOwner => StatusIs
<1> SUFFICES ASSUME TypeOK, OneOwner, NEW n \in Nodes
             PROVE  /\ Open(n) => ~Closing(n) /\ Status(n) = "open"
                    /\ Closing(n) => Status(n) = "closing"
                    /\ ~Open(n) /\ ~Closing(n) => Status(n) = "absent"
  BY DEF StatusIs
<1>1. Closing(n) => ~Open(n)
  BY DEF OneOwner, Owns, Open, Closing
<1>2. CASE Open(n)
  BY <1>1, <1>2 DEF Status, Open, Closing
<1>3. CASE Closing(n)
  BY <1>1, <1>3 DEF Status, Open, Closing
<1>4. CASE ~Open(n) /\ ~Closing(n)
  BY <1>4 DEF Status, Open, Closing
<1> QED  BY <1>2, <1>3, <1>4

\* The port of n goes on and no other does; the users stay.
LEMMA StatusStep ==
  ASSUME StatusIs, StatusIs', NEW n \in Nodes,
         \A m \in Nodes \ {n} :
           /\ Open(m)' <=> Open(m)
           /\ Closing(m)' <=> Closing(m),
         \A m \in Nodes : Users(m)' = Users(m)
  PROVE  /\ [m \in Nodes |-> Status(m)]' =
              [[m \in Nodes |-> Status(m)] EXCEPT ![n] = Status(n)']
         /\ [m \in Nodes |-> Users(m)]' = [m \in Nodes |-> Users(m)]
<1>1. \A m \in Nodes \ {n} : Status(m)' = Status(m)
  BY DEF StatusIs
<1> QED  BY <1>1

\* No port goes on, and t enters or leaves n alone.
LEMMA UsersStep ==
  ASSUME StatusIs, StatusIs', NEW n \in Nodes,
         \A m \in Nodes :
           /\ Open(m)' <=> Open(m)
           /\ Closing(m)' <=> Closing(m),
         \A m \in Nodes \ {n} : Users(m)' = Users(m)
  PROVE  /\ [m \in Nodes |-> Status(m)]' = [m \in Nodes |-> Status(m)]
         /\ [m \in Nodes |-> Users(m)]' =
              [[m \in Nodes |-> Users(m)] EXCEPT ![n] = Users(n)']
<1>1. \A m \in Nodes : Status(m)' = Status(m)
  BY DEF StatusIs
<1> QED  BY <1>1

LEMMA Idle ==
  ASSUME StatusIs, StatusIs',
         \A m \in Nodes :
           /\ Open(m)' <=> Open(m)
           /\ Closing(m)' <=> Closing(m)
           /\ Users(m)' = Users(m)
  PROVE  UNCHANGED Lifetime!vars
<1>1. \A m \in Nodes : Status(m)' = Status(m)
  BY DEF StatusIs
<1> QED  BY <1>1 DEF Lifetime!vars

LEMMA LifetimeStep ==
  IInv /\ IInv' /\ [Next]_vars => [Lifetime!Next]_(Lifetime!vars)
<1> SUFFICES ASSUME IInv, IInv', [Next]_vars
             PROVE  Lifetime!Next \/ UNCHANGED Lifetime!vars
  OBVIOUS
<1> USE ReflockAssumption DEF TypeOK
<1>a. StatusIs
  BY StatusFacts DEF IInv
<1>b. StatusIs'
  <2>1. TypeOK' /\ OneOwner'
    BY DEF IInv
  <2> QED  BY <2>1, StatusFacts, PTL
<1> DEFINE SameStatus(m) == /\ Open(m)' <=> Open(m)
                            /\ Closing(m)' <=> Closing(m)
           Same(m) == SameStatus(m) /\ Users(m)' = Users(m)
<1>c. ASSUME \A m \in Nodes : Same(m) PROVE UNCHANGED Lifetime!vars
  BY <1>a, <1>b, <1>c, Idle
\* The thread creates a port: not yet in the tree.
<1>1. ASSUME NEW t \in Threads, port_new(t) PROVE \A m \in Nodes : Same(m)
  BY <1>1 DEF IInv, port_new, Goto, Places, Open, Closing, Users
<1>2. ASSUME NEW t \in Threads, ts_tree_add(t)
      PROVE  Lifetime!Next
  <2>0. PICK n \in Nodes : n = found[t]
    BY <1>2, AtNode DEF IInv, ts_tree_add
  <2>1. ~Open(n) /\ ~Closing(n)
    BY <2>0, <1>2 DEF IInv, ts_tree_add, OneOwner, Owns, Open, Closing
  <2>2. key[t] \in Handles /\ handle[n] = key[t]
    BY <2>0, <1>2 DEF IInv, ts_tree_add, Places, OneOwner, Owns
  <2>3. tree[key[t]] = NULL /\ tree' = [tree EXCEPT ![key[t]] = n]
    BY <2>0, <1>2, <2>1, <2>2 DEF IInv, ts_tree_add, TreeSound, Open
  <2>4. Open(n)'
    BY <2>2, <2>3 DEF IInv, Open
  <2>5. \A m \in Nodes : Users(m)' = Users(m)
    BY <2>0, <1>2 DEF IInv, ts_tree_add, Return, Goto, Users
  <2>6. \A m \in Nodes \ {n} : SameStatus(m)
    BY <2>0, <1>2, <2>2, <2>3
       DEF IInv, ts_tree_add, Return, Goto, Open, Closing
  <2>7. /\ [m \in Nodes |-> Status(m)]' =
             [[m \in Nodes |-> Status(m)] EXCEPT ![n] = Status(n)']
        /\ [m \in Nodes |-> Users(m)]' = [m \in Nodes |-> Users(m)]
    BY <1>a, <1>b, <2>1, <2>5, <2>6, StatusStep
  <2>8. Status(n) = "absent" /\ Status(n)' = "open"
    BY <1>a, <1>b, <2>1, <2>4 DEF StatusIs
  <2> QED  BY <2>1, <2>7, <2>8 DEF Lifetime!Next, Lifetime!Create
<1>3. ASSUME NEW t \in Threads,
             \/ ReleaseShared(t) \/ reflock_ref(t) \/ port_close(t)
             \/ \E h \in Handles : AcquireShared(t, h)
      PROVE  \A m \in Nodes : Same(m)
  BY <1>3
     DEF IInv, ReleaseShared, reflock_ref, port_close, AcquireShared, Return,
         Goto, Places, Open, Closing, Users
<1>4. ASSUME NEW t \in Threads, Find(t), tree[key[t]] = NULL
      PROVE  \A m \in Nodes : Same(m)
  BY <1>4 DEF IInv, Find, Lookup, Goto, Places, Open, Closing, Users
<1>5. ASSUME NEW t \in Threads, Find(t), tree[key[t]] # NULL
      PROVE  Lifetime!Next
  <2>0. PICK n \in Nodes : n = tree[key[t]]
    BY <1>5 DEF IInv, Find, Places
  <2>1. Open(n)
    BY <2>0, <1>5 DEF IInv, Find, Places, Open
  <2>2. Users(n)' = Users(n) \cup {t}
    BY <2>0, <1>5 DEF IInv, Find, Lookup, Goto, Users
  <2>3. \A m \in Nodes \ {n} : Users(m)' = Users(m)
    BY <2>0, <1>5 DEF IInv, Find, Lookup, Goto, Places, Users
  <2>4. \A m \in Nodes : SameStatus(m)
    BY <2>0, <1>5 DEF IInv, Find, Lookup, Goto, Open, Closing
  <2>5. /\ [m \in Nodes |-> Status(m)]' = [m \in Nodes |-> Status(m)]
        /\ [m \in Nodes |-> Users(m)]' =
             [[m \in Nodes |-> Users(m)] EXCEPT ![n] = Users(n)']
    BY <1>a, <1>b, <2>1, <2>3, <2>4, UsersStep
  <2>6. Status(n) = "open"
    BY <1>a, <2>1 DEF StatusIs
  <2> QED  BY <2>1, <2>2, <2>5, <2>6 DEF Lifetime!Next, Lifetime!Enter
<1>6. ASSUME NEW t \in Threads, reflock_unref(t)
      PROVE  Lifetime!Next
  <2>0. PICK n \in Nodes : n = found[t]
    BY <1>6, AtNode DEF IInv, reflock_unref
  <2>2. Users(n)' = Users(n) \ {t}
    BY <2>0, <1>6 DEF IInv, reflock_unref, Return, Goto, Users
  <2>3. \A m \in Nodes \ {n} : Users(m)' = Users(m)
    BY <2>0, <1>6 DEF IInv, reflock_unref, Return, Goto, Users
  <2>4. \A m \in Nodes : SameStatus(m)
    BY <2>0, <1>6 DEF IInv, reflock_unref, Return, Goto, Open, Closing
  <2>5. /\ [m \in Nodes |-> Status(m)]' = [m \in Nodes |-> Status(m)]
        /\ [m \in Nodes |-> Users(m)]' =
             [[m \in Nodes |-> Users(m)] EXCEPT ![n] = Users(n)']
    BY <1>a, <1>b, <2>3, <2>4, UsersStep
  <2> QED  BY <2>2, <2>5 DEF Lifetime!Next, Lifetime!Leave
<1>7. ASSUME NEW t \in Threads, NEW h \in Handles, ts_tree_del_and_ref(t, h)
      PROVE  Lifetime!Next
  <2>0. PICK n \in Nodes : n = tree[h]
    BY <1>7 DEF IInv, ts_tree_del_and_ref
  <2>1. Open(n)
    BY <2>0, <1>7 DEF ts_tree_del_and_ref, IInv, Open
  <2>2. ~Open(n)' /\ Closing(n)'
    BY <2>0, <1>7, <2>1
       DEF IInv, ts_tree_del_and_ref, Goto, TreeSound, Open, Closing
  <2>3. \A m \in Nodes : Users(m)' = Users(m)
    BY <2>0, <1>7 DEF IInv, ts_tree_del_and_ref, Goto, Places, Users
  <2>4. \A m \in Nodes \ {n} : SameStatus(m)
    BY <2>0, <1>7 DEF IInv, ts_tree_del_and_ref, Goto, Places, Open, Closing
  <2>5. /\ [m \in Nodes |-> Status(m)]' =
             [[m \in Nodes |-> Status(m)] EXCEPT ![n] = Status(n)']
        /\ [m \in Nodes |-> Users(m)]' = [m \in Nodes |-> Users(m)]
    BY <1>a, <1>b, <2>1, <2>3, <2>4, StatusStep
  <2>6. Status(n) = "open" /\ Status(n)' = "closing"
    BY <1>a, <1>b, <2>1, <2>2 DEF StatusIs
  <2> QED  BY <2>1, <2>5, <2>6 DEF Lifetime!Next, Lifetime!Close
<1>8. ASSUME NEW t \in Threads, reflock_unref_and_destroy(t)
      PROVE  Lifetime!Next \/ \A m \in Nodes : Same(m)
  <2>0. PICK n \in Nodes : n = found[t]
    BY <1>8, AtNode DEF IInv, reflock_unref_and_destroy
  <2>1. Closing(n) /\ ~Open(n)
    BY <2>0, <1>8
       DEF IInv, reflock_unref_and_destroy, OneOwner, Owns, Open, Closing
  <2>2. \A m \in Nodes : Users(m)' = Users(m)
    BY <2>0, <1>8 DEF IInv, reflock_unref_and_destroy, Goto, Users
  <2>3. \A m \in Nodes \ {n} : SameStatus(m)
    BY <2>0, <1>8 DEF IInv, reflock_unref_and_destroy, Goto, Open, Closing
  <2>4. HasUsers(state'[n]) <=> Holders(n) \ {t} # {}
    BY <2>0, <1>8, <2>1, DestroyFacts DEF IInv, reflock_unref_and_destroy, Add
  <2>5. CASE HasUsers(state'[n])
    BY <2>0, <1>8, <2>1, <2>2, <2>3, <2>5
       DEF IInv, reflock_unref_and_destroy, Goto, Open, Closing
  <2>6. CASE ~HasUsers(state'[n])
    <3>1. Users(n) = {}
      BY <2>0, <1>8, <2>1, <2>4, <2>6
         DEF IInv, reflock_unref_and_destroy, Visitors, Places, Open, Users,
             Holders
    <3>2. ~Open(n)' /\ ~Closing(n)'
      BY <2>0, <1>8, <2>1, <2>6
         DEF IInv, reflock_unref_and_destroy, Goto, OneOwner, Owns, Open,
             Closing
    <3>3. /\ [m \in Nodes |-> Status(m)]' =
               [[m \in Nodes |-> Status(m)] EXCEPT ![n] = Status(n)']
          /\ [m \in Nodes |-> Users(m)]' = [m \in Nodes |-> Users(m)]
      BY <1>a, <1>b, <2>1, <2>2, <2>3, StatusStep
    <3>4. Status(n) = "closing" /\ Status(n)' = "absent"
      BY <1>a, <1>b, <2>1, <3>2 DEF StatusIs
    <3> QED  BY <2>1, <3>1, <3>3, <3>4 DEF Lifetime!Next, Lifetime!Destroy
  <2> QED  BY <2>5, <2>6
<1>9. ASSUME NEW t \in Threads, NEW u \in Threads, KeyedEvent(t, u)
      PROVE  Lifetime!Next
  <2>0. PICK n \in Nodes : n = found[u]
    BY <1>9, AtNode DEF IInv, KeyedEvent
  <2>1. Closing(n) /\ ~Open(n)
    BY <2>0, <1>9 DEF IInv, KeyedEvent, OneOwner, Owns, Open, Closing
  <2>2. \A m \in Nodes : Users(m)' = Users(m)
    BY <2>0, <1>9 DEF IInv, KeyedEvent, Users
  <2>3. \A m \in Nodes \ {n} : SameStatus(m)
    BY <2>0, <1>9 DEF IInv, KeyedEvent, Open, Closing
  <2>4. Users(n) = {}
    BY <2>0, <1>9, <2>1
       DEF IInv, KeyedEvent, OneSignal, Visitors, Places, Open, Users, Holders
  <2>5. ~Open(n)' /\ ~Closing(n)'
    BY <2>0, <1>9, <2>1 DEF IInv, KeyedEvent, OneOwner, Owns, Open, Closing
  <2>6. /\ [m \in Nodes |-> Status(m)]' =
             [[m \in Nodes |-> Status(m)] EXCEPT ![n] = Status(n)']
        /\ [m \in Nodes |-> Users(m)]' = [m \in Nodes |-> Users(m)]
    BY <1>a, <1>b, <2>1, <2>2, <2>3, StatusStep
  <2>7. Status(n) = "closing" /\ Status(n)' = "absent"
    BY <1>a, <1>b, <2>1, <2>5 DEF StatusIs
  <2> QED  BY <2>1, <2>4, <2>6, <2>7 DEF Lifetime!Next, Lifetime!Destroy
<1>10. ASSUME NEW t \in Threads, SetPoison(t) \/ port_delete(t)
       PROVE  \A m \in Nodes : Same(m)
  BY <1>10 DEF IInv, SetPoison, port_delete, Return, Goto, Open, Closing, Users
<1>11. CASE UNCHANGED vars
  BY <1>11 DEF vars, Lifetime!vars, Status, Users
<1> QED
  BY <1>c, <1>1, <1>2, <1>3, <1>4, <1>5, <1>6, <1>7, <1>8, <1>9, <1>10,
     <1>11 DEF Next, Call, Step

(* For every number of threads, nodes and handles the tree and the reflock *)
(* keep the promise of PortLifetime: a port that is closing is entered by  *)
(* no call, and is destroyed once its last user has left.                  *)
THEOREM KeepsPortLifetime == Spec => ImplementsLifetime
<1>1. Init => Lifetime!Init
  BY ReflockAssumption DEF Init, Lifetime!Init, Status, Users
<1> QED
  BY <1>1, Inductive, LifetimeStep, PTL
     DEF Spec, ImplementsLifetime, Lifetime!Spec
=============================================================================

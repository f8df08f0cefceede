--------------------------- MODULE PollGroupsProofs ---------------------------
(***************************************************************************)
(* What the queue operations return and preserve, and what                 *)
(* poll_group_acquire and poll_group_release do: the lemmas that the       *)
(* proofs about ports and pools share.                                     *)
(***************************************************************************)
EXTENDS PollGroups, TLAPS

(* Position finds the place of a node that is on the queue.                *)
LEMMA PositionFound ==
  ASSUME NEW S, NEW q \in Seq(S), NEW n \in Elements(q)
  PROVE  Position(q, n) \in 1 .. Len(q) /\ q[Position(q, n)] = n
<1>1. \E i \in DOMAIN q : q[i] = n
  BY DEF Elements
<1>2. QED
  BY <1>1 DEF Position

(* The nodes after a removal, by position.                                 *)
LEMMA RemoveAt ==
  ASSUME NEW S, NEW q \in Seq(S), NEW n \in Elements(q)
  PROVE  LET r == queue_remove(q, n)
             p == Position(q, n)
         IN  /\ r \in Seq(S)
             /\ Len(r) = Len(q) - 1
             /\ \A i \in 1 .. Len(r) : r[i] = IF i < p THEN q[i] ELSE q[i + 1]
<1> DEFINE p == Position(q, n)
           front == SubSeq(q, 1, p - 1)
           back == SubSeq(q, p + 1, Len(q))
<1>1. p \in 1 .. Len(q)
  BY PositionFound
<1> HIDE DEF p
<1>2. /\ front \in Seq(S) /\ Len(front) = p - 1
      /\ \A i \in 1 .. p - 1 : front[i] = q[i]
  BY <1>1
<1>3. /\ back \in Seq(S) /\ Len(back) = Len(q) - p
      /\ \A i \in 1 .. Len(q) - p : back[i] = q[p + i]
  BY <1>1
<1>4. queue_remove(q, n) = front \o back
  BY DEF queue_remove, p
<1>5. /\ front \o back \in Seq(S)
      /\ Len(front \o back) = Len(q) - 1
  <2> HIDE DEF front, back
  <2> QED  BY <1>1, <1>2, <1>3
<1>6. ASSUME NEW i \in 1 .. Len(q) - 1
      PROVE  (front \o back)[i] = IF i < p THEN q[i] ELSE q[i + 1]
  <2> HIDE DEF front, back
  <2>1. i \in Int /\ p \in Int /\ Len(q) \in Nat
    BY <1>1
  <2>2. CASE i < p
    BY <1>1, <1>2, <1>3, <2>1, <2>2
  <2>3. CASE ~(i < p)
    <3> DEFINE j == i - (p - 1)
    <3>1. j \in 1 .. Len(back) /\ i = Len(front) + j
      BY <1>1, <1>2, <1>3, <2>1, <2>3
    <3>2. (front \o back)[i] = back[j]
      BY <1>2, <1>3, <3>1
    <3>3. back[j] = q[p + j] /\ p + j = i + 1
      BY <1>1, <1>3, <2>1, <3>1
    <3> QED  BY <2>3, <3>2, <3>3
  <2> QED  BY <2>2, <2>3
<1> QED  BY <1>4, <1>5, <1>6 DEF p

LEMMA RemoveType ==
  ASSUME NEW S, NEW q \in Seq(S), NEW n
  PROVE  queue_remove(q, n) \in Seq(S)
<1>1. CASE n \in Elements(q)
  BY <1>1, RemoveAt
<1>2. CASE n \notin Elements(q)
  BY <1>2 DEF queue_remove
<1> QED  BY <1>1, <1>2

(* A removal takes out the node and nothing else, and keeps the others     *)
(* distinct.                                                               *)
LEMMA RemoveElements ==
  ASSUME NEW S, NEW q \in Seq(S), NEW n, Distinct(q)
  PROVE  /\ Elements(queue_remove(q, n)) = Elements(q) \ {n}
         /\ Distinct(queue_remove(q, n))
<1>1. CASE n \notin Elements(q)
  BY <1>1 DEF queue_remove
<1>2. CASE n \in Elements(q)
  <2> DEFINE r == queue_remove(q, n)
             p == Position(q, n)
  <2>1. p \in 1 .. Len(q) /\ q[p] = n
    BY <1>2, PositionFound
  <2>2. /\ r \in Seq(S) /\ Len(r) = Len(q) - 1
        /\ \A i \in 1 .. Len(r) : r[i] = IF i < p THEN q[i] ELSE q[i + 1]
    BY <1>2, RemoveAt
  <2> HIDE DEF r, p
  <2>3. DOMAIN r = 1 .. Len(q) - 1 /\ DOMAIN q = 1 .. Len(q)
    BY <2>2
  <2>4. Elements(r) \subseteq Elements(q) \ {n}
    <3>1. ASSUME NEW i \in DOMAIN r PROVE r[i] \in Elements(q) \ {n}
      <4> DEFINE j == IF i < p THEN i ELSE i + 1
      <4>1. j \in DOMAIN q /\ j # p /\ r[i] = q[j]
        BY <2>1, <2>2, <2>3
      <4> HIDE DEF j
      <4> QED  BY <2>1, <2>3, <4>1 DEF Distinct, Elements
    <3> QED  BY <3>1 DEF Elements
  <2>5. Elements(q) \ {n} \subseteq Elements(r)
    <3>1. ASSUME NEW j \in DOMAIN q, q[j] # n PROVE q[j] \in Elements(r)
      <4> DEFINE i == IF j < p THEN j ELSE j - 1
      <4>1. i \in DOMAIN r /\ r[i] = q[j]
        BY <2>1, <2>2, <2>3, <3>1
      <4> HIDE DEF i
      <4> QED  BY <4>1 DEF Elements
    <3> QED  BY <3>1 DEF Elements
  <2>6. Distinct(r)
    <3> SUFFICES ASSUME NEW i \in DOMAIN r, NEW j \in DOMAIN r, r[i] = r[j]
                 PROVE  i = j
      BY DEF Distinct
    <3> DEFINE k(x) == IF x < p THEN x ELSE x + 1
    <3>1. k(i) \in DOMAIN q /\ k(j) \in DOMAIN q /\ q[k(i)] = q[k(j)]
      BY <2>1, <2>2, <2>3
    <3>2. k(i) = k(j)
      <4> HIDE DEF k
      <4> QED  BY <3>1 DEF Distinct
    <3> QED  BY <2>1, <2>3, <3>2
  <2> QED  BY <2>4, <2>5, <2>6 DEF r
<1> QED  BY <1>1, <1>2

LEMMA AppendElements ==
  ASSUME NEW S, NEW q \in Seq(S), NEW n \in S
  PROVE  /\ queue_append(q, n) \in Seq(S)
         /\ Elements(queue_append(q, n)) = Elements(q) \cup {n}
         /\ Distinct(q) /\ n \notin Elements(q) => Distinct(queue_append(q, n))
<1> DEFINE r == Append(q, n)
<1>1. /\ r \in Seq(S) /\ Len(r) = Len(q) + 1
      /\ \A i \in 1 .. Len(q) : r[i] = q[i]
      /\ r[Len(q) + 1] = n
  OBVIOUS
<1>2. DOMAIN r = 1 .. Len(q) + 1 /\ DOMAIN q = 1 .. Len(q) /\ Len(q) \in Nat
  BY <1>1
<1> HIDE DEF r
<1>3. Elements(r) = Elements(q) \cup {n}
  <2>1. Elements(r) \subseteq Elements(q) \cup {n}
    BY <1>1, <1>2 DEF Elements
  <2>2. Elements(q) \subseteq Elements(r)
    BY <1>1, <1>2 DEF Elements
  <2>3. n \in Elements(r)
    BY <1>1, <1>2 DEF Elements
  <2> QED  BY <2>1, <2>2, <2>3
<1>4. Distinct(q) /\ n \notin Elements(q) => Distinct(r)
  BY <1>1, <1>2 DEF Distinct, Elements
<1> QED  BY <1>1, <1>3, <1>4 DEF queue_append, r

LEMMA PrependElements ==
  ASSUME NEW S, NEW q \in Seq(S), NEW n \in S
  PROVE  /\ queue_prepend(q, n) \in Seq(S)
         /\ Elements(queue_prepend(q, n)) = Elements(q) \cup {n}
         /\ Distinct(q) /\ n \notin Elements(q) => Distinct(queue_prepend(q, n))
<1> DEFINE r == <<n>> \o q
<1>1. /\ r \in Seq(S) /\ Len(r) = Len(q) + 1
      /\ \A i \in 1 .. Len(q) : r[i + 1] = q[i]
      /\ r[1] = n
  OBVIOUS
<1>2. DOMAIN r = 1 .. Len(q) + 1 /\ DOMAIN q = 1 .. Len(q) /\ Len(q) \in Nat
  BY <1>1
<1>3. \A i \in 2 .. Len(q) + 1 : i - 1 \in 1 .. Len(q) /\ r[i] = q[i - 1]
  BY <1>1, <1>2
<1> HIDE DEF r
<1>4. Elements(r) = Elements(q) \cup {n}
  <2>1. Elements(r) \subseteq Elements(q) \cup {n}
    <3>1. ASSUME NEW i \in DOMAIN r PROVE r[i] \in Elements(q) \cup {n}
      BY SMTT(30), <1>1, <1>2, <1>3 DEF Elements
    <3> QED  BY <3>1 DEF Elements
  <2>2. Elements(q) \subseteq Elements(r)
    <3>1. ASSUME NEW i \in DOMAIN q PROVE q[i] \in Elements(r)
      <4>1. i + 1 \in DOMAIN r /\ r[i + 1] = q[i]
        BY <1>1, <1>2
      <4> QED  BY <4>1 DEF Elements
    <3> QED  BY <3>1 DEF Elements
  <2>3. n \in Elements(r)
    BY <1>1, <1>2 DEF Elements
  <2> QED  BY <2>1, <2>2, <2>3
<1>5. ASSUME Distinct(q), n \notin Elements(q)
      PROVE  Distinct(r)
  <2> SUFFICES ASSUME NEW i \in DOMAIN r, NEW j \in DOMAIN r, r[i] = r[j]
               PROVE  i = j
    BY DEF Distinct
  <2>1. \A x \in DOMAIN r : x = 1 \/ r[x] \in Elements(q)
    BY SMTT(30), <1>2, <1>3 DEF Elements
  <2>2. CASE i = 1 \/ j = 1
    BY <1>1, <1>5, <2>1, <2>2
  <2>3. CASE i # 1 /\ j # 1
    <3>1. i - 1 \in DOMAIN q /\ j - 1 \in DOMAIN q /\ q[i - 1] = q[j - 1]
      BY <1>2, <1>3, <2>3
    <3>2. i - 1 = j - 1
      BY <1>5, <3>1 DEF Distinct
    <3> QED  BY <1>2, <3>2
  <2> QED  BY <2>2, <2>3
<1> QED  BY <1>1, <1>4, <1>5 DEF queue_prepend, r

(* Moving a node of the queue to either end keeps the nodes.               *)
LEMMA MoveElements ==
  ASSUME NEW S, NEW q \in Seq(S), NEW n \in S
  PROVE  /\ queue_move_to_start(q, n) \in Seq(S)
         /\ queue_move_to_end(q, n) \in Seq(S)
         /\ Distinct(q) /\ n \in Elements(q) =>
              /\ Elements(queue_move_to_start(q, n)) = Elements(q)
              /\ Elements(queue_move_to_end(q, n)) = Elements(q)
              /\ Distinct(queue_move_to_start(q, n))
              /\ Distinct(queue_move_to_end(q, n))
<1> DEFINE r == queue_remove(q, n)
<1>1. r \in Seq(S)
  BY RemoveType
<1>2. Distinct(q) => Elements(r) = Elements(q) \ {n} /\ Distinct(r)
  BY RemoveElements
<1> HIDE DEF r
<1>3. /\ queue_prepend(r, n) \in Seq(S)
      /\ Elements(queue_prepend(r, n)) = Elements(r) \cup {n}
      /\ Distinct(r) /\ n \notin Elements(r) => Distinct(queue_prepend(r, n))
  BY <1>1, PrependElements
<1>4. /\ queue_append(r, n) \in Seq(S)
      /\ Elements(queue_append(r, n)) = Elements(r) \cup {n}
      /\ Distinct(r) /\ n \notin Elements(r) => Distinct(queue_append(r, n))
  BY <1>1, AppendElements
<1> QED
  BY <1>2, <1>3, <1>4 DEF queue_move_to_start, queue_move_to_end, r

(* The node queue_last returns.                                            *)
LEMMA LastElement ==
  ASSUME NEW S, NEW q \in Seq(S), q # <<>>
  PROVE  queue_last(q) \in Elements(q) /\ queue_last(q) \in S
<1>1. Len(q) \in DOMAIN q
  OBVIOUS
<1> QED  BY <1>1 DEF queue_last, Elements

(* A distinct queue cut in two.                                            *)
LEMMA SplitElements ==
  ASSUME NEW S, NEW q \in Seq(S), Distinct(q), NEW n \in 0 .. Len(q)
  PROVE  LET front == SubSeq(q, 1, n)
             back  == SubSeq(q, n + 1, Len(q))
         IN  /\ front \in Seq(S) /\ back \in Seq(S)
             /\ Distinct(front) /\ Distinct(back)
             /\ Elements(front) \cup Elements(back) = Elements(q)
             /\ Elements(front) \cap Elements(back) = {}
<1> DEFINE front == SubSeq(q, 1, n)
           back  == SubSeq(q, n + 1, Len(q))
<1>1. /\ front \in Seq(S) /\ DOMAIN front = 1 .. n
      /\ \A i \in 1 .. n : front[i] = q[i]
  OBVIOUS
<1>2. /\ back \in Seq(S) /\ DOMAIN back = 1 .. (Len(q) - n)
      /\ \A i \in 1 .. (Len(q) - n) : back[i] = q[n + i]
  OBVIOUS
<1>3. DOMAIN q = 1 .. Len(q) /\ Len(q) \in Nat /\ n \in Nat /\ n <= Len(q)
  OBVIOUS
<1> HIDE DEF front, back
<1>4. \A i \in 1 .. (Len(q) - n) : n + i \in DOMAIN q
  BY <1>3
<1>5. \A i \in 1 .. n : i \in DOMAIN q
  BY <1>3
<1>6. Distinct(front)
  BY <1>1, <1>5 DEF Distinct
<1>7. Distinct(back)
  <2> SUFFICES ASSUME NEW i \in DOMAIN back, NEW j \in DOMAIN back,
                      back[i] = back[j]
               PROVE  i = j
    BY DEF Distinct
  <2>1. n + i = n + j
    BY <1>2, <1>4 DEF Distinct
  <2> QED  BY <1>2, <1>3, <2>1
<1>8. Elements(front) \cup Elements(back) \subseteq Elements(q)
  BY <1>1, <1>2, <1>4, <1>5 DEF Elements
<1>9. Elements(q) \subseteq Elements(front) \cup Elements(back)
  <2> SUFFICES ASSUME NEW i \in DOMAIN q
               PROVE  q[i] \in Elements(front) \cup Elements(back)
    BY DEF Elements
  <2>1. CASE i <= n
    <3>1. i \in DOMAIN front /\ front[i] = q[i]
      BY <1>1, <1>3, <2>1
    <3> QED  BY <3>1 DEF Elements
  <2>2. CASE i > n
    <3>1. i - n \in 1 .. (Len(q) - n) /\ n + (i - n) = i
      BY <1>3, <2>2
    <3>2. i - n \in DOMAIN back /\ back[i - n] = q[i]
      BY <1>2, <3>1
    <3> QED  BY <3>2 DEF Elements
  <2> QED  BY <1>3, <2>1, <2>2
<1>10. Elements(front) \cap Elements(back) = {}
  <2> SUFFICES ASSUME NEW i \in DOMAIN front, NEW j \in DOMAIN back,
                      front[i] = back[j]
               PROVE  FALSE
    BY DEF Elements
  <2>1. i = n + j
    BY <1>1, <1>2, <1>4, <1>5 DEF Distinct
  <2> QED  BY <1>1, <1>2, <1>3, <2>1
<1> QED
  BY <1>1, <1>2, <1>6, <1>7, <1>8, <1>9, <1>10 DEF front, back

(* A distinct queue without its first node.                                *)
LEMMA TailElements ==
  ASSUME NEW S, NEW q \in Seq(S), Distinct(q), q # <<>>
  PROVE  /\ Tail(q) \in Seq(S)
         /\ Distinct(Tail(q))
         /\ Head(q) \in Elements(q)
         /\ Elements(Tail(q)) = Elements(q) \ {Head(q)}
<1> DEFINE r == Tail(q)
<1>1. /\ Len(q) \in Nat /\ Len(q) >= 1 /\ DOMAIN q = 1 .. Len(q)
      /\ r \in Seq(S) /\ DOMAIN r = 1 .. (Len(q) - 1)
      /\ \A i \in 1 .. (Len(q) - 1) : r[i] = q[i + 1]
      /\ Head(q) = q[1]
  OBVIOUS
<1> HIDE DEF r
<1>2. \A i \in DOMAIN r : i + 1 \in DOMAIN q /\ i + 1 # 1
  BY <1>1
<1>3. 1 \in DOMAIN q
  BY <1>1
<1>4. Head(q) \in Elements(q)
  BY <1>1, <1>3 DEF Elements
<1>5. Distinct(r)
  <2> SUFFICES ASSUME NEW i \in DOMAIN r, NEW j \in DOMAIN r, r[i] = r[j]
               PROVE  i = j
    BY DEF Distinct
  <2>1. i + 1 = j + 1
    BY <1>1, <1>2 DEF Distinct
  <2> QED  BY <1>1, <2>1
<1>6. Elements(r) \subseteq Elements(q) \ {Head(q)}
  <2> SUFFICES ASSUME NEW i \in DOMAIN r
               PROVE  r[i] \in Elements(q) /\ r[i] # Head(q)
    BY DEF Elements
  <2>1. r[i] = q[i + 1]
    BY <1>1
  <2>2. q[i + 1] # q[1]
    BY <1>2, <1>3 DEF Distinct
  <2> QED  BY <1>1, <1>2, <2>1, <2>2 DEF Elements
<1>7. Elements(q) \ {Head(q)} \subseteq Elements(r)
  <2> SUFFICES ASSUME NEW i \in DOMAIN q, i # 1
               PROVE  q[i] \in Elements(r)
    BY <1>1 DEF Elements
  <2>1. i - 1 \in 1 .. (Len(q) - 1) /\ (i - 1) + 1 = i
    BY <1>1
  <2>2. i - 1 \in DOMAIN r /\ r[i - 1] = q[i]
    BY <1>1, <2>1
  <2> QED  BY <2>2 DEF Elements
<1> QED  BY <1>1, <1>4, <1>5, <1>6, <1>7 DEF r

-----------------------------------------------------------------------------
(* The poll groups.                                                        *)

Groups == [queue : Seq(Nat), size : Seq(Nat)]

Linked(pg) ==
  /\ Elements(pg.queue) = DOMAIN pg.size
  /\ Distinct(pg.queue)
  /\ \A g \in DOMAIN pg.size : pg.size[g] \in 0 .. MaxGroupSize

FullFirst(q, full) ==
  \A i, j \in DOMAIN q : i < j /\ q[j] \in full => q[i] \in full

FullOnes(pg) == {g \in DOMAIN pg.size : Full(pg, g)}

WellFormed(pg) ==
  pg \in Groups /\ Linked(pg) /\ FullFirst(pg.queue, FullOnes(pg))

LEMMA NoGroupsWellFormed == WellFormed(NoGroups)
  BY DEF WellFormed, NoGroups, Groups, Linked, Elements, Distinct, FullFirst

(* Taking a node out of a queue keeps the order of the others.             *)
LEMMA RemoveKeepsFullFirst ==
  ASSUME NEW S, NEW q \in Seq(S), NEW n, NEW full, FullFirst(q, full)
  PROVE  FullFirst(queue_remove(q, n), full)
<1>1. CASE n \notin Elements(q)
  BY <1>1 DEF queue_remove
<1>2. CASE n \in Elements(q)
  <2> DEFINE r == queue_remove(q, n)
             p == Position(q, n)
             k(x) == IF x < p THEN x ELSE x + 1
  <2>1. p \in 1 .. Len(q)
    BY <1>2, PositionFound
  <2>2. /\ r \in Seq(S) /\ Len(r) = Len(q) - 1
        /\ \A i \in 1 .. Len(r) : r[i] = IF i < p THEN q[i] ELSE q[i + 1]
    BY <1>2, RemoveAt
  <2> HIDE DEF r, p
  <2>3. DOMAIN r = 1 .. Len(q) - 1 /\ DOMAIN q = 1 .. Len(q) /\ Len(q) \in Nat
    BY <2>2
  <2> SUFFICES ASSUME NEW i \in DOMAIN r, NEW j \in DOMAIN r, i < j,
                      r[j] \in full
               PROVE  r[i] \in full
    BY DEF FullFirst, r
  <2>4. /\ k(i) \in DOMAIN q /\ k(j) \in DOMAIN q /\ k(i) < k(j)
        /\ r[i] = q[k(i)] /\ r[j] = q[k(j)]
    BY <2>1, <2>2, <2>3
  <2> HIDE DEF k
  <2> QED  BY <2>4 DEF FullFirst
<1> QED  BY <1>1, <1>2

(* A node that is not full may stand at the end.                           *)
LEMMA AppendKeepsFullFirst ==
  ASSUME NEW S, NEW q \in Seq(S), NEW n \in S, NEW full,
         FullFirst(q, full), n \notin full
  PROVE  FullFirst(queue_append(q, n), full)
<1> DEFINE r == Append(q, n)
<1>1. /\ r \in Seq(S) /\ Len(r) = Len(q) + 1 /\ Len(q) \in Nat
      /\ \A i \in 1 .. Len(q) : r[i] = q[i]
      /\ r[Len(q) + 1] = n
  OBVIOUS
<1>2. DOMAIN r = 1 .. Len(q) + 1 /\ DOMAIN q = 1 .. Len(q)
  BY <1>1
<1> HIDE DEF r
<1>3. FullFirst(r, full)
  BY <1>1, <1>2 DEF FullFirst
<1> QED  BY <1>3 DEF queue_append, r

(* A node that is full may stand in front.                                 *)
LEMMA PrependKeepsFullFirst ==
  ASSUME NEW S, NEW q \in Seq(S), NEW n \in S, NEW full,
         FullFirst(q, full), n \in full
  PROVE  FullFirst(queue_prepend(q, n), full)
<1> DEFINE r == <<n>> \o q
<1>1. /\ Len(r) = Len(q) + 1 /\ r \in Seq(S)
      /\ r[1] = n /\ Len(q) \in Nat
      /\ \A i \in 2 .. Len(q) + 1 : i - 1 \in 1 .. Len(q) /\ r[i] = q[i - 1]
  OBVIOUS
<1>2. DOMAIN r = 1 .. Len(q) + 1 /\ DOMAIN q = 1 .. Len(q)
  BY <1>1
<1> HIDE DEF r
<1>3. ASSUME NEW i \in DOMAIN r, NEW j \in DOMAIN r, i < j, r[j] \in full
      PROVE  r[i] \in full
  <2>1. CASE i = 1
    BY <1>1, <2>1
  <2>2. CASE i # 1
    <3>1. i - 1 \in DOMAIN q /\ j - 1 \in DOMAIN q /\ i - 1 < j - 1
          /\ r[i] = q[i - 1] /\ r[j] = q[j - 1]
      BY <1>1, <1>2, <1>3, <2>2
    <3> QED  BY <1>3, <3>1 DEF FullFirst
  <2> QED  BY <2>1, <2>2
<1> QED  BY <1>3 DEF FullFirst, queue_prepend, r

(* Only the membership of the nodes on the queue matters.                  *)
LEMMA FullFirstSame ==
  ASSUME NEW q, NEW full, NEW other, FullFirst(q, full),
         \A g \in Elements(q) : g \in full <=> g \in other
  PROVE  FullFirst(q, other)
  BY DEF FullFirst, Elements

-----------------------------------------------------------------------------
(* When no new group is needed the last group has room.                    *)
LEMMA WithRoomWellFormed ==
  ASSUME NEW pg, WellFormed(pg)
  PROVE  LET w == WithRoom(pg)
             g == AcquiredGroup(pg)
         IN  /\ WellFormed(w)
             /\ g \in DOMAIN w.size
             /\ w.queue # <<>> /\ g = queue_last(w.queue)
             /\ w.size[g] < MaxGroupSize
             /\ DOMAIN pg.size \subseteq DOMAIN w.size
             /\ \A f \in DOMAIN pg.size : w.size[f] = pg.size[f]
             /\ \A f \in DOMAIN w.size \ DOMAIN pg.size : w.size[f] = 0
             /\ pg.size # w.size => \A f \in DOMAIN pg.size : Full(pg, f)
<1> DEFINE w == WithRoom(pg)
           g == AcquiredGroup(pg)
           n == Len(pg.size) + 1
<1> USE MaxGroupSizeAssumption
<1>1. /\ pg.queue \in Seq(Nat) /\ pg.size \in Seq(Nat)
      /\ DOMAIN pg.size = 1 .. Len(pg.size) /\ Len(pg.size) \in Nat
      /\ Elements(pg.queue) = DOMAIN pg.size
      /\ Distinct(pg.queue) /\ FullFirst(pg.queue, FullOnes(pg))
      /\ \A f \in DOMAIN pg.size : pg.size[f] \in 0 .. MaxGroupSize
  BY DEF WellFormed, Groups, Linked
<1>2. CASE ~NeedsNewGroup(pg)
  <2>1. w = pg /\ pg.queue # <<>> /\ ~Full(pg, queue_last(pg.queue))
    BY <1>2 DEF WithRoom, NeedsNewGroup
  <2>2. g = queue_last(pg.queue) /\ g \in DOMAIN pg.size
    BY <1>1, <2>1, LastElement DEF AcquiredGroup
  <2> QED  BY <1>1, <2>1, <2>2 DEF Full
<1>3. CASE NeedsNewGroup(pg)
  <2>1. /\ w.queue = queue_append(pg.queue, n)
        /\ w.size = Append(pg.size, 0)
        /\ w = [queue |-> w.queue, size |-> w.size]
        /\ g = queue_last(w.queue)
    BY <1>3 DEF WithRoom, poll_group__new, AcquiredGroup
  <2> HIDE DEF w, g
  <2>2. /\ w.size \in Seq(Nat) /\ Len(w.size) = n
        /\ DOMAIN w.size = 1 .. n
        /\ \A f \in DOMAIN pg.size : w.size[f] = pg.size[f]
        /\ w.size[n] = 0
    BY <1>1, <2>1
  <2>3. /\ w.queue \in Seq(Nat)
        /\ Elements(w.queue) = Elements(pg.queue) \cup {n}
        /\ Distinct(w.queue)
    <3>1. n \in Nat /\ n \notin Elements(pg.queue)
      BY <1>1
    <3>2. pg.queue \in Seq(Nat) /\ Distinct(pg.queue)
      BY <1>1
    <3> HIDE DEF n
    <3>3. /\ queue_append(pg.queue, n) \in Seq(Nat)
          /\ Elements(queue_append(pg.queue, n)) = Elements(pg.queue) \cup {n}
          /\ Distinct(queue_append(pg.queue, n))
      BY <3>1, <3>2, AppendElements
    <3> QED  BY <2>1, <3>3
  <2>4. Linked(w)
    <3>1. ASSUME NEW f \in DOMAIN w.size
          PROVE  w.size[f] \in 0 .. MaxGroupSize
      <4>1. f = n \/ f \in DOMAIN pg.size
        BY <1>1, <2>2
      <4> HIDE DEF n
      <4>2. CASE f = n
        BY <2>2, <4>2
      <4>3. CASE f \in DOMAIN pg.size
        BY <1>1, <2>2, <4>3
      <4> QED  BY <4>1, <4>2, <4>3
    <3>2. Elements(w.queue) = DOMAIN w.size
      BY <1>1, <2>2, <2>3
    <3> QED  BY <2>3, <3>1, <3>2 DEF Linked
  <2>5. n \notin FullOnes(w)
    BY <2>2 DEF FullOnes, Full
  <2>6. FullFirst(pg.queue, FullOnes(w))
    <3>1. \A f \in Elements(pg.queue) :
             f \in FullOnes(pg) <=> f \in FullOnes(w)
      <4> SUFFICES ASSUME NEW f \in Elements(pg.queue)
                   PROVE  f \in FullOnes(pg) <=> f \in FullOnes(w)
        OBVIOUS
      <4>1. f \in DOMAIN pg.size
        BY <1>1
      <4>2. f \in DOMAIN w.size /\ w.size[f] = pg.size[f]
        <5>1. f \in 1 .. Len(pg.size) /\ Len(pg.size) \in Nat
          BY <1>1, <4>1
        <5>2. f \in 1 .. n
          BY <5>1
        <5> HIDE DEF n
        <5> QED  BY <2>2, <4>1, <5>2
      <4> HIDE DEF n
      <4> QED  BY <4>1, <4>2 DEF FullOnes, Full
    <3> QED  BY <1>1, <3>1, FullFirstSame
  <2>7. FullFirst(w.queue, FullOnes(w))
    <3>1. n \in Nat /\ pg.queue \in Seq(Nat)
      BY <1>1
    <3> HIDE DEF n
    <3> QED  BY <2>1, <2>5, <2>6, <3>1, AppendKeepsFullFirst
  <2>8. w \in Groups
    BY <2>1, <2>2, <2>3 DEF Groups
  <2>9. w.queue # <<>> /\ g = queue_last(w.queue) /\ g = n
    <3>1. /\ Len(w.queue) = Len(pg.queue) + 1 /\ Len(pg.queue) \in Nat
          /\ w.queue[Len(pg.queue) + 1] = n
      BY <1>1, <2>1 DEF queue_append
    <3>2. w.queue \in Seq(Nat)
      BY <2>3
    <3> QED  BY <2>1, <3>1, <3>2 DEF queue_last
  <2>10. \A f \in DOMAIN pg.size : Full(pg, f)
    <3>1. CASE pg.queue = <<>>
      BY <1>1, <3>1 DEF Elements
    <3>2. CASE pg.queue # <<>> /\ Full(pg, queue_last(pg.queue))
      <4>1. /\ queue_last(pg.queue) \in FullOnes(pg)
            /\ queue_last(pg.queue) = pg.queue[Len(pg.queue)]
            /\ Len(pg.queue) \in DOMAIN pg.queue
            /\ \A i \in DOMAIN pg.queue : i = Len(pg.queue) \/ i < Len(pg.queue)
        BY <1>1, <3>2, LastElement DEF FullOnes, queue_last
      <4>2. \A i \in DOMAIN pg.queue : pg.queue[i] \in FullOnes(pg)
        BY <1>1, <4>1 DEF FullFirst
      <4> QED  BY <1>1, <4>2 DEF Elements, FullOnes
    <3> QED  BY <1>3, <3>1, <3>2 DEF NeedsNewGroup
  <2> QED
    BY <1>1, <2>2, <2>4, <2>7, <2>8, <2>9, <2>10 DEF WellFormed, w, g
<1> QED  BY <1>2, <1>3

(* poll_group_acquire counts one place in the group it returns.            *)
LEMMA AcquireWellFormed ==
  ASSUME NEW pg, WellFormed(pg)
  PROVE  LET a == poll_group_acquire(pg)
             g == AcquiredGroup(pg)
         IN  /\ WellFormed(a)
             /\ g \in DOMAIN a.size
             /\ DOMAIN a.size = DOMAIN WithRoom(pg).size
             /\ a.size[g] = WithRoom(pg).size[g] + 1
             /\ \A f \in DOMAIN a.size \ {g} : a.size[f] = WithRoom(pg).size[f]
<1> DEFINE w == WithRoom(pg)
           g == AcquiredGroup(pg)
           a == poll_group_acquire(pg)
           n == w.size[g] + 1
<1> USE MaxGroupSizeAssumption
<1>1. /\ WellFormed(w) /\ g \in DOMAIN w.size /\ w.size[g] < MaxGroupSize
      /\ w.queue # <<>> /\ g = queue_last(w.queue)
  BY WithRoomWellFormed
<1>2. /\ w.queue \in Seq(Nat) /\ w.size \in Seq(Nat)
      /\ DOMAIN w.size = 1 .. Len(w.size) /\ Len(w.size) \in Nat
      /\ Elements(w.queue) = DOMAIN w.size
      /\ Distinct(w.queue) /\ FullFirst(w.queue, FullOnes(w))
      /\ \A f \in DOMAIN w.size : w.size[f] \in 0 .. MaxGroupSize
  BY <1>1 DEF WellFormed, Groups, Linked
<1>3. /\ a.queue = IF n = MaxGroupSize THEN queue_move_to_start(w.queue, g)
                   ELSE w.queue
      /\ a.size = [w.size EXCEPT ![g] = n]
      /\ a = [queue |-> a.queue, size |-> a.size]
  BY DEF poll_group_acquire, Fills
<1> HIDE DEF w, a, g
<1>4. n \in 1 .. MaxGroupSize /\ g \in Nat
  BY SMTT(30), <1>1, <1>2
<1> HIDE DEF n
<1>5. /\ a.size \in Seq(Nat) /\ DOMAIN a.size = DOMAIN w.size
      /\ a.size[g] = n
      /\ \A f \in DOMAIN a.size \ {g} : a.size[f] = w.size[f]
  BY <1>1, <1>2, <1>3, <1>4
<1>6. /\ a.queue \in Seq(Nat) /\ Elements(a.queue) = Elements(w.queue)
      /\ Distinct(a.queue)
  <2>1. /\ queue_move_to_start(w.queue, g) \in Seq(Nat)
        /\ Elements(queue_move_to_start(w.queue, g)) = Elements(w.queue)
        /\ Distinct(queue_move_to_start(w.queue, g))
    <3>1. w.queue \in Seq(Nat) /\ g \in Elements(w.queue) /\ g \in Nat
          /\ Distinct(w.queue)
      BY <1>1, <1>2, <1>4
    <3> QED  BY <3>1, MoveElements
  <2> QED  BY <1>2, <1>3, <2>1
<1>7. FullFirst(a.queue, FullOnes(a))
  <2>1. FullOnes(a) = FullOnes(w) \cup (IF n = MaxGroupSize THEN {g} ELSE {})
    <3>1. g \notin FullOnes(w)
      BY <1>1, <1>2 DEF FullOnes, Full
    <3>2. g \in FullOnes(a) <=> n = MaxGroupSize
      BY <1>1, <1>4, <1>5 DEF FullOnes, Full
    <3>3. \A f : f # g => (f \in FullOnes(a) <=> f \in FullOnes(w))
      BY <1>5 DEF FullOnes, Full
    <3> QED  BY <3>1, <3>2, <3>3
  <2>2. CASE n # MaxGroupSize
    BY <1>2, <1>3, <2>1, <2>2
  <2>3. CASE n = MaxGroupSize
    <3> DEFINE r == queue_remove(w.queue, g)
    <3>1. FullFirst(r, FullOnes(w)) /\ r \in Seq(Nat)
      BY <1>2, RemoveKeepsFullFirst, RemoveType
    <3>2. g \notin Elements(r)
      BY <1>2, RemoveElements
    <3>3. a.queue = queue_prepend(r, g)
      BY <1>3, <2>3 DEF queue_move_to_start
    <3> HIDE DEF r
    <3>4. FullFirst(r, FullOnes(a))
      BY <2>1, <3>1, <3>2, FullFirstSame
    <3>5. g \in FullOnes(a)
      BY <2>1, <2>3
    <3> QED  BY <1>4, <3>1, <3>3, <3>4, <3>5, PrependKeepsFullFirst
  <2> QED  BY <2>2, <2>3
<1>8. WellFormed(a)
  <2>1. a \in Groups
    BY <1>3, <1>5, <1>6 DEF Groups
  <2>2. Linked(a)
    <3>1. ASSUME NEW f \in DOMAIN a.size
          PROVE  a.size[f] \in 0 .. MaxGroupSize
      <4>1. CASE f = g
        BY <1>4, <1>5, <4>1
      <4>2. CASE f # g
        BY <1>2, <1>5, <4>2
      <4> QED  BY <4>1, <4>2
    <3> QED  BY <1>2, <1>5, <1>6, <3>1 DEF Linked
  <2> QED  BY <1>7, <2>1, <2>2 DEF WellFormed
<1> QED  BY <1>1, <1>5, <1>8 DEF w, a, g, n

(* poll_group_release gives back a place that is held.                     *)
LEMMA ReleaseWellFormed ==
  ASSUME NEW pg, WellFormed(pg), NEW g \in DOMAIN pg.size, pg.size[g] > 0
  PROVE  LET r == poll_group_release(pg, g)
         IN  /\ WellFormed(r)
             /\ DOMAIN r.size = DOMAIN pg.size
             /\ r.size[g] = pg.size[g] - 1
             /\ \A f \in DOMAIN r.size \ {g} : r.size[f] = pg.size[f]
<1> DEFINE r == poll_group_release(pg, g)
           q == queue_remove(pg.queue, g)
<1> USE MaxGroupSizeAssumption
<1>1. /\ pg.queue \in Seq(Nat) /\ pg.size \in Seq(Nat)
      /\ DOMAIN pg.size = 1 .. Len(pg.size) /\ Len(pg.size) \in Nat
      /\ Elements(pg.queue) = DOMAIN pg.size
      /\ Distinct(pg.queue) /\ FullFirst(pg.queue, FullOnes(pg))
      /\ \A f \in DOMAIN pg.size : pg.size[f] \in 0 .. MaxGroupSize
  BY DEF WellFormed, Groups, Linked
<1>2. /\ r.queue = queue_move_to_end(pg.queue, g)
      /\ r.size = [pg.size EXCEPT ![g] = @ - 1]
      /\ r = [queue |-> r.queue, size |-> r.size]
  BY DEF poll_group_release
<1> HIDE DEF r
<1>3. g \in Nat /\ pg.size[g] - 1 \in 0 .. MaxGroupSize - 1
  BY <1>1
<1>4. /\ r.size \in Seq(Nat) /\ DOMAIN r.size = DOMAIN pg.size
      /\ r.size[g] = pg.size[g] - 1
      /\ \A f \in DOMAIN r.size \ {g} : r.size[f] = pg.size[f]
  BY <1>1, <1>2, <1>3
<1>5. /\ r.queue \in Seq(Nat) /\ Elements(r.queue) = Elements(pg.queue)
      /\ Distinct(r.queue)
  <2>1. /\ queue_move_to_end(pg.queue, g) \in Seq(Nat)
        /\ Elements(queue_move_to_end(pg.queue, g)) = Elements(pg.queue)
        /\ Distinct(queue_move_to_end(pg.queue, g))
    BY <1>1, <1>3, MoveElements
  <2> QED  BY <1>2, <2>1
<1>6. FullFirst(r.queue, FullOnes(r))
  <2>1. FullFirst(q, FullOnes(pg)) /\ q \in Seq(Nat)
    BY <1>1, RemoveKeepsFullFirst, RemoveType
  <2>2. g \notin Elements(q)
    BY <1>1, RemoveElements
  <2>3. r.queue = queue_append(q, g)
    BY <1>2 DEF queue_move_to_end
  <2>4. g \notin FullOnes(r)
    BY <1>3, <1>4 DEF FullOnes, Full
  <2>5. \A f : f # g => (f \in FullOnes(r) <=> f \in FullOnes(pg))
    BY <1>4 DEF FullOnes, Full
  <2> HIDE DEF q
  <2>6. FullFirst(q, FullOnes(r))
    BY <2>1, <2>2, <2>5, FullFirstSame
  <2> QED  BY <1>3, <2>1, <2>3, <2>4, <2>6, AppendKeepsFullFirst
<1>7. WellFormed(r)
  <2>1. r \in Groups
    BY <1>2, <1>4, <1>5 DEF Groups
  <2>2. Linked(r)
    <3>1. ASSUME NEW f \in DOMAIN r.size
          PROVE  r.size[f] \in 0 .. MaxGroupSize
      <4>1. CASE f = g
        BY <1>3, <1>4, <4>1
      <4>2. CASE f # g
        BY <1>1, <1>4, <4>2
      <4> QED  BY <4>1, <4>2
    <3> QED  BY <1>1, <1>4, <1>5, <3>1 DEF Linked
  <2> QED  BY <1>6, <2>1, <2>2 DEF WellFormed
<1> QED  BY <1>4, <1>7 DEF r
=============================================================================

------------------------- MODULE MeetingSearchProofs -------------------------
(***************************************************************************)
(* Proofs about the meeting searches of project1_TA.cpp, for every number  *)
(* of houses and every graph the program presupposes whose distances fit   *)
(* into a uint16_t: the depths of two first meetings tell the distance of  *)
(* the houses or one more, and the printed numbers are at most one off.    *)
(***************************************************************************)
EXTENDS Project1Proofs

\* All distances fit into the depth of a VisitInfo.
Shallow == \A p \in HouseIndex \X HouseIndex : apart[p] < 2^16

----------------------------------------------------------------------------
(* More about distances in a connected graph G.                            *)

\* On a shortest way from v to w there is a vertex at every distance.
LEMMA Between ==
  ASSUME NEW G, Connected(G), NEW v \in Vertex(G), NEW w \in Vertex(G)
  PROVE  \A k \in Nat : k =< Far(G, v, w) =>
           \E x \in Vertex(G) : Far(G, v, x) = k /\ Far(G, x, w) =< Far(G, v, w) - k
<1> DEFINE d == Far(G, v, w)
           S == {n \in Nat : n =< d =>
                   \E x \in Vertex(G) : Far(G, v, x) = d - n /\ Far(G, x, w) =< n}
<1>1. /\ d \in Nat
      /\ \A x, y \in Vertex(G) : Far(G, x, y) \in Nat
      /\ Far(G, w, w) = 0
  BY FarPath, FarMetric
<1>2. 0 \in S
  BY <1>1
<1>3. ASSUME NEW n \in Nat, n \in S
      PROVE  n + 1 \in S
  <2> SUFFICES ASSUME n + 1 =< d
               PROVE  \E x \in Vertex(G) : Far(G, v, x) = d - (n + 1) /\ Far(G, x, w) =< n + 1
    OBVIOUS
  <2>1. PICK x \in Vertex(G) : Far(G, v, x) = d - n /\ Far(G, x, w) =< n
    BY <1>1, <1>3
  <2>2. Far(G, v, x) > 0
    BY <1>1, <2>1
  <2>3. PICK y \in Vertex(G) : x \in Adjacent(G, y) /\ Far(G, v, y) = Far(G, v, x) - 1
    BY <2>2, FarMetric
  <2>4. Far(G, y, x) =< 1
    <3>1. Far(G, y, x) =< Far(G, y, y) + 1 /\ Far(G, y, y) = 0
      BY <2>3, FarMetric
    <3> QED
      BY <1>1, <3>1
  <2>5. Far(G, y, w) =< Far(G, y, x) + Far(G, x, w)
    BY FarMetric
  <2>6. Far(G, y, x) \in Nat /\ Far(G, x, w) \in Nat /\ Far(G, y, w) \in Nat
    BY <1>1
  <2>7. Far(G, v, y) = d - (n + 1)
    BY <1>1, <2>1, <2>3
  <2>8. Far(G, y, w) =< n + 1
    BY <2>1, <2>4, <2>5, <2>6
  <2> QED
    BY <2>7, <2>8
<1>4. Nat \subseteq S
  <2> HIDE DEF S
  <2> QED
    BY <1>2, <1>3, Induction
<1> SUFFICES ASSUME NEW k \in Nat, k =< d
             PROVE  \E x \in Vertex(G) : Far(G, v, x) = k /\ Far(G, x, w) =< d - k
  OBVIOUS
<1>5. PICK n \in Nat : n = d - k
  BY <1>1
<1>6. n \in S /\ n =< d /\ d - n = k
  BY <1>1, <1>4, <1>5
<1>7. PICK x \in Vertex(G) : Far(G, v, x) = d - n /\ Far(G, x, w) =< n
  BY <1>6
<1> HIDE DEF d
<1> QED
  BY <1>5, <1>6, <1>7

\* No distance exceeds the number of vertices.
LEMMA FarBound ==
  ASSUME NEW G, Connected(G), NEW v \in Vertex(G), NEW w \in Vertex(G)
  PROVE  Far(G, v, w) =< Len(G)
<1> DEFINE f == [x \in Vertex(G) |-> IF Far(G, v, x) \in 0 .. Far(G, v, w) THEN Far(G, v, x) ELSE 0]
<1>1. Len(G) \in Nat /\ \A x \in Vertex(G) : Far(G, v, x) \in Nat
  BY GraphTypes, FarPath
<1>2. PICK d \in Nat : d = Far(G, v, w)
  BY <1>1
<1>3. f \in Surjection(Vertex(G), 0 .. d)
  <2>1. f \in [Vertex(G) -> 0 .. d]
    BY <1>1, <1>2
  <2>2. ASSUME NEW k \in 0 .. d PROVE \E x \in Vertex(G) : f[x] = k
    <3>1. PICK x \in Vertex(G) : Far(G, v, x) = k
      BY <1>2, Between
    <3>2. f[x] = k
      BY <1>2, <3>1
    <3> QED
      BY <3>2
  <2> QED
    BY <2>1, <2>2 DEF Surjection
<1>4. IsFiniteSet(Vertex(G)) /\ Cardinality(Vertex(G)) = Len(G)
  <2>1. PICK n \in Nat : n = Len(G)
    BY <1>1
  <2>2. IsFiniteSet(1 .. n) /\ Cardinality(1 .. n) = n
    BY FS_Interval
  <2> QED
    BY <2>1, <2>2 DEF Vertex
<1>5. IsFiniteSet(0 .. d) /\ Cardinality(0 .. d) = d + 1
  <2>1. Cardinality(0 .. d) = IF 0 > d THEN 0 ELSE d - 0 + 1
    BY FS_Interval
  <2>2. IsFiniteSet(0 .. d)
    BY FS_Interval
  <2> QED
    BY <2>1, <2>2
<1>6. Cardinality(0 .. d) =< Cardinality(Vertex(G))
  <2> HIDE DEF f
  <2> QED
    BY <1>3, <1>4, FS_Surjection
<1> QED
  BY <1>1, <1>2, <1>4, <1>5, <1>6

----------------------------------------------------------------------------
(* One search.  G is the graph, v0 the house, s the record of the locals,  *)
(* M the marked vertices and P the place of the only fence ahead.  A fence *)
(* is 0; queues and fences are counted from 1.                             *)

\* Up to the fence the rest of the current level, behind it what is found of the
\* next one; between two noted fences a level that is over.
QueueInv(G, v0, s, P) ==
    /\ s.queue \in Seq(0 .. Len(G)) /\ s.fences \in Seq(Nat)
    /\ s.front \in Nat /\ s.curr_depth \in Nat /\ P \in Nat
    /\ Len(s.fences) = s.curr_depth + 1
    /\ \A d \in 1 .. s.curr_depth + 1 : s.fences[d] =< s.front
    /\ s.front < P /\ P =< Len(s.queue)
    /\ \A j \in s.front + 1 .. Len(s.queue) : s.queue[j] = 0 <=> j = P
    /\ \A j \in s.fences[s.curr_depth + 1] + 1 .. P :
          s.queue[j] # 0 => Far(G, v0, s.queue[j]) = s.curr_depth
    /\ \A j \in P + 1 .. Len(s.queue) : Far(G, v0, s.queue[j]) = s.curr_depth + 1
    /\ \A d \in 1 .. s.curr_depth : \A j \in s.fences[d] + 1 .. s.fences[d + 1] :
          s.queue[j] # 0 => Far(G, v0, s.queue[j]) = d - 1

\* The vertex whose neighbours are being marked.
NodeInv(G, v0, M, s) ==
    /\ s.curr_node \in 0 .. Len(G) /\ s.i \in Nat
    /\ s.curr_node # 0 =>
          /\ Far(G, v0, s.curr_node) = s.curr_depth
          /\ s.i =< Len(G[s.curr_node])
          /\ \A j \in 1 .. s.i : G[s.curr_node][j] \in M

\* All up to the current level are marked, and of the next one those in the queue;
\* a vertex of the level has its turn ahead or all its neighbours are marked.
MarkInv(G, v0, M, s, P) ==
    /\ M \subseteq Vertex(G)
    /\ \A w \in Vertex(G) : Far(G, v0, w) =< s.curr_depth => w \in M
    /\ \A w \in M : Far(G, v0, w) =< s.curr_depth + 1
    /\ \A w \in M : Far(G, v0, w) = s.curr_depth + 1 =>
          \E j \in P + 1 .. Len(s.queue) : s.queue[j] = w
    /\ \A w \in Vertex(G) : Far(G, v0, w) = s.curr_depth =>
          \/ w = s.curr_node \/ Adjacent(G, w) \subseteq M
          \/ \E j \in s.front + 1 .. P : s.queue[j] = w

SearchRight(G, v0, M, s, P) ==
    QueueInv(G, v0, s, P) /\ NodeInv(G, v0, M, s) /\ MarkInv(G, v0, M, s, P)

\* What Mark does to the locals: neighbour i is the next without a mark.
MarkStep(G, M, s, t, i) ==
    /\ s.curr_node # 0 /\ i \in s.i + 1 .. Len(G[s.curr_node])
    /\ G[s.curr_node][i] \notin M
    /\ \A j \in s.i + 1 .. i - 1 : G[s.curr_node][j] \in M
    /\ t.queue = Append(s.queue, G[s.curr_node][i]) /\ t.i = i
    /\ t.fences = s.fences /\ t.front = s.front
    /\ t.curr_node = s.curr_node /\ t.curr_depth = s.curr_depth

\* The search takes the next entry of the queue, when no neighbour is unmarked.
TakeStep(G, M, s, t) ==
    /\ s.curr_node # 0 => \A j \in s.i + 1 .. Len(G[s.curr_node]) : G[s.curr_node][j] \in M
    /\ t.front = s.front + 1 /\ t.curr_node = s.queue[s.front + 1] /\ t.i = 0

\* It is a vertex.
DequeueStep(G, M, s, t) ==
    /\ TakeStep(G, M, s, t) /\ s.queue[s.front + 1] # 0
    /\ t.queue = s.queue /\ t.fences = s.fences /\ t.curr_depth = s.curr_depth

\* It is a fence.
LevelStep(G, M, s, t) ==
    /\ TakeStep(G, M, s, t) /\ s.queue[s.front + 1] = 0
    /\ t.queue = Append(s.queue, 0) /\ t.fences = Append(s.fences, s.front)
    /\ t.curr_depth = s.curr_depth + 1

LEMMA AppendFacts ==
  ASSUME NEW S, NEW q \in Seq(S), NEW x \in S
  PROVE  /\ Len(q) \in Nat /\ Append(q, x) \in Seq(S) /\ Len(Append(q, x)) = Len(q) + 1
         /\ Append(q, x)[Len(q) + 1] = x
         /\ \A j \in 1 .. Len(q) : Append(q, x)[j] = q[j]
  OBVIOUS

LEMMA SearchTypes ==
  ASSUME NEW G, Connected(G), NEW v0 \in Vertex(G), NEW M, NEW s, NEW P, SearchRight(G, v0, M, s, P)
  PROVE  /\ Len(G) \in Nat /\ Len(s.queue) \in Nat
         /\ \A j \in 1 .. Len(s.queue) : s.queue[j] \in 0 .. Len(G)
         /\ \A d \in 1 .. s.curr_depth + 1 : s.fences[d] \in Nat
         /\ \A w \in Vertex(G) : Far(G, v0, w) \in Nat
         /\ s.curr_node # 0 => s.curr_node \in Vertex(G)
<1>1. s.queue \in Seq(0 .. Len(G)) /\ s.fences \in Seq(Nat) /\ Len(s.fences) = s.curr_depth + 1
  BY DEF SearchRight, QueueInv
<1>2. Len(G) \in Nat
  BY GraphTypes
<1>3. \A w \in Vertex(G) : Far(G, v0, w) \in Nat
  BY FarPath
<1>4. s.curr_node # 0 => s.curr_node \in Vertex(G)
  BY <1>2 DEF SearchRight, NodeInv, Vertex
<1> QED
  BY <1>1, <1>2, <1>3, <1>4, ElementOfSeq, SMTT(40)

\* The next neighbour without a mark belongs to the next level.
LEMMA NextFar ==
  ASSUME NEW G, Connected(G), NEW v0 \in Vertex(G), NEW M, NEW s, NEW P, SearchRight(G, v0, M, s, P),
         NEW t, NEW i, MarkStep(G, M, s, t, i)
  PROVE  /\ G[s.curr_node][i] \in Vertex(G)
         /\ Far(G, v0, G[s.curr_node][i]) = s.curr_depth + 1
<1> DEFINE u == s.curr_node
           v == G[u][i]
<1>1. u \in Vertex(G) /\ i \in 1 .. Len(G[u]) /\ Far(G, v0, u) = s.curr_depth
      /\ s.curr_depth \in Nat
  <2>1. u \in Vertex(G) /\ Far(G, v0, u) = s.curr_depth /\ s.i \in Nat /\ s.curr_depth \in Nat
    BY SearchTypes DEF SearchRight, NodeInv, QueueInv, MarkStep
  <2>2. Len(G[u]) \in Nat
    BY <2>1, GraphTypes
  <2> QED
    BY <2>1, <2>2 DEF MarkStep
<1>2. v \in Adjacent(G, u)
  BY <1>1 DEF Adjacent
<1>3. v \in Vertex(G)
  BY <1>1, <1>2, GraphTypes
<1>4. Far(G, v0, v) =< Far(G, v0, u) + 1 /\ Far(G, v0, v) \in Nat
  BY <1>1, <1>2, <1>3, FarMetric, FarPath
<1>5. ~ (Far(G, v0, v) =< s.curr_depth)
  BY <1>3 DEF SearchRight, MarkInv, MarkStep
<1> QED
  BY <1>1, <1>3, <1>4, <1>5

LEMMA MarkSearch ==
  ASSUME NEW G, Connected(G), NEW v0 \in Vertex(G), NEW M, NEW s, NEW P, SearchRight(G, v0, M, s, P),
         NEW t, NEW i, MarkStep(G, M, s, t, i)
  PROVE  SearchRight(G, v0, M \cup {G[s.curr_node][i]}, t, P)
<1> DEFINE u == s.curr_node
           c == s.curr_depth
           q == s.queue
           n == Len(q)
<1>1. PICK v : v = G[u][i]
  OBVIOUS
<1>2. v \in Vertex(G) /\ Far(G, v0, v) = c + 1
  BY <1>1, NextFar
<1>3. /\ Len(G) \in Nat /\ n \in Nat /\ c \in Nat /\ P \in Nat /\ P =< n
      /\ s.front \in Nat /\ s.front < P /\ s.i \in Nat
      /\ q \in Seq(0 .. Len(G))
      /\ \A j \in 1 .. n : q[j] \in 0 .. Len(G)
      /\ \A d \in 1 .. c + 1 : s.fences[d] \in Nat /\ s.fences[d] =< s.front
      /\ u \in Vertex(G) /\ Len(G[u]) \in Nat
  <2>1. u \in Vertex(G)
    BY SearchTypes DEF MarkStep
  <2> QED
    BY <2>1, SearchTypes, GraphTypes DEF SearchRight, QueueInv, NodeInv
<1>0. n \in Nat /\ P \in Nat /\ P =< n /\ s.front \in Nat /\ s.front < P
  BY <1>3
<1>4. v \in 0 .. Len(G) /\ v # 0
  BY <1>2, <1>3 DEF Vertex
<1>5. /\ t.queue \in Seq(0 .. Len(G)) /\ Len(t.queue) = n + 1 /\ t.queue[n + 1] = v
      /\ \A j \in 1 .. n : t.queue[j] = q[j]
  <2>1. t.queue = Append(q, v)
    BY <1>1 DEF MarkStep
  <2> QED
    BY <1>3, <1>4, <2>1, AppendFacts
<1>6. /\ t.fences = s.fences /\ t.front = s.front /\ t.curr_node = u /\ t.curr_depth = c /\ t.i = i
  BY DEF MarkStep
<1>7. QueueInv(G, v0, t, P)
  <2>0. QueueInv(G, v0, s, P)
    BY DEF SearchRight
  <2>1. \A j \in t.front + 1 .. Len(t.queue) : t.queue[j] = 0 <=> j = P
    <3> SUFFICES ASSUME NEW j \in t.front + 1 .. Len(t.queue) PROVE t.queue[j] = 0 <=> j = P
      OBVIOUS
    <3>1. CASE j = n + 1
      BY <1>3, <1>4, <1>5, <3>1, SMTT(40)
    <3>2. CASE j # n + 1
      <4>1. j \in s.front + 1 .. n /\ j \in 1 .. n
        BY <1>0, <1>5, <1>6, <3>2, SMTT(40)
      <4> QED
        BY <1>5, <2>0, <4>1 DEF QueueInv
    <3> QED
      BY <3>1, <3>2
  <2>2. \A j \in t.fences[c + 1] + 1 .. P : t.queue[j] # 0 => Far(G, v0, t.queue[j]) = c
    <3>1. c + 1 \in 1 .. c + 1
      BY <1>3, SMTT(40)
    <3>2. s.fences[c + 1] \in Nat
      BY <1>3, <3>1
    <3>3. \A j \in s.fences[c + 1] + 1 .. P : j \in 1 .. n
      BY <1>3, <3>2, SMTT(40)
    <3> QED
      BY <1>5, <1>6, <2>0, <3>3 DEF QueueInv
  <2>3. \A j \in P + 1 .. Len(t.queue) : Far(G, v0, t.queue[j]) = c + 1
    <3> SUFFICES ASSUME NEW j \in P + 1 .. Len(t.queue) PROVE Far(G, v0, t.queue[j]) = c + 1
      OBVIOUS
    <3>1. CASE j = n + 1
      BY <1>2, <1>5, <3>1
    <3>2. CASE j # n + 1
      <4>1. j \in P + 1 .. n /\ j \in 1 .. n
        BY <1>0, <1>5, <3>2, SMTT(40)
      <4> QED
        BY <1>5, <2>0, <4>1 DEF QueueInv
    <3> QED
      BY <3>1, <3>2
  <2>4. \A d \in 1 .. c : \A j \in t.fences[d] + 1 .. t.fences[d + 1] :
          t.queue[j] # 0 => Far(G, v0, t.queue[j]) = d - 1
    <3> SUFFICES ASSUME NEW d \in 1 .. c, NEW j \in s.fences[d] + 1 .. s.fences[d + 1]
                 PROVE  t.queue[j] # 0 => Far(G, v0, t.queue[j]) = d - 1
      BY <1>6
    <3>1. d \in 1 .. c + 1 /\ d + 1 \in 1 .. c + 1
      BY <1>3, SMTT(40)
    <3>2. s.fences[d] \in Nat /\ s.fences[d + 1] \in Nat /\ s.fences[d + 1] =< s.front
      BY <1>3, <3>1
    <3>3. j \in 1 .. n
      BY <1>0, <3>2, SMTT(40)
    <3> QED
      BY <1>5, <2>0, <3>3 DEF QueueInv
  <2> QED
    BY <1>3, <1>5, <1>6, <2>0, <2>1, <2>2, <2>3, <2>4 DEF QueueInv
<1>8. NodeInv(G, v0, M \cup {v}, t)
  <2>1. Far(G, v0, u) = c /\ \A j \in 1 .. s.i : G[u][j] \in M
    BY <1>3, <1>4 DEF SearchRight, NodeInv, MarkStep
  <2>2. i \in s.i + 1 .. Len(G[u]) /\ \A j \in s.i + 1 .. i - 1 : G[u][j] \in M
    BY DEF MarkStep
  <2>3. \A j \in 1 .. i : j \in 1 .. s.i \/ j \in s.i + 1 .. i - 1 \/ j = i
    BY <1>3, <2>2
  <2>4. \A j \in 1 .. i : G[u][j] \in M \cup {v}
    BY <1>1, <2>1, <2>2, <2>3
  <2>5. i \in Nat /\ i =< Len(G[u])
    BY <1>3, <2>2
  <2>6. u \in 0 .. Len(G)
    BY <1>3 DEF Vertex
  <2> QED
    BY <1>6, <2>1, <2>4, <2>5, <2>6 DEF NodeInv
<1>9. MarkInv(G, v0, M \cup {v}, t, P)
  <2>0. MarkInv(G, v0, M, s, P)
    BY DEF SearchRight
  <2>1. ASSUME NEW w \in M \cup {v}, Far(G, v0, w) = c + 1
        PROVE  \E j \in P + 1 .. Len(t.queue) : t.queue[j] = w
    <3>1. CASE w = v
      <4>1. n + 1 \in P + 1 .. Len(t.queue)
        BY <1>3, <1>5
      <4> QED
        BY <1>5, <3>1, <4>1
    <3>2. CASE w \in M
      <4>1. PICK j \in P + 1 .. n : q[j] = w
        BY <2>0, <2>1, <3>2 DEF MarkInv
      <4>2. j \in P + 1 .. Len(t.queue) /\ j \in 1 .. n
        BY <1>3, <1>5
      <4> QED
        BY <1>5, <4>1, <4>2
    <3> QED
      BY <3>1, <3>2, <2>1
  <2>2. ASSUME NEW w \in Vertex(G), Far(G, v0, w) = c
        PROVE  \/ w = u \/ Adjacent(G, w) \subseteq M \cup {v}
               \/ \E j \in s.front + 1 .. P : t.queue[j] = w
    <3>0. \A j \in s.front + 1 .. P : j \in 1 .. n
      BY <1>0
    <3>1. \A j \in s.front + 1 .. P : t.queue[j] = q[j]
      BY <1>5, <3>0
    <3> QED
      BY <2>0, <2>2, <3>1 DEF MarkInv
  <2>3. \A w \in M \cup {v} : Far(G, v0, w) =< c + 1
    BY <1>2, <1>3, <2>0 DEF MarkInv
  <2>4. M \cup {v} \subseteq Vertex(G) /\ \A w \in Vertex(G) : Far(G, v0, w) =< c => w \in M \cup {v}
    BY <1>2, <2>0 DEF MarkInv
  <2> QED
    BY <1>6, <2>1, <2>2, <2>3, <2>4 DEF MarkInv
<1> QED
  BY <1>1, <1>7, <1>8, <1>9 DEF SearchRight

\* When no neighbour is left, all are marked.
LEMMA AllMarked ==
  ASSUME NEW G, Connected(G), NEW v0 \in Vertex(G), NEW M, NEW s, NEW P, SearchRight(G, v0, M, s, P),
         NEW t, TakeStep(G, M, s, t), s.curr_node # 0
  PROVE  Adjacent(G, s.curr_node) \subseteq M
<1> DEFINE u == s.curr_node
<1>1. u \in Vertex(G) /\ s.i \in Nat /\ \A j \in 1 .. s.i : G[u][j] \in M
  BY SearchTypes DEF SearchRight, NodeInv
<1>2. Len(G[u]) \in Nat
  BY <1>1, GraphTypes
<1>3. \A j \in s.i + 1 .. Len(G[u]) : G[u][j] \in M
  BY DEF TakeStep
<1>4. \A j \in 1 .. Len(G[u]) : j \in 1 .. s.i \/ j \in s.i + 1 .. Len(G[u])
  BY <1>1, <1>2
<1>5. \A j \in 1 .. Len(G[u]) : G[u][j] \in M
  BY <1>1, <1>3, <1>4
<1> QED
  BY <1>5 DEF Adjacent

LEMMA DequeueSearch ==
  ASSUME NEW G, Connected(G), NEW v0 \in Vertex(G), NEW M, NEW s, NEW P, SearchRight(G, v0, M, s, P),
         NEW t, DequeueStep(G, M, s, t)
  PROVE  SearchRight(G, v0, M, t, P)
<1> DEFINE u == s.curr_node
           c == s.curr_depth
           q == s.queue
<1>0. QueueInv(G, v0, s, P) /\ NodeInv(G, v0, M, s) /\ MarkInv(G, v0, M, s, P)
  BY DEF SearchRight
<1>1. PICK r \in Nat : r = s.front
  BY <1>0 DEF QueueInv
<1>2. PICK n \in Nat : n = Len(q)
  BY SearchTypes
<1>3. P \in Nat /\ r < P /\ P =< n /\ c \in Nat /\ Len(G) \in Nat
  BY <1>0, <1>1, <1>2, SearchTypes DEF QueueInv
<1>4. /\ t.queue = q /\ t.fences = s.fences /\ t.curr_depth = c /\ t.front = r + 1
      /\ t.curr_node = q[r + 1] /\ t.i = 0 /\ q[r + 1] # 0
  BY <1>1 DEF DequeueStep, TakeStep
<1>5. r + 1 \in r + 1 .. n /\ r + 1 \in 1 .. n
  BY <1>3
<1>6. r + 1 < P
  <2>1. r + 1 # P
    BY <1>0, <1>1, <1>2, <1>4, <1>5 DEF QueueInv
  <2> QED
    BY <1>3, <2>1
<1>7. q[r + 1] \in Vertex(G) /\ q[r + 1] \in 0 .. Len(G)
  <2>1. q[r + 1] \in 0 .. Len(G)
    BY <1>2, <1>5, SearchTypes
  <2> QED
    BY <1>3, <1>4, <2>1 DEF Vertex
<1>8. c + 1 \in 1 .. c + 1 /\ s.fences[c + 1] \in Nat /\ s.fences[c + 1] =< r
  <2>1. c + 1 \in 1 .. c + 1
    BY <1>3
  <2> QED
    BY <1>0, <1>1, <2>1, SearchTypes DEF QueueInv
<1>9. Far(G, v0, q[r + 1]) = c
  <2>1. r + 1 \in s.fences[c + 1] + 1 .. P
    BY <1>6, <1>3, <1>8, SMTT(40)
  <2> QED
    BY <1>0, <1>4, <2>1 DEF QueueInv
<1>10. QueueInv(G, v0, t, P)
  <2>1. \A d \in 1 .. c + 1 : t.fences[d] =< t.front
    <3>1. \A d \in 1 .. c + 1 : s.fences[d] \in Nat /\ s.fences[d] =< r
      BY <1>0, <1>1, SearchTypes DEF QueueInv
    <3> QED
      BY <1>4, <3>1
  <2>2. \A j \in r + 1 + 1 .. n : j \in r + 1 .. n
    OBVIOUS
  <2>3. \A j \in t.front + 1 .. Len(t.queue) : t.queue[j] = 0 <=> j = P
    BY <1>0, <1>1, <1>2, <1>4, <2>2 DEF QueueInv
  <2>4. t.front \in Nat /\ t.front < P
    BY <1>4, <1>6
  <2> QED
    BY <1>0, <1>4, <2>1, <2>3, <2>4 DEF QueueInv
<1>11. NodeInv(G, v0, M, t)
  <2>1. Len(G[q[r + 1]]) \in Nat
    BY <1>7, GraphTypes
  <2> QED
    BY <1>4, <1>7, <1>9, <2>1 DEF NodeInv
<1>12. MarkInv(G, v0, M, t, P)
  <2>1. ASSUME NEW w \in Vertex(G), Far(G, v0, w) = c
        PROVE  \/ w = q[r + 1] \/ Adjacent(G, w) \subseteq M
               \/ \E j \in r + 1 + 1 .. P : q[j] = w
    <3>1. CASE w = u
      <4>1. u # 0
        BY <3>1, <1>3 DEF Vertex
      <4>2. TakeStep(G, M, s, t)
        BY DEF DequeueStep
      <4> QED
        BY <3>1, <4>1, <4>2, AllMarked
    <3>2. CASE \E j \in r + 1 .. P : q[j] = w
      <4>1. PICK j \in r + 1 .. P : q[j] = w
        BY <3>2
      <4>2. j = r + 1 \/ j \in r + 1 + 1 .. P
        BY <1>3
      <4> QED
        BY <4>1, <4>2
    <3> QED
      BY <1>0, <1>1, <2>1, <3>1, <3>2 DEF MarkInv
  <2> QED
    BY <1>0, <1>4, <2>1 DEF MarkInv
<1> QED
  BY <1>10, <1>11, <1>12 DEF SearchRight

LEMMA LevelSearch ==
  ASSUME NEW G, Connected(G), NEW v0 \in Vertex(G), NEW M, NEW s, NEW P, SearchRight(G, v0, M, s, P),
         NEW t, LevelStep(G, M, s, t)
  PROVE  SearchRight(G, v0, M, t, Len(s.queue) + 1)
<1> DEFINE u == s.curr_node
           q == s.queue
<1>0. QueueInv(G, v0, s, P) /\ NodeInv(G, v0, M, s) /\ MarkInv(G, v0, M, s, P)
  BY DEF SearchRight
<1>1. PICK r \in Nat : r = s.front
  BY <1>0 DEF QueueInv
<1>2. PICK n \in Nat : n = Len(q)
  BY SearchTypes
<1>3. PICK c \in Nat : c = s.curr_depth
  BY <1>0 DEF QueueInv
<1>4. /\ P \in Nat /\ r < P /\ P =< n /\ Len(G) \in Nat
      /\ \A w \in Vertex(G) : Far(G, v0, w) \in Nat
      /\ q \in Seq(0 .. Len(G)) /\ s.fences \in Seq(Nat) /\ Len(s.fences) = c + 1
  BY <1>0, <1>1, <1>2, <1>3, SearchTypes DEF QueueInv
<1>5. /\ t.queue = Append(q, 0) /\ t.fences = Append(s.fences, r) /\ t.curr_depth = c + 1
      /\ t.front = r + 1 /\ t.curr_node = 0 /\ t.i = 0 /\ q[r + 1] = 0
  BY <1>1, <1>3 DEF LevelStep, TakeStep
<1>5a. P \in Nat /\ r < P /\ P =< n
  BY <1>4
<1>6. r + 1 = P
  <2>1. r + 1 \in r + 1 .. n
    BY <1>4
  <2> QED
    BY <1>0, <1>1, <1>2, <1>5, <2>1 DEF QueueInv
<1>7. /\ t.queue \in Seq(0 .. Len(G)) /\ Len(t.queue) = n + 1 /\ t.queue[n + 1] = 0
      /\ \A j \in 1 .. n : t.queue[j] = q[j]
  <2>1. 0 \in 0 .. Len(G)
    BY <1>4
  <2> QED
    BY <1>2, <1>4, <1>5, <2>1, AppendFacts, SMTT(40)
<1>8. /\ t.fences \in Seq(Nat) /\ Len(t.fences) = c + 1 + 1 /\ t.fences[c + 1 + 1] = r
      /\ \A d \in 1 .. c + 1 : t.fences[d] = s.fences[d]
  <2>1. PICK f : f = s.fences
    OBVIOUS
  <2>2. f \in Seq(Nat) /\ Len(f) = c + 1 /\ t.fences = Append(f, r)
    BY <1>4, <1>5, <2>1
  <2>3. /\ Append(f, r) \in Seq(Nat) /\ Len(Append(f, r)) = Len(f) + 1
        /\ Append(f, r)[Len(f) + 1] = r
        /\ \A j \in 1 .. Len(f) : Append(f, r)[j] = f[j]
    BY <2>2, AppendFacts
  <2> QED
    BY <2>1, <2>2, <2>3
<1>9. \A d \in 1 .. c + 1 : s.fences[d] \in Nat /\ s.fences[d] =< r
  BY <1>0, <1>1, <1>3, SearchTypes DEF QueueInv
<1>10. \A j \in P + 1 .. n : Far(G, v0, q[j]) = c + 1 /\ q[j] # 0
  <2>1. \A j \in P + 1 .. n : j \in r + 1 .. n /\ j # P
    BY <1>4
  <2> QED
    BY <1>0, <1>1, <1>2, <1>3, <2>1 DEF QueueInv
<1>11. \A w \in Vertex(G) : Far(G, v0, w) = c => Adjacent(G, w) \subseteq M
  <2> SUFFICES ASSUME NEW w \in Vertex(G), Far(G, v0, w) = c PROVE Adjacent(G, w) \subseteq M
    OBVIOUS
  <2>1. w # 0
    BY <1>4 DEF Vertex
  <2>2. ~ \E j \in r + 1 .. P : q[j] = w
    BY <1>4, <1>5, <1>6, <2>1, SMTT(40)
  <2>3. CASE w = u
    <3>1. TakeStep(G, M, s, t)
      BY DEF LevelStep
    <3> QED
      BY <2>1, <2>3, <3>1, AllMarked
  <2> QED
    BY <1>0, <1>1, <1>3, <2>2, <2>3 DEF MarkInv
<1>12. \A w \in Vertex(G) : Far(G, v0, w) =< c + 1 => w \in M
  <2> SUFFICES ASSUME NEW w \in Vertex(G), Far(G, v0, w) =< c + 1 PROVE w \in M
    OBVIOUS
  <2>1. CASE Far(G, v0, w) =< c
    BY <1>0, <1>3, <2>1 DEF MarkInv
  <2>2. CASE Far(G, v0, w) = c + 1
    <3>1. PICK x \in Vertex(G) : w \in Adjacent(G, x) /\ Far(G, v0, x) = Far(G, v0, w) - 1
      BY <2>2, FarMetric
    <3>2. Far(G, v0, x) = c
      BY <2>2, <3>1
    <3> QED
      BY <1>11, <3>1, <3>2
  <2> QED
    BY <1>4, <2>1, <2>2
<1>13. QueueInv(G, v0, t, n + 1)
  <2>1. \A j \in t.front + 1 .. Len(t.queue) : t.queue[j] = 0 <=> j = n + 1
    <3> SUFFICES ASSUME NEW j \in P + 1 .. n + 1 PROVE t.queue[j] = 0 <=> j = n + 1
      BY <1>5, <1>6, <1>7
    <3>1. CASE j = n + 1
      BY <1>7, <3>1
    <3>2. CASE j # n + 1
      <4>1. j \in P + 1 .. n /\ j \in 1 .. n
        BY <1>4, <3>2
      <4> QED
        BY <1>7, <1>10, <3>2, <4>1
    <3> QED
      BY <3>1, <3>2
  <2>2. \A j \in t.fences[c + 1 + 1] + 1 .. n + 1 : t.queue[j] # 0 => Far(G, v0, t.queue[j]) = c + 1
    <3> SUFFICES ASSUME NEW j \in P .. n + 1, t.queue[j] # 0 PROVE Far(G, v0, t.queue[j]) = c + 1
      BY <1>6, <1>8
    <3>1. j # n + 1
      BY <1>7
    <3>2. j \in 1 .. n
      BY <1>5a, <3>1
    <3>3. j # P
      BY <1>5, <1>6, <1>7, <3>2
    <3>4. j \in P + 1 .. n
      BY <1>4, <3>1, <3>3
    <3> QED
      BY <1>7, <1>10, <3>2, <3>4
  <2>3. \A d \in 1 .. c + 1 : \A j \in t.fences[d] + 1 .. t.fences[d + 1] :
          t.queue[j] # 0 => Far(G, v0, t.queue[j]) = d - 1
    <3> SUFFICES ASSUME NEW d \in 1 .. c + 1, NEW j \in t.fences[d] + 1 .. t.fences[d + 1],
                        t.queue[j] # 0
                 PROVE  Far(G, v0, t.queue[j]) = d - 1
      OBVIOUS
    <3>1. CASE d = c + 1
      <4>1. t.fences[d] = s.fences[c + 1] /\ t.fences[d + 1] = r /\ s.fences[c + 1] \in Nat
        BY <1>8, <1>9, <3>1
      <4>2. j \in s.fences[c + 1] + 1 .. r
        BY <4>1
      <4>3. j \in s.fences[c + 1] + 1 .. P /\ j \in 1 .. n
        BY <1>4, <4>1, <4>2, SMTT(40)
      <4>4. t.queue[j] = q[j]
        BY <1>7, <4>3
      <4>5. Far(G, v0, q[j]) = c
        BY <1>0, <1>3, <4>3, <4>4 DEF QueueInv
      <4> QED
        BY <3>1, <4>4, <4>5
    <3>2. CASE d # c + 1
      <4>1. d \in 1 .. c /\ d + 1 \in 1 .. c + 1
        BY <3>2
      <4>2. /\ t.fences[d] = s.fences[d] /\ t.fences[d + 1] = s.fences[d + 1]
            /\ s.fences[d] \in Nat /\ s.fences[d + 1] \in Nat /\ s.fences[d + 1] =< r
        BY <1>8, <1>9, <4>1
      <4>3. j \in s.fences[d] + 1 .. s.fences[d + 1]
        BY <4>2
      <4>4. j \in 1 .. n
        BY <1>5a, <4>2, <4>3
      <4>5. t.queue[j] = q[j]
        BY <1>7, <4>4
      <4> QED
        BY <1>0, <1>3, <4>1, <4>3, <4>5 DEF QueueInv
    <3> QED
      BY <3>1, <3>2
  <2>4. \A d \in 1 .. c + 1 + 1 : t.fences[d] =< t.front
    <3> SUFFICES ASSUME NEW d \in 1 .. c + 1 + 1 PROVE t.fences[d] =< r + 1
      BY <1>5
    <3>1. CASE d = c + 1 + 1
      BY <1>8, <3>1
    <3>2. CASE d # c + 1 + 1
      <4>1. d \in 1 .. c + 1
        BY <3>2
      <4>2. t.fences[d] \in Nat /\ t.fences[d] =< r
        BY <1>8, <1>9, <4>1
      <4> QED
        BY <4>2
    <3> QED
      BY <3>1, <3>2
  <2>5. t.front \in Nat /\ t.front < n + 1 /\ t.curr_depth \in Nat /\ n + 1 \in Nat
    BY <1>4, <1>5, <1>6
  <2>6. PICK e \in Nat : e = c + 1
    OBVIOUS
  <2>7. \A j \in n + 1 + 1 .. Len(t.queue) : Far(G, v0, t.queue[j]) = e + 1
    BY <1>7
  <2>8. t.curr_depth = e /\ Len(t.fences) = e + 1 /\ n + 1 =< Len(t.queue)
    BY <1>5, <1>7, <1>8, <2>6
  <2>9. /\ \A d \in 1 .. e + 1 : t.fences[d] =< t.front
        /\ \A j \in t.fences[e + 1] + 1 .. n + 1 : t.queue[j] # 0 => Far(G, v0, t.queue[j]) = e
        /\ \A d \in 1 .. e : \A j \in t.fences[d] + 1 .. t.fences[d + 1] :
              t.queue[j] # 0 => Far(G, v0, t.queue[j]) = d - 1
    BY <2>2, <2>3, <2>4, <2>6
  <2> QED
    BY <1>7, <1>8, <2>1, <2>5, <2>7, <2>8, <2>9 DEF QueueInv
<1>14. NodeInv(G, v0, M, t)
  BY <1>4, <1>5 DEF NodeInv
<1>15. MarkInv(G, v0, M, t, n + 1)
  <2>1. \A w \in M : w \in Vertex(G) /\ Far(G, v0, w) =< c + 1 /\ Far(G, v0, w) \in Nat
    BY <1>0, <1>3, <1>4 DEF MarkInv
  <2>2. \A w \in M : Far(G, v0, w) =< c + 1 + 1 /\ Far(G, v0, w) # c + 1 + 1
    BY <2>1
  <2>3. ASSUME NEW w \in Vertex(G), Far(G, v0, w) = c + 1
        PROVE  \E j \in t.front + 1 .. n + 1 : t.queue[j] = w
    <3>1. w \in M
      BY <1>12, <2>3
    <3>2. PICK j \in P + 1 .. n : q[j] = w
      BY <1>0, <1>2, <1>3, <2>3, <3>1 DEF MarkInv
    <3>3. j \in t.front + 1 .. n + 1 /\ j \in 1 .. n
      BY <1>5a, <1>5, <1>6
    <3> QED
      BY <1>7, <3>2, <3>3
  <2>4. M \subseteq Vertex(G)
    BY <2>1
  <2> QED
    BY <1>5, <1>12, <2>2, <2>3, <2>4 DEF MarkInv
<1> QED
  BY <1>2, <1>13, <1>14, <1>15 DEF SearchRight

\* The locals of a search that begins: the house and the first fence.
LEMMA StartSearch ==
  ASSUME NEW G, Connected(G), NEW v0 \in Vertex(G), NEW s,
         s.queue = <<v0, 0>>, s.fences = << 0 >>, s.front = 0, s.curr_node = 0, s.i = 0,
         s.curr_depth = 0
  PROVE  SearchRight(G, v0, {v0}, s, 2)
<1>1. Len(G) \in Nat /\ v0 \in 0 .. Len(G) /\ 0 \in 0 .. Len(G) /\ v0 # 0
  <2>1. Len(G) \in Nat
    BY GraphTypes
  <2> QED
    BY <2>1 DEF Vertex
<1>2. /\ s.queue \in Seq(0 .. Len(G)) /\ Len(s.queue) = 2 /\ s.queue[1] = v0 /\ s.queue[2] = 0
      /\ s.fences \in Seq(Nat) /\ Len(s.fences) = 1 /\ s.fences[1] = 0
  BY <1>1
<1>3. /\ Far(G, v0, v0) = 0
      /\ \A w \in Vertex(G) : Far(G, v0, w) \in Nat /\ (Far(G, v0, w) = 0 => w = v0)
  BY FarPath, FarMetric
<1>4. QueueInv(G, v0, s, 2)
  <2>1. \A d \in 1 .. 0 + 1 : d = 1
    OBVIOUS
  <2>2. \A j \in 0 + 1 .. 2 : j = 1 \/ j = 2
    OBVIOUS
  <2>3. \A j \in 0 + 1 .. 2 : s.queue[j] = 0 <=> j = 2
    BY <1>1, <1>2, <2>2
  <2>4. \A j \in 0 + 1 .. 2 : s.queue[j] # 0 => Far(G, v0, s.queue[j]) = 0
    BY <1>2, <1>3, <2>2
  <2> QED
    BY <1>2, <2>1, <2>3, <2>4 DEF QueueInv
<1>5. NodeInv(G, v0, {v0}, s)
  BY <1>1 DEF NodeInv
<1>6. MarkInv(G, v0, {v0}, s, 2)
  <2>1. 1 \in 0 + 1 .. 2
    OBVIOUS
  <2> QED
    BY <1>2, <1>3, <2>1 DEF MarkInv
<1> QED
  BY <1>4, <1>5, <1>6 DEF SearchRight

----------------------------------------------------------------------------
(* Two searches.                                                           *)

\* If every vertex marked by both is, for one of them, at least as deep as its first
\* meeting with the other, the two depths exceed the distance by one at most: else
\* both have marked a vertex between the houses that neither has met the other on.
LEMMA DepthsTell ==
  ASSUME NEW G, Connected(G), NEW A \in Vertex(G), NEW B \in Vertex(G), NEW MA, NEW MB,
         NEW dA \in Nat, NEW dB \in Nat, dA > 0, dB > 0,
         \A w \in Vertex(G) : Far(G, A, w) < dA => w \in MA,
         \A w \in Vertex(G) : Far(G, B, w) < dB => w \in MB,
         \A w \in MA \cap MB : dA =< Far(G, A, w) \/ dB =< Far(G, B, w)
  PROVE  dA + dB =< Far(G, A, B) + 1
<1>1. \A x, y \in Vertex(G) : Far(G, x, y) \in Nat /\ Far(G, x, y) = Far(G, y, x)
  BY FarPath, FarMetric
<1>2. PICK d \in Nat : d = Far(G, A, B)
  BY <1>1
<1> SUFFICES ASSUME dA + dB > d + 1 PROVE FALSE
  BY <1>2
<1>3. \A w \in Vertex(G) : ~ (Far(G, A, w) < dA /\ Far(G, B, w) < dB)
  BY <1>1
<1>4. CASE d < dA
  <2>1. Far(G, B, B) = 0
    BY FarMetric
  <2> QED
    BY <1>2, <1>3, <1>4, <2>1
<1>5. CASE dA =< d
  <2>1. PICK k \in Nat : k = dA - 1
    OBVIOUS
  <2>2. k =< d
    BY <1>5, <2>1
  <2>3. PICK x \in Vertex(G) : Far(G, A, x) = k /\ Far(G, x, B) =< d - k
    BY <1>2, <2>2, Between
  <2>4. Far(G, B, x) = Far(G, x, B) /\ Far(G, x, B) \in Nat
    BY <1>1
  <2>5. Far(G, A, x) < dA /\ Far(G, B, x) < dB
    BY <2>1, <2>3, <2>4
  <2> QED
    BY <1>3, <2>5
<1> QED
  BY <1>4, <1>5

----------------------------------------------------------------------------
(* The invariant.                                                          *)

\* The vertices that search k has marked, how far it is from house k to w, and the
\* depth and the place of the first meeting of search a with search b.
Marks(k) == {v \in Vertex(input.graph) : k \in g_vertex_flag[v]}
FarOf(k, w) == Far(input.graph, house(k), w)
DepthOf(a, b) == g_visit_info[<<a, b>>].depth
PlaceOf(a, b) == g_visit_info[<<a, b>>].vid

\* The input is as the program presupposes it, and the reference is the distance.
GivenInv ==
    /\ Connected(input.graph)
    /\ input.house \in Seq(Vertex(input.graph)) /\ Len(input.house) >= 2
    /\ \A i, j \in DOMAIN input.house : i # j => input.house[i] # input.house[j]
    /\ apart = [p \in HouseIndex \X HouseIndex |-> FarOf(p[1], house(p[2]))]

MeetLocal ==
    [queue : Seq(Nat), fences : Seq(Nat), front : Nat, curr_node : Nat, i : Nat,
     curr_depth : Nat, visited : SUBSET HouseIndex]

MeetTypeInv ==
    /\ g_vertex_flag \in [Vertex(input.graph) -> SUBSET HouseIndex]
    /\ g_visit_info \in [HouseIndex \X HouseIndex -> [vid : Nat, depth : Nat]]
    /\ pc \in [HouseIndex -> {"search", "end"}]
    /\ my \in [HouseIndex -> MeetLocal]
    /\ \A k \in HouseIndex : k \in my[k].visited

\* Every search is breadth first, whatever the others do.
BreadthInv ==
    \A k \in HouseIndex : \E P : SearchRight(input.graph, house(k), Marks(k), my[k], P)

\* A first meeting is noted with its place, a vertex that both have marked, and its
\* depth there; a search that has ended has met all others in a level that is over.
MetInv ==
    \A a, b \in HouseIndex : a # b =>
        /\ DepthOf(a, b) =< my[a].curr_depth + 1
        /\ b \in my[a].visited <=> DepthOf(a, b) > 0
        /\ DepthOf(a, b) > 0 =>
              /\ PlaceOf(a, b) \in Marks(a) \cap Marks(b)
              /\ FarOf(a, PlaceOf(a, b)) = DepthOf(a, b)
        /\ pc[a] = "end" => DepthOf(a, b) > 0 /\ DepthOf(a, b) =< my[a].curr_depth

\* Of two searches that have marked the same vertex the later one has seen the mark
\* of the other, there or before.
SharedInv ==
    \A a, b \in HouseIndex : a # b =>
        \A w \in Marks(a) \cap Marks(b) :
            \/ DepthOf(a, b) > 0 /\ DepthOf(a, b) =< FarOf(a, w)
            \/ DepthOf(b, a) > 0 /\ DepthOf(b, a) =< FarOf(b, w)

\* Two searches that have met each other have covered the distance.
CoverInv ==
    \A a, b \in HouseIndex : a # b /\ DepthOf(a, b) > 0 /\ DepthOf(b, a) > 0 =>
        FarOf(a, house(b)) =< DepthOf(a, b) + DepthOf(b, a)

MeetIInv ==
    /\ GivenInv /\ MeetTypeInv /\ BreadthInv /\ MetInv /\ SharedInv /\ CoverInv
    /\ Meeting!AnswerWithinOne

LEMMA HouseFacts ==
  ASSUME GivenInv
  PROVE  /\ Connected(input.graph) /\ house_num \in Nat /\ house_num >= 2
         /\ \A k \in HouseIndex : k \in Nat /\ house(k) \in Vertex(input.graph)
         /\ \A a, b \in HouseIndex : a # b => house(a) # house(b)
         /\ \A k \in HouseIndex : \A w \in Vertex(input.graph) : FarOf(k, w) \in Nat
         /\ \A a, b \in HouseIndex : FarOf(a, house(b)) = FarOf(b, house(a))
         /\ \A a, b \in HouseIndex : apart[<<a, b>>] = FarOf(a, house(b))
<1>1. Connected(input.graph) /\ house_num \in Nat /\ house_num >= 2
  BY DEF GivenInv, house_num
<1>2. \A k \in HouseIndex : k \in Nat /\ k + 1 \in 1 .. house_num
  BY <1>1 DEF HouseIndex
<1>3. DOMAIN input.house = 1 .. house_num /\ \A j \in 1 .. house_num : input.house[j] \in Vertex(input.graph)
  <2>1. PICK hs : hs = input.house
    OBVIOUS
  <2>2. hs \in Seq(Vertex(input.graph))
    BY <2>1 DEF GivenInv
  <2>3. DOMAIN hs = 1 .. Len(hs) /\ \A j \in 1 .. Len(hs) : hs[j] \in Vertex(input.graph)
    BY <2>2, ElementOfSeq
  <2> QED
    BY <2>1, <2>3 DEF house_num
<1>4. \A k \in HouseIndex : house(k) \in Vertex(input.graph)
  BY <1>2, <1>3 DEF house
<1>5. ASSUME NEW a \in HouseIndex, NEW b \in HouseIndex, a # b PROVE house(a) # house(b)
  <2>1. a + 1 # b + 1
    BY <1>2, <1>5
  <2> QED
    BY <1>2, <1>3, <2>1 DEF house, GivenInv
<1>6. \A k \in HouseIndex : \A w \in Vertex(input.graph) : FarOf(k, w) \in Nat
  BY <1>1, <1>4, FarPath DEF FarOf
<1>7. \A a, b \in HouseIndex : FarOf(a, house(b)) = FarOf(b, house(a))
  BY <1>1, <1>4, FarMetric DEF FarOf
<1>8. \A a, b \in HouseIndex : apart[<<a, b>>] = FarOf(a, house(b))
  BY DEF GivenInv
<1> QED
  BY <1>1, <1>2, <1>4, <1>5, <1>6, <1>7, <1>8

\* The names that both solutions have.
LEMMA SameNames ==
  /\ Meeting!Thread = HouseIndex /\ Meeting!HouseIndex = HouseIndex
  /\ Meeting!house_num = house_num
  /\ \A k : Meeting!house(k) = house(k)
  /\ \A S : Meeting!Min(S) = Min(S) /\ Meeting!Max(S) = Max(S)
  BY DEF Meeting!Thread, Meeting!HouseIndex, HouseIndex, Meeting!house_num, house_num,
         Meeting!house, house, Meeting!Min, Min, Meeting!Max, Max

\* What search k has done: the depth of a vertex that it has marked, and what it must
\* have marked.
LEMMA MarksTell ==
  ASSUME GivenInv, MeetTypeInv, BreadthInv, NEW k \in HouseIndex
  PROVE  /\ Marks(k) \subseteq Vertex(input.graph) /\ my[k].curr_depth \in Nat
         /\ \A w \in Marks(k) : FarOf(k, w) \in Nat /\ FarOf(k, w) =< my[k].curr_depth + 1
         /\ \A w \in Vertex(input.graph) : FarOf(k, w) =< my[k].curr_depth => w \in Marks(k)
<1>1. PICK P : SearchRight(input.graph, house(k), Marks(k), my[k], P)
  BY DEF BreadthInv
<1>2. my[k].curr_depth \in Nat
  BY <1>1 DEF SearchRight, QueueInv
<1> QED
  BY <1>1, <1>2, HouseFacts DEF SearchRight, MarkInv, FarOf

\* A search that has marked the house of another has met it, so one that has not is
\* no deeper than the distance.
LEMMA NotYetMet ==
  ASSUME GivenInv, MeetTypeInv, BreadthInv, MetInv, SharedInv,
         NEW a \in HouseIndex, NEW b \in HouseIndex, a # b, b \notin my[a].visited
  PROVE  my[a].curr_depth + 1 =< apart[<<a, b>>]
<1>1. house(b) \in Vertex(input.graph) /\ FarOf(b, house(b)) = 0
  <2>1. house(b) \in Vertex(input.graph) /\ Connected(input.graph)
    BY HouseFacts
  <2> QED
    BY <2>1, FarMetric DEF FarOf
<1>2. my[a].curr_depth \in Nat /\ my[b].curr_depth \in Nat
  BY MarksTell
<1>3. house(b) \in Marks(b)
  BY <1>1, <1>2, MarksTell
<1>4. DepthOf(a, b) \in Nat /\ DepthOf(b, a) \in Nat
  BY DEF MeetTypeInv, DepthOf
<1>5. house(b) \notin Marks(a)
  BY <1>1, <1>3, <1>4 DEF SharedInv, MetInv
<1>6. ~ (FarOf(a, house(b)) =< my[a].curr_depth)
  BY <1>1, <1>5, MarksTell
<1>7. FarOf(a, house(b)) \in Nat /\ apart[<<a, b>>] = FarOf(a, house(b))
  BY <1>1, HouseFacts
<1> QED
  BY <1>2, <1>6, <1>7

----------------------------------------------------------------------------
(* The first property follows.                                             *)

\* The depths of two first meetings tell the distance, or one more.
LEMMA TwoTell ==
  ASSUME GivenInv, MeetTypeInv, BreadthInv, MetInv, SharedInv, CoverInv,
         NEW a \in HouseIndex, NEW b \in HouseIndex, a # b, DepthOf(a, b) > 0, DepthOf(b, a) > 0
  PROVE  /\ apart[<<a, b>>] \in Nat /\ DepthOf(a, b) \in Nat /\ DepthOf(b, a) \in Nat
         /\ DepthOf(a, b) + DepthOf(b, a) \in {apart[<<a, b>>], apart[<<a, b>>] + 1}
<1>1. DepthOf(a, b) \in Nat /\ DepthOf(b, a) \in Nat
  BY DEF MeetTypeInv, DepthOf
<1>2. /\ Connected(input.graph)
      /\ house(a) \in Vertex(input.graph) /\ house(b) \in Vertex(input.graph)
      /\ FarOf(a, house(b)) \in Nat /\ apart[<<a, b>>] = FarOf(a, house(b))
  BY HouseFacts
<1>3. FarOf(a, house(b)) =< DepthOf(a, b) + DepthOf(b, a)
  BY DEF CoverInv
<1>4. ASSUME NEW x \in HouseIndex, NEW y \in HouseIndex, x # y, NEW w \in Vertex(input.graph),
             FarOf(x, w) < DepthOf(x, y)
      PROVE  w \in Marks(x)
  <2>1. DepthOf(x, y) =< my[x].curr_depth + 1 /\ DepthOf(x, y) \in Nat
    BY <1>4 DEF MetInv, MeetTypeInv, DepthOf
  <2>2. my[x].curr_depth \in Nat /\ FarOf(x, w) \in Nat
    BY HouseFacts, MarksTell
  <2>3. FarOf(x, w) =< my[x].curr_depth
    BY <1>4, <2>1, <2>2
  <2> QED
    BY <2>3, MarksTell
<1>5. /\ \A w \in Vertex(input.graph) : Far(input.graph, house(a), w) < DepthOf(a, b) => w \in Marks(a)
      /\ \A w \in Vertex(input.graph) : Far(input.graph, house(b), w) < DepthOf(b, a) => w \in Marks(b)
  BY <1>4 DEF FarOf
<1>6. \A w \in Marks(a) \cap Marks(b) : \/ DepthOf(a, b) =< Far(input.graph, house(a), w)
                                        \/ DepthOf(b, a) =< Far(input.graph, house(b), w)
  BY DEF SharedInv, FarOf
<1>7. DepthOf(a, b) + DepthOf(b, a) =< Far(input.graph, house(a), house(b)) + 1
  BY <1>1, <1>2, <1>5, <1>6, DepthsTell
<1> QED
  BY <1>1, <1>2, <1>3, <1>7 DEF FarOf

----------------------------------------------------------------------------
(* The beginning.                                                          *)

LEMMA SameDistance == \A v, w : Meeting!Distance(v, w) = Distance(v, w)
  BY DEF Meeting!Distance, Distance, Meeting!ToSet, ToSet

LEMMA GivenInit ==
  ASSUME Meeting!Init, ~Own
  PROVE  GivenInv
<1>1. input \in Inputs
  BY DEF Meeting!Init, Meeting!InputInit
<1>2. Meeting!Presupposed(input)
  BY <1>1, MeetingAssumption DEF Own
<1>3. Connected(input.graph)
  BY <1>2 DEF Meeting!Presupposed, Meeting!Connected, Connected, Meeting!ToSet, ToSet
<1>4. Len(input.house) >= 2 /\ \A i, j \in DOMAIN input.house : i # j => input.house[i] # input.house[j]
  BY <1>2 DEF Meeting!Presupposed
<1>5. input.house \in Seq(Vertex(input.graph))
  BY <1>1, InputAssumption DEF Vertex
<1>6. \A k \in HouseIndex : house(k) \in Vertex(input.graph)
  <2>1. PICK hs : hs = input.house
    OBVIOUS
  <2>2. hs \in Seq(Vertex(input.graph))
    BY <1>5, <2>1
  <2>3. Len(hs) \in Nat /\ \A j \in 1 .. Len(hs) : hs[j] \in Vertex(input.graph)
    BY <2>2, ElementOfSeq
  <2> QED
    BY <2>1, <2>3 DEF HouseIndex, house, house_num
<1>7. \A a, b \in HouseIndex : Distance(house(a), house(b)) = FarOf(a, house(b))
  BY <1>3, <1>6, FarBound, DistanceIsFar DEF FarOf
<1>8. apart = [p \in HouseIndex \X HouseIndex |-> Distance(house(p[1]), house(p[2]))]
  BY SameNames, SameDistance DEF Meeting!Init, Meeting!InputInit
<1>9. apart = [p \in HouseIndex \X HouseIndex |-> FarOf(p[1], house(p[2]))]
  BY <1>7, <1>8
<1> QED
  BY <1>3, <1>4, <1>5, <1>9 DEF GivenInv

LEMMA MeetInit ==
  ASSUME Meeting!Init, ~Own
  PROVE  MeetIInv
<1>1. GivenInv
  BY GivenInit
<1>2. /\ Connected(input.graph) /\ Len(input.graph) \in Nat /\ DOMAIN input.graph = Vertex(input.graph)
      /\ \A k \in HouseIndex : k \in Nat /\ house(k) \in Vertex(input.graph)
      /\ \A a, b \in HouseIndex : a # b => house(a) # house(b)
  BY <1>1, HouseFacts, GraphTypes
<1>3. /\ g_vertex_flag = [v \in Vertex(input.graph) |-> {k \in HouseIndex : house(k) = v}]
      /\ g_visit_info = [p \in HouseIndex \X HouseIndex |-> [vid |-> 0, depth |-> 0]]
      /\ pc = [k \in HouseIndex |-> "search"]
      /\ printed = <<>>
  BY <1>2, SameNames DEF Meeting!Init
<1>4. my = [k \in HouseIndex |->
              [queue |-> <<house(k), 0>>, fences |-> <<0>>, front |-> 0,
               curr_node |-> 0, i |-> 0, curr_depth |-> 0, visited |-> {k}]]
  BY SameNames DEF Meeting!Init, Meeting!Locals, Meeting!FENCE
<1>5. \A k \in HouseIndex : Marks(k) = {house(k)}
  BY <1>2, <1>3 DEF Marks
<1>6. \A a, b \in HouseIndex : DepthOf(a, b) = 0
  BY <1>3 DEF DepthOf
<1>7. MeetTypeInv
  <2>1. g_vertex_flag \in [Vertex(input.graph) -> SUBSET HouseIndex]
    BY <1>3
  <2>2. g_visit_info \in [HouseIndex \X HouseIndex -> [vid : Nat, depth : Nat]]
    BY <1>3
  <2>3. ASSUME NEW k \in HouseIndex PROVE my[k] \in MeetLocal /\ k \in my[k].visited
    <3>1. house(k) \in Nat
      BY <1>2 DEF Vertex
    <3>2. <<house(k), 0>> \in Seq(Nat) /\ <<0>> \in Seq(Nat)
      BY <3>1
    <3> QED
      BY <1>4, <3>2 DEF MeetLocal
  <2>4. my \in [HouseIndex -> MeetLocal]
    BY <1>4, <2>3
  <2> QED
    BY <1>3, <2>1, <2>2, <2>3, <2>4 DEF MeetTypeInv
<1>8. BreadthInv
  <2> SUFFICES ASSUME NEW k \in HouseIndex
               PROVE  \E P : SearchRight(input.graph, house(k), Marks(k), my[k], P)
    BY DEF BreadthInv
  <2>1. /\ my[k].queue = <<house(k), 0>> /\ my[k].fences = <<0>> /\ my[k].front = 0
        /\ my[k].curr_node = 0 /\ my[k].i = 0 /\ my[k].curr_depth = 0
    BY <1>4
  <2>2. SearchRight(input.graph, house(k), {house(k)}, my[k], 2)
    BY <1>2, <2>1, StartSearch
  <2> QED
    BY <1>5, <2>2
<1>9. MetInv
  <2>1. \A k \in HouseIndex : my[k].visited = {k} /\ my[k].curr_depth = 0
    BY <1>4
  <2> QED
    BY <1>3, <1>6, <2>1 DEF MetInv
<1>10. SharedInv /\ CoverInv
  BY <1>2, <1>5, <1>6 DEF SharedInv, CoverInv
<1>11. Meeting!AnswerWithinOne
  BY <1>3 DEF Meeting!AnswerWithinOne
<1> QED
  BY <1>1, <1>7, <1>8, <1>9, <1>10, <1>11 DEF MeetIInv

----------------------------------------------------------------------------
(* The steps.                                                              *)

\* What every step leaves alone.
LEMMA GivenStays ==
  ASSUME Meeting!Next \/ UNCHANGED <<input, apart>>
  PROVE  /\ input' = input /\ apart' = apart /\ HouseIndex' = HouseIndex
         /\ \A k : house(k)' = house(k)
         /\ \A k, w : FarOf(k, w)' = FarOf(k, w)
         /\ GivenInv => GivenInv'
<1>1. input' = input /\ apart' = apart
  BY ZenonT(60) DEF Meeting!Next, Meeting!Mark, Meeting!Dequeue, Meeting!NextLevel, Meeting!MakeResult,
         Meeting!given
<1>2. HouseIndex' = HouseIndex /\ \A k : house(k)' = house(k)
  BY <1>1 DEF HouseIndex, house_num, house
<1>3. \A k, w : FarOf(k, w)' = FarOf(k, w)
  BY <1>1, <1>2 DEF FarOf
<1>4. GivenInv => GivenInv'
  BY <1>1, <1>2, <1>3 DEF GivenInv
<1> QED
  BY <1>1, <1>2, <1>3, <1>4

\* The next neighbour without a mark.
LEMMA NextUnmarked ==
  ASSUME GivenInv, MeetTypeInv, BreadthInv, NEW k \in HouseIndex
  PROVE  /\ Meeting!Unmarked(k) = {} =>
              (my[k].curr_node # 0 =>
                 \A j \in my[k].i + 1 .. Len(input.graph[my[k].curr_node]) :
                    input.graph[my[k].curr_node][j] \in Marks(k))
         /\ Meeting!Unmarked(k) # {} =>
              LET i == Min(Meeting!Unmarked(k))
                  g == input.graph[my[k].curr_node]
              IN  /\ my[k].curr_node # 0 /\ i \in my[k].i + 1 .. Len(g)
                  /\ g[i] \in Vertex(input.graph) /\ g[i] \notin Marks(k)
                  /\ \A j \in my[k].i + 1 .. i - 1 : g[j] \in Marks(k)
                  /\ Meeting!Neighbours(my[k].curr_node)[i] = g[i]
<1> DEFINE u == my[k].curr_node
           U == Meeting!Unmarked(k)
<1>1. PICK P : SearchRight(input.graph, house(k), Marks(k), my[k], P)
  BY DEF BreadthInv
<1>2. Connected(input.graph) /\ house(k) \in Vertex(input.graph)
  BY HouseFacts
<1>3. u # 0 => u \in Vertex(input.graph)
  BY <1>1, <1>2, SearchTypes
<1>4. my[k].i \in Nat
  BY <1>1 DEF SearchRight, NodeInv
<1>5. CASE u = 0
  <2>1. U = {}
    <3>1. Meeting!Neighbours(u) = <<>>
      BY <1>5 DEF Meeting!Neighbours, Meeting!FENCE
    <3>2. Len(<<>>) = 0
      OBVIOUS
    <3>3. my[k].i + 1 .. 0 = {}
      BY <1>4
    <3> QED
      BY <3>1, <3>2, <3>3 DEF Meeting!Unmarked
  <2> QED
    BY <1>5, <2>1
<1>6. CASE u # 0
  <2>1. PICK g : g = input.graph[u]
    OBVIOUS
  <2>2. Meeting!Neighbours(u) = g
    BY <1>6, <2>1 DEF Meeting!Neighbours, Meeting!FENCE
  <2>3. Len(g) \in Nat /\ \A j \in 1 .. Len(g) : g[j] \in Vertex(input.graph)
    BY <1>2, <1>3, <1>6, <2>1, GraphTypes, ElementOfSeq
  <2>4. \A j \in my[k].i + 1 .. Len(g) : j \in 1 .. Len(g) /\ j \in Nat
    BY <1>4, <2>3
  <2>5. U = {j \in my[k].i + 1 .. Len(g) : k \notin g_vertex_flag[g[j]]}
    BY <2>2 DEF Meeting!Unmarked
  <2>6. U = {j \in my[k].i + 1 .. Len(g) : g[j] \notin Marks(k)}
    BY <2>3, <2>4, <2>5 DEF Marks
  <2> HIDE DEF U
  <2>7. CASE U = {}
    <3>1. \A j \in my[k].i + 1 .. Len(g) : g[j] \in Marks(k)
      BY <2>6, <2>7
    <3> QED
      BY <2>1, <2>7, <3>1 DEF U
  <2>8. CASE U # {}
    <3>1. U \subseteq Nat
      BY <2>4, <2>6
    <3>2. PICK i : i = Min(U)
      OBVIOUS
    <3>3. i \in U /\ \A y \in U : i =< y
      <4>1. \E x \in U : \A y \in U : x =< y
        BY <2>8, <3>1, Least
      <4> QED
        BY <3>2, <4>1 DEF Min
    <3>4. i \in my[k].i + 1 .. Len(g) /\ g[i] \notin Marks(k) /\ g[i] \in Vertex(input.graph)
      BY <2>3, <2>4, <2>6, <3>3
    <3>5. ASSUME NEW j \in my[k].i + 1 .. i - 1 PROVE g[j] \in Marks(k)
      <4>1. j \in my[k].i + 1 .. Len(g) /\ ~ (i =< j)
        BY <1>4, <2>3, <3>4
      <4> QED
        BY <2>6, <3>3, <4>1
    <3>6. Meeting!Neighbours(my[k].curr_node)[i] = g[i]
      BY <2>2
    <3> QED
      BY <1>6, <2>1, <2>8, <3>2, <3>4, <3>5, <3>6 DEF U
  <2> QED
    BY <2>7, <2>8 DEF U
<1> QED
  BY <1>5, <1>6

\* What Mark does: search k marks v, one level deeper, and notes whom it has not met
\* before and who has marked v already.
Marking(k, v, news) ==
    /\ v \in Vertex(input.graph) \ Marks(k) /\ FarOf(k, v) = my[k].curr_depth + 1
    /\ Marks(k)' = Marks(k) \cup {v} /\ \A b \in HouseIndex \ {k} : Marks(b)' = Marks(b)
    /\ news = {b \in HouseIndex : v \in Marks(b)} \ my[k].visited
    /\ my'[k].visited = my[k].visited \cup news /\ my'[k].curr_depth = my[k].curr_depth
    /\ \A b \in HouseIndex \ {k} : my'[b] = my[b]
    /\ pc' = pc /\ printed' = printed
    /\ \A a, b \in HouseIndex :
          g_visit_info'[<<a, b>>] =
             IF a = k /\ b \in news THEN [vid |-> v, depth |-> (my[k].curr_depth + 1) % 2^16]
             ELSE g_visit_info[<<a, b>>]

LEMMA MarkEffect ==
  ASSUME GivenInv, MeetTypeInv, BreadthInv, NEW k \in HouseIndex, Meeting!Mark(k)
  PROVE  /\ MeetTypeInv' /\ BreadthInv'
         /\ \E v, news : Marking(k, v, news)
<1> DEFINE G == input.graph
           s == my[k]
           c == s.curr_depth
<1>1. PICK i : i = Min(Meeting!Unmarked(k))
  OBVIOUS
<1>2. PICK g : g = G[s.curr_node]
  OBVIOUS
<1>3. PICK v : v = g[i]
  OBVIOUS
<1>4. PICK news : news = g_vertex_flag[v] \ s.visited
  OBVIOUS
<1>5. /\ s.curr_node # 0 /\ i \in s.i + 1 .. Len(g)
      /\ v \in Vertex(G) /\ v \notin Marks(k)
      /\ \A j \in s.i + 1 .. i - 1 : g[j] \in Marks(k)
      /\ Meeting!Neighbours(s.curr_node)[i] = v
  <2>1. Meeting!Unmarked(k) # {}
    BY SMTT(40) DEF Meeting!Mark
  <2> QED
    BY <1>1, <1>2, <1>3, <2>1, NextUnmarked
<1>6. /\ g_vertex_flag' = [g_vertex_flag EXCEPT ![v] = g_vertex_flag[v] \cup {k}]
      /\ g_visit_info' = [p \in HouseIndex \X HouseIndex |->
                            IF p[1] = k /\ p[2] \in news
                              THEN [vid |-> v, depth |-> (c + 1) % 2^16]
                              ELSE g_visit_info[p]]
      /\ my' = [my EXCEPT ![k].i = i, ![k].visited = @ \cup news, ![k].queue = Append(@, v)]
      /\ pc' = pc /\ printed' = printed /\ input' = input
  BY <1>1, <1>4, <1>5, SameNames DEF Meeting!Mark, Meeting!Marked, Meeting!given
<1>7. s \in MeetLocal /\ my \in [HouseIndex -> MeetLocal]
  BY DEF MeetTypeInv
<1>8. /\ my'[k].i = i /\ my'[k].visited = s.visited \cup news /\ my'[k].queue = Append(s.queue, v)
      /\ my'[k].fences = s.fences /\ my'[k].front = s.front /\ my'[k].curr_node = s.curr_node
      /\ my'[k].curr_depth = s.curr_depth
  BY <1>6, <1>7 DEF MeetLocal
<1>9. \A b \in HouseIndex \ {k} : my'[b] = my[b]
  BY <1>6, <1>7
<1>10. HouseIndex' = HouseIndex /\ \A b : house(b)' = house(b)
  BY <1>6 DEF HouseIndex, house, house_num
<1>11. /\ \A w \in Vertex(G) : w # v => g_vertex_flag'[w] = g_vertex_flag[w]
       /\ g_vertex_flag'[v] = g_vertex_flag[v] \cup {k}
       /\ g_vertex_flag' \in [Vertex(G) -> SUBSET HouseIndex]
  BY <1>5, <1>6 DEF MeetTypeInv
<1>12. Marks(k)' = Marks(k) \cup {v} /\ \A b \in HouseIndex \ {k} : Marks(b)' = Marks(b)
  BY <1>5, <1>6, <1>11 DEF Marks
<1>13. PICK P : SearchRight(G, house(k), Marks(k), s, P)
  BY DEF BreadthInv
<1>14. Connected(G) /\ house(k) \in Vertex(G)
  BY HouseFacts
<1>15. MarkStep(G, Marks(k), s, my'[k], i)
  BY <1>2, <1>3, <1>5, <1>8 DEF MarkStep
<1>16. SearchRight(G, house(k), Marks(k) \cup {v}, my'[k], P) /\ FarOf(k, v) = c + 1
  BY <1>2, <1>3, <1>13, <1>14, <1>15, MarkSearch, NextFar DEF FarOf
<1>17. BreadthInv'
  <2> SUFFICES ASSUME NEW b \in HouseIndex
               PROVE  \E Q : SearchRight(G, house(b), Marks(b)', my'[b], Q)
    BY <1>6, <1>10 DEF BreadthInv
  <2>1. CASE b = k
    BY <1>12, <1>16, <2>1
  <2>2. CASE b # k
    <3>1. \E Q : SearchRight(G, house(b), Marks(b), my[b], Q)
      BY DEF BreadthInv
    <3>2. Marks(b)' = Marks(b) /\ my'[b] = my[b]
      BY <1>9, <1>12, <2>2
    <3> QED
      BY <3>1, <3>2
  <2> QED
    BY <2>1, <2>2
<1>18. news \subseteq HouseIndex /\ news = {b \in HouseIndex : v \in Marks(b)} \ s.visited
  BY <1>4, <1>5, SMTT(40) DEF MeetTypeInv, Marks
<1>19. Marking(k, v, news)
  <2>1. \A a, b \in HouseIndex :
          g_visit_info'[<<a, b>>] =
             IF a = k /\ b \in news THEN [vid |-> v, depth |-> (c + 1) % 2^16]
             ELSE g_visit_info[<<a, b>>]
    BY <1>6
  <2> QED
    BY <1>5, <1>6, <1>8, <1>9, <1>12, <1>16, <1>18, <2>1 DEF Marking
<1>20. MeetTypeInv'
  <2>1. v \in Nat /\ c \in Nat /\ i \in Nat
    <3>1. v \in Nat
      BY <1>5 DEF Vertex
    <3>2. c \in Nat /\ s.i \in Nat
      BY <1>7 DEF MeetLocal
    <3>3. i \in Nat
      BY <1>5, <3>2
    <3> QED
      BY <3>1, <3>2, <3>3
  <2>2. (c + 1) % 2^16 \in Nat
    BY <2>1
  <2>3. [vid |-> v, depth |-> (c + 1) % 2^16] \in [vid : Nat, depth : Nat]
    BY <2>1, <2>2
  <2>4. g_visit_info' \in [HouseIndex \X HouseIndex -> [vid : Nat, depth : Nat]]
    BY <1>6, <2>3 DEF MeetTypeInv
  <2>5. my' \in [HouseIndex -> MeetLocal]
    <3>1. Append(s.queue, v) \in Seq(Nat)
      BY <1>7, <2>1 DEF MeetLocal
    <3>2. s.visited \cup news \in SUBSET HouseIndex
      BY <1>7, <1>18 DEF MeetLocal
    <3> QED
      BY <1>6, <1>7, <2>1, <3>1, <3>2 DEF MeetLocal
  <2>6. \A b \in HouseIndex : b \in my'[b].visited
    BY <1>8, <1>9 DEF MeetTypeInv
  <2>7. MeetLocal' = MeetLocal
    BY <1>10 DEF MeetLocal
  <2> QED
    BY <1>6, <1>10, <1>11, <2>4, <2>5, <2>6, <2>7 DEF MeetTypeInv
<1> QED
  BY <1>17, <1>19, <1>20

LEMMA MarkMet ==
  ASSUME MeetIInv, Shallow, NEW k \in HouseIndex, NEW v, NEW news, Marking(k, v, news),
         HouseIndex' = HouseIndex, \A x, w : FarOf(x, w)' = FarOf(x, w),
         \A x : house(x)' = house(x)
  PROVE  MetInv' /\ SharedInv' /\ CoverInv'
<1> DEFINE c == my[k].curr_depth
<1>0. GivenInv /\ MeetTypeInv /\ BreadthInv /\ MetInv /\ SharedInv /\ CoverInv
  BY DEF MeetIInv
<1>1. /\ \A a, b \in HouseIndex : DepthOf(a, b) \in Nat
      /\ \A a \in HouseIndex : my[a].curr_depth \in Nat
      /\ k \in my[k].visited
  BY <1>0, MarksTell DEF MeetTypeInv, DepthOf
<1>2. ASSUME NEW b \in news
      PROVE  /\ b \in HouseIndex /\ b # k /\ v \in Marks(b) /\ b \notin my[k].visited
             /\ DepthOf(k, b)' = c + 1 /\ PlaceOf(k, b)' = v
  <2>1. b \in HouseIndex /\ b # k /\ v \in Marks(b) /\ b \notin my[k].visited
    BY <1>1 DEF Marking
  <2>2. c + 1 =< apart[<<k, b>>]
    BY <1>0, <2>1, NotYetMet
  <2>3. apart[<<k, b>>] < 2^16 /\ apart[<<k, b>>] \in Nat
    BY <1>0, <2>1, HouseFacts DEF Shallow
  <2>4. c + 1 < 2^16 /\ c + 1 \in Nat
    BY <1>1, <2>2, <2>3
  <2>5. (c + 1) % 2^16 = c + 1
    BY <2>4
  <2>6. g_visit_info'[<<k, b>>] = [vid |-> v, depth |-> (c + 1) % 2^16]
    BY <2>1 DEF Marking
  <2> QED
    BY <2>1, <2>5, <2>6 DEF DepthOf, PlaceOf
<1>3. \A a, b \in HouseIndex : ~ (a = k /\ b \in news) =>
         DepthOf(a, b)' = DepthOf(a, b) /\ PlaceOf(a, b)' = PlaceOf(a, b)
  BY DEF Marking, DepthOf, PlaceOf
<1>4. /\ Marks(k)' = Marks(k) \cup {v} /\ FarOf(k, v) = c + 1
      /\ \A b \in HouseIndex : b # k => Marks(b)' = Marks(b) /\ my'[b] = my[b]
      /\ my'[k].visited = my[k].visited \cup news /\ my'[k].curr_depth = c /\ pc' = pc
  BY DEF Marking
<1>5. \A b \in HouseIndex : v \in Marks(b) /\ b \notin news => b \in my[k].visited
  BY DEF Marking
<1>6. MetInv'
  <2> SUFFICES ASSUME NEW a \in HouseIndex, NEW b \in HouseIndex, a # b
               PROVE  /\ DepthOf(a, b)' =< my'[a].curr_depth + 1
                      /\ b \in my'[a].visited <=> DepthOf(a, b)' > 0
                      /\ DepthOf(a, b)' > 0 =>
                           /\ PlaceOf(a, b)' \in Marks(a)' \cap Marks(b)'
                           /\ FarOf(a, PlaceOf(a, b)') = DepthOf(a, b)'
                      /\ pc[a] = "end" =>
                           DepthOf(a, b)' > 0 /\ DepthOf(a, b)' =< my'[a].curr_depth
    <3>1. \A a_1, b_1 \in HouseIndex : FarOf(a_1, PlaceOf(a_1, b_1))' = FarOf(a_1, PlaceOf(a_1, b_1)')
      BY DEF FarOf, Marking
    <3> QED
      BY <1>4, <3>1 DEF MetInv
  <2>1. /\ DepthOf(a, b) =< my[a].curr_depth + 1
        /\ b \in my[a].visited <=> DepthOf(a, b) > 0
        /\ DepthOf(a, b) > 0 => /\ PlaceOf(a, b) \in Marks(a) \cap Marks(b)
                                /\ FarOf(a, PlaceOf(a, b)) = DepthOf(a, b)
        /\ pc[a] = "end" => DepthOf(a, b) > 0 /\ DepthOf(a, b) =< my[a].curr_depth
    BY <1>0 DEF MetInv
  <2>2. CASE a = k /\ b \in news
    BY <1>1, <1>2, <1>4, <2>1, <2>2
  <2>3. CASE ~ (a = k /\ b \in news)
    <3>1. DepthOf(a, b)' = DepthOf(a, b) /\ PlaceOf(a, b)' = PlaceOf(a, b)
      BY <1>3, <2>3
    <3>2. my'[a].curr_depth = my[a].curr_depth /\ (b \in my'[a].visited <=> b \in my[a].visited)
      BY <1>4, <2>3
    <3>3. Marks(a) \subseteq Marks(a)' /\ Marks(b) \subseteq Marks(b)'
      BY <1>4
    <3> QED
      BY <2>1, <3>1, <3>2, <3>3
  <2> QED
    BY <2>2, <2>3
<1>7. ASSUME NEW a \in HouseIndex, NEW b \in HouseIndex, NEW w, a # b,
             DepthOf(a, b) > 0 /\ DepthOf(a, b) =< FarOf(a, w)
      PROVE  DepthOf(a, b)' > 0 /\ DepthOf(a, b)' =< FarOf(a, w)
  <2>1. b \in my[a].visited
    BY <1>0, <1>7 DEF MetInv
  <2>2. ~ (a = k /\ b \in news)
    BY <1>2, <2>1
  <2> QED
    BY <1>3, <1>7, <2>2
<1>8. ASSUME NEW b \in HouseIndex, b # k, v \in Marks(b)
      PROVE  DepthOf(k, b)' > 0 /\ DepthOf(k, b)' =< FarOf(k, v)
  <2>1. CASE b \in news
    BY <1>1, <1>2, <1>4, <2>1
  <2>2. CASE b \notin news
    <3>1. b \in my[k].visited
      BY <1>5, <1>8, <2>2
    <3>2. DepthOf(k, b) > 0 /\ DepthOf(k, b) =< c + 1
      BY <1>0, <1>8, <3>1 DEF MetInv
    <3> QED
      BY <1>4, <1>7, <1>8, <3>2
  <2> QED
    BY <2>1, <2>2
<1>9. SharedInv'
  <2> SUFFICES ASSUME NEW a \in HouseIndex, NEW b \in HouseIndex, a # b, NEW w,
                      w \in Marks(a)', w \in Marks(b)'
               PROVE  \/ DepthOf(a, b)' > 0 /\ DepthOf(a, b)' =< FarOf(a, w)
                      \/ DepthOf(b, a)' > 0 /\ DepthOf(b, a)' =< FarOf(b, w)
    BY DEF SharedInv
  <2>1. CASE w \in Marks(a) /\ w \in Marks(b)
    <3>1. \/ DepthOf(a, b) > 0 /\ DepthOf(a, b) =< FarOf(a, w)
          \/ DepthOf(b, a) > 0 /\ DepthOf(b, a) =< FarOf(b, w)
      BY <1>0, <2>1 DEF SharedInv
    <3> QED
      BY <1>7, <3>1
  <2>2. CASE a = k /\ w = v
    <3>1. v \in Marks(b)
      BY <1>4, <2>2
    <3> QED
      BY <1>8, <2>2, <3>1
  <2>3. CASE b = k /\ w = v
    <3>1. v \in Marks(a)
      BY <1>4, <2>3
    <3> QED
      BY <1>8, <2>3, <3>1
  <2> QED
    BY <1>4, <2>1, <2>2, <2>3
<1>10. ASSUME NEW b \in news, DepthOf(b, k) > 0
       PROVE  FarOf(k, house(b)) =< (c + 1) + DepthOf(b, k)
  <2>1. b \in HouseIndex /\ b # k
    BY <1>2
  <2>2. PICK x : x = PlaceOf(b, k)
    OBVIOUS
  <2>3. x \in Marks(b) /\ x \in Marks(k) /\ FarOf(b, x) = DepthOf(b, k)
    BY <1>0, <1>10, <2>1, <2>2 DEF MetInv
  <2>4. x \in Vertex(input.graph) /\ FarOf(k, x) =< c + 1 /\ FarOf(k, x) \in Nat
    BY <1>0, <2>3, MarksTell
  <2>5. /\ Connected(input.graph) /\ house(k) \in Vertex(input.graph)
        /\ house(b) \in Vertex(input.graph) /\ FarOf(k, house(b)) \in Nat
    BY <1>0, <2>1, HouseFacts
  <2>6. FarOf(k, house(b)) =< FarOf(k, x) + Far(input.graph, x, house(b))
    BY <2>4, <2>5, FarMetric DEF FarOf
  <2>7. Far(input.graph, x, house(b)) = DepthOf(b, k)
    BY <2>3, <2>4, <2>5, FarMetric DEF FarOf
  <2> QED
    BY <1>1, <2>1, <2>4, <2>5, <2>6, <2>7
<1>11. CoverInv'
  <2> SUFFICES ASSUME NEW a \in HouseIndex, NEW b \in HouseIndex, a # b,
                      DepthOf(a, b)' > 0, DepthOf(b, a)' > 0
               PROVE  FarOf(a, house(b)) =< DepthOf(a, b)' + DepthOf(b, a)'
    <3>1. \A a_1, b_1 \in HouseIndex : FarOf(a_1, house(b_1))' = FarOf(a_1, house(b_1))
      BY DEF FarOf
    <3> QED
      BY <3>1 DEF CoverInv
  <2>1. CASE a = k /\ b \in news
    <3>1. DepthOf(b, a)' = DepthOf(b, k) /\ DepthOf(a, b)' = c + 1
      BY <1>2, <1>3, <2>1
    <3> QED
      BY <1>10, <2>1, <3>1
  <2>2. CASE b = k /\ a \in news
    <3>1. DepthOf(a, b)' = DepthOf(a, k) /\ DepthOf(b, a)' = c + 1
      BY <1>2, <1>3, <2>2
    <3>2. FarOf(k, house(a)) =< (c + 1) + DepthOf(a, k)
      BY <1>10, <2>2, <3>1
    <3>3. FarOf(a, house(b)) = FarOf(k, house(a))
      BY <1>0, <2>2, HouseFacts
    <3> QED
      BY <1>1, <2>2, <3>1, <3>2, <3>3
  <2>3. CASE ~ (a = k /\ b \in news) /\ ~ (b = k /\ a \in news)
    <3>1. DepthOf(a, b)' = DepthOf(a, b) /\ DepthOf(b, a)' = DepthOf(b, a)
      BY <1>3, <2>3
    <3> QED
      BY <1>0, <3>1 DEF CoverInv
  <2> QED
    BY <2>1, <2>2, <2>3
<1> QED
  BY <1>6, <1>9, <1>11

\* What the steps without a mark keep of the meetings.
LEMMA MeetingsStay ==
  ASSUME MeetIInv, UNCHANGED <<input, apart, g_vertex_flag, g_visit_info>>,
         \A a \in HouseIndex :
            /\ my'[a].visited = my[a].visited
            /\ my'[a].curr_depth \in Nat /\ my'[a].curr_depth >= my[a].curr_depth
            /\ pc'[a] = "end" => \A b \in HouseIndex : a # b =>
                 DepthOf(a, b) > 0 /\ DepthOf(a, b) =< my'[a].curr_depth
  PROVE  MetInv' /\ SharedInv' /\ CoverInv'
<1>1. /\ HouseIndex' = HouseIndex /\ \A k : house(k)' = house(k) /\ Marks(k)' = Marks(k)
      /\ \A a, b : DepthOf(a, b)' = DepthOf(a, b) /\ PlaceOf(a, b)' = PlaceOf(a, b)
      /\ \A k, w : FarOf(k, w)' = FarOf(k, w)
      /\ \A a, b : FarOf(a, PlaceOf(a, b))' = FarOf(a, PlaceOf(a, b))
      /\ \A a, b : FarOf(a, house(b))' = FarOf(a, house(b))
  BY DEF HouseIndex, house_num, house, Marks, DepthOf, PlaceOf, FarOf
<1>2. /\ \A a, b \in HouseIndex : DepthOf(a, b) \in Nat
      /\ \A a \in HouseIndex : my[a].curr_depth \in Nat
  BY MarksTell DEF MeetIInv, MeetTypeInv, DepthOf
<1>3. MetInv'
  <2> SUFFICES ASSUME NEW a \in HouseIndex, NEW b \in HouseIndex, a # b
               PROVE  /\ DepthOf(a, b) =< my'[a].curr_depth + 1
                      /\ b \in my'[a].visited <=> DepthOf(a, b) > 0
                      /\ DepthOf(a, b) > 0 =>
                           /\ PlaceOf(a, b) \in Marks(a) \cap Marks(b)
                           /\ FarOf(a, PlaceOf(a, b)) = DepthOf(a, b)
                      /\ pc'[a] = "end" =>
                           DepthOf(a, b) > 0 /\ DepthOf(a, b) =< my'[a].curr_depth
    BY <1>1 DEF MetInv
  <2>1. /\ DepthOf(a, b) =< my[a].curr_depth + 1
        /\ b \in my[a].visited <=> DepthOf(a, b) > 0
        /\ DepthOf(a, b) > 0 => /\ PlaceOf(a, b) \in Marks(a) \cap Marks(b)
                                /\ FarOf(a, PlaceOf(a, b)) = DepthOf(a, b)
    BY DEF MeetIInv, MetInv
  <2>2. DepthOf(a, b) =< my'[a].curr_depth + 1
    BY <1>2, <2>1
  <2> QED
    BY <2>1, <2>2
<1>4. SharedInv'
  BY <1>1 DEF MeetIInv, SharedInv
<1>5. CoverInv'
  BY <1>1 DEF MeetIInv, CoverInv
<1> QED
  BY <1>3, <1>4, <1>5

LEMMA DequeueMet ==
  ASSUME MeetIInv, NEW k \in HouseIndex, Meeting!Dequeue(k)
  PROVE  MeetTypeInv' /\ BreadthInv' /\ MetInv' /\ SharedInv' /\ CoverInv'
<1> DEFINE G == input.graph
           s == my[k]
           node == s.queue[s.front + 1]
<1>0. GivenInv /\ MeetTypeInv /\ BreadthInv /\ MetInv
  BY DEF MeetIInv
<1>1. /\ node # 0 /\ Meeting!Unmarked(k) = {}
      /\ my' = [my EXCEPT ![k].front = @ + 1, ![k].curr_node = node, ![k].i = 0]
      /\ UNCHANGED <<input, apart, g_vertex_flag, g_visit_info, pc>>
  BY DEF Meeting!Dequeue, Meeting!FENCE, Meeting!given
<1>2. s \in MeetLocal /\ my \in [HouseIndex -> MeetLocal]
  BY <1>0 DEF MeetTypeInv
<1>3. /\ my'[k].front = s.front + 1 /\ my'[k].curr_node = node /\ my'[k].i = 0
      /\ my'[k].queue = s.queue /\ my'[k].fences = s.fences
      /\ my'[k].curr_depth = s.curr_depth /\ my'[k].visited = s.visited
  BY <1>1, <1>2 DEF MeetLocal
<1>4. \A b \in HouseIndex \ {k} : my'[b] = my[b]
  BY <1>1, <1>2
<1>5. HouseIndex' = HouseIndex /\ \A b : house(b)' = house(b) /\ Marks(b)' = Marks(b)
  BY <1>1 DEF HouseIndex, house, house_num, Marks
<1>6. PICK P : SearchRight(G, house(k), Marks(k), s, P)
  BY <1>0 DEF BreadthInv
<1>7. Connected(G) /\ house(k) \in Vertex(G)
  BY <1>0, HouseFacts, SMTT(40)
<1>8. DequeueStep(G, Marks(k), s, my'[k])
  BY <1>0, <1>1, <1>3, NextUnmarked DEF DequeueStep, TakeStep
<1>9. SearchRight(G, house(k), Marks(k), my'[k], P)
  BY <1>6, <1>7, <1>8, DequeueSearch
<1>10. BreadthInv'
  <2> SUFFICES ASSUME NEW b \in HouseIndex
               PROVE  \E Q : SearchRight(G, house(b), Marks(b), my'[b], Q)
    BY <1>1, <1>5 DEF BreadthInv
  <2>1. CASE b = k
    BY <1>9, <2>1
  <2>2. CASE b # k
    <3>1. \E Q : SearchRight(G, house(b), Marks(b), my[b], Q)
      BY <1>0 DEF BreadthInv
    <3> QED
      BY <1>4, <2>2, <3>1
  <2> QED
    BY <2>1, <2>2
<1>11. MeetTypeInv'
  <2>1. node \in Nat
    <3>1. node \in 0 .. Len(G) /\ Len(G) \in Nat
      BY <1>3, <1>7, <1>9, GraphTypes DEF SearchRight, NodeInv
    <3> QED
      BY <3>1
  <2>2. my' \in [HouseIndex -> MeetLocal]
    <3>1. s.front + 1 \in Nat
      BY <1>2 DEF MeetLocal
    <3>2. [s EXCEPT !.front = s.front + 1, !.curr_node = node, !.i = 0] \in MeetLocal
      BY <1>2, <2>1, <3>1 DEF MeetLocal
    <3>3. my' = [my EXCEPT ![k] = [s EXCEPT !.front = s.front + 1, !.curr_node = node, !.i = 0]]
      BY <1>1, <1>2
    <3> QED
      BY <1>2, <3>2, <3>3
  <2>3. \A b \in HouseIndex : b \in my'[b].visited
    BY <1>0, <1>3, <1>4 DEF MeetTypeInv
  <2>4. MeetLocal' = MeetLocal
    BY <1>5 DEF MeetLocal
  <2> QED
    BY <1>0, <1>1, <1>5, <2>2, <2>3, <2>4 DEF MeetTypeInv
<1>12. \A a \in HouseIndex :
         /\ my'[a].visited = my[a].visited
         /\ my'[a].curr_depth \in Nat /\ my'[a].curr_depth >= my[a].curr_depth
         /\ pc'[a] = "end" => \A b \in HouseIndex : a # b =>
              DepthOf(a, b) > 0 /\ DepthOf(a, b) =< my'[a].curr_depth
  <2> SUFFICES ASSUME NEW a \in HouseIndex
               PROVE  /\ my'[a].visited = my[a].visited
                      /\ my'[a].curr_depth \in Nat /\ my'[a].curr_depth >= my[a].curr_depth
                      /\ pc'[a] = "end" => \A b \in HouseIndex : a # b =>
                           DepthOf(a, b) > 0 /\ DepthOf(a, b) =< my'[a].curr_depth
    OBVIOUS
  <2>1. my'[a].curr_depth = my[a].curr_depth /\ my'[a].visited = my[a].visited
    BY <1>3, <1>4
  <2>2. my[a].curr_depth \in Nat
    BY <1>0, MarksTell
  <2>3. pc[a] = "end" => \A b \in HouseIndex : a # b =>
          DepthOf(a, b) > 0 /\ DepthOf(a, b) =< my[a].curr_depth
    BY <1>0 DEF MetInv
  <2>4. pc'[a] = pc[a] /\ my'[a].curr_depth >= my[a].curr_depth
    BY <1>1, <2>1, <2>2, SMTT(40)
  <2> QED
    BY <2>1, <2>2, <2>3, <2>4
<1>13. MetInv' /\ SharedInv' /\ CoverInv'
  BY <1>1, <1>12, MeetingsStay
<1> QED
  BY <1>10, <1>11, <1>13

LEMMA NextLevelMet ==
  ASSUME MeetIInv, NEW k \in HouseIndex, Meeting!NextLevel(k)
  PROVE  MeetTypeInv' /\ BreadthInv' /\ MetInv' /\ SharedInv' /\ CoverInv'
<1> DEFINE G == input.graph
           s == my[k]
<1>0. GivenInv /\ MeetTypeInv /\ BreadthInv /\ MetInv
  BY DEF MeetIInv
<1>1. /\ s.queue[s.front + 1] = 0 /\ Meeting!Unmarked(k) = {}
      /\ my' = [my EXCEPT ![k].front = @ + 1, ![k].curr_node = 0, ![k].i = 0,
                          ![k].curr_depth = @ + 1, ![k].queue = Append(@, 0),
                          ![k].fences = Append(@, s.front)]
      /\ pc' = [pc EXCEPT ![k] = IF s.visited = HouseIndex THEN "end" ELSE "search"]
      /\ UNCHANGED <<input, apart, g_vertex_flag, g_visit_info>>
  BY SameNames DEF Meeting!NextLevel, Meeting!FENCE, Meeting!MetAll, Meeting!given
<1>2. s \in MeetLocal /\ my \in [HouseIndex -> MeetLocal]
  BY <1>0 DEF MeetTypeInv
<1>3. /\ my'[k].front = s.front + 1 /\ my'[k].curr_node = 0 /\ my'[k].i = 0
      /\ my'[k].queue = Append(s.queue, 0) /\ my'[k].fences = Append(s.fences, s.front)
      /\ my'[k].curr_depth = s.curr_depth + 1 /\ my'[k].visited = s.visited
  BY <1>1, <1>2 DEF MeetLocal
<1>4. \A b \in HouseIndex \ {k} : my'[b] = my[b] /\ pc'[b] = pc[b]
  BY <1>0, <1>1, <1>2 DEF MeetTypeInv
<1>5. HouseIndex' = HouseIndex /\ \A b : house(b)' = house(b) /\ Marks(b)' = Marks(b)
  BY <1>1, SMTT(40) DEF HouseIndex, house, house_num, Marks
<1>6. PICK P : SearchRight(G, house(k), Marks(k), s, P)
  BY <1>0 DEF BreadthInv
<1>7. Connected(G) /\ house(k) \in Vertex(G)
  BY <1>0, HouseFacts
<1>8. LevelStep(G, Marks(k), s, my'[k])
  BY <1>0, <1>1, <1>3, NextUnmarked DEF LevelStep, TakeStep
<1>9. SearchRight(G, house(k), Marks(k), my'[k], Len(s.queue) + 1)
  BY <1>6, <1>7, <1>8, LevelSearch, SMTT(40)
<1>10. BreadthInv'
  <2> SUFFICES ASSUME NEW b \in HouseIndex
               PROVE  \E Q : SearchRight(G, house(b), Marks(b), my'[b], Q)
    BY <1>1, <1>5 DEF BreadthInv
  <2>1. CASE b = k
    BY <1>9, <2>1
  <2>2. CASE b # k
    <3>1. \E Q : SearchRight(G, house(b), Marks(b), my[b], Q)
      BY <1>0 DEF BreadthInv
    <3> QED
      BY <1>4, <2>2, <3>1
  <2> QED
    BY <2>1, <2>2
<1>11. MeetTypeInv'
  <2>1. Append(s.queue, 0) \in Seq(Nat) /\ Append(s.fences, s.front) \in Seq(Nat)
    BY <1>2 DEF MeetLocal
  <2>2. my' \in [HouseIndex -> MeetLocal]
    <3>1. s.front + 1 \in Nat /\ s.curr_depth + 1 \in Nat
      BY <1>2 DEF MeetLocal
    <3>2. PICK t : t = [s EXCEPT !.front = s.front + 1, !.curr_node = 0, !.i = 0,
                                 !.curr_depth = s.curr_depth + 1, !.queue = Append(s.queue, 0),
                                 !.fences = Append(s.fences, s.front)]
      OBVIOUS
    <3>3. t \in MeetLocal
      BY <1>2, <2>1, <3>1, <3>2 DEF MeetLocal
    <3>4. my' = [my EXCEPT ![k] = t]
      BY <1>1, <1>2, <3>2
    <3> QED
      BY <1>2, <3>3, <3>4
  <2>3. \A b \in HouseIndex : b \in my'[b].visited
    BY <1>0, <1>3, <1>4 DEF MeetTypeInv
  <2>4. MeetLocal' = MeetLocal
    BY <1>5 DEF MeetLocal
  <2>5. pc' \in [HouseIndex -> {"search", "end"}]
    BY <1>0, <1>1 DEF MeetTypeInv
  <2> QED
    BY <1>0, <1>1, <1>5, <2>2, <2>3, <2>4, <2>5 DEF MeetTypeInv
<1>12. \A a \in HouseIndex :
         /\ my'[a].visited = my[a].visited
         /\ my'[a].curr_depth \in Nat /\ my'[a].curr_depth >= my[a].curr_depth
         /\ pc'[a] = "end" => \A b \in HouseIndex : a # b =>
              DepthOf(a, b) > 0 /\ DepthOf(a, b) =< my'[a].curr_depth
  <2> SUFFICES ASSUME NEW a \in HouseIndex
               PROVE  /\ my'[a].visited = my[a].visited
                      /\ my'[a].curr_depth \in Nat /\ my'[a].curr_depth >= my[a].curr_depth
                      /\ pc'[a] = "end" => \A b \in HouseIndex : a # b =>
                           DepthOf(a, b) > 0 /\ DepthOf(a, b) =< my'[a].curr_depth
    OBVIOUS
  <2>1. my[a].curr_depth \in Nat
    BY <1>0, MarksTell
  <2>2. CASE a = k
    <3>1. my'[a].curr_depth = my[a].curr_depth + 1 /\ my'[a].visited = my[a].visited
      BY <1>3, <2>2
    <3>2. pc'[a] = "end" => my[a].visited = HouseIndex
      BY <1>0, <1>1, <2>2 DEF MeetTypeInv
    <3>3. \A b \in HouseIndex : a # b /\ b \in my[a].visited =>
             DepthOf(a, b) > 0 /\ DepthOf(a, b) =< my[a].curr_depth + 1
      BY <1>0 DEF MetInv
    <3> QED
      BY <2>1, <3>1, <3>2, <3>3
  <2>3. CASE a # k
    <3>1. my'[a] = my[a] /\ pc'[a] = pc[a]
      BY <1>4, <2>3, SMTT(40)
    <3> QED
      BY <1>0, <2>1, <3>1 DEF MetInv
  <2> QED
    BY <2>2, <2>3
<1>13. MetInv' /\ SharedInv' /\ CoverInv'
  BY <1>1, <1>12, MeetingsStay
<1> QED
  BY <1>10, <1>11, <1>13

----------------------------------------------------------------------------
(* The answer.                                                             *)

\* If the depths make up the distance, the place where a met b is not in the level
\* before the one in which b met a.
LEMMA NotInLevel ==
  ASSUME MeetIInv, NEW a \in HouseIndex, NEW b \in HouseIndex, a # b, pc[a] = "end", pc[b] = "end",
         DepthOf(a, b) + DepthOf(b, a) = apart[<<a, b>>]
  PROVE  Meeting!LooksFor(b, DepthOf(b, a) - 1, PlaceOf(a, b)) = {FALSE}
<1>0. GivenInv /\ MeetTypeInv /\ BreadthInv /\ MetInv
  BY DEF MeetIInv
<1>1. PICK e \in Nat : e = DepthOf(b, a)
  BY <1>0 DEF MeetTypeInv, DepthOf
<1>2. PICK v : v = PlaceOf(a, b)
  OBVIOUS
<1>3. PICK c \in Nat : c = my[b].curr_depth
  BY <1>0, MarksTell
<1>4. /\ e > 0 /\ e =< c
      /\ DepthOf(a, b) > 0 /\ v \in Marks(a) /\ FarOf(a, v) = DepthOf(a, b)
  BY <1>0, <1>1, <1>2, <1>3 DEF MetInv
<1>5. v \in Vertex(input.graph) /\ v # 0 /\ FarOf(a, v) \in Nat /\ FarOf(b, v) \in Nat
  <2>1. v \in Vertex(input.graph)
    BY <1>4 DEF Marks
  <2> QED
    BY <1>0, <2>1, HouseFacts DEF Vertex
<1>6. FarOf(b, v) # e - 1
  <2>1. /\ Connected(input.graph) /\ house(a) \in Vertex(input.graph)
        /\ house(b) \in Vertex(input.graph) /\ apart[<<a, b>>] = FarOf(a, house(b))
        /\ FarOf(a, house(b)) \in Nat
    BY <1>0, HouseFacts
  <2>2. FarOf(a, house(b)) =< FarOf(a, v) + Far(input.graph, v, house(b))
    BY <1>5, <2>1, FarMetric DEF FarOf
  <2>3. Far(input.graph, v, house(b)) = FarOf(b, v)
    BY <1>5, <2>1, FarMetric DEF FarOf
  <2> QED
    BY <1>1, <1>4, <1>5, <2>1, <2>2, <2>3
<1>7. PICK P : SearchRight(input.graph, house(b), Marks(b), my[b], P)
  BY <1>0 DEF BreadthInv
<1>8. PICK f : f = my[b].fences
  OBVIOUS
<1>9. /\ Len(f) = c + 1
      /\ f[e] \in Nat /\ f[e + 1] \in Nat
      /\ \A j \in f[e] + 1 .. f[e + 1] : my[b].queue[j] # 0 => FarOf(b, my[b].queue[j]) = e - 1
  <2>1. e \in 1 .. c /\ e \in 1 .. c + 1 /\ e + 1 \in 1 .. c + 1
    BY <1>4
  <2>2. Connected(input.graph) /\ house(b) \in Vertex(input.graph)
    BY <1>0, HouseFacts
  <2>3. f[e] \in Nat /\ f[e + 1] \in Nat
    BY <1>3, <1>7, <1>8, <2>1, <2>2, SearchTypes
  <2> QED
    BY <1>3, <1>7, <1>8, <2>1, <2>3 DEF SearchRight, QueueInv, FarOf
<1>10. ~ \E j \in f[e] .. f[e + 1] - 1 : my[b].queue[j + 1] = v
  <2> SUFFICES ASSUME NEW j \in f[e] .. f[e + 1] - 1, my[b].queue[j + 1] = v PROVE FALSE
    OBVIOUS
  <2>1. j + 1 \in f[e] + 1 .. f[e + 1]
    BY <1>9
  <2> QED
    BY <1>5, <1>6, <1>9, <2>1
<1>11. (e - 1) + 1 = e /\ (e - 1) + 2 = e + 1 /\ e + 1 =< c + 1
  BY <1>3, <1>4
<1>12. Meeting!LooksFor(b, e - 1, v) = {\E j \in f[e] .. f[e + 1] - 1 : my[b].queue[j + 1] = v}
  BY <1>8, <1>9, <1>11 DEF Meeting!LooksFor
<1>13. {\E j \in f[e] .. f[e + 1] - 1 : my[b].queue[j + 1] = v} = {FALSE}
  BY <1>10
<1> QED
  BY <1>1, <1>2, <1>12, <1>13

\* The pairs of houses.
LEMMA PairFacts ==
  ASSUME GivenInv
  PROVE  /\ Meeting!Pairs = {q \in HouseIndex \X HouseIndex : q[1] < q[2]}
         /\ IsFiniteSet(Meeting!Pairs) /\ Meeting!Pairs # {}
         /\ \A p \in Meeting!Pairs : /\ p[1] \in HouseIndex /\ p[2] \in HouseIndex
                                     /\ p[1] # p[2] /\ p = <<p[1], p[2]>>
         /\ Meeting!LeastDistance = Min({apart[p] : p \in Meeting!Pairs})
         /\ Meeting!MostDistance = Max({apart[p] : p \in Meeting!Pairs})
<1> DEFINE S == {q \in HouseIndex \X HouseIndex : q[1] < q[2]}
<1>1. Meeting!Pairs = S
  BY SameNames DEF Meeting!Pairs
<1>2. house_num \in Nat /\ house_num >= 2 /\ \A k \in HouseIndex : k \in Nat
  BY HouseFacts
<1>3. IsFiniteSet(S) /\ S # {}
  <2>1. IsFiniteSet(HouseIndex)
    BY <1>2, FS_Interval DEF HouseIndex
  <2>2. IsFiniteSet(HouseIndex \X HouseIndex)
    BY <2>1, FS_Product
  <2>3. S \subseteq HouseIndex \X HouseIndex
    OBVIOUS
  <2>4. <<0, 1>> \in S
    BY <1>2 DEF HouseIndex
  <2> HIDE DEF S
  <2> QED
    BY <2>2, <2>3, <2>4, FS_Subset
<1>4. \A p \in S : p[1] \in HouseIndex /\ p[2] \in HouseIndex /\ p[1] # p[2] /\ p = <<p[1], p[2]>>
  BY <1>2
<1>5. Meeting!Distances = {apart[p] : p \in S}
  BY SameNames DEF Meeting!Distances
<1>6. /\ Meeting!LeastDistance = Min({apart[p] : p \in S})
      /\ Meeting!MostDistance = Max({apart[p] : p \in S})
  BY <1>5, SameNames DEF Meeting!LeastDistance, Meeting!MostDistance
<1> QED
  BY <1>1, <1>3, <1>4, <1>6

\* When all searches have ended every two have met each other.
LEMMA AllTell ==
  ASSUME MeetIInv, \A k \in HouseIndex : pc[k] = "end", NEW p \in Meeting!Pairs
  PROVE  /\ Meeting!Sum(p) \in {apart[p], apart[p] + 1}
         /\ Meeting!Sum(p) \in Nat /\ apart[p] \in Nat
         /\ Meeting!Sum(p) = apart[p] =>
              /\ Meeting!InLevel(p, Meeting!Depth(Meeting!Swap(p)) - 1) = {FALSE}
              /\ Meeting!InLevel(Meeting!Swap(p), Meeting!Depth(Meeting!Swap(Meeting!Swap(p))) - 1)
                   = {FALSE}
<1>0. GivenInv /\ MeetTypeInv /\ BreadthInv /\ MetInv /\ SharedInv /\ CoverInv
  BY DEF MeetIInv
<1>1. PICK a, b \in HouseIndex : p = <<a, b>> /\ a # b
  BY <1>0, PairFacts
<1>2. DepthOf(a, b) > 0 /\ DepthOf(b, a) > 0
  BY <1>0, <1>1 DEF MetInv
<1>3. /\ apart[<<a, b>>] \in Nat /\ DepthOf(a, b) \in Nat /\ DepthOf(b, a) \in Nat
      /\ DepthOf(a, b) + DepthOf(b, a) \in {apart[<<a, b>>], apart[<<a, b>>] + 1}
  BY <1>0, <1>1, <1>2, TwoTell
<1>4. /\ Meeting!Swap(p) = <<b, a>> /\ Meeting!Swap(Meeting!Swap(p)) = <<a, b>>
      /\ Meeting!Depth(<<a, b>>) = DepthOf(a, b) /\ Meeting!Depth(<<b, a>>) = DepthOf(b, a)
      /\ Meeting!Sum(p) = DepthOf(a, b) + DepthOf(b, a)
  BY <1>1 DEF Meeting!Swap, Meeting!Depth, Meeting!Sum, DepthOf
<1>5. \A d : /\ Meeting!InLevel(<<a, b>>, d) = Meeting!LooksFor(b, d, PlaceOf(a, b))
             /\ Meeting!InLevel(<<b, a>>, d) = Meeting!LooksFor(a, d, PlaceOf(b, a))
  BY DEF Meeting!InLevel, PlaceOf
<1>6. ASSUME Meeting!Sum(p) = apart[p]
      PROVE  /\ Meeting!LooksFor(b, DepthOf(b, a) - 1, PlaceOf(a, b)) = {FALSE}
             /\ Meeting!LooksFor(a, DepthOf(a, b) - 1, PlaceOf(b, a)) = {FALSE}
  <2>1. DepthOf(a, b) + DepthOf(b, a) = apart[<<a, b>>]
    BY <1>1, <1>4, <1>6
  <2>2. DepthOf(b, a) + DepthOf(a, b) = apart[<<b, a>>]
    <3>1. apart[<<b, a>>] = apart[<<a, b>>]
      BY <1>0, HouseFacts
    <3> QED
      BY <1>3, <2>1, <3>1
  <2> QED
    BY <1>1, <2>1, <2>2, NotInLevel
<1>7. /\ Meeting!Sum(p) \in {apart[p], apart[p] + 1}
      /\ Meeting!Sum(p) \in Nat /\ apart[p] \in Nat
  BY <1>1, <1>3, <1>4
<1>8. /\ Meeting!InLevel(p, Meeting!Depth(Meeting!Swap(p)) - 1)
           = Meeting!LooksFor(b, DepthOf(b, a) - 1, PlaceOf(a, b))
      /\ Meeting!InLevel(Meeting!Swap(p), Meeting!Depth(Meeting!Swap(Meeting!Swap(p))) - 1)
           = Meeting!LooksFor(a, DepthOf(a, b) - 1, PlaceOf(b, a))
  BY <1>1, <1>4, <1>5
<1> QED
  BY <1>6, <1>7, <1>8

LEMMA ResultMet ==
  ASSUME MeetIInv, Meeting!MakeResult
  PROVE  Meeting!AnswerWithinOne'
<1>1. GivenInv
  BY DEF MeetIInv
<1>2. \A k \in HouseIndex : pc[k] = "end"
  BY SameNames DEF Meeting!MakeResult
<1>3. UNCHANGED <<input, apart>>
  BY DEF Meeting!MakeResult, Meeting!given
<1> DEFINE S == Meeting!Pairs
           T == {Meeting!Sum(p) : p \in S}
           D == {apart[p] : p \in S}
           f == [p \in S |-> Meeting!Sum(p)]
<1>4. IsFiniteSet(S) /\ S # {}
  BY <1>1, PairFacts
<1>5. \A p \in S : Meeting!Sum(p) \in Nat /\ apart[p] \in Nat /\ Meeting!Sum(p) \in {apart[p], apart[p] + 1}
  BY <1>2, AllTell
<1>6. PICK min : min = Min(T)
  OBVIOUS
<1>7. PICK max : max = Max(T)
  OBVIOUS
<1>8. PICK least : least = Min(D)
  OBVIOUS
<1>9. PICK most : most = Max(D)
  OBVIOUS
<1>10. /\ least \in D /\ \A y \in D : least =< y
       /\ most \in D /\ \A y \in D : y =< most
       /\ D \subseteq Nat
  <2> HIDE DEF S, D
  <2>1. \A p \in S : apart[p] \in Nat
    BY <1>5
  <2> QED
    BY <1>4, <1>8, <1>9, <2>1, MinMaxOf DEF D
<1>11. /\ min \in T /\ \A y \in T : min =< y
       /\ max \in T /\ \A y \in T : y =< max
       /\ T \subseteq Nat
  <2>1. T = {f[p] : p \in S}
    OBVIOUS
  <2>2. \A p \in S : f[p] \in Nat
    BY <1>5
  <2> HIDE DEF S, T, f
  <2> QED
    BY <1>4, <1>6, <1>7, <2>1, <2>2, MinMaxOf
<1>12. min \in {least, least + 1} /\ max \in {most, most + 1} /\ min \in Nat /\ max \in Nat
       /\ least \in Nat /\ most \in Nat
  <2>1. PICK p \in S : least = apart[p]
    BY <1>10
  <2>2. PICK q \in S : most = apart[q]
    BY <1>10
  <2>3. PICK x \in S : min = Meeting!Sum(x)
    BY <1>11
  <2>4. PICK y \in S : max = Meeting!Sum(y)
    BY <1>11
  <2>5. least =< apart[x] /\ apart[y] =< most
    BY <1>10
  <2>6. min =< Meeting!Sum(p) /\ Meeting!Sum(q) =< max
    BY <1>11
  <2> HIDE DEF S
  <2>7. /\ Meeting!Sum(p) \in {apart[p], apart[p] + 1} /\ apart[p] \in Nat
        /\ Meeting!Sum(q) \in {apart[q], apart[q] + 1} /\ apart[q] \in Nat
        /\ Meeting!Sum(x) \in {apart[x], apart[x] + 1} /\ apart[x] \in Nat
        /\ Meeting!Sum(y) \in {apart[y], apart[y] + 1} /\ apart[y] \in Nat
    BY <1>5
  <2> QED
    BY <2>1, <2>2, <2>3, <2>4, <2>5, <2>6, <2>7
<1>13. Meeting!Min(T) = min /\ Meeting!Max(T) = max
  BY <1>6, <1>7, SameNames
<1>14. Meeting!Minima \subseteq {min - 1, min}
  BY <1>13 DEF Meeting!Minima
<1>15. Meeting!Maximum \in {max, max - 1}
  BY <1>13 DEF Meeting!Maximum
<1>16. ASSUME max = most PROVE Meeting!Maximum = max
  <2>1. PICK q \in S : most = apart[q]
    BY <1>10
  <2>2. Meeting!Sum(q) =< max /\ Meeting!Sum(q) \in {apart[q], apart[q] + 1}
    BY <1>5, <1>11
  <2>3. Meeting!Sum(q) = max /\ Meeting!Sum(q) = apart[q]
    <3> HIDE DEF S
    <3> QED
      BY <1>12, <1>16, <2>1, <2>2
  <2>4. /\ Meeting!InLevel(q, Meeting!Depth(Meeting!Swap(q)) - 1) = {FALSE}
        /\ Meeting!InLevel(Meeting!Swap(q), Meeting!Depth(Meeting!Swap(Meeting!Swap(q))) - 1) = {FALSE}
    BY <1>2, <2>3, AllTell
  <2> QED
    BY <1>13, <2>3, <2>4 DEF Meeting!Maximum
<1>17. Meeting!LeastDistance = least /\ Meeting!MostDistance = most
  BY <1>1, <1>8, <1>9, PairFacts
<1>18. Meeting!LeastDistance' = least /\ Meeting!MostDistance' = most
  <2>1. Meeting!LeastDistance' = Meeting!LeastDistance /\ Meeting!MostDistance' = Meeting!MostDistance
    BY <1>3 DEF Meeting!LeastDistance, Meeting!MostDistance, Meeting!Distances, Meeting!HouseIndex,
         Meeting!house_num
  <2> QED
    BY <1>17, <2>1
<1>19. PICK m \in Meeting!Minima : printed' = <<m, Meeting!Maximum>>
  BY DEF Meeting!MakeResult
<1>20. m \in least - 1 .. least + 1
  BY <1>12, <1>14, <1>19
<1>21. Meeting!Maximum \in {most, most + 1}
  BY <1>12, <1>15, <1>16
<1> QED
  BY <1>18, <1>19, <1>20, <1>21 DEF Meeting!AnswerWithinOne

----------------------------------------------------------------------------
(* All together.                                                           *)

LEMMA AnswerStays ==
  ASSUME Meeting!AnswerWithinOne, UNCHANGED <<input, apart, printed>>
  PROVE  Meeting!AnswerWithinOne'
<1>1. Meeting!LeastDistance' = Meeting!LeastDistance /\ Meeting!MostDistance' = Meeting!MostDistance
  BY DEF Meeting!LeastDistance, Meeting!MostDistance, Meeting!Distances, Meeting!HouseIndex,
       Meeting!house_num
<1> QED
  BY <1>1 DEF Meeting!AnswerWithinOne

LEMMA MeetSame ==
  ASSUME MeetIInv, UNCHANGED <<input, apart, g_vertex_flag, g_visit_info, pc, my>>
  PROVE  GivenInv' /\ MeetTypeInv' /\ BreadthInv' /\ MetInv' /\ SharedInv' /\ CoverInv'
<1>1. GivenInv /\ MeetTypeInv /\ BreadthInv /\ MetInv
  BY DEF MeetIInv
<1>2. GivenInv'
  BY <1>1, GivenStays
<1>3. HouseIndex' = HouseIndex /\ \A k : house(k)' = house(k) /\ Marks(k)' = Marks(k)
  BY DEF HouseIndex, house, house_num, Marks
<1>4. MeetTypeInv'
  BY <1>1, <1>3 DEF MeetTypeInv, MeetLocal
<1>5. BreadthInv'
  BY <1>1, <1>3 DEF BreadthInv
<1>6. \A a \in HouseIndex :
         /\ my'[a].visited = my[a].visited
         /\ my'[a].curr_depth \in Nat /\ my'[a].curr_depth >= my[a].curr_depth
  BY <1>1 DEF MeetTypeInv, MeetLocal
<1>7. \A a \in HouseIndex : pc'[a] = "end" => \A b \in HouseIndex : a # b =>
         DepthOf(a, b) > 0 /\ DepthOf(a, b) =< my'[a].curr_depth
  BY <1>1 DEF MetInv
<1>8. MetInv' /\ SharedInv' /\ CoverInv'
  BY <1>6, <1>7, MeetingsStay
<1> QED
  BY <1>2, <1>4, <1>5, <1>8

LEMMA MeetNext ==
  ASSUME MeetIInv, Shallow, Meeting!Next
  PROVE  MeetIInv'
<1>1. /\ input' = input /\ apart' = apart /\ HouseIndex' = HouseIndex
      /\ \A k : house(k)' = house(k)
      /\ \A k, w : FarOf(k, w)' = FarOf(k, w)
      /\ GivenInv'
  BY GivenStays DEF MeetIInv
<1>2. ASSUME printed' = printed PROVE Meeting!AnswerWithinOne'
  BY <1>1, <1>2, AnswerStays DEF MeetIInv
<1>3. ASSUME NEW k \in HouseIndex, Meeting!Mark(k) PROVE MeetIInv'
  <2>1. MeetTypeInv' /\ BreadthInv'
    BY <1>3, MarkEffect DEF MeetIInv
  <2>2. PICK v, news : Marking(k, v, news)
    BY <1>3, MarkEffect DEF MeetIInv
  <2>3. MetInv' /\ SharedInv' /\ CoverInv'
    BY <1>1, <2>2, MarkMet
  <2>4. printed' = printed
    BY <2>2 DEF Marking
  <2> QED
    BY <1>1, <1>2, <2>1, <2>3, <2>4 DEF MeetIInv
<1>4. ASSUME NEW k \in HouseIndex, Meeting!Dequeue(k) PROVE MeetIInv'
  <2>1. MeetTypeInv' /\ BreadthInv' /\ MetInv' /\ SharedInv' /\ CoverInv'
    BY <1>4, DequeueMet
  <2>2. printed' = printed
    BY <1>4 DEF Meeting!Dequeue
  <2> QED
    BY <1>1, <1>2, <2>1, <2>2 DEF MeetIInv
<1>5. ASSUME NEW k \in HouseIndex, Meeting!NextLevel(k) PROVE MeetIInv'
  <2>1. MeetTypeInv' /\ BreadthInv' /\ MetInv' /\ SharedInv' /\ CoverInv'
    BY <1>5, NextLevelMet
  <2>2. printed' = printed
    BY <1>5 DEF Meeting!NextLevel
  <2> QED
    BY <1>1, <1>2, <2>1, <2>2 DEF MeetIInv
<1>6. ASSUME Meeting!MakeResult PROVE MeetIInv'
  <2>1. UNCHANGED <<input, apart, g_vertex_flag, g_visit_info, pc, my>>
    BY <1>6 DEF Meeting!MakeResult, Meeting!given
  <2>2. MeetTypeInv' /\ BreadthInv' /\ MetInv' /\ SharedInv' /\ CoverInv'
    BY <2>1, MeetSame
  <2>3. Meeting!AnswerWithinOne'
    BY <1>6, ResultMet
  <2> QED
    BY <1>1, <2>2, <2>3 DEF MeetIInv
<1> QED
  BY <1>3, <1>4, <1>5, <1>6, SameNames DEF Meeting!Next

LEMMA OwnKeepsInput ==
  ASSUME Next
  PROVE  UNCHANGED input
  BY ZenonT(60) DEF Next, Test, Draw, Meet, Prune, PruneEnds, Report, Raise, SetIMax, Answer, given, shared,
         results

\* While project1_TA.cpp runs, on distances that fit, the invariant holds.
LEMMA EitherMeets == EitherSpec => [](~Own /\ Shallow => MeetIInv)
<1> DEFINE I == ~Own /\ Shallow => MeetIInv
<1>1. EitherInit => I
  BY MeetInit DEF EitherInit
<1>2. I /\ [EitherNext]_allVars => I'
  <2> SUFFICES ASSUME I, [EitherNext]_allVars, (~Own)', Shallow' PROVE MeetIInv'
    OBVIOUS
  <2>1. CASE Own /\ Next
    <3>1. input' = input
      BY <2>1, OwnKeepsInput
    <3> QED
      BY <2>1, <3>1 DEF Own
  <2>2. CASE ~Own /\ Meeting!Next
    <3>1. apart' = apart /\ HouseIndex' = HouseIndex
      BY <2>2, GivenStays
    <3>2. Shallow
      BY <3>1 DEF Shallow
    <3> QED
      BY <2>2, <3>2, MeetNext
  <2>3. CASE UNCHANGED allVars
    <3>1. UNCHANGED <<input, apart, g_vertex_flag, g_visit_info, pc, my>> /\ UNCHANGED <<input, apart, printed>>
      BY <2>3 DEF allVars, vars, meetVars, given
    <3>2. ~Own /\ Shallow
      BY <3>1 DEF Own, Shallow, HouseIndex, house_num
    <3>3. MeetIInv
      BY <3>2
    <3>4. Meeting!AnswerWithinOne'
      BY <3>1, <3>3, AnswerStays DEF MeetIInv
    <3> QED
      BY <3>1, <3>3, <3>4, MeetSame DEF MeetIInv
  <2> QED
    BY <2>1, <2>2, <2>3 DEF EitherNext
<1> QED
  BY <1>1, <1>2, PTL DEF EitherSpec

\* The guarantee in front of MakeResult of project1_TA.cpp, for every input whose
\* distances fit the 16 bits of a depth: the depths of the first meetings of two
\* searches add up to the distance of their houses, or to one more, whoever was
\* faster.
THEOREM SumsTell == EitherSpec => [](Shallow => MeetingSumTells)
<1>1. (~Own /\ Shallow => MeetIInv) => (Shallow => MeetingSumTells)
  <2> SUFFICES ASSUME MeetIInv PROVE Meeting!SumTells
    BY DEF MeetingSumTells
  <2>1. GivenInv /\ MeetTypeInv /\ BreadthInv /\ MetInv /\ SharedInv /\ CoverInv
    BY DEF MeetIInv
  <2>2. ASSUME NEW p \in Meeting!Pairs, Meeting!Depth(p) > 0, Meeting!Depth(Meeting!Swap(p)) > 0
        PROVE  Meeting!Sum(p) \in {apart[p], apart[p] + 1}
    <3>1. PICK a, b \in HouseIndex : p = <<a, b>> /\ a # b
      BY <2>1, PairFacts
    <3>2. /\ Meeting!Depth(p) = DepthOf(a, b) /\ Meeting!Depth(Meeting!Swap(p)) = DepthOf(b, a)
          /\ Meeting!Sum(p) = DepthOf(a, b) + DepthOf(b, a)
      BY <3>1 DEF Meeting!Swap, Meeting!Depth, Meeting!Sum, DepthOf
    <3> QED
      BY <2>1, <2>2, <3>1, <3>2, TwoTell
  <2> QED
    BY <2>2 DEF Meeting!SumTells
<1> QED
  BY <1>1, EitherMeets, PTL

\* project1_TA.cpp prints numbers at most one off, the greater never too small, for
\* every input whose distances fit the 16 bits of a depth and every order in which
\* the searches mark vertices, although MakeResult may read past the fences.
THEOREM AnswersWithinOne == EitherSpec => [](Shallow => MeetingAnswerWithinOne)
<1>1. (~Own /\ Shallow => MeetIInv) => (Shallow => MeetingAnswerWithinOne)
  BY DEF MeetIInv, MeetingAnswerWithinOne
<1> QED
  BY <1>1, EitherMeets, PTL
=============================================================================

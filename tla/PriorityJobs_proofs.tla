------------------------ MODULE PriorityJobs_proofs ------------------------
(***************************************************************************)
(* A priority queue's key in every state and step, for any jobs,           *)
(* priorities, retentions and bounds: the types; no leftovers of items     *)
(* that are gone; records that a trim finds; counters that add up; lowest  *)
(* priority first; and records that tell the attempts.                     *)
(*                                                                         *)
(* The type invariant comes first, since the places that a pop takes and a *)
(* requeue fills are counted from the finite, totally ordered ZSET.  Each  *)
(* other invariant is then one lemma about a step.                         *)
(***************************************************************************)
EXTENDS PriorityJobs, FiniteSetTheorems, SequenceTheorems, TLAPS

-----------------------------------------------------------------------------
(* The order of the ZSET.                                                  *)

(* The members of the ZSET are finitely many, and no two have the same     *)
(* sequence number: Redis's order of them is total.                        *)
Numbered ==
  /\ IsFiniteSet(waiting)
  /\ \A m, k \in waiting : m.seq = k.seq => m = k

(* What the order of members is about.                                     *)
Sortable == Numbered /\ \A m \in waiting : m.score \in Int /\ m.seq \in Int

(* The members before m, and m's place among all.                          *)
Below(m) == {k \in waiting : Before(k, m)}
Rank == [m \in waiting |-> 1 + Cardinality(Below(m))]

(* Members that come first have the smaller rank, and the ranks are        *)
(* 1, 2, ... without a gap.                                                *)
LEMMA RankFacts ==
  ASSUME Sortable
  PROVE  /\ Cardinality(waiting) \in Nat
         /\ Rank \in [waiting -> 1..Cardinality(waiting)]
         /\ \A a, b \in waiting : a # b => Before(a, b) \/ Before(b, a)
         /\ \A a, b \in waiting : Before(a, b) <=> Rank[a] < Rank[b]
         /\ \A a, b \in waiting : Rank[a] = Rank[b] => a = b
         /\ \A i \in 1..Cardinality(waiting) : \E m \in waiting : Rank[m] = i
<1> DEFINE N == Cardinality(waiting)
<1>1. N \in Nat /\ IsFiniteSet(waiting)
  BY FS_CardinalityType DEF Sortable, Numbered
<1>2. \A a, b \in waiting : a # b => Before(a, b) \/ Before(b, a)
  <2> SUFFICES ASSUME NEW a \in waiting, NEW b \in waiting, a # b
               PROVE  Before(a, b) \/ Before(b, a)
    OBVIOUS
  <2>1. a.seq # b.seq
    BY DEF Sortable, Numbered
  <2> QED BY <2>1 DEF Before, Sortable
<1>3. \A a, b \in waiting : Before(a, b) => ~Before(b, a) /\ a # b
  BY DEF Before, Sortable
<1>4. \A a, b, c \in waiting : Before(a, b) /\ Before(b, c) => Before(a, c)
  BY DEF Before, Sortable
<1>5. ASSUME NEW m \in waiting
      PROVE  /\ IsFiniteSet(Below(m)) /\ Cardinality(Below(m)) \in Nat
             /\ Rank[m] = 1 + Cardinality(Below(m))
             /\ Rank[m] \in 1..N
  <2>1. Below(m) \in SUBSET waiting /\ m \notin Below(m)
    BY <1>3 DEF Below
  <2>2. IsFiniteSet(Below(m)) /\ Cardinality(Below(m)) <= N /\ Cardinality(Below(m)) # N
    BY <1>1, <2>1, FS_Subset
  <2>3. Cardinality(Below(m)) \in Nat
    BY <2>2, FS_CardinalityType
  <2>4. Rank[m] = 1 + Cardinality(Below(m))
    BY DEF Rank
  <2> QED BY <1>1, <2>2, <2>3, <2>4
<1>6. ASSUME NEW a \in waiting, NEW b \in waiting, Before(a, b)
      PROVE  Rank[a] < Rank[b]
  <2>1. Below(a) \in SUBSET Below(b)
    BY <1>4, <1>6 DEF Below
  <2>2. a \in Below(b) /\ a \notin Below(a)
    BY <1>3, <1>6 DEF Below
  <2>3. Cardinality(Below(a)) <= Cardinality(Below(b)) /\ Cardinality(Below(a)) # Cardinality(Below(b))
    BY <1>5, <2>1, <2>2, FS_Subset
  <2> QED BY <1>5, <2>3
<1>7. \A a, b \in waiting : Rank[a] \in Int /\ Rank[b] \in Int
  BY <1>1, <1>5
<1>8. \A a, b \in waiting : Before(a, b) <=> Rank[a] < Rank[b]
  <2> SUFFICES ASSUME NEW a \in waiting, NEW b \in waiting, Rank[a] < Rank[b]
               PROVE  Before(a, b)
    BY <1>6
  <2>1. a # b /\ ~Before(b, a)
    BY <1>6, <1>7
  <2> QED BY <1>2, <2>1
<1>9. \A a, b \in waiting : Rank[a] = Rank[b] => a = b
  BY <1>2, <1>6, <1>7
<1>10. Rank \in [waiting -> 1..N]
  BY <1>5 DEF Rank
<1>11. Rank \in Injection(waiting, 1..N)
  BY <1>9, <1>10 DEF Injection, IsInjective
<1>12. IsFiniteSet(1..N) /\ Cardinality(1..N) = N
  <2>1. 1 \in Int /\ N \in Int
    BY <1>1
  <2>2. /\ IsFiniteSet(1..N)
        /\ Cardinality(1..N) = IF 1 > N THEN 0 ELSE N - 1 + 1
    BY <2>1, FS_Interval
  <2> QED BY <1>1, <2>2
<1>13. Rank \in Surjection(waiting, 1..N)
  BY <1>11, <1>12, FS_Injection
<1>14. \A i \in 1..N : \E m \in waiting : Rank[m] = i
  BY <1>13 DEF Surjection
<1> QED BY <1>1, <1>2, <1>8, <1>9, <1>10, <1>14

(* ZPOPMIN takes different members, as many as it is asked for and there   *)
(* are, and every one that stays comes after every one it took.            *)
LEMMA LowestFacts ==
  ASSUME Sortable, NEW n \in Nat
  PROVE  \E size \in 0..n :
         /\ DOMAIN Lowest(n) = 1..size
         /\ size <= Cardinality(waiting)
         /\ n > 0 /\ waiting # {} => size > 0
         /\ \A i \in 1..size : Lowest(n)[i] \in waiting
         /\ \A i, j \in 1..size : Lowest(n)[i] = Lowest(n)[j] => i = j
         /\ \A i \in 1..size, k \in waiting \ Range(Lowest(n)) : Before(Lowest(n)[i], k)
<1> DEFINE N == Cardinality(waiting)
           size == IF N < n THEN N ELSE n
           ms == Lowest(n)
<1>1. /\ N \in Nat
      /\ Rank \in [waiting -> 1..N]
      /\ \A a, b \in waiting : Before(a, b) <=> Rank[a] < Rank[b]
      /\ \A a, b \in waiting : Rank[a] = Rank[b] => a = b
      /\ \A i \in 1..N : \E m \in waiting : Rank[m] = i
  BY RankFacts
<1>2. size \in 0..n /\ size <= N /\ (N < n \/ size = n)
  BY <1>1
<1>3. ms = [i \in 1..size |-> CHOOSE m \in waiting : Rank[m] = i]
  BY Zenon DEF Lowest, Rank, Below
<1> HIDE DEF N, size, ms
<1>4. DOMAIN ms = 1..size
  BY <1>3
<1>5. ASSUME NEW i \in 1..size
      PROVE  ms[i] \in waiting /\ Rank[ms[i]] = i
  <2>1. i \in 1..N
    BY <1>1, <1>2
  <2>2. ms[i] = CHOOSE m \in waiting : Rank[m] = i
    BY <1>3
  <2> QED BY <1>1, <2>1, <2>2
<1>6. \A i, j \in 1..size : ms[i] = ms[j] => i = j
  BY <1>5
<1>7. ASSUME NEW i \in 1..size, NEW k \in waiting \ Range(ms)
      PROVE  Before(ms[i], k)
  <2>1. Rank[k] \in 1..N
    BY <1>1
  <2>2. Rank[k] \notin 1..size
    <3> SUFFICES ASSUME Rank[k] \in 1..size PROVE FALSE
      OBVIOUS
    <3>1. ms[Rank[k]] = k
      BY <1>1, <1>5
    <3> QED BY <1>4, <3>1 DEF Range
  <2>3. i < Rank[k]
    BY <1>1, <1>2, <2>1, <2>2
  <2> QED BY <1>1, <1>5, <2>3
<1>8. n > 0 /\ waiting # {} => size > 0
  <2>1. waiting # {} => N # 0
    BY FS_EmptySet DEF Sortable, Numbered, N
  <2> QED BY <1>1, <2>1 DEF size
<1> QED BY <1>2, <1>4, <1>5, <1>6, <1>7, <1>8 DEF ms, N

-----------------------------------------------------------------------------
(* The ZSETs of records as lists of ids.                                   *)

(* A list of ids, each once.                                               *)
IsList(z, S) == z \in Seq(S) /\ IsInjective(z)

(* A list as a function.                                                   *)
LEMMA ListFacts ==
  ASSUME NEW S, NEW z, IsList(z, S)
  PROVE  /\ Len(z) \in Nat
         /\ DOMAIN z = 1..Len(z)
         /\ Range(z) = {z[i] : i \in 1..Len(z)}
         /\ \A i \in 1..Len(z) : z[i] \in S
         /\ \A i, j \in 1..Len(z) : z[i] = z[j] => i = j
<1>1. Len(z) \in Nat /\ DOMAIN z = 1..Len(z)
  BY LenProperties DEF IsList
<1>2. \A i \in 1..Len(z) : z[i] \in S
  BY ElementOfSeq DEF IsList
<1> QED BY <1>1, <1>2 DEF Range, IsList, IsInjective

(* A sequence whose places are known is a list.                            *)
LEMMA MakeList ==
  ASSUME NEW S, NEW z \in Seq(S), \A i, j \in 1..Len(z) : z[i] = z[j] => i = j
  PROVE  IsList(z, S)
<1>1. DOMAIN z = 1..Len(z)
  BY LenProperties
<1> QED BY <1>1 DEF IsList, IsInjective

(* ZADD of a new id.                                                       *)
LEMMA AppendNew ==
  ASSUME NEW S, NEW z, IsList(z, S), NEW x \in S, x \notin Range(z)
  PROVE  IsList(Append(z, x), S) /\ Range(Append(z, x)) = Range(z) \cup {x}
<1> DEFINE L == Len(z)
           a == Append(z, x)
<1>1. /\ L \in Nat
      /\ Range(z) = {z[i] : i \in 1..L}
      /\ \A i, j \in 1..L : z[i] = z[j] => i = j
  BY ListFacts
<1>2. /\ a \in Seq(S)
      /\ Len(a) = L + 1
      /\ \A i \in 1..L : a[i] = z[i]
      /\ a[L + 1] = x
  BY AppendProperties DEF IsList
<1> HIDE DEF L, a
<1>3. \A i \in 1..L + 1 : i \in 1..L \/ i = L + 1
  BY <1>1
<1>4. \A i, j \in 1..L + 1 : a[i] = a[j] => i = j
  BY <1>1, <1>2, <1>3
<1>5. IsList(a, S)
  BY <1>2, <1>4, MakeList
<1>6. Range(a) = {a[i] : i \in 1..L + 1}
  BY <1>2, <1>5, ListFacts
<1>7. L + 1 \in 1..L + 1 /\ \A i \in 1..L : i \in 1..L + 1
  BY <1>1
<1>8. Range(a) = Range(z) \cup {x}
  BY <1>1, <1>2, <1>3, <1>6, <1>7
<1> QED BY <1>5, <1>8 DEF a

(* A trim that takes the first n ids leaves the others.                    *)
LEMMA SplitFacts ==
  ASSUME NEW S, NEW z, IsList(z, S), NEW n \in 0..Len(z)
  PROVE  /\ IsList(SubSeq(z, n + 1, Len(z)), S)
         /\ Range(SubSeq(z, 1, n)) \subseteq Range(z)
         /\ Range(SubSeq(z, n + 1, Len(z))) = Range(z) \ Range(SubSeq(z, 1, n))
<1> DEFINE L == Len(z)
           front == SubSeq(z, 1, n)
           back == SubSeq(z, n + 1, L)
<1>1. /\ L \in Nat /\ n \in Nat /\ n <= L
      /\ Range(z) = {z[i] : i \in 1..L}
      /\ \A i \in 1..L : z[i] \in S
      /\ \A i, j \in 1..L : z[i] = z[j] => i = j
  BY ListFacts
<1> HIDE DEF L, front, back
<1>2. /\ front \in Seq(S) /\ Len(front) = n
      /\ \A i \in 1..n : front[i] = z[i]
  <2>1. 1 \in Int /\ n \in Int /\ \A i \in 1..n : z[i] \in S
    BY <1>1
  <2>2. /\ front \in Seq(S)
        /\ Len(front) = IF 1 <= n THEN n - 1 + 1 ELSE 0
        /\ \A i \in 1..n - 1 + 1 : front[i] = z[1 + i - 1]
    BY <2>1, SubSeqProperties DEF front
  <2>3. n - 1 + 1 = n /\ \A i \in 1..n : 1 + i - 1 = i
    BY <1>1
  <2> QED BY <1>1, <2>2, <2>3
<1>3. /\ back \in Seq(S) /\ Len(back) = L - n
      /\ \A i \in 1..L - n : back[i] = z[n + i]
  <2>1. n + 1 \in Int /\ L \in Int /\ \A i \in n + 1..L : z[i] \in S
    BY <1>1
  <2>2. /\ back \in Seq(S)
        /\ Len(back) = IF n + 1 <= L THEN L - (n + 1) + 1 ELSE 0
        /\ \A i \in 1..L - (n + 1) + 1 : back[i] = z[n + 1 + i - 1]
    BY <2>1, SubSeqProperties DEF back
  <2>3. L - (n + 1) + 1 = L - n /\ \A i \in 1..L - n : n + 1 + i - 1 = n + i
    BY <1>1
  <2> QED BY <1>1, <2>2, <2>3
<1>4. \A i \in 1..L - n : n + i \in 1..L
  BY <1>1
<1>5. \A i, j \in 1..L - n : back[i] = back[j] => i = j
  <2> SUFFICES ASSUME NEW i \in 1..L - n, NEW j \in 1..L - n, back[i] = back[j]
               PROVE  i = j
    OBVIOUS
  <2>1. n + i = n + j
    BY <1>1, <1>3, <1>4
  <2> QED BY <1>1, <2>1
<1>6. IsList(back, S)
  BY <1>3, <1>5, MakeList
<1>7. Range(back) = {back[i] : i \in 1..L - n}
  BY <1>3, <1>6, ListFacts
<1>8. \A i, j \in 1..n : front[i] = front[j] => i = j
  <2>1. \A i \in 1..n : i \in 1..L
    BY <1>1
  <2> QED BY <1>1, <1>2, <2>1
<1>9. Range(front) = {front[i] : i \in 1..n}
  <2>1. IsList(front, S)
    BY <1>2, <1>8, MakeList
  <2> QED BY <1>2, <2>1, ListFacts
<1>10. Range(front) \subseteq Range(z)
  <2>1. \A i \in 1..n : i \in 1..L
    BY <1>1
  <2> QED BY <1>1, <1>2, <1>9, <2>1
<1>11. ASSUME NEW x PROVE x \in Range(back) <=> x \in Range(z) /\ x \notin Range(front)
  <2>1. ASSUME NEW i \in 1..L - n, x = back[i]
        PROVE  x \in Range(z) /\ x \notin Range(front)
    <3>1. x = z[n + i] /\ n + i \in 1..L
      BY <1>3, <1>4, <2>1
    <3>2. ASSUME NEW j \in 1..n, x = front[j] PROVE FALSE
      <4>1. z[j] = z[n + i] /\ j \in 1..L
        BY <1>1, <1>2, <3>1, <3>2
      <4>2. j = n + i
        BY <1>1, <3>1, <4>1
      <4> QED BY <1>1, <4>2
    <3> QED BY <1>1, <1>9, <3>1, <3>2
  <2>2. ASSUME NEW i \in 1..L, x = z[i], x \notin Range(front)
        PROVE  x \in Range(back)
    <3>1. ~(i <= n)
      <4> SUFFICES ASSUME i <= n PROVE FALSE
        OBVIOUS
      <4>1. i \in 1..n
        BY <1>1
      <4> QED BY <1>2, <1>9, <2>2, <4>1
    <3>2. i - n \in 1..L - n /\ n + (i - n) = i
      BY <1>1, <3>1
    <3>3. back[i - n] = x
      BY <1>3, <2>2, <3>2
    <3> QED BY <1>7, <3>2, <3>3
  <2> QED BY <1>1, <1>7, <2>1, <2>2
<1> QED BY <1>6, <1>10, <1>11 DEF front, back, L

(* ZREM leaves the other ids.                                              *)
LEMMA WithoutFacts ==
  ASSUME NEW S, NEW z, IsList(z, S), NEW x
  PROVE  IsList(Without(z, x), S) /\ Range(Without(z, x)) = Range(z) \ {x}
<1> DEFINE L == Len(z)
<1>1. /\ L \in Nat /\ DOMAIN z = 1..L
      /\ Range(z) = {z[i] : i \in 1..L}
      /\ \A i \in 1..L : z[i] \in S
      /\ \A i, j \in 1..L : z[i] = z[j] => i = j
  BY ListFacts
<1>2. CASE x \notin Range(z)
  BY <1>2 DEF Without
<1>3. CASE x \in Range(z)
  <2>1. PICK p \in 1..L : p = (CHOOSE i \in DOMAIN z : z[i] = x) /\ z[p] = x
    BY <1>1, <1>3
  <2> DEFINE front == SubSeq(z, 1, p - 1)
             back == SubSeq(z, p + 1, L)
             q == front \o back
  <2>2. Without(z, x) = q
    BY <1>3, <2>1 DEF Without, RemoveAt
  <2> HIDE DEF L, front, back, q
  <2>3. p \in Int /\ p <= L /\ 1 <= p
    BY <1>1
  <2>4. /\ front \in Seq(S) /\ Len(front) = p - 1
        /\ \A k \in 1..p - 1 : front[k] = z[k]
    <3>1. 1 \in Int /\ p - 1 \in Int /\ \A k \in 1..p - 1 : z[k] \in S
      BY <1>1, <2>3
    <3>2. /\ front \in Seq(S)
          /\ Len(front) = IF 1 <= p - 1 THEN p - 1 - 1 + 1 ELSE 0
          /\ \A k \in 1..p - 1 - 1 + 1 : front[k] = z[1 + k - 1]
      BY <3>1, SubSeqProperties DEF front
    <3>3. p - 1 - 1 + 1 = p - 1 /\ \A k \in 1..p - 1 : 1 + k - 1 = k
      BY <2>3
    <3> QED BY <2>3, <3>2, <3>3
  <2>5. /\ back \in Seq(S) /\ Len(back) = L - p
        /\ \A k \in 1..L - p : back[k] = z[p + k]
    <3>1. p + 1 \in Int /\ L \in Int /\ \A k \in p + 1..L : z[k] \in S
      BY <1>1, <2>3
    <3>2. /\ back \in Seq(S)
          /\ Len(back) = IF p + 1 <= L THEN L - (p + 1) + 1 ELSE 0
          /\ \A k \in 1..L - (p + 1) + 1 : back[k] = z[p + 1 + k - 1]
      BY <3>1, SubSeqProperties DEF back
    <3>3. L - (p + 1) + 1 = L - p /\ \A k \in 1..L - p : p + 1 + k - 1 = p + k
      BY <1>1, <2>3
    <3> QED BY <1>1, <2>3, <3>2, <3>3
  <2>6. /\ q \in Seq(S) /\ Len(q) = L - 1
        /\ \A k \in 1..L - 1 : q[k] = IF k < p THEN z[k] ELSE z[k + 1]
    <3>1. /\ q \in Seq(S) /\ Len(q) = Len(front) + Len(back)
          /\ \A k \in 1..Len(front) + Len(back) :
               q[k] = IF k <= Len(front) THEN front[k] ELSE back[k - Len(front)]
      BY <2>4, <2>5, ConcatProperties DEF q
    <3>2. Len(q) = L - 1 /\ Len(front) + Len(back) = L - 1
      BY <1>1, <2>3, <2>4, <2>5, <3>1
    <3>3. ASSUME NEW k \in 1..L - 1
          PROVE  q[k] = IF k < p THEN z[k] ELSE z[k + 1]
      <4>1. CASE k < p
        <5>1. k \in 1..p - 1 /\ k <= Len(front)
          BY <1>1, <2>3, <2>4, <4>1
        <5> QED BY <2>4, <3>1, <3>2, <4>1, <5>1
      <4>2. CASE ~(k < p)
        <5>1. /\ k - (p - 1) \in 1..L - p /\ ~(k <= Len(front))
              /\ p + (k - (p - 1)) = k + 1
          BY <1>1, <2>3, <2>4, <4>2
        <5>2. q[k] = back[k - (p - 1)]
          BY <2>4, <3>1, <3>2, <5>1
        <5> QED BY <2>5, <4>2, <5>1, <5>2
      <4> QED BY <4>1, <4>2
    <3> QED BY <3>1, <3>2, <3>3
  <2> DEFINE At(k) == IF k < p THEN k ELSE k + 1
  <2>7. \A k \in 1..L - 1 : At(k) \in 1..L /\ At(k) # p /\ q[k] = z[At(k)]
    BY <1>1, <2>3, <2>6
  <2>8. \A k, l \in 1..L - 1 : At(k) = At(l) => k = l
    BY <1>1, <2>3
  <2>9. \A i \in 1..L : i # p => \E k \in 1..L - 1 : At(k) = i
    <3> SUFFICES ASSUME NEW i \in 1..L, i # p PROVE \E k \in 1..L - 1 : At(k) = i
      OBVIOUS
    <3>1. CASE i < p
      BY <1>1, <2>3, <3>1
    <3>2. CASE ~(i < p)
      <4>1. i - 1 \in 1..L - 1 /\ ~(i - 1 < p) /\ i - 1 + 1 = i
        BY <1>1, <2>3, <3>2
      <4> QED BY <4>1
    <3> QED BY <3>1, <3>2
  <2> HIDE DEF At
  <2>10. IsList(q, S)
    <3>1. \A k, l \in 1..L - 1 : q[k] = q[l] => k = l
      BY <1>1, <2>7, <2>8
    <3> QED BY <2>6, <3>1, MakeList
  <2>11. Range(q) = {q[k] : k \in 1..L - 1}
    BY <2>6, <2>10, ListFacts
  <2>12. ASSUME NEW y PROVE y \in Range(q) <=> y \in Range(z) /\ y # x
    <3>1. ASSUME NEW k \in 1..L - 1, y = q[k] PROVE y \in Range(z) /\ y # x
      BY <1>1, <2>1, <2>7, <3>1
    <3>2. ASSUME NEW i \in 1..L, y = z[i], y # x PROVE y \in Range(q)
      BY <2>1, <2>7, <2>9, <2>11, <3>2
    <3> QED BY <1>1, <2>11, <3>1, <3>2
  <2> QED BY <2>2, <2>10, <2>12
<1> QED BY <1>2, <1>3

(* A trim never takes more than there are.                                 *)
LEMMA CutFacts ==
  ASSUME NEW n \in Nat, NEW k \in Nat, NEW old \in 0..n
  PROVE  Cut(n, k, old) \in 0..n
  BY BoundAssumption DEF Cut, Least

(* There are two states.                                                   *)
LEMMA OtherFacts ==
  ASSUME NEW s \in States
  PROVE  Other(s) \in States /\ Other(s) # s /\ States = {s, Other(s)}
<1>1. \E t \in States : t # s
  BY DEF States
<1>2. Other(s) \in States /\ Other(s) # s
  BY <1>1 DEF Other
<1> QED BY <1>2 DEF States

-----------------------------------------------------------------------------
(* Maps.                                                                   *)

(* HDEL.                                                                   *)
LEMMA DropFacts ==
  ASSUME NEW f, NEW X, NEW S, NEW T, IsMap(f, S, T)
  PROVE  /\ DOMAIN Drop(f, X) = DOMAIN f \ X
         /\ \A x \in DOMAIN f \ X : Drop(f, X)[x] = f[x]
         /\ IsMap(Drop(f, X), S, T)
  BY DEF Drop, IsMap

(* HSET.                                                                   *)
LEMMA PutFacts ==
  ASSUME NEW f, NEW S, NEW T, IsMap(f, S, T), NEW x \in S, NEW v \in T
  PROVE  /\ DOMAIN Put(f, x, v) = DOMAIN f \cup {x}
         /\ Put(f, x, v)[x] = v
         /\ \A y \in DOMAIN f \ {x} : Put(f, x, v)[y] = f[y]
         /\ IsMap(Put(f, x, v), S, T)
  BY DEF Put, IsMap

(* DEL.                                                                    *)
LEMMA EmptyFacts ==
  ASSUME NEW S, NEW T
  PROVE  DOMAIN EmptyMap = {} /\ IsMap(EmptyMap, S, T)
  BY DEF EmptyMap, IsMap

-----------------------------------------------------------------------------
(* Type correctness.                                                       *)

RecordIds == Envs \cup AckIds \cup {UserId}
Records == [state : States, attempts : Nat \ {0}]

(* The type invariant, with what keeps the order of the ZSET total and the *)
(* ZSETs of records lists of ids.                                          *)
TypeInv ==
  /\ TypeOK
  /\ Numbered
  /\ done \in [States -> Seq(RecordIds)]

(* The parts of TypeInv by name.                                           *)
LEMMA TypeFacts ==
  ASSUME TypeInv
  PROVE  /\ waiting \subseteq [job : Jobs, score : Priorities, seq : 1..seq]
         /\ seq \in Nat
         /\ IsMap(nacked, AckIds \cup {UserId}, Jobs)
         /\ IsMap(prio, AckIds, Priorities)
         /\ started \subseteq AckIds \cup {UserId}
         /\ IsMap(attempts, Envs, Nat \ {0})
         /\ stats \in [States \cup {"submitted"} -> Nat]
         /\ IsMap(records, RecordIds, Records)
         /\ done \in [States -> Seq(RecordIds)]
         /\ \A s \in States : IsList(done[s], RecordIds)
         /\ keep \in [Objects -> [States -> 0..MaxKeep]]
         /\ IsMap(given, Jobs, Priorities) /\ handed \in [Jobs -> Nat]
         /\ left \subseteq Jobs /\ prepared \subseteq left /\ uncounted \in Int
         /\ IsFiniteSet(waiting)
         /\ \A m, k \in waiting : m.seq = k.seq => m = k
  BY DEF TypeInv, TypeOK, Numbered, IsList, RecordIds, Records

(* The ZSET can be sorted.                                                 *)
LEMMA WaitingSortable ==
  ASSUME TypeInv
  PROVE  Sortable /\ \A m \in waiting : m.job \in Jobs /\ m.score \in Priorities /\ m.seq \in 1..seq
<1>1. /\ waiting \subseteq [job : Jobs, score : Priorities, seq : 1..seq]
      /\ seq \in Nat
  BY TypeFacts
<1>2. Priorities \subseteq Int
  BY PriorityAssumption
<1>3. \A m \in waiting : m.job \in Jobs /\ m.score \in Priorities /\ m.seq \in 1..seq
  BY <1>1
<1>4. \A m \in waiting : m.score \in Int /\ m.seq \in Int
  <2>1. \A i \in 1..seq : i \in Int
    BY <1>1
  <2> QED BY <1>2, <1>3, <2>1
<1> QED BY <1>3, <1>4 DEF Sortable, TypeInv

(* The items pending are finitely many.                                    *)
LEMMA PendingFinite ==
  ASSUME TypeInv
  PROVE  /\ IsFiniteSet(DOMAIN nacked) /\ Cardinality(DOMAIN nacked) \in Nat
         /\ IsFiniteSet(waiting) /\ Cardinality(waiting) \in Nat
<1>1. IsFiniteSet(1..MaxCalls) /\ IsFiniteSet(1..MaxWant)
  <2>1. 1 \in Int /\ MaxCalls \in Int /\ MaxWant \in Int
    BY BoundAssumption
  <2> QED BY <2>1, FS_Interval
<1>2. IsFiniteSet(AckIds)
  BY <1>1, FS_Product DEF AckIds
<1>3. IsFiniteSet(AckIds \cup {UserId})
  BY <1>2, FS_AddElement
<1>4. DOMAIN nacked \subseteq AckIds \cup {UserId}
  BY TypeFacts DEF IsMap
<1>5. IsFiniteSet(DOMAIN nacked)
  BY <1>3, <1>4, FS_Subset
<1> QED BY <1>5, TypeFacts, FS_CardinalityType

(* What a pop of `size' items does.                                        *)
Popped(call, want, size) ==
  LET ms == Lowest(want) IN
  /\ DOMAIN ms = 1..size
  /\ \A i \in 1..size : ms[i] \in waiting
  /\ \A i, j \in 1..size : ms[i] = ms[j] => i = j
  /\ waiting' = waiting \ Range(ms)
  /\ Range(ms) = {ms[i] : i \in 1..size}
  /\ \A i \in 1..size, k \in waiting' : Before(ms[i], k)
  /\ \A i \in 1..size : <<call, i>> \in AckIds /\ <<call, i>> \notin DOMAIN nacked
  /\ DOMAIN nacked' = DOMAIN nacked \cup {<<call, i>> : i \in 1..size}
  /\ \A x \in DOMAIN nacked : nacked'[x] = nacked[x]
  /\ \A i \in 1..size : nacked'[<<call, i>>] = ms[i].job
  /\ DOMAIN prio' = DOMAIN prio \cup {<<call, i>> : i \in 1..size}
  /\ \A x \in DOMAIN prio : x \in DOMAIN nacked => prio'[x] = prio[x]
  /\ \A x \in DOMAIN prio' :
       \/ x \in DOMAIN prio /\ prio'[x] = prio[x]
       \/ \E i \in 1..size : x = <<call, i>>
  /\ \A i \in 1..size : prio'[<<call, i>>] = ms[i].score
  /\ started' = started \cup {<<call, i>> : i \in 1..size}

(* A pop does so, of at least one item.                                    *)
LEMMA PopFacts ==
  ASSUME TypeInv, NEW call \in 1..MaxCalls, NEW want \in 1..MaxWant, Pop(call, want)
  PROVE  \E size \in 1..want : Popped(call, want, size)
<1> DEFINE ms == Lowest(want)
<1>1. want \in Nat /\ want > 0 /\ waiting # {}
  BY BoundAssumption DEF Pop
<1>2. PICK size \in 0..want :
         /\ DOMAIN ms = 1..size
         /\ size <= Cardinality(waiting)
         /\ want > 0 /\ waiting # {} => size > 0
         /\ \A i \in 1..size : ms[i] \in waiting
         /\ \A i, j \in 1..size : ms[i] = ms[j] => i = j
         /\ \A i \in 1..size, k \in waiting \ Range(ms) : Before(ms[i], k)
  BY <1>1, WaitingSortable, LowestFacts
<1>3. size \in 1..want
  BY <1>1, <1>2
<1> DEFINE new == {<<call, i>> : i \in 1..size}
<1>4. /\ {<<call, i>> : i \in 1..want} \cap DOMAIN nacked = {}
      /\ waiting' = waiting \ Range(ms)
      /\ nacked' = [id \in DOMAIN nacked \cup new |->
                      IF id \in new THEN ms[id[2]].job ELSE nacked[id]]
      /\ prio' = [id \in DOMAIN prio \cup new |->
                    IF id \in new THEN ms[id[2]].score ELSE prio[id]]
      /\ started' = started \cup new
  BY <1>2 DEF Pop
<1> HIDE DEF ms
<1>5. \A i \in 1..size : i \in 1..want /\ i \in 1..MaxWant
  BY <1>3, BoundAssumption
<1>6. \A i \in 1..size : <<call, i>> \in AckIds /\ <<call, i>> \notin DOMAIN nacked
  BY <1>4, <1>5 DEF AckIds
<1>7. \A i \in 1..size : <<call, i>>[2] = i /\ <<call, i>> \in new
  OBVIOUS
<1>8. \A x \in DOMAIN nacked : x \notin new
  BY <1>6
<1> HIDE DEF new
<1>9. /\ DOMAIN nacked' = DOMAIN nacked \cup new
      /\ \A x \in DOMAIN nacked : nacked'[x] = nacked[x]
      /\ \A i \in 1..size : nacked'[<<call, i>>] = ms[i].job
  BY <1>4, <1>7, <1>8
<1>10. /\ DOMAIN prio' = DOMAIN prio \cup new
       /\ \A x \in DOMAIN prio : x \in DOMAIN nacked => prio'[x] = prio[x]
       /\ \A x \in DOMAIN prio' : (x \in DOMAIN prio /\ prio'[x] = prio[x]) \/ x \in new
       /\ \A i \in 1..size : prio'[<<call, i>>] = ms[i].score
  BY <1>4, <1>7, <1>8
<1>11. Range(ms) = {ms[i] : i \in 1..size}
  BY <1>2 DEF Range
<1> QED BY <1>2, <1>3, <1>4, <1>6, <1>9, <1>10, <1>11 DEF ms, new, Popped

(* What an order of ids is.                                                *)
LEMMA OrderFacts ==
  ASSUME TypeInv, NEW S \in SUBSET DOMAIN nacked, NEW ids \in Orders(S)
  PROVE  /\ Len(ids) \in Nat
         /\ DOMAIN ids = 1..Len(ids)
         /\ Len(ids) = Cardinality(S) /\ IsFiniteSet(S)
         /\ \A i \in 1..Len(ids) : ids[i] \in S
         /\ \A i, j \in 1..Len(ids) : ids[i] = ids[j] => i = j
         /\ Range(ids) = S
<1>1. IsFiniteSet(S) /\ Cardinality(S) \in Nat
  BY PendingFinite, FS_Subset, FS_CardinalityType
<1>2. ids \in [1..Cardinality(S) -> S] /\ IsInjective(ids)
  BY DEF Orders
<1>3. ids \in Seq(S)
  BY <1>1, <1>2, SeqDef
<1>4. DOMAIN ids = 1..Len(ids) /\ Len(ids) \in Nat
  BY <1>3, LenProperties
<1>5. Len(ids) = Cardinality(S)
  BY <1>1, <1>2, <1>3
<1>6. ids \in Injection(1..Cardinality(S), S)
  BY <1>2 DEF Injection
<1>7. Cardinality(1..Cardinality(S)) = Cardinality(S)
  <2>1. 1 \in Int /\ Cardinality(S) \in Int
    BY <1>1
  <2>2. Cardinality(1..Cardinality(S)) = IF 1 > Cardinality(S) THEN 0 ELSE Cardinality(S) - 1 + 1
    BY <2>1, FS_Interval
  <2> QED BY <1>1, <2>2
<1>8. ids \in Surjection(1..Cardinality(S), S)
  BY <1>1, <1>6, <1>7, FS_Injection
<1>9. Range(ids) = S
  BY <1>2, <1>8 DEF Surjection, Range
<1> QED BY <1>1, <1>2, <1>4, <1>5, <1>9 DEF IsInjective

(* The attempt counts, zero for an id without one, and the places in ids   *)
(* of the items with an envelope id.                                       *)
Tries(e) == IF e \in DOMAIN attempts THEN attempts[e] ELSE 0
Times(ids, e) == {i \in DOMAIN ids : EnvOf[nacked[ids[i]]] = e}

(* requeued() adds to each count the number of items with its id.          *)
LEMMA RequeuedFacts ==
  ASSUME TypeInv, NEW S \in SUBSET DOMAIN nacked, NEW ids \in Orders(S),
         attempts' = Requeued(ids)
  PROVE  /\ IsMap(attempts', Envs, Nat \ {0})
         /\ \A e \in DOMAIN attempts' :
              e \in DOMAIN attempts \/ \E x \in S : EnvOf[nacked[x]] = e
         /\ \A e \in Envs : IsFiniteSet(Times(ids, e)) /\ Tries(e)' = Tries(e) + Cardinality(Times(ids, e))
<1>1. /\ Len(ids) \in Nat /\ DOMAIN ids = 1..Len(ids)
      /\ \A i \in 1..Len(ids) : ids[i] \in S
  BY OrderFacts
<1>2. IsMap(attempts, Envs, Nat \ {0})
  BY TypeFacts
<1>3. \A e : IsFiniteSet(Times(ids, e)) /\ Cardinality(Times(ids, e)) \in Nat
  <2> SUFFICES ASSUME NEW e
               PROVE  IsFiniteSet(Times(ids, e)) /\ Cardinality(Times(ids, e)) \in Nat
    OBVIOUS
  <2>1. 1 \in Int /\ Len(ids) \in Int
    BY <1>1
  <2>2. IsFiniteSet(DOMAIN ids)
    BY <1>1, <2>1, FS_Interval
  <2>3. Times(ids, e) \in SUBSET DOMAIN ids
    BY DEF Times
  <2> QED BY <2>2, <2>3, FS_Subset, FS_CardinalityType
<1> DEFINE times == [e \in Envs |-> Cardinality(Times(ids, e))]
<1>4. attempts' = [e \in DOMAIN attempts \cup {e \in Envs : times[e] > 0} |->
                     Tries(e) + times[e]]
  BY DEF Requeued, Times, Tries
<1>5. \A e \in Envs : times[e] = Cardinality(Times(ids, e)) /\ times[e] \in Nat
  BY <1>3
<1> HIDE DEF times
<1>6. DOMAIN attempts \subseteq Envs /\ \A e \in DOMAIN attempts : attempts[e] \in Nat \ {0}
  BY <1>2 DEF IsMap
<1>7. \A e : /\ Tries(e) \in Nat
             /\ e \in DOMAIN attempts => Tries(e) = attempts[e] /\ Tries(e) \in Nat \ {0}
             /\ e \notin DOMAIN attempts => Tries(e) = 0
  BY <1>6 DEF Tries
<1>8. /\ DOMAIN attempts' = DOMAIN attempts \cup {e \in Envs : times[e] > 0}
      /\ \A e \in DOMAIN attempts' : attempts'[e] = Tries(e) + times[e]
      /\ DOMAIN attempts' \subseteq Envs
  BY <1>4, <1>6
<1>9. \A e \in DOMAIN attempts' : attempts'[e] \in Nat \ {0}
  <2> SUFFICES ASSUME NEW e \in DOMAIN attempts' PROVE attempts'[e] \in Nat \ {0}
    OBVIOUS
  <2>1. attempts'[e] = Tries(e) + times[e] /\ times[e] \in Nat /\ Tries(e) \in Nat
    BY <1>5, <1>7, <1>8
  <2>2. Tries(e) > 0 \/ times[e] > 0
    BY <1>7, <1>8
  <2> QED BY <2>1, <2>2
<1>10. ASSUME NEW e \in DOMAIN attempts', e \notin DOMAIN attempts
       PROVE  \E x \in S : EnvOf[nacked[x]] = e
  <2>1. e \in Envs /\ times[e] > 0
    BY <1>8, <1>10
  <2>2. Times(ids, e) # {}
    BY <1>5, <2>1, FS_EmptySet
  <2> QED BY <1>1, <2>2 DEF Times
<1>11. ASSUME NEW e \in Envs
       PROVE  Tries(e)' = Tries(e) + Cardinality(Times(ids, e))
  <2>1. CASE e \in DOMAIN attempts'
    <3>1. Tries(e)' = attempts'[e]
      BY <2>1 DEF Tries
    <3> QED BY <1>5, <1>8, <2>1, <3>1
  <2>2. CASE e \notin DOMAIN attempts'
    <3>1. Tries(e)' = 0
      BY <2>2 DEF Tries
    <3>2. e \notin DOMAIN attempts /\ ~(times[e] > 0)
      BY <1>8, <2>2
    <3>3. Tries(e) = 0 /\ times[e] = 0
      BY <1>5, <1>7, <3>2
    <3> QED BY <1>5, <3>1, <3>3
  <2> QED BY <2>1, <2>2
<1> QED BY <1>3, <1>8, <1>9, <1>10, <1>11 DEF IsMap

(* The member that a requeue makes of the i-th of ids.                     *)
Back(ids, i) == Member(nacked[ids[i]], Score(ids[i]), seq + i)

(* What a requeue of the items S does to the ZSET and to what is pending.  *)
PutsBack(S, ids) ==
  /\ seq' = seq + Len(ids)
  /\ waiting' = waiting \cup {Back(ids, i) : i \in 1..Len(ids)}
  /\ \A i \in 1..Len(ids) :
       /\ Back(ids, i) \in [job : Jobs, score : Priorities, seq : 1..seq']
       /\ Back(ids, i).job = nacked[ids[i]]
       /\ Back(ids, i).score = Score(ids[i])
       /\ Back(ids, i).seq = seq + i
       /\ Back(ids, i) \notin waiting
  /\ DOMAIN nacked' = DOMAIN nacked \ S
  /\ \A x \in DOMAIN nacked \ S : nacked'[x] = nacked[x]
  /\ DOMAIN prio' = DOMAIN prio \ S
  /\ \A x \in DOMAIN prio \ S : prio'[x] = prio[x]
  /\ IsMap(nacked', AckIds \cup {UserId}, Jobs) /\ IsMap(prio', AckIds, Priorities)
  /\ started' = started \ S

(* A requeue does so.                                                      *)
LEMMA RequeueFacts ==
  ASSUME TypeInv, NEW S \in SUBSET DOMAIN nacked, NEW ids \in Orders(S), Requeue(ids)
  PROVE  PutsBack(S, ids)
<1> DEFINE n == Len(ids)
<1>1. /\ n \in Nat /\ DOMAIN ids = 1..n
      /\ \A i \in 1..n : ids[i] \in S
      /\ Range(ids) = S
  BY OrderFacts
<1>2. /\ waiting' = waiting \cup {Member(nacked[ids[i]], Score(ids[i]), seq + i) : i \in DOMAIN ids}
      /\ seq' = seq + n
      /\ nacked' = Drop(nacked, S) /\ prio' = Drop(prio, S)
      /\ started' = started \ S
  BY <1>1 DEF Requeue
<1>3. waiting' = waiting \cup {Back(ids, i) : i \in 1..n}
  BY <1>1, <1>2 DEF Back
<1>4. /\ seq \in Nat
      /\ IsMap(nacked, AckIds \cup {UserId}, Jobs)
      /\ IsMap(prio, AckIds, Priorities)
  BY TypeFacts
<1>5. ASSUME NEW i \in 1..n
      PROVE  /\ Back(ids, i) \in [job : Jobs, score : Priorities, seq : 1..seq']
             /\ Back(ids, i).job = nacked[ids[i]]
             /\ Back(ids, i).score = Score(ids[i])
             /\ Back(ids, i).seq = seq + i
             /\ Back(ids, i) \notin waiting
  <2>1. seq + i \in 1..seq' /\ ~(seq + i <= seq)
    BY <1>1, <1>2, <1>4
  <2>2. nacked[ids[i]] \in Jobs
    BY <1>1, <1>4 DEF IsMap
  <2>3. Score(ids[i]) \in Priorities
    BY <1>4, PriorityAssumption DEF Score, IsMap
  <2>4. /\ Back(ids, i) \in [job : Jobs, score : Priorities, seq : 1..seq']
        /\ Back(ids, i).job = nacked[ids[i]]
        /\ Back(ids, i).score = Score(ids[i])
        /\ Back(ids, i).seq = seq + i
    BY <2>1, <2>2, <2>3 DEF Back, Member
  <2>5. \A m \in waiting : m.seq \in 1..seq
    BY WaitingSortable
  <2>6. \A j \in 1..seq : j <= seq
    BY <1>4
  <2> QED BY <2>1, <2>4, <2>5, <2>6
<1>6. /\ DOMAIN nacked' = DOMAIN nacked \ S
      /\ \A x \in DOMAIN nacked \ S : nacked'[x] = nacked[x]
      /\ IsMap(nacked', AckIds \cup {UserId}, Jobs)
  BY <1>2, <1>4, DropFacts
<1>7. /\ DOMAIN prio' = DOMAIN prio \ S
      /\ \A x \in DOMAIN prio \ S : prio'[x] = prio[x]
      /\ IsMap(prio', AckIds, Priorities)
  BY <1>2, <1>4, DropFacts
<1> QED BY <1>2, <1>3, <1>5, <1>6, <1>7 DEF PutsBack

(* The parts of a finish.                                                  *)
FinishedId(id) == RecordId(nacked[id], id)
FinishedTries(id) == 1 + Tries(EnvOf[nacked[id]])
FinishedList(o, id, state) ==
  IF keep[o][state] > 0 THEN Append(Without(done[state], FinishedId(id)), FinishedId(id))
  ELSE done[state]
FinishedCut(o, id, state, old) ==
  Cut(Len(FinishedList(o, id, state)), keep[o][state], old)
FinishedRecords(o, id, state) ==
  IF keep[o][state] > 0
  THEN Put(records, FinishedId(id), [state |-> state, attempts |-> FinishedTries(id)])
  ELSE Drop(records, {FinishedId(id)})

(* What a finish does to the records.                                      *)
LEMMA FinishFacts ==
  ASSUME TypeInv, NEW o \in Objects, NEW id \in DOMAIN nacked, NEW state \in States,
         NEW old \in Ages, Finish(o, id, state, old)
  PROVE  /\ FinishedId(id) \in RecordIds
         /\ FinishedTries(id) \in Nat \ {0}
         /\ IsMap(FinishedRecords(o, id, state), RecordIds, Records)
         /\ IsList(FinishedList(o, id, state), RecordIds)
         /\ FinishedCut(o, id, state, old) \in 0..Len(FinishedList(o, id, state))
         /\ done' \in [States -> Seq(RecordIds)]
         /\ done'[state] = SubSeq(FinishedList(o, id, state), FinishedCut(o, id, state, old) + 1,
                                  Len(FinishedList(o, id, state)))
         /\ done'[Other(state)] = Without(done[Other(state)], FinishedId(id))
         /\ records' = Drop(FinishedRecords(o, id, state),
                            Range(SubSeq(FinishedList(o, id, state), 1,
                                         FinishedCut(o, id, state, old))))
         /\ \A s \in States : IsList(done'[s], RecordIds)
<1> DEFINE rid == FinishedId(id)
           z == FinishedList(o, id, state)
           n == FinishedCut(o, id, state, old)
           rs == FinishedRecords(o, id, state)
           t == Other(state)
<1>1. /\ done' = [done EXCEPT ![state] = SubSeq(z, n + 1, Len(z)),
                              ![t] = Without(@, rid)]
      /\ records' = Drop(rs, Range(SubSeq(z, 1, n)))
      /\ old < Len(z) \/ old = 0
  BY DEF Finish, FinishedId, FinishedTries, FinishedList, FinishedCut, FinishedRecords, Tries
<1>2. /\ IsMap(nacked, AckIds \cup {UserId}, Jobs)
      /\ IsMap(attempts, Envs, Nat \ {0})
      /\ IsMap(records, RecordIds, Records)
      /\ done \in [States -> Seq(RecordIds)]
      /\ \A s \in States : IsList(done[s], RecordIds)
      /\ keep \in [Objects -> [States -> 0..MaxKeep]]
  BY TypeFacts
<1>3. t \in States /\ t # state /\ States = {state, t}
  BY OtherFacts
<1>4. rid \in RecordIds
  <2>1. id \in AckIds \cup {UserId} /\ nacked[id] \in Jobs
    BY <1>2 DEF IsMap
  <2> QED BY <2>1, EnvAssumption DEF FinishedId, RecordId, RecordIds
<1>5. FinishedTries(id) \in Nat \ {0}
  <2>1. Tries(EnvOf[nacked[id]]) \in Nat
    BY <1>2 DEF Tries, IsMap
  <2> QED BY <2>1 DEF FinishedTries
<1>6. IsMap(rs, RecordIds, Records)
  <2>1. [state |-> state, attempts |-> FinishedTries(id)] \in Records
    BY <1>5 DEF Records
  <2>2. CASE keep[o][state] > 0
    BY <1>2, <1>4, <2>1, <2>2, PutFacts DEF FinishedRecords
  <2>3. CASE ~(keep[o][state] > 0)
    BY <1>2, <2>3, DropFacts DEF FinishedRecords
  <2> QED BY <2>2, <2>3
<1>7. IsList(z, RecordIds)
  <2>1. /\ IsList(Without(done[state], rid), RecordIds)
        /\ rid \notin Range(Without(done[state], rid))
    BY <1>2, WithoutFacts
  <2>2. CASE keep[o][state] > 0
    BY <1>4, <2>1, <2>2, AppendNew DEF FinishedList
  <2>3. CASE ~(keep[o][state] > 0)
    BY <1>2, <2>3 DEF FinishedList
  <2> QED BY <2>2, <2>3
<1>8. n \in 0..Len(z)
  <2>1. Len(z) \in Nat /\ keep[o][state] \in Nat
    BY <1>2, <1>7, ListFacts, BoundAssumption
  <2>2. old \in 0..Len(z)
    <3>1. old \in Nat
      BY DEF Ages
    <3> QED BY <1>1, <2>1, <3>1
  <2> QED BY <2>1, <2>2, CutFacts DEF FinishedCut
<1> HIDE DEF z, n, rs, t, rid
<1>9. /\ IsList(SubSeq(z, n + 1, Len(z)), RecordIds)
      /\ IsList(Without(done[t], rid), RecordIds)
  BY <1>2, <1>3, <1>7, <1>8, SplitFacts, WithoutFacts
<1>10. /\ done'[state] = SubSeq(z, n + 1, Len(z))
       /\ done'[t] = Without(done[t], rid)
       /\ done' \in [States -> Seq(RecordIds)]
  BY <1>1, <1>2, <1>3, <1>9 DEF IsList
<1>11. \A s \in States : IsList(done'[s], RecordIds)
  BY <1>3, <1>9, <1>10
<1> QED BY <1>1, <1>4, <1>5, <1>6, <1>7, <1>8, <1>10, <1>11 DEF z, n, rs, t, rid

(* What a trim does to the records.                                        *)
LEMMA TrimFacts ==
  ASSUME TypeInv, NEW o \in Objects, NEW old \in [States -> Ages], Trim(o, old)
  PROVE  \E n \in [States -> Nat] :
         /\ \A s \in States :
              /\ n[s] \in 0..Len(done[s])
              /\ done'[s] = SubSeq(done[s], n[s] + 1, Len(done[s]))
              /\ IsList(done'[s], RecordIds)
         /\ records' = Drop(records, UNION {Range(SubSeq(done[s], 1, n[s])) : s \in States})
         /\ done' \in [States -> Seq(RecordIds)]
<1> DEFINE n == [s \in States |-> Cut(Len(done[s]), keep[o][s], old[s])]
<1>1. /\ \A s \in States : old[s] <= Len(done[s])
      /\ records' = Drop(records, UNION {Range(SubSeq(done[s], 1, n[s])) : s \in States})
      /\ done' = [s \in States |-> SubSeq(done[s], n[s] + 1, Len(done[s]))]
  BY DEF Trim
<1>2. /\ \A s \in States : IsList(done[s], RecordIds)
      /\ keep \in [Objects -> [States -> 0..MaxKeep]]
  BY TypeFacts
<1>3. ASSUME NEW s \in States
      PROVE  n[s] \in 0..Len(done[s])
  <2>1. Len(done[s]) \in Nat /\ keep[o][s] \in Nat
    BY <1>2, ListFacts, BoundAssumption
  <2>2. old[s] \in Nat
    BY DEF Ages
  <2>3. old[s] \in 0..Len(done[s])
    BY <1>1, <2>1, <2>2
  <2> QED BY <2>1, <2>3, CutFacts
<1> HIDE DEF n
<1>4. ASSUME NEW s \in States
      PROVE  IsList(SubSeq(done[s], n[s] + 1, Len(done[s])), RecordIds)
  BY <1>2, <1>3, SplitFacts
<1>5. /\ \A s \in States : done'[s] = SubSeq(done[s], n[s] + 1, Len(done[s]))
      /\ done' \in [States -> Seq(RecordIds)]
  BY <1>1, <1>4 DEF IsList
<1>6. n \in [States -> Nat]
  <2>1. \A s \in States : n[s] \in Nat
    BY <1>3
  <2> QED BY <2>1 DEF n
<1> QED BY <1>1, <1>3, <1>4, <1>5, <1>6

(* The type invariant holds at first.                                      *)
LEMMA TypesInit ==
  ASSUME Init
  PROVE  TypeInv
<1>1. IsFiniteSet(waiting)
  BY FS_EmptySet DEF Init
<1>2. /\ IsMap(nacked, AckIds \cup {UserId}, Jobs)
      /\ IsMap(prio, AckIds, Priorities)
      /\ IsMap(attempts, Envs, Nat \ {0})
      /\ IsMap(records, RecordIds, Records)
      /\ IsMap(given, Jobs, Priorities)
  BY EmptyFacts DEF Init
<1>3. done \in [States -> Seq(RecordIds)] /\ \A s \in States : IsInjective(done[s])
  <2>1. <<>> \in Seq(RecordIds) /\ Len(<<>>) = 0
    BY EmptySeq
  <2>2. DOMAIN <<>> = {}
    OBVIOUS
  <2> QED BY <2>1, <2>2 DEF Init, IsInjective
<1>4. MaxKeep \in 0..MaxKeep
  BY BoundAssumption
<1>5. /\ keep \in [Objects -> [States -> 0..MaxKeep]]
      /\ stats \in [States \cup {"submitted"} -> Nat]
      /\ handed \in [Jobs -> Nat]
  BY <1>4 DEF Init
<1>6. waiting = {} /\ seq = 0 /\ started = {} /\ left = {} /\ prepared = {} /\ uncounted = 0
  BY DEF Init
<1> QED BY <1>1, <1>2, <1>3, <1>5, <1>6 DEF TypeInv, TypeOK, Numbered, RecordIds, Records

(* Counting what is handed out keeps a count of each job.                  *)
LEMMA HandsOutFacts ==
  ASSUME TypeInv, NEW n \in Nat, HandsOut(Lowest(n))
  PROVE  /\ handed' \in [Jobs -> Nat]
         /\ \A j \in Jobs :
              handed'[j] = handed[j] + Cardinality({i \in DOMAIN Lowest(n) : Lowest(n)[i].job = j})
         /\ \A j \in Jobs :
              /\ IsFiniteSet({i \in DOMAIN Lowest(n) : Lowest(n)[i].job = j})
              /\ Cardinality({i \in DOMAIN Lowest(n) : Lowest(n)[i].job = j}) \in Nat
<1> DEFINE At(j) == {i \in DOMAIN Lowest(n) : Lowest(n)[i].job = j}
<1>1. handed' = [j \in Jobs |-> handed[j] + Cardinality(At(j))]
  BY DEF HandsOut
<1>2. PICK size \in 0..n : DOMAIN Lowest(n) = 1..size
  BY WaitingSortable, LowestFacts
<1>3. IsFiniteSet(DOMAIN Lowest(n))
  <2>1. 1 \in Int /\ size \in Int
    OBVIOUS
  <2> QED BY <1>2, <2>1, FS_Interval
<1>4. ASSUME NEW j \in Jobs
      PROVE  IsFiniteSet(At(j)) /\ Cardinality(At(j)) \in Nat
  <2>1. At(j) \in SUBSET DOMAIN Lowest(n)
    OBVIOUS
  <2> QED BY <1>3, <2>1, FS_Subset, FS_CardinalityType
<1>5. handed \in [Jobs -> Nat]
  BY TypeFacts
<1> HIDE DEF At
<1>6. \A j \in Jobs : handed'[j] = handed[j] + Cardinality(At(j)) /\ handed'[j] \in Nat
  BY <1>1, <1>4, <1>5
<1>7. handed' \in [Jobs -> Nat]
  BY <1>1, <1>6
<1> QED BY <1>4, <1>6, <1>7 DEF At

(* What Dequeue takes.                                                     *)
LEMMA DequeueFacts ==
  ASSUME TypeInv, Dequeue
  PROVE  \E m \in waiting :
         /\ waiting' = waiting \ {m} /\ left' = left \cup {m.job}
         /\ \A k \in waiting' : Before(m, k)
         /\ handed'[m.job] = handed[m.job] + 1
         /\ \A j \in Jobs : j # m.job => handed'[j] = handed[j]
         /\ handed' \in [Jobs -> Nat]
<1> DEFINE ms == Lowest(1)
<1>1. waiting # {} /\ waiting' = waiting \ {ms[1]} /\ left' = left \cup {ms[1].job} /\ HandsOut(ms)
  BY DEF Dequeue
<1>2. PICK size \in 0..1 :
         /\ DOMAIN ms = 1..size
         /\ 1 > 0 /\ waiting # {} => size > 0
         /\ \A i \in 1..size : ms[i] \in waiting
         /\ \A i \in 1..size, k \in waiting \ Range(ms) : Before(ms[i], k)
  BY WaitingSortable, LowestFacts
<1>3. handed' \in [Jobs -> Nat]
      /\ \A j \in Jobs : handed'[j] = handed[j] + Cardinality({i \in DOMAIN ms : ms[i].job = j})
  BY <1>1, HandsOutFacts
<1> HIDE DEF ms
<1>4. size = 1 /\ 1..size = {1}
  BY <1>1, <1>2
<1>5. DOMAIN ms = {1} /\ ms[1] \in waiting /\ Range(ms) = {ms[1]}
  BY <1>2, <1>4 DEF Range
<1>6. ms[1].job \in Jobs
  BY <1>5, WaitingSortable
<1>7. {i \in DOMAIN ms : ms[i].job = ms[1].job} = {1}
      /\ \A j \in Jobs : j # ms[1].job => {i \in DOMAIN ms : ms[i].job = j} = {}
  BY <1>5
<1>8. handed'[ms[1].job] = handed[ms[1].job] + 1
  BY <1>3, <1>6, <1>7, FS_Singleton
<1>9. \A j \in Jobs : j # ms[1].job => handed'[j] = handed[j]
  <2>1. \A j \in Jobs : handed[j] \in Nat
    BY TypeFacts
  <2> QED BY <1>3, <1>7, <2>1, FS_EmptySet
<1>10. \A k \in waiting' : Before(ms[1], k)
  BY <1>1, <1>2, <1>4, <1>5
<1> QED BY <1>1, <1>3, <1>5, <1>8, <1>9, <1>10

(* Every action keeps the type invariant.                                  *)
LEMMA TypesNext ==
  ASSUME TypeInv, [Next]_vars
  PROVE  TypeInv'
<1>. USE DEF pending, recordVars, history
<1>0. /\ waiting \subseteq [job : Jobs, score : Priorities, seq : 1..seq]
      /\ seq \in Nat
      /\ IsMap(nacked, AckIds \cup {UserId}, Jobs)
      /\ IsMap(prio, AckIds, Priorities)
      /\ started \subseteq AckIds \cup {UserId}
      /\ IsMap(attempts, Envs, Nat \ {0})
      /\ stats \in [States \cup {"submitted"} -> Nat]
      /\ IsMap(records, RecordIds, Records)
      /\ done \in [States -> Seq(RecordIds)]
      /\ \A s \in States : IsList(done[s], RecordIds)
      /\ keep \in [Objects -> [States -> 0..MaxKeep]]
      /\ IsMap(given, Jobs, Priorities) /\ handed \in [Jobs -> Nat]
      /\ left \subseteq Jobs /\ prepared \subseteq left /\ uncounted \in Int
      /\ IsFiniteSet(waiting)
      /\ \A m, k \in waiting : m.seq = k.seq => m = k
  BY TypeFacts
<1>1. ASSUME NEW j \in Jobs, NEW p \in Priorities, Enqueue(j, p) PROVE TypeInv'
  <2>1. /\ waiting' = waiting \cup {Member(j, p, seq + 1)} /\ seq' = seq + 1
        /\ stats' = [stats EXCEPT !["submitted"] = @ + 1]
        /\ given' = Put(given, j, p)
        /\ UNCHANGED <<pending, attempts, records, done, keep, rare, calls,
                       handed, left, prepared, uncounted>>
    BY <1>1 DEF Enqueue
  <2>2. Member(j, p, seq + 1) \in [job : Jobs, score : Priorities, seq : 1..seq']
        /\ Member(j, p, seq + 1).seq = seq + 1
    BY <1>0, <2>1 DEF Member
  <2>3. seq' \in Nat /\ \A i \in 1..seq : i \in 1..seq' /\ i # seq + 1
    BY <1>0, <2>1
  <2>4. \A m \in waiting : m \in [job : Jobs, score : Priorities, seq : 1..seq'] /\ m.seq # seq + 1
    BY <1>0, <2>3
  <2>5. waiting' \subseteq [job : Jobs, score : Priorities, seq : 1..seq']
        /\ \A m, k \in waiting' : m.seq = k.seq => m = k
    BY <1>0, <2>1, <2>2, <2>4
  <2>6. IsFiniteSet(waiting')
    BY <1>0, <2>1, FS_AddElement
  <2>7. stats' \in [States \cup {"submitted"} -> Nat]
    BY <1>0, <2>1
  <2>8. IsMap(given', Jobs, Priorities)
    BY <1>0, <2>1, PutFacts
  <2> QED BY <1>0, <2>1, <2>3, <2>5, <2>6, <2>7, <2>8
          DEF TypeInv, TypeOK, Numbered, IsList, RecordIds, Records
<1>2. ASSUME Dequeue PROVE TypeInv'
  <2>1. PICK m \in waiting :
         /\ waiting' = waiting \ {m} /\ left' = left \cup {m.job}
         /\ handed' \in [Jobs -> Nat]
    BY <1>2, DequeueFacts
  <2>2. /\ uncounted' = uncounted + 1
        /\ UNCHANGED <<seq, pending, attempts, recordVars, keep, calls, given, prepared>>
    BY <1>2 DEF Dequeue
  <2>3. waiting' \subseteq waiting /\ m.job \in Jobs
    BY <2>1, WaitingSortable
  <2>4. IsFiniteSet(waiting')
    BY <1>0, <2>3, FS_Subset
  <2> QED BY <1>0, <2>1, <2>2, <2>3, <2>4
          DEF TypeInv, TypeOK, Numbered, IsList, RecordIds, Records
<1>3. ASSUME NEW m \in waiting, RemoveItem(m) PROVE TypeInv'
  <2>1. /\ waiting' = waiting \ {m} /\ left' = left \cup {m.job}
        /\ uncounted' = uncounted + 1
        /\ UNCHANGED <<seq, pending, attempts, recordVars, keep, calls, given, handed, prepared>>
    BY <1>3 DEF RemoveItem
  <2>2. waiting' \subseteq waiting /\ m.job \in Jobs
    BY <2>1, WaitingSortable
  <2>3. IsFiniteSet(waiting')
    BY <1>0, <2>2, FS_Subset
  <2> QED BY <1>0, <2>1, <2>2, <2>3
          DEF TypeInv, TypeOK, Numbered, IsList, RecordIds, Records
<1>4. ASSUME NEW c \in 1..MaxCalls, NEW w \in 1..MaxWant, Pop(c, w) PROVE TypeInv'
  <2>0. PICK size \in 1..w : Popped(c, w, size)
    BY <1>4, PopFacts
  <2> DEFINE ms == Lowest(w)
  <2>1. /\ \A i \in 1..size : ms[i] \in waiting
        /\ waiting' = waiting \ Range(ms)
        /\ \A i \in 1..size : <<c, i>> \in AckIds
        /\ DOMAIN nacked' = DOMAIN nacked \cup {<<c, i>> : i \in 1..size}
        /\ \A x \in DOMAIN nacked : nacked'[x] = nacked[x]
        /\ \A i \in 1..size : nacked'[<<c, i>>] = ms[i].job
        /\ DOMAIN prio' = DOMAIN prio \cup {<<c, i>> : i \in 1..size}
        /\ \A x \in DOMAIN prio' :
             \/ x \in DOMAIN prio /\ prio'[x] = prio[x]
             \/ \E i \in 1..size : x = <<c, i>>
        /\ \A i \in 1..size : prio'[<<c, i>>] = ms[i].score
        /\ started' = started \cup {<<c, i>> : i \in 1..size}
    BY <2>0 DEF Popped
  <2> HIDE DEF ms
  <2>2. \A i \in 1..size : ms[i].job \in Jobs /\ ms[i].score \in Priorities
    BY <2>1, WaitingSortable
  <2>3. IsMap(nacked', AckIds \cup {UserId}, Jobs)
    BY <1>0, <2>1, <2>2 DEF IsMap
  <2>4. IsMap(prio', AckIds, Priorities)
    <3>1. IsMap(prio, AckIds, Priorities)
      BY <1>0
    <3>2. \A i \in 1..size : <<c, i>> \in AckIds
      BY <2>1
    <3>3. \A x \in DOMAIN prio' : x \in AckIds /\ prio'[x] \in Priorities
      BY <2>1, <2>2, <3>1, <3>2 DEF IsMap
    <3> QED BY <3>3 DEF IsMap
  <2>5. started' \subseteq AckIds \cup {UserId}
    BY <1>0, <2>1
  <2>6. IsFiniteSet(waiting') /\ waiting' \subseteq waiting
    BY <1>0, <2>1, FS_Subset
  <2>7. handed' \in [Jobs -> Nat]
    <3>1. w \in Nat /\ HandsOut(Lowest(w))
      BY <1>4 DEF Pop
    <3> QED BY <3>1, HandsOutFacts
  <2>8. UNCHANGED <<seq, attempts, recordVars, keep, given, left, prepared, uncounted>>
    BY <1>4 DEF Pop
  <2> QED BY <1>0, <2>3, <2>4, <2>5, <2>6, <2>7, <2>8
          DEF TypeInv, TypeOK, Numbered, IsList, RecordIds, Records
<1>5. ASSUME NEW j \in Jobs, PrepareForFutureAck(j) PROVE TypeInv'
  <2>1. /\ j \in left
        /\ nacked' = Put(nacked, UserId, j) /\ started' = started \cup {UserId}
        /\ prepared' = prepared \cup {j}
        /\ uncounted' = uncounted - 1
        /\ UNCHANGED <<waiting, seq, prio, attempts, recordVars, keep, rare, calls,
                       given, handed, left>>
    BY <1>5 DEF PrepareForFutureAck
  <2>2. IsMap(nacked', AckIds \cup {UserId}, Jobs)
    BY <1>0, <2>1, PutFacts
  <2> QED BY <1>0, <2>1, <2>2
          DEF TypeInv, TypeOK, Numbered, IsList, RecordIds, Records
<1>6. ASSUME NEW S \in SUBSET DOMAIN nacked, NEW ids \in Orders(S), Requeue(ids) PROVE TypeInv'
  <2>1. /\ Len(ids) \in Nat
        /\ seq' = seq + Len(ids)
        /\ waiting' = waiting \cup {Back(ids, i) : i \in 1..Len(ids)}
        /\ \A i \in 1..Len(ids) :
             /\ Back(ids, i) \in [job : Jobs, score : Priorities, seq : 1..seq']
             /\ Back(ids, i).seq = seq + i
        /\ IsMap(nacked', AckIds \cup {UserId}, Jobs) /\ IsMap(prio', AckIds, Priorities)
        /\ started' = started \ S
    <3>1. Len(ids) \in Nat
      BY OrderFacts
    <3>2. PutsBack(S, ids)
      BY <1>6, RequeueFacts
    <3> QED BY <3>1, <3>2 DEF PutsBack
  <2>2. /\ attempts' = Requeued(ids)
        /\ UNCHANGED <<recordVars, keep, rare, calls, history>>
    BY <1>6 DEF Requeue
  <2>3. IsMap(attempts', Envs, Nat \ {0})
    BY <2>2, RequeuedFacts
  <2>4. seq' \in Nat /\ \A k \in 1..seq : k \in 1..seq' /\ \A i \in 1..Len(ids) : k # seq + i
    BY <1>0, <2>1
  <2>5. \A i, k \in 1..Len(ids) : seq + i = seq + k => i = k
    BY <1>0, <2>1
  <2>6. \A m \in waiting : /\ m \in [job : Jobs, score : Priorities, seq : 1..seq']
                           /\ \A i \in 1..Len(ids) : m.seq # seq + i
    BY <1>0, <2>4
  <2>7. waiting' \subseteq [job : Jobs, score : Priorities, seq : 1..seq']
    BY <2>1, <2>6
  <2>8. \A m, k \in waiting' : m.seq = k.seq => m = k
    BY <1>0, <2>1, <2>5, <2>6
  <2>9. IsFiniteSet(waiting')
    <3>1. \A m \in waiting' : m.seq \in 1..seq'
      BY <2>7
    <3> DEFINE f == [m \in waiting' |-> m.seq]
    <3>2. f \in Injection(waiting', 1..seq')
      BY <2>8, <3>1 DEF Injection, IsInjective
    <3>3. IsFiniteSet(1..seq')
      BY <2>4, FS_Interval
    <3> QED BY <3>2, <3>3, FS_Injection
  <2> QED BY <1>0, <2>1, <2>2, <2>3, <2>4, <2>7, <2>8, <2>9
          DEF TypeInv, TypeOK, Numbered, IsList, RecordIds, Records
<1>7. ASSUME NEW o \in Objects, NEW id \in DOMAIN nacked, NEW state \in States,
             NEW old \in Ages, Finish(o, id, state, old)
      PROVE  TypeInv'
  <2>1. /\ nacked' = Drop(nacked, {id}) /\ prio' = Drop(prio, {id}) /\ started' = started \ {id}
        /\ attempts' = Drop(attempts, {EnvOf[nacked[id]]})
        /\ stats' = [stats EXCEPT ![state] = @ + 1]
        /\ UNCHANGED <<waiting, seq, keep, rare, calls, history>>
    BY <1>7 DEF Finish
  <2>2. /\ done' \in [States -> Seq(RecordIds)]
        /\ \A s \in States : IsList(done'[s], RecordIds)
        /\ \E X : records' = Drop(FinishedRecords(o, id, state), X)
        /\ IsMap(FinishedRecords(o, id, state), RecordIds, Records)
    BY <1>7, FinishFacts
  <2>3. IsMap(records', RecordIds, Records)
    <3>1. PICK X : records' = Drop(FinishedRecords(o, id, state), X)
      BY <2>2
    <3> QED BY <2>2, <3>1, DropFacts
  <2>4. /\ IsMap(nacked', AckIds \cup {UserId}, Jobs)
        /\ IsMap(prio', AckIds, Priorities)
        /\ IsMap(attempts', Envs, Nat \ {0})
    BY <1>0, <2>1, DropFacts
  <2>5. stats' \in [States \cup {"submitted"} -> Nat]
    BY <1>0, <2>1
  <2> QED BY <1>0, <2>1, <2>2, <2>3, <2>4, <2>5
          DEF TypeInv, TypeOK, Numbered, IsList, RecordIds, Records
<1>8. ASSUME NEW o \in Objects, NEW old \in [States -> Ages], Trim(o, old) PROVE TypeInv'
  <2>1. /\ done' \in [States -> Seq(RecordIds)]
        /\ \A s \in States : IsList(done'[s], RecordIds)
        /\ \E X : records' = Drop(records, X)
    BY <1>8, TrimFacts
  <2>2. UNCHANGED <<waiting, seq, pending, attempts, stats, keep, rare, calls, history>>
    BY <1>8 DEF Trim
  <2>3. IsMap(records', RecordIds, Records)
    <3>1. PICK X : records' = Drop(records, X)
      BY <2>1
    <3> QED BY <1>0, <3>1, DropFacts
  <2> QED BY <1>0, <2>1, <2>2, <2>3
          DEF TypeInv, TypeOK, Numbered, IsList, RecordIds, Records
<1>9. ASSUME NEW o \in Setters, NEW state \in States, NEW k \in 0..MaxKeep,
             SetRetention(o, state, k) PROVE TypeInv'
  <2>1. /\ keep' = [keep EXCEPT ![o][state] = k]
        /\ UNCHANGED <<waiting, seq, pending, attempts, recordVars, calls, history>>
    BY <1>9 DEF SetRetention
  <2>2. keep' \in [Objects -> [States -> 0..MaxKeep]]
    BY <1>0, <2>1, BoundAssumption
  <2> QED BY <1>0, <2>1, <2>2
          DEF TypeInv, TypeOK, Numbered, IsList, RecordIds, Records
<1>10. ASSUME Purge PROVE TypeInv'
  <2>1. /\ waiting' = {} /\ seq' = 0
        /\ nacked' = EmptyMap /\ prio' = EmptyMap /\ started' = {} /\ attempts' = EmptyMap
        /\ stats' = [s \in States \cup {"submitted"} |-> 0]
        /\ records' = EmptyMap /\ done' = [s \in States |-> <<>>]
        /\ uncounted' = 0
        /\ UNCHANGED <<keep, calls, given, handed, left, prepared>>
    BY <1>10 DEF Purge
  <2>2. done' \in [States -> Seq(RecordIds)] /\ \A s \in States : IsInjective(done'[s])
    <3>1. <<>> \in Seq(RecordIds)
      BY EmptySeq
    <3>2. DOMAIN <<>> = {}
      OBVIOUS
    <3> QED BY <2>1, <3>1, <3>2 DEF IsInjective
  <2>3. /\ IsMap(nacked', AckIds \cup {UserId}, Jobs)
        /\ IsMap(prio', AckIds, Priorities)
        /\ IsMap(attempts', Envs, Nat \ {0})
        /\ IsMap(records', RecordIds, Records)
    BY <2>1, EmptyFacts
  <2>4. stats' \in [States \cup {"submitted"} -> Nat]
    BY <2>1
  <2>5. IsFiniteSet(waiting')
    BY <2>1, FS_EmptySet
  <2> QED BY <1>0, <2>1, <2>2, <2>3, <2>4, <2>5
          DEF TypeInv, TypeOK, Numbered, RecordIds, Records
<1>11. CASE UNCHANGED vars
  BY <1>0, <1>11 DEF vars, TypeInv, TypeOK, Numbered, IsList, RecordIds, Records
<1> QED
  <2>1. CASE Next
    BY <2>1, <1>1, <1>2, <1>3, <1>4, <1>5, <1>6, <1>7, <1>8, <1>9, <1>10 DEF Next
  <2> QED BY <2>1, <1>11

(* In every state each variable holds what its comment says, whatever the  *)
(* scripts, resends and retentions were: the ZSET, the hashes and the      *)
(* lists of records of priority.go and finishScript.                       *)
THEOREM PriorityTypes == Spec => []TypeOK
<1>1. Init => TypeInv
  BY TypesInit
<1>2. TypeInv /\ [Next]_vars => TypeInv'
  BY TypesNext
<1>3. TypeInv => TypeOK
  BY DEF TypeInv
<1> QED BY <1>1, <1>2, <1>3, PTL DEF Spec

-----------------------------------------------------------------------------
(* What is kept about items.                                               *)

(* The jobs that an attempt count may belong to.                           *)
Waits == {m.job : m \in waiting}
Pends == Range(nacked)
Near == Waits \cup Pends \cup left

(* NoLeftovers by its parts.                                               *)
LEMMA LeftoverParts ==
  NoLeftovers <=> /\ DOMAIN prio \subseteq DOMAIN nacked /\ started = DOMAIN nacked
                  /\ \A e \in DOMAIN attempts : \E j \in Jobs \cap Near : EnvOf[j] = e
  BY DEF NoLeftovers, Near, Waits, Pends

(* While an action leaves the counts alone and loses no job, each count    *)
(* keeps its job.                                                          *)
LEMMA CountsKept ==
  ASSUME NoLeftovers, attempts' = attempts, Near \subseteq Near',
         DOMAIN prio' \subseteq DOMAIN nacked', started' = DOMAIN nacked'
  PROVE  NoLeftovers'
<1>1. \A e \in DOMAIN attempts : \E j \in Jobs \cap Near : EnvOf[j] = e
  BY LeftoverParts
<1>2. \A e \in DOMAIN attempts' : \E j \in Jobs \cap Near' : EnvOf[j] = e
  BY <1>1
<1> QED BY <1>2 DEF NoLeftovers, Near, Waits, Pends

(* Each action takes what is kept about an item away with it.              *)
LEMMA LeftoversNext ==
  ASSUME TypeInv, NoLeftovers, [Next]_vars
  PROVE  NoLeftovers'
<1>. USE DEF pending, recordVars, history
<1>0. /\ DOMAIN prio \subseteq DOMAIN nacked /\ started = DOMAIN nacked
      /\ \A e \in DOMAIN attempts : \E j \in Jobs \cap Near : EnvOf[j] = e
  BY LeftoverParts
<1>1. ASSUME NEW j \in Jobs, NEW p \in Priorities, Enqueue(j, p) PROVE NoLeftovers'
  <2>1. /\ waiting \subseteq waiting'
        /\ UNCHANGED <<pending, attempts, left>>
    BY <1>1 DEF Enqueue
  <2>2. Near \subseteq Near'
    BY <2>1 DEF Near, Waits, Pends
  <2> QED BY <1>0, <2>1, <2>2, CountsKept
<1>2. ASSUME Dequeue PROVE NoLeftovers'
  <2>1. PICK m \in waiting : waiting' = waiting \ {m} /\ left' = left \cup {m.job}
    BY <1>2, DequeueFacts
  <2>2. UNCHANGED <<pending, attempts>>
    BY <1>2 DEF Dequeue
  <2>3. Near \subseteq Near'
    BY <2>1, <2>2 DEF Near, Waits, Pends
  <2> QED BY <1>0, <2>2, <2>3, CountsKept
<1>3. ASSUME NEW m \in waiting, RemoveItem(m) PROVE NoLeftovers'
  <2>1. /\ waiting' = waiting \ {m} /\ left' = left \cup {m.job}
        /\ UNCHANGED <<pending, attempts>>
    BY <1>3 DEF RemoveItem
  <2>2. Near \subseteq Near'
    BY <2>1 DEF Near, Waits, Pends
  <2> QED BY <1>0, <2>1, <2>2, CountsKept
<1>4. ASSUME NEW c \in 1..MaxCalls, NEW w \in 1..MaxWant, Pop(c, w) PROVE NoLeftovers'
  <2>1. PICK size \in 1..w : Popped(c, w, size)
    BY <1>4, PopFacts
  <2> DEFINE ms == Lowest(w)
  <2>2. /\ waiting' = waiting \ Range(ms) /\ Range(ms) = {ms[i] : i \in 1..size}
        /\ DOMAIN nacked' = DOMAIN nacked \cup {<<c, i>> : i \in 1..size}
        /\ \A x \in DOMAIN nacked : nacked'[x] = nacked[x]
        /\ \A i \in 1..size : nacked'[<<c, i>>] = ms[i].job
        /\ DOMAIN prio' = DOMAIN prio \cup {<<c, i>> : i \in 1..size}
        /\ started' = started \cup {<<c, i>> : i \in 1..size}
    BY <2>1 DEF Popped
  <2>3. attempts' = attempts /\ left' = left
    BY <1>4 DEF Pop
  <2> HIDE DEF ms
  <2>4. Pends \subseteq Pends'
    BY <2>2 DEF Pends, Range
  <2>5. \A i \in 1..size : ms[i].job \in Pends'
    <3> SUFFICES ASSUME NEW i \in 1..size PROVE ms[i].job \in Pends'
      OBVIOUS
    <3>1. <<c, i>> \in DOMAIN nacked' /\ nacked'[<<c, i>>] = ms[i].job
      BY <2>2
    <3> QED BY <3>1 DEF Pends, Range
  <2>6. Waits \subseteq Waits' \cup Pends'
    <3> SUFFICES ASSUME NEW m \in waiting, m.job \notin Waits' PROVE m.job \in Pends'
      BY DEF Waits
    <3>1. m \notin waiting'
      BY DEF Waits
    <3>2. \E i \in 1..size : m = ms[i]
      BY <2>2, <3>1
    <3> QED BY <2>5, <3>2
  <2>7. Near \subseteq Near'
    BY <2>3, <2>4, <2>6 DEF Near
  <2>8. DOMAIN prio' \subseteq DOMAIN nacked' /\ started' = DOMAIN nacked'
    BY <1>0, <2>2
  <2> QED BY <2>3, <2>7, <2>8, CountsKept
<1>5. ASSUME NEW j \in Jobs, PrepareForFutureAck(j) PROVE NoLeftovers'
  <2>1. /\ UserId \notin DOMAIN nacked
        /\ nacked' = Put(nacked, UserId, j) /\ started' = started \cup {UserId}
        /\ UNCHANGED <<waiting, prio, attempts, left>>
    BY <1>5 DEF PrepareForFutureAck
  <2>2. /\ DOMAIN nacked' = DOMAIN nacked \cup {UserId}
        /\ \A x \in DOMAIN nacked : nacked'[x] = nacked[x]
    BY <2>1 DEF Put
  <2>3. Near \subseteq Near'
    BY <2>1, <2>2 DEF Near, Waits, Pends, Range
  <2>4. DOMAIN prio' \subseteq DOMAIN nacked' /\ started' = DOMAIN nacked'
    BY <1>0, <2>1, <2>2
  <2> QED BY <2>1, <2>3, <2>4, CountsKept
<1>6. ASSUME NEW S \in SUBSET DOMAIN nacked, NEW ids \in Orders(S), Requeue(ids)
      PROVE  NoLeftovers'
  <2>1. PutsBack(S, ids)
    BY <1>6, RequeueFacts
  <2>2. /\ waiting' = waiting \cup {Back(ids, i) : i \in 1..Len(ids)}
        /\ \A i \in 1..Len(ids) : Back(ids, i).job = nacked[ids[i]]
        /\ DOMAIN nacked' = DOMAIN nacked \ S
        /\ \A x \in DOMAIN nacked \ S : nacked'[x] = nacked[x]
        /\ DOMAIN prio' = DOMAIN prio \ S
        /\ started' = started \ S
    BY <2>1 DEF PutsBack
  <2>3. /\ DOMAIN ids = 1..Len(ids) /\ Range(ids) = S
    BY OrderFacts
  <2>4. attempts' = Requeued(ids) /\ left' = left
    BY <1>6 DEF Requeue
  <2>5. \A e \in DOMAIN attempts' : e \in DOMAIN attempts \/ \E x \in S : EnvOf[nacked[x]] = e
    BY <2>4, RequeuedFacts
  <2>6. \A x \in S : nacked[x] \in Waits' /\ nacked[x] \in Jobs
    <3> SUFFICES ASSUME NEW x \in S PROVE nacked[x] \in Waits' /\ nacked[x] \in Jobs
      OBVIOUS
    <3>1. nacked[x] \in Jobs
      BY TypeFacts DEF IsMap
    <3>2. PICK i \in 1..Len(ids) : ids[i] = x
      BY <2>3 DEF Range
    <3>3. Back(ids, i) \in waiting' /\ Back(ids, i).job = nacked[x]
      BY <2>2, <3>2
    <3> QED BY <3>1, <3>3 DEF Waits
  <2>7. Near \subseteq Near'
    <3>1. Pends \subseteq Waits' \cup Pends'
      BY <2>2, <2>6 DEF Pends, Range
    <3>2. Waits \subseteq Waits'
      BY <2>2 DEF Waits
    <3> QED BY <2>4, <3>1, <3>2 DEF Near
  <2>8. \A e \in DOMAIN attempts' : \E j \in Jobs \cap Near' : EnvOf[j] = e
    <3> SUFFICES ASSUME NEW e \in DOMAIN attempts' PROVE \E j \in Jobs \cap Near' : EnvOf[j] = e
      OBVIOUS
    <3>1. CASE e \in DOMAIN attempts
      BY <1>0, <2>7, <3>1
    <3>2. CASE \E x \in S : EnvOf[nacked[x]] = e
      BY <2>6, <3>2 DEF Near
    <3> QED BY <2>5, <3>1, <3>2
  <2>9. DOMAIN prio' \subseteq DOMAIN nacked' /\ started' = DOMAIN nacked'
    BY <1>0, <2>2
  <2> QED BY <2>8, <2>9 DEF NoLeftovers, Near, Waits, Pends
<1>7. ASSUME NEW o \in Objects, NEW id \in DOMAIN nacked, NEW state \in States,
             NEW old \in Ages, Finish(o, id, state, old)
      PROVE  NoLeftovers'
  <2> DEFINE e == EnvOf[nacked[id]]
  <2>1. /\ nacked' = Drop(nacked, {id}) /\ prio' = Drop(prio, {id}) /\ started' = started \ {id}
        /\ attempts' = Drop(attempts, {e})
        /\ UNCHANGED <<waiting, left>>
    BY <1>7 DEF Finish
  <2> HIDE DEF e
  <2>2. /\ DOMAIN nacked' = DOMAIN nacked \ {id} /\ DOMAIN prio' = DOMAIN prio \ {id}
        /\ DOMAIN attempts' = DOMAIN attempts \ {e}
        /\ \A x \in DOMAIN nacked \ {id} : nacked'[x] = nacked[x]
    BY <2>1 DEF Drop
  <2>3. \A j \in Near \ Near' : j = nacked[id]
    BY <2>1, <2>2 DEF Near, Waits, Pends, Range
  <2>4. \A d \in DOMAIN attempts' : \E j \in Jobs \cap Near' : EnvOf[j] = d
    BY <1>0, <2>2, <2>3 DEF e
  <2>5. DOMAIN prio' \subseteq DOMAIN nacked' /\ started' = DOMAIN nacked'
    BY <1>0, <2>1, <2>2
  <2> QED BY <2>4, <2>5 DEF NoLeftovers, Near, Waits, Pends
<1>8. ASSUME UNCHANGED <<waiting, pending, attempts, left>> PROVE NoLeftovers'
  BY <1>8 DEF NoLeftovers
<1>9. ASSUME Purge PROVE NoLeftovers'
  <2>1. nacked' = EmptyMap /\ prio' = EmptyMap /\ started' = {} /\ attempts' = EmptyMap
    BY <1>9 DEF Purge
  <2> QED BY <2>1, EmptyFacts DEF NoLeftovers
<1>10. ASSUME NEW o \in Objects, NEW old \in [States -> Ages], Trim(o, old)
       PROVE  UNCHANGED <<waiting, pending, attempts, left>>
  BY <1>10 DEF Trim
<1>11. ASSUME NEW o \in Setters, NEW state \in States, NEW k \in 0..MaxKeep,
              SetRetention(o, state, k)
       PROVE  UNCHANGED <<waiting, pending, attempts, left>>
  BY <1>11 DEF SetRetention
<1>12. CASE UNCHANGED vars
  BY <1>8, <1>12 DEF vars
<1> QED
  <2>1. CASE Next
    BY <2>1, <1>1, <1>2, <1>3, <1>4, <1>5, <1>6, <1>7, <1>8, <1>9, <1>10, <1>11 DEF Next
  <2> QED BY <2>1, <1>12

(* The scripts that move a job out of the pending items clear its priority *)
(* and its start time (HDEL of :prio and :started), and no attempt count   *)
(* outlives the last job it can belong to.                                 *)
THEOREM NothingLeftOver == Spec => []NoLeftovers
<1>1. Init => TypeInv /\ NoLeftovers
  <2>1. Init => NoLeftovers
    BY EmptyFacts DEF Init, NoLeftovers
  <2> QED BY <2>1, TypesInit
<1>2. TypeInv /\ NoLeftovers /\ [Next]_vars => (TypeInv /\ NoLeftovers)'
  BY TypesNext, LeftoversNext
<1> QED BY <1>1, <1>2, PTL DEF Spec

-----------------------------------------------------------------------------
(* Records.                                                                *)

(* Each action keeps every record in the list of its state, and in no      *)
(* other.                                                                  *)
LEMMA RecordsNext ==
  ASSUME TypeInv, RecordsTrimmable, [Next]_vars
  PROVE  RecordsTrimmable'
<1>. USE DEF pending, recordVars, history
<1>0. /\ IsMap(records, RecordIds, Records)
      /\ \A s \in States : IsList(done[s], RecordIds)
      /\ \A x \in DOMAIN records : x \in Range(done[records[x].state])
      /\ \A s, t \in States : s # t => Range(done[s]) \cap Range(done[t]) = {}
  BY TypeFacts DEF RecordsTrimmable, States
<1>1. ASSUME NEW o \in Objects, NEW id \in DOMAIN nacked, NEW state \in States,
             NEW old \in Ages, Finish(o, id, state, old)
      PROVE  RecordsTrimmable'
  <2> DEFINE rid == FinishedId(id)
             z == FinishedList(o, id, state)
             n == FinishedCut(o, id, state, old)
             rs == FinishedRecords(o, id, state)
             t == Other(state)
             cut == Range(SubSeq(z, 1, n))
  <2>1. /\ IsMap(rs, RecordIds, Records)
        /\ IsList(z, RecordIds)
        /\ n \in 0..Len(z)
        /\ done'[state] = SubSeq(z, n + 1, Len(z))
        /\ done'[t] = Without(done[t], rid)
        /\ records' = Drop(rs, cut)
        /\ rid \in RecordIds
    BY <1>1, FinishFacts
  <2>2. t \in States /\ t # state /\ States = {state, t}
    BY OtherFacts
  <2>3. Range(done'[state]) = Range(z) \ cut
    BY <2>1, SplitFacts
  <2>4. Range(done'[t]) = Range(done[t]) \ {rid}
    BY <1>0, <2>1, <2>2, WithoutFacts
  <2>5. DOMAIN records' = DOMAIN rs \ cut /\ \A x \in DOMAIN records' : records'[x] = rs[x]
    <3> HIDE DEF rs, cut
    <3> QED BY <2>1 DEF Drop
  <2>6. CASE keep[o][state] > 0
    <3>1. Range(z) = Range(done[state]) \cup {rid}
      <4>1. /\ IsList(Without(done[state], rid), RecordIds)
            /\ Range(Without(done[state], rid)) = Range(done[state]) \ {rid}
        BY <1>0, WithoutFacts
      <4> QED BY <2>1, <2>6, <4>1, AppendNew DEF FinishedList
    <3>2. /\ DOMAIN rs = DOMAIN records \cup {rid}
          /\ rs[rid].state = state
          /\ \A x \in DOMAIN records \ {rid} : rs[x] = records[x]
      BY <2>6 DEF FinishedRecords, Put
    <3> HIDE DEF rid, z, n, rs, t, cut
    <3>3. \A x \in DOMAIN records' : x \in Range(done'[records'[x].state])
      <4> SUFFICES ASSUME NEW x \in DOMAIN records'
                   PROVE  x \in Range(done'[records'[x].state])
        OBVIOUS
      <4>1. x \in DOMAIN rs /\ x \notin cut /\ records'[x] = rs[x]
        BY <2>5
      <4>2. CASE x = rid
        BY <2>3, <3>1, <3>2, <4>1, <4>2
      <4>3. CASE x # rid
        <5>1. x \in DOMAIN records /\ records'[x] = records[x]
          BY <3>2, <4>1, <4>3
        <5>2. x \in Range(done[records[x].state]) /\ records[x].state \in States
          BY <1>0, <5>1 DEF IsMap, Records
        <5>3. CASE records[x].state = state
          BY <2>3, <3>1, <4>1, <5>1, <5>2, <5>3
        <5>4. CASE records[x].state = t
          BY <2>4, <4>3, <5>1, <5>2, <5>4
        <5> QED BY <2>2, <5>2, <5>3, <5>4
      <4> QED BY <4>2, <4>3
    <3>4. Range(done'[state]) \cap Range(done'[t]) = {}
      BY <1>0, <2>2, <2>3, <2>4, <3>1
    <3> QED BY <2>2, <3>3, <3>4 DEF RecordsTrimmable, States
  <2>7. CASE ~(keep[o][state] > 0)
    <3>1. z = done[state]
      BY <2>7 DEF FinishedList
    <3>2. DOMAIN rs = DOMAIN records \ {rid} /\ \A x \in DOMAIN rs : rs[x] = records[x]
      BY <2>7 DEF FinishedRecords, Drop
    <3> HIDE DEF rid, z, n, rs, t, cut
    <3>3. \A x \in DOMAIN records' : x \in Range(done'[records'[x].state])
      <4> SUFFICES ASSUME NEW x \in DOMAIN records'
                   PROVE  x \in Range(done'[records'[x].state])
        OBVIOUS
      <4>1. /\ x \in DOMAIN records /\ x # rid /\ x \notin cut
            /\ records'[x] = records[x]
        BY <2>5, <3>2
      <4>2. x \in Range(done[records[x].state]) /\ records[x].state \in States
        BY <1>0, <4>1 DEF IsMap, Records
      <4>3. CASE records[x].state = state
        BY <2>3, <3>1, <4>1, <4>2, <4>3
      <4>4. CASE records[x].state = t
        BY <2>4, <4>1, <4>2, <4>4
      <4> QED BY <2>2, <4>2, <4>3, <4>4
    <3>4. Range(done'[state]) \cap Range(done'[t]) = {}
      BY <1>0, <2>2, <2>3, <2>4, <3>1
    <3> QED BY <2>2, <3>3, <3>4 DEF RecordsTrimmable, States
  <2> QED BY <2>6, <2>7
<1>2. ASSUME NEW o \in Objects, NEW old \in [States -> Ages], Trim(o, old) PROVE RecordsTrimmable'
  <2>1. PICK n \in [States -> Nat] :
         /\ \A s \in States :
              /\ n[s] \in 0..Len(done[s])
              /\ done'[s] = SubSeq(done[s], n[s] + 1, Len(done[s]))
         /\ records' = Drop(records, UNION {Range(SubSeq(done[s], 1, n[s])) : s \in States})
    BY <1>2, TrimFacts
  <2> DEFINE Gone(s) == Range(SubSeq(done[s], 1, n[s]))
  <2>2. \A s \in States : Range(done'[s]) = Range(done[s]) \ Gone(s)
    BY <1>0, <2>1, SplitFacts
  <2>3. /\ DOMAIN records' = DOMAIN records \ UNION {Gone(s) : s \in States}
        /\ \A x \in DOMAIN records' : records'[x] = records[x]
    BY <2>1 DEF Drop
  <2> HIDE DEF Gone
  <2>4. \A x \in DOMAIN records' : x \in Range(done'[records'[x].state])
    <3> SUFFICES ASSUME NEW x \in DOMAIN records'
                 PROVE  x \in Range(done'[records'[x].state])
      OBVIOUS
    <3>1. x \in DOMAIN records /\ records'[x] = records[x] /\ \A s \in States : x \notin Gone(s)
      BY <2>3
    <3>2. records[x].state \in States
      BY <1>0, <3>1 DEF IsMap, Records
    <3> QED BY <1>0, <2>2, <3>1, <3>2
  <2>5. \A s, t \in States : s # t => Range(done'[s]) \cap Range(done'[t]) = {}
    BY <1>0, <2>2
  <2> QED BY <2>4, <2>5 DEF RecordsTrimmable, States
<1>3. ASSUME Purge PROVE RecordsTrimmable'
  <2>1. records' = EmptyMap /\ done' = [s \in States |-> <<>>]
    BY <1>3 DEF Purge
  <2>2. Range(<<>>) = {}
    BY DEF Range
  <2> QED BY <2>1, <2>2, EmptyFacts DEF RecordsTrimmable, States
<1>4. ASSUME UNCHANGED <<records, done>> PROVE RecordsTrimmable'
  BY <1>4 DEF RecordsTrimmable
<1>5. ASSUME NEW j \in Jobs, NEW p \in Priorities, Enqueue(j, p) PROVE UNCHANGED <<records, done>>
  BY <1>5 DEF Enqueue
<1>6. ASSUME Dequeue PROVE UNCHANGED <<records, done>>
  BY <1>6 DEF Dequeue
<1>7. ASSUME NEW m \in waiting, RemoveItem(m) PROVE UNCHANGED <<records, done>>
  BY <1>7 DEF RemoveItem
<1>8. ASSUME NEW c \in 1..MaxCalls, NEW w \in 1..MaxWant, Pop(c, w) PROVE UNCHANGED <<records, done>>
  BY <1>8 DEF Pop
<1>9. ASSUME NEW j \in Jobs, PrepareForFutureAck(j) PROVE UNCHANGED <<records, done>>
  BY <1>9 DEF PrepareForFutureAck
<1>10. ASSUME NEW S \in SUBSET DOMAIN nacked, NEW ids \in Orders(S), Requeue(ids)
       PROVE  UNCHANGED <<records, done>>
  BY <1>10 DEF Requeue
<1>11. ASSUME NEW o \in Setters, NEW state \in States, NEW k \in 0..MaxKeep,
              SetRetention(o, state, k)
       PROVE  UNCHANGED <<records, done>>
  BY <1>11 DEF SetRetention
<1>12. CASE UNCHANGED vars
  BY <1>4, <1>12 DEF vars
<1> QED
  <2>1. CASE Next
    BY <2>1, <1>1, <1>2, <1>3, <1>4, <1>5, <1>6, <1>7, <1>8, <1>9, <1>10, <1>11 DEF Next
  <2> QED BY <2>1, <1>12

(* Whatever jobs share an envelope id, and however the retentions are set  *)
(* between their finishes, a record is in the ZSET of its own state, where *)
(* a trim finds it (finishScript's ZREM of the other state, trimScript).   *)
THEOREM RecordsInTheirLists == Spec => []RecordsTrimmable
<1>1. Init => TypeInv /\ RecordsTrimmable
  <2>1. Range(<<>>) = {}
    BY DEF Range
  <2>2. Init => RecordsTrimmable
    BY <2>1, EmptyFacts DEF Init, RecordsTrimmable, States
  <2> QED BY <2>2, TypesInit
<1>2. TypeInv /\ RecordsTrimmable /\ [Next]_vars => (TypeInv /\ RecordsTrimmable)'
  BY TypesNext, RecordsNext
<1> QED BY <1>1, <1>2, PTL DEF Spec

-----------------------------------------------------------------------------
(* The counters.                                                           *)

(* As many things as places.                                               *)
LEMMA ImageCount ==
  ASSUME NEW n \in Nat, NEW f, NEW T, T = {f[i] : i \in 1..n},
         \A i, j \in 1..n : f[i] = f[j] => i = j
  PROVE  IsFiniteSet(T) /\ Cardinality(T) = n
<1> DEFINE g == [i \in 1..n |-> f[i]]
<1>1. IsFiniteSet(1..n) /\ Cardinality(1..n) = n
  <2>1. 1 \in Int /\ n \in Int
    OBVIOUS
  <2>2. /\ IsFiniteSet(1..n)
        /\ Cardinality(1..n) = IF 1 > n THEN 0 ELSE n - 1 + 1
    BY <2>1, FS_Interval
  <2> QED BY <2>2
<1>2. g \in Surjection(1..n, T)
  BY DEF Surjection
<1>3. g \in Injection(1..n, T)
  BY DEF Injection, IsInjective
<1> QED BY <1>1, <1>2, <1>3, FS_Surjection

(* Counts add up over disjoint sets.                                       *)
LEMMA AddCount ==
  ASSUME NEW S, NEW T, IsFiniteSet(S), IsFiniteSet(T), S \cap T = {}
  PROVE  /\ IsFiniteSet(S \cup T) /\ Cardinality(S) \in Nat /\ Cardinality(T) \in Nat
         /\ Cardinality(S \cup T) = Cardinality(S) + Cardinality(T)
<1>1. Cardinality(S) \in Nat /\ Cardinality(T) \in Nat
  BY FS_CardinalityType
<1>2. Cardinality(S \cup T) = Cardinality(S) + Cardinality(T) - Cardinality(S \cap T)
      /\ IsFiniteSet(S \cup T)
  BY FS_Union
<1>3. Cardinality(S \cap T) = 0
  BY FS_EmptySet
<1> QED BY <1>1, <1>2, <1>3

(* What is taken away is taken off the count.                              *)
LEMMA DropCount ==
  ASSUME NEW S, NEW T \in SUBSET S, IsFiniteSet(S)
  PROVE  /\ IsFiniteSet(S \ T) /\ Cardinality(S) \in Nat /\ Cardinality(T) \in Nat
         /\ Cardinality(S \ T) = Cardinality(S) - Cardinality(T)
<1>1. S \cap T = T
  OBVIOUS
<1>2. IsFiniteSet(S \ T) /\ Cardinality(S \ T) = Cardinality(S) - Cardinality(T)
  BY <1>1, FS_Difference
<1>3. IsFiniteSet(T)
  BY FS_Subset
<1> QED BY <1>2, <1>3, FS_CardinalityType

(* Each action changes both sides of the sum alike.                        *)
LEMMA StatsNext ==
  ASSUME TypeInv, StatsAddUp, [Next]_vars
  PROVE  StatsAddUp'
<1>. USE DEF pending, recordVars, history
<1> DEFINE W == Cardinality(waiting)
           N == Cardinality(DOMAIN nacked)
<1>0. /\ stats["submitted"] = W + N + stats["completed"] + stats["failed"] + uncounted
      /\ stats \in [States \cup {"submitted"} -> Nat]
      /\ stats["submitted"] \in Nat /\ stats["completed"] \in Nat /\ stats["failed"] \in Nat
      /\ uncounted \in Int
      /\ W \in Nat /\ N \in Nat /\ IsFiniteSet(waiting) /\ IsFiniteSet(DOMAIN nacked)
  BY TypeFacts, PendingFinite DEF StatsAddUp, States
<1> HIDE DEF W, N
<1>1. ASSUME NEW j \in Jobs, NEW p \in Priorities, Enqueue(j, p) PROVE StatsAddUp'
  <2>1. /\ waiting' = waiting \cup {Member(j, p, seq + 1)}
        /\ stats' = [stats EXCEPT !["submitted"] = @ + 1]
        /\ UNCHANGED <<nacked, uncounted>>
    BY <1>1 DEF Enqueue
  <2>2. Member(j, p, seq + 1) \notin waiting
    <3>1. Member(j, p, seq + 1).seq = seq + 1
      BY DEF Member
    <3>2. \A m \in waiting : m.seq \in 1..seq
      BY WaitingSortable
    <3>3. seq \in Nat /\ seq + 1 \notin 1..seq
      BY TypeFacts
    <3> QED BY <3>1, <3>2, <3>3
  <2>3. Cardinality(waiting') = W + 1
    BY <1>0, <2>1, <2>2, FS_AddElement DEF W
  <2>4. /\ stats'["submitted"] = stats["submitted"] + 1
        /\ stats'["completed"] = stats["completed"] /\ stats'["failed"] = stats["failed"]
    BY <1>0, <2>1 DEF States
  <2>5. Cardinality(DOMAIN nacked') = N
    BY <2>1 DEF N
  <2> QED BY <1>0, <2>1, <2>3, <2>4, <2>5 DEF StatsAddUp
<1>2. ASSUME NEW m \in waiting, waiting' = waiting \ {m}, uncounted' = uncounted + 1,
             UNCHANGED <<nacked, stats>>
      PROVE  StatsAddUp'
  <2>1. Cardinality(waiting') = W - 1
    BY <1>0, <1>2, FS_RemoveElement DEF W
  <2>2. Cardinality(DOMAIN nacked') = N
    BY <1>2 DEF N
  <2> QED BY <1>0, <1>2, <2>1, <2>2 DEF StatsAddUp
<1>3. ASSUME Dequeue PROVE StatsAddUp'
  <2>1. PICK m \in waiting : waiting' = waiting \ {m}
    BY <1>3, DequeueFacts
  <2>2. uncounted' = uncounted + 1 /\ UNCHANGED <<nacked, stats>>
    BY <1>3 DEF Dequeue
  <2> QED BY <1>2, <2>1, <2>2
<1>4. ASSUME NEW m \in waiting, RemoveItem(m) PROVE StatsAddUp'
  <2>1. waiting' = waiting \ {m} /\ uncounted' = uncounted + 1 /\ UNCHANGED <<nacked, stats>>
    BY <1>4 DEF RemoveItem
  <2> QED BY <1>2, <2>1
<1>5. ASSUME NEW c \in 1..MaxCalls, NEW w \in 1..MaxWant, Pop(c, w) PROVE StatsAddUp'
  <2>1. PICK size \in 1..w : Popped(c, w, size)
    BY <1>5, PopFacts
  <2> DEFINE ms == Lowest(w)
             new == {<<c, i>> : i \in 1..size}
             ids == [i \in 1..size |-> <<c, i>>]
  <2>2. /\ DOMAIN ms = 1..size
        /\ \A i \in 1..size : ms[i] \in waiting
        /\ \A i, j \in 1..size : ms[i] = ms[j] => i = j
        /\ waiting' = waiting \ Range(ms)
        /\ Range(ms) = {ms[i] : i \in 1..size}
        /\ \A i \in 1..size : <<c, i>> \notin DOMAIN nacked
        /\ DOMAIN nacked' = DOMAIN nacked \cup new
    BY <2>1 DEF Popped
  <2>3. uncounted' = uncounted /\ stats' = stats
    BY <1>5 DEF Pop
  <2>4. size \in Nat
    OBVIOUS
  <2>5. Cardinality(new) = size /\ IsFiniteSet(new)
    <3>1. new = {ids[i] : i \in 1..size} /\ \A i, j \in 1..size : ids[i] = ids[j] => i = j
      OBVIOUS
    <3> HIDE DEF ids, new
    <3> QED BY <2>4, <3>1, ImageCount
  <2> HIDE DEF ms
  <2>6. Cardinality(Range(ms)) = size /\ Range(ms) \in SUBSET waiting
    <3>0. Range(ms) = {ms[i] : i \in 1..size} /\ \A i, j \in 1..size : ms[i] = ms[j] => i = j
      BY <2>2
    <3>1. Cardinality(Range(ms)) = size
      BY <2>4, <3>0, ImageCount
    <3>2. Range(ms) \in SUBSET waiting
      BY <2>2
    <3> QED BY <2>2, <3>1, <3>2
  <2>7. new \cap DOMAIN nacked = {}
    BY <2>2
  <2> HIDE DEF new
  <2>8. Cardinality(DOMAIN nacked') = N + size
    BY <1>0, <2>2, <2>5, <2>7, AddCount DEF N
  <2>9. Cardinality(waiting') = W - size
    BY <1>0, <2>2, <2>6, DropCount DEF W
  <2> QED BY <1>0, <2>3, <2>4, <2>8, <2>9 DEF StatsAddUp
<1>6. ASSUME NEW j \in Jobs, PrepareForFutureAck(j) PROVE StatsAddUp'
  <2>1. /\ UserId \notin DOMAIN nacked
        /\ nacked' = Put(nacked, UserId, j)
        /\ uncounted' = uncounted - 1
        /\ UNCHANGED <<waiting, stats>>
    BY <1>6 DEF PrepareForFutureAck
  <2>2. DOMAIN nacked' = DOMAIN nacked \cup {UserId}
    BY <2>1 DEF Put
  <2>3. Cardinality(DOMAIN nacked') = N + 1
    BY <1>0, <2>1, <2>2, FS_AddElement DEF N
  <2>4. Cardinality(waiting') = W
    BY <2>1 DEF W
  <2> QED BY <1>0, <2>1, <2>3, <2>4 DEF StatsAddUp
<1>7. ASSUME NEW S \in SUBSET DOMAIN nacked, NEW ids \in Orders(S), Requeue(ids)
      PROVE  StatsAddUp'
  <2>1. PutsBack(S, ids)
    BY <1>7, RequeueFacts
  <2> DEFINE n == Len(ids)
             back == [i \in 1..n |-> Back(ids, i)]
             new == {Back(ids, i) : i \in 1..n}
  <2>2. /\ waiting' = waiting \cup new
        /\ \A i \in 1..n : Back(ids, i).seq = seq + i /\ Back(ids, i) \notin waiting
        /\ DOMAIN nacked' = DOMAIN nacked \ S
    BY <2>1 DEF PutsBack
  <2>3. n \in Nat /\ n = Cardinality(S)
    BY OrderFacts
  <2>4. stats' = stats /\ uncounted' = uncounted
    BY <1>7 DEF Requeue
  <2>5. \A i, j \in 1..n : back[i] = back[j] => i = j
    <3>1. seq \in Nat
      BY TypeFacts
    <3>2. \A i, j \in 1..n : seq + i = seq + j => i = j
      BY <2>3, <3>1
    <3> QED BY <2>2, <3>2
  <2>6. new = {back[i] : i \in 1..n}
    OBVIOUS
  <2>7. new \cap waiting = {}
    BY <2>2
  <2> HIDE DEF back, new, n
  <2>8. Cardinality(new) = n /\ IsFiniteSet(new)
    BY <2>3, <2>5, <2>6, ImageCount
  <2>9. Cardinality(waiting') = W + n
    BY <1>0, <2>2, <2>7, <2>8, AddCount DEF W
  <2>10. Cardinality(DOMAIN nacked') = N - n
    BY <1>0, <2>2, <2>3, DropCount DEF N
  <2> QED BY <1>0, <2>3, <2>4, <2>9, <2>10 DEF StatsAddUp
<1>8. ASSUME NEW o \in Objects, NEW id \in DOMAIN nacked, NEW state \in States,
             NEW old \in Ages, Finish(o, id, state, old)
      PROVE  StatsAddUp'
  <2>1. /\ nacked' = Drop(nacked, {id})
        /\ stats' = [stats EXCEPT ![state] = @ + 1]
        /\ UNCHANGED <<waiting, uncounted>>
    BY <1>8 DEF Finish
  <2>2. DOMAIN nacked' = DOMAIN nacked \ {id}
    BY <2>1 DEF Drop
  <2>3. Cardinality(DOMAIN nacked') = N - 1 /\ Cardinality(waiting') = W
    BY <1>0, <2>1, <2>2, FS_RemoveElement DEF N, W
  <2>4. /\ stats'["submitted"] = stats["submitted"]
        /\ \/ /\ stats'["completed"] = stats["completed"] + 1
              /\ stats'["failed"] = stats["failed"]
           \/ /\ stats'["completed"] = stats["completed"]
              /\ stats'["failed"] = stats["failed"] + 1
    <3>1. CASE state = "completed"
      BY <1>0, <2>1, <3>1 DEF States
    <3>2. CASE state = "failed"
      BY <1>0, <2>1, <3>2 DEF States
    <3> QED BY <3>1, <3>2 DEF States
  <2> QED BY <1>0, <2>1, <2>3, <2>4 DEF StatsAddUp
<1>9. ASSUME Purge PROVE StatsAddUp'
  <2>1. /\ waiting' = {} /\ nacked' = EmptyMap /\ uncounted' = 0
        /\ stats' = [s \in States \cup {"submitted"} |-> 0]
    BY <1>9 DEF Purge
  <2>2. Cardinality(waiting') = 0 /\ Cardinality(DOMAIN nacked') = 0
    BY <2>1, FS_EmptySet, EmptyFacts
  <2>3. stats'["submitted"] = 0 /\ stats'["completed"] = 0 /\ stats'["failed"] = 0
    BY <2>1 DEF States
  <2> QED BY <2>1, <2>2, <2>3 DEF StatsAddUp
<1>10. ASSUME UNCHANGED <<waiting, nacked, stats, uncounted>> PROVE StatsAddUp'
  BY <1>10 DEF StatsAddUp
<1>11. ASSUME NEW o \in Objects, NEW old \in [States -> Ages], Trim(o, old)
       PROVE  UNCHANGED <<waiting, nacked, stats, uncounted>>
  BY <1>11 DEF Trim
<1>12. ASSUME NEW o \in Setters, NEW state \in States, NEW k \in 0..MaxKeep,
              SetRetention(o, state, k)
       PROVE  UNCHANGED <<waiting, nacked, stats, uncounted>>
  BY <1>12 DEF SetRetention
<1>13. CASE UNCHANGED vars
  BY <1>10, <1>13 DEF vars
<1> QED
  <2>1. CASE Next
    BY <2>1, <1>1, <1>3, <1>4, <1>5, <1>6, <1>7, <1>8, <1>9, <1>10, <1>11, <1>12 DEF Next
  <2> QED BY <2>1, <1>13

(* The counters of QueueStats add up after every script: each submission   *)
(* waits, is pending, was finished once or left by hand, through requeues, *)
(* late copies of pops and a Purge (zsetPush, finishScript, Purge's DEL).  *)
THEOREM CountersAddUp == Spec => []StatsAddUp
<1>1. Init => TypeInv /\ StatsAddUp
  <2>1. Init => StatsAddUp
    <3> SUFFICES ASSUME Init PROVE StatsAddUp
      OBVIOUS
    <3>1. Cardinality(waiting) = 0 /\ Cardinality(DOMAIN nacked) = 0
      BY FS_EmptySet, EmptyFacts DEF Init
    <3>2. /\ stats["submitted"] = 0 /\ stats["completed"] = 0 /\ stats["failed"] = 0
          /\ uncounted = 0
      BY DEF Init, States
    <3> QED BY <3>1, <3>2 DEF StatsAddUp
  <2> QED BY <2>1, TypesInit
<1>2. TypeInv /\ StatsAddUp /\ [Next]_vars => (TypeInv /\ StatsAddUp)'
  BY TypesNext, StatsNext
<1> QED BY <1>1, <1>2, PTL DEF Spec

-----------------------------------------------------------------------------
(* Where each job is.                                                      *)

(* A job has one place at most: it waits once, is pending under one ID, or *)
(* neither.  Those that left by hand stay away unless they are prepared.   *)
Placed ==
  /\ \A m, k \in waiting : m.job = k.job => m = k
  /\ IsInjective(nacked)
  /\ Waits \cap Pends = {}
  /\ Waits \cup Pends \cup left \subseteq DOMAIN given
  /\ (left \ prepared) \cap (Waits \cup Pends) = {}

(* A job that is pending was handed out, and one handed out was pushed.    *)
Taken ==
  /\ \A j \in Pends : handed[j] > 0
  /\ \A j \in Jobs : handed[j] > 0 => j \in DOMAIN given

(* Jobs wait, and are pending, at the priority they were pushed with,      *)
(* except those prepared by hand.                                          *)
Ranked ==
  /\ \A m \in waiting : m.job \notin prepared => m.score = given[m.job]
  /\ \A id \in DOMAIN nacked : nacked[id] \notin prepared =>
       id \in DOMAIN prio /\ prio[id] = given[nacked[id]]

(* Jobs are pushed in order, and jobs never handed out have sequence       *)
(* numbers in that order.                                                  *)
InOrder ==
  /\ \A j \in DOMAIN given : \A i \in Jobs : i < j => i \in DOMAIN given
  /\ \A m, k \in waiting :
       handed[m.job] = 0 /\ handed[k.job] = 0 /\ m.job < k.job => m.seq < k.seq

PlaceInv == Placed /\ Taken /\ Ranked /\ InOrder

(* A member that goes takes its job along.                                 *)
LEMMA TakeMoves ==
  ASSUME TypeInv, Placed, NEW m \in waiting, waiting' = waiting \ {m}
  PROVE  m.job \in Waits /\ m.job \in Jobs /\ Waits' = Waits \ {m.job}
<1>1. m.job \in Waits /\ m.job \in Jobs
  BY WaitingSortable DEF Waits
<1>2. \A k \in waiting : k.job = m.job => k = m
  BY DEF Placed
<1> QED BY <1>1, <1>2 DEF Waits

(* The jobs that a pop hands out.                                          *)
Served(want, size) == {Lowest(want)[i].job : i \in 1..size}

(* They wait before it, are pending after it, and no other job moves.      *)
LEMMA PopMoves ==
  ASSUME TypeInv, Placed, NEW call \in 1..MaxCalls, NEW want \in 1..MaxWant,
         Pop(call, want), NEW size \in 1..want, Popped(call, want, size)
  PROVE  /\ Served(want, size) \subseteq Waits /\ Served(want, size) \subseteq Jobs
         /\ Waits' = Waits \ Served(want, size)
         /\ Pends' = Pends \cup Served(want, size)
         /\ \A j \in Served(want, size) : handed'[j] = handed[j] + 1
         /\ \A j \in Jobs \ Served(want, size) : handed'[j] = handed[j]
<1> DEFINE ms == Lowest(want)
           J == Served(want, size)
<1>1. /\ DOMAIN ms = 1..size
      /\ \A i \in 1..size : ms[i] \in waiting
      /\ \A i, j \in 1..size : ms[i] = ms[j] => i = j
      /\ waiting' = waiting \ {ms[i] : i \in 1..size}
      /\ DOMAIN nacked' = DOMAIN nacked \cup {<<call, i>> : i \in 1..size}
      /\ \A x \in DOMAIN nacked : nacked'[x] = nacked[x]
      /\ \A i \in 1..size : nacked'[<<call, i>>] = ms[i].job
  BY DEF Popped
<1>2. want \in Nat /\ HandsOut(ms)
  BY DEF Pop
<1>3. \A j \in Jobs : handed'[j] = handed[j] + Cardinality({i \in DOMAIN ms : ms[i].job = j})
  BY <1>2, HandsOutFacts
<1>4. \A j \in Jobs : handed[j] \in Nat
  BY TypeFacts
<1>5. \A x : x \in J <=> \E i \in 1..size : x = ms[i].job
  BY DEF Served
<1> HIDE DEF ms, J
<1>6. \A i \in 1..size : ms[i].job \in Waits /\ ms[i].job \in Jobs
  BY <1>1, WaitingSortable DEF Waits
<1>7. \A k \in waiting, i \in 1..size : k.job = ms[i].job => k = ms[i]
  BY <1>1 DEF Placed
<1>8. Waits' = Waits \ J
  <2>1. \A k \in waiting : k \in waiting' <=> k.job \notin J
    BY <1>1, <1>5, <1>7
  <2>2. waiting' \subseteq waiting
    BY <1>1
  <2> QED BY <2>1, <2>2 DEF Waits
<1>9. Pends' = Pends \cup J
  <2>1. \A x \in Pends' : x \in Pends \cup J
    BY <1>1, <1>5 DEF Pends, Range
  <2>2. \A x \in Pends : x \in Pends'
    BY <1>1 DEF Pends, Range
  <2>3. ASSUME NEW i \in 1..size PROVE ms[i].job \in Pends'
    <3>1. <<call, i>> \in DOMAIN nacked' /\ nacked'[<<call, i>>] = ms[i].job
      BY <1>1
    <3> QED BY <3>1 DEF Pends, Range
  <2> QED BY <1>5, <2>1, <2>2, <2>3
<1>10. ASSUME NEW j \in J PROVE handed'[j] = handed[j] + 1
  <2>1. PICK i \in 1..size : j = ms[i].job
    BY <1>5
  <2>2. \A k \in 1..size : ms[k].job = j => k = i
    BY <1>1, <1>7, <2>1
  <2>3. {k \in DOMAIN ms : ms[k].job = j} = {i}
    BY <1>1, <2>1, <2>2
  <2>4. Cardinality({i}) = 1
    BY FS_Singleton
  <2>5. j \in Jobs
    BY <1>6, <2>1
  <2> QED BY <1>3, <2>3, <2>4, <2>5
<1>11. ASSUME NEW j \in Jobs \ J PROVE handed'[j] = handed[j]
  <2>1. {k \in DOMAIN ms : ms[k].job = j} = {}
    BY <1>1, <1>5
  <2> QED BY <1>3, <1>4, <2>1, FS_EmptySet
<1>12. J \subseteq Waits /\ J \subseteq Jobs
  BY <1>5, <1>6
<1> QED BY <1>8, <1>9, <1>10, <1>11, <1>12 DEF J

(* The jobs that a requeue moves.                                          *)
Moved(S) == {nacked[x] : x \in S}

(* They are pending before it and wait after it.                           *)
LEMMA RequeueMoves ==
  ASSUME TypeInv, Placed, NEW S \in SUBSET DOMAIN nacked, NEW ids \in Orders(S), Requeue(ids)
  PROVE  /\ Moved(S) \subseteq Pends /\ Moved(S) \subseteq Jobs
         /\ Waits' = Waits \cup Moved(S)
         /\ Pends' = Pends \ Moved(S)
<1>1. /\ waiting' = waiting \cup {Back(ids, i) : i \in 1..Len(ids)}
      /\ \A i \in 1..Len(ids) : Back(ids, i).job = nacked[ids[i]]
      /\ DOMAIN nacked' = DOMAIN nacked \ S
      /\ \A x \in DOMAIN nacked \ S : nacked'[x] = nacked[x]
  <2>1. PutsBack(S, ids)
    BY RequeueFacts
  <2> QED BY <2>1 DEF PutsBack
<1>2. DOMAIN ids = 1..Len(ids) /\ Range(ids) = S
  BY OrderFacts
<1>3. \A x \in DOMAIN nacked : nacked[x] \in Jobs
  BY TypeFacts DEF IsMap
<1>4. Moved(S) \subseteq Pends /\ Moved(S) \subseteq Jobs
  BY <1>3 DEF Moved, Pends, Range
<1>5. Waits' = Waits \cup Moved(S)
  <2>1. ASSUME NEW i \in 1..Len(ids) PROVE Back(ids, i).job \in Moved(S)
    <3>1. ids[i] \in S
      BY <1>2 DEF Range
    <3> QED BY <1>1, <3>1 DEF Moved
  <2>2. ASSUME NEW x \in S PROVE nacked[x] \in Waits'
    <3>1. PICK i \in 1..Len(ids) : ids[i] = x
      BY <1>2 DEF Range
    <3>2. Back(ids, i) \in waiting' /\ Back(ids, i).job = nacked[x]
      BY <1>1, <3>1
    <3> QED BY <3>2 DEF Waits
  <2>3. Waits \subseteq Waits'
    BY <1>1 DEF Waits
  <2>4. Waits' \subseteq Waits \cup Moved(S)
    BY <1>1, <2>1 DEF Waits
  <2>5. Moved(S) \subseteq Waits'
    BY <2>2 DEF Moved
  <2> QED BY <2>3, <2>4, <2>5
<1>6. Pends' = Pends \ Moved(S)
  <2>1. \A x, y \in DOMAIN nacked : nacked[x] = nacked[y] => x = y
    BY DEF Placed, IsInjective
  <2> QED BY <1>1, <2>1 DEF Pends, Range, Moved
<1> QED BY <1>4, <1>5, <1>6

(* The job that a finish takes.                                            *)
LEMMA FinishMoves ==
  ASSUME TypeInv, Placed, NEW id \in DOMAIN nacked, nacked' = Drop(nacked, {id})
  PROVE  /\ nacked[id] \in Pends /\ nacked[id] \in Jobs
         /\ Pends' = Pends \ {nacked[id]}
         /\ DOMAIN nacked' = DOMAIN nacked \ {id}
         /\ \A x \in DOMAIN nacked \ {id} : nacked'[x] = nacked[x]
<1>1. /\ DOMAIN nacked' = DOMAIN nacked \ {id}
      /\ \A x \in DOMAIN nacked \ {id} : nacked'[x] = nacked[x]
  BY DEF Drop
<1>2. \A x, y \in DOMAIN nacked : nacked[x] = nacked[y] => x = y
  BY DEF Placed, IsInjective
<1>3. nacked[id] \in Jobs
  BY TypeFacts DEF IsMap
<1> QED BY <1>1, <1>2, <1>3 DEF Pends, Range

(* The map of an injective nacked stays injective when keys go.            *)
LEMMA StaysInjective ==
  ASSUME IsInjective(nacked), DOMAIN nacked' \subseteq DOMAIN nacked,
         \A x \in DOMAIN nacked' : nacked'[x] = nacked[x]
  PROVE  IsInjective(nacked')
  BY DEF IsInjective

(* Each action keeps every job in its place, at its priority and in order. *)
LEMMA PlacesNext ==
  ASSUME TypeInv, PlaceInv, [Next]_vars
  PROVE  PlaceInv'
<1>. USE DEF pending, recordVars, history
<1>0. /\ \A m, k \in waiting : m.job = k.job => m = k
      /\ IsInjective(nacked)
      /\ Waits \cap Pends = {}
      /\ Waits \cup Pends \cup left \subseteq DOMAIN given
      /\ (left \ prepared) \cap (Waits \cup Pends) = {}
      /\ \A j \in Pends : handed[j] > 0
      /\ \A j \in Jobs : handed[j] > 0 => j \in DOMAIN given
      /\ \A m \in waiting : m.job \notin prepared => m.score = given[m.job]
      /\ \A id \in DOMAIN nacked : nacked[id] \notin prepared =>
           id \in DOMAIN prio /\ prio[id] = given[nacked[id]]
      /\ \A j \in DOMAIN given : \A i \in Jobs : i < j => i \in DOMAIN given
      /\ \A m, k \in waiting :
           handed[m.job] = 0 /\ handed[k.job] = 0 /\ m.job < k.job => m.seq < k.seq
      /\ Placed
  BY DEF PlaceInv, Placed, Taken, Ranked, InOrder
<1>t. /\ \A j \in Jobs : handed[j] \in Nat /\ j \in Nat
      /\ \A m \in waiting : m.job \in Waits /\ m.job \in Jobs /\ m.seq \in 1..seq
      /\ Pends \subseteq Jobs /\ DOMAIN given \subseteq Jobs
      /\ seq \in Nat
      /\ \A id \in DOMAIN nacked : nacked[id] \in Pends
  BY TypeFacts, WaitingSortable, PriorityAssumption DEF Waits, Pends, Range, IsMap
<1>1. ASSUME NEW j \in Jobs, NEW p \in Priorities, Enqueue(j, p) PROVE PlaceInv'
  <2> DEFINE new == Member(j, p, seq + 1)
  <2>1. /\ j \notin DOMAIN given /\ \A i \in Jobs : i < j => i \in DOMAIN given
        /\ waiting' = waiting \cup {new}
        /\ given' = Put(given, j, p)
        /\ UNCHANGED <<nacked, prio, handed, left, prepared>>
    BY <1>1 DEF Enqueue
  <2>2. new.job = j /\ new.score = p /\ new.seq = seq + 1
    BY DEF Member
  <2> HIDE DEF new
  <2>3. /\ DOMAIN given' = DOMAIN given \cup {j} /\ given'[j] = p
        /\ \A i \in DOMAIN given : given'[i] = given[i]
    BY <2>1 DEF Put
  <2>4. j \notin Waits /\ j \notin Pends /\ j \notin left /\ handed[j] = 0
    BY <1>0, <1>t, <2>1
  <2>5. Waits' = Waits \cup {j} /\ Pends' = Pends
    BY <2>1, <2>2 DEF Waits, Pends
  <2>6. Placed'
    <3>1. \A m, k \in waiting' : m.job = k.job => m = k
      BY <1>0, <1>t, <2>1, <2>2, <2>4
    <3>2. IsInjective(nacked)' /\ (Waits \cap Pends = {})'
      BY <1>0, <2>1, <2>4, <2>5
    <3>3. (Waits \cup Pends \cup left \subseteq DOMAIN given)'
      BY <1>0, <2>1, <2>3, <2>5
    <3>4. ((left \ prepared) \cap (Waits \cup Pends) = {})'
      BY <1>0, <2>1, <2>4, <2>5
    <3> QED BY <3>1, <3>2, <3>3, <3>4 DEF Placed
  <2>7. Taken'
    BY <1>0, <2>1, <2>3, <2>5 DEF Taken
  <2>8. Ranked'
    <3>1. \A m \in waiting' : m.job \notin prepared' => m.score = given'[m.job]
      BY <1>0, <1>t, <2>1, <2>2, <2>3
    <3>2. \A id \in DOMAIN nacked' : nacked'[id] \notin prepared' =>
            id \in DOMAIN prio' /\ prio'[id] = given'[nacked'[id]]
      BY <1>0, <1>t, <2>1, <2>3
    <3> QED BY <3>1, <3>2 DEF Ranked
  <2>9. InOrder'
    <3>1. \A i \in DOMAIN given' : \A k \in Jobs : k < i => k \in DOMAIN given'
      BY <1>0, <2>1, <2>3
    <3>2. ASSUME NEW m \in waiting', NEW k \in waiting', handed'[m.job] = 0, handed'[k.job] = 0,
                 m.job < k.job
          PROVE  m.seq < k.seq
      <4>1. CASE m \in waiting /\ k \in waiting
        BY <1>0, <2>1, <3>2, <4>1
      <4>2. CASE m \in waiting /\ k = new
        BY <1>t, <2>2, <4>2
      <4>3. CASE m = new /\ k \in waiting
        <5>1. k.job \in DOMAIN given
          BY <1>0, <1>t, <4>3
        <5>2. j \in DOMAIN given
          BY <1>0, <2>2, <3>2, <4>3, <5>1
        <5> QED BY <2>1, <5>2
      <4>4. CASE m = new /\ k = new
        BY <1>t, <2>2, <3>2, <4>4
      <4> QED BY <2>1, <4>1, <4>2, <4>3, <4>4
    <3> QED BY <3>1, <3>2 DEF InOrder
  <2> QED BY <2>6, <2>7, <2>8, <2>9 DEF PlaceInv
<1>2. ASSUME NEW m \in waiting, waiting' = waiting \ {m}, left' = left \cup {m.job},
             \A j \in Jobs : handed'[j] \in Nat /\ handed'[j] >= handed[j],
             \A j \in Jobs : j # m.job => handed'[j] = handed[j],
             UNCHANGED <<nacked, prio, given, prepared>>
      PROVE  PlaceInv'
  <2>1. m.job \in Waits /\ m.job \in Jobs /\ Waits' = Waits \ {m.job}
    BY <1>0, <1>2, TakeMoves
  <2>2. Pends' = Pends
    BY <1>2 DEF Pends
  <2>3. Placed'
    BY <1>0, <1>2, <2>1, <2>2 DEF Placed
  <2>4. Taken'
    <3>1. \A j \in Pends' : handed'[j] > 0
      BY <1>0, <1>t, <1>2, <2>2
    <3>2. \A j \in Jobs : handed'[j] > 0 => j \in DOMAIN given'
      BY <1>0, <1>2, <2>1
    <3> QED BY <3>1, <3>2 DEF Taken
  <2>5. Ranked'
    BY <1>0, <1>2 DEF Ranked
  <2>6. InOrder'
    <3>1. \A j \in Jobs : handed'[j] = 0 => handed[j] = 0
      BY <1>t, <1>2
    <3>2. \A k, l \in waiting' :
            handed'[k.job] = 0 /\ handed'[l.job] = 0 /\ k.job < l.job => k.seq < l.seq
      BY <1>0, <1>t, <1>2, <3>1
    <3> QED BY <1>0, <1>2, <3>2 DEF InOrder
  <2> QED BY <2>3, <2>4, <2>5, <2>6 DEF PlaceInv
<1>3. ASSUME Dequeue PROVE PlaceInv'
  <2>1. PICK m \in waiting :
         /\ waiting' = waiting \ {m} /\ left' = left \cup {m.job}
         /\ handed'[m.job] = handed[m.job] + 1
         /\ \A j \in Jobs : j # m.job => handed'[j] = handed[j]
         /\ handed' \in [Jobs -> Nat]
    BY <1>3, DequeueFacts
  <2>2. UNCHANGED <<nacked, prio, given, prepared>>
    BY <1>3 DEF Dequeue
  <2>3. \A j \in Jobs : handed'[j] \in Nat /\ handed'[j] >= handed[j]
    BY <1>t, <2>1
  <2> QED BY <1>2, <2>1, <2>2, <2>3
<1>4. ASSUME NEW m \in waiting, RemoveItem(m) PROVE PlaceInv'
  <2>1. /\ waiting' = waiting \ {m} /\ left' = left \cup {m.job}
        /\ UNCHANGED <<nacked, prio, given, handed, prepared>>
    BY <1>4 DEF RemoveItem
  <2>2. \A j \in Jobs : handed'[j] \in Nat /\ handed'[j] >= handed[j]
    BY <1>t, <2>1
  <2>3. \A j \in Jobs : j # m.job => handed'[j] = handed[j]
    BY <2>1
  <2> QED BY <1>2, <2>1, <2>2, <2>3
<1>5. ASSUME NEW c \in 1..MaxCalls, NEW w \in 1..MaxWant, Pop(c, w) PROVE PlaceInv'
  <2>1. PICK size \in 1..w : Popped(c, w, size)
    BY <1>5, PopFacts
  <2> DEFINE ms == Lowest(w)
             J == Served(w, size)
  <2>2. /\ J \subseteq Waits /\ J \subseteq Jobs
        /\ Waits' = Waits \ J
        /\ Pends' = Pends \cup J
        /\ \A j \in J : handed'[j] = handed[j] + 1
        /\ \A j \in Jobs \ J : handed'[j] = handed[j]
    BY <1>0, <1>5, <2>1, PopMoves
  <2>3. /\ \A i \in 1..size : ms[i] \in waiting
        /\ \A i, j \in 1..size : ms[i] = ms[j] => i = j
        /\ waiting' \subseteq waiting
        /\ \A i \in 1..size : <<c, i>> \notin DOMAIN nacked
        /\ DOMAIN nacked' = DOMAIN nacked \cup {<<c, i>> : i \in 1..size}
        /\ \A x \in DOMAIN nacked : nacked'[x] = nacked[x]
        /\ \A i \in 1..size : nacked'[<<c, i>>] = ms[i].job
        /\ DOMAIN prio' = DOMAIN prio \cup {<<c, i>> : i \in 1..size}
        /\ \A x \in DOMAIN prio : x \in DOMAIN nacked => prio'[x] = prio[x]
        /\ \A i \in 1..size : prio'[<<c, i>>] = ms[i].score
    BY <2>1 DEF Popped
  <2>4. UNCHANGED <<given, left, prepared>>
    BY <1>5 DEF Pop
  <2> HIDE DEF ms, J
  <2>5. \A x \in DOMAIN nacked' : x \in DOMAIN nacked \/ \E i \in 1..size : x = <<c, i>>
    BY <2>3
  <2>6. Placed'
    <3>1. \A m, k \in waiting' : m.job = k.job => m = k
      BY <1>0, <2>3
    <3>2. IsInjective(nacked)'
      <4> SUFFICES ASSUME NEW x \in DOMAIN nacked', NEW y \in DOMAIN nacked', nacked'[x] = nacked'[y]
                   PROVE  x = y
        BY DEF IsInjective
      <4>1. \A i \in 1..size : ms[i].job \in Waits
        BY <1>t, <2>3
      <4>2. CASE x \in DOMAIN nacked /\ y \in DOMAIN nacked
        BY <1>0, <2>3, <4>2 DEF IsInjective
      <4>3. CASE x \in DOMAIN nacked /\ y \notin DOMAIN nacked
        BY <1>0, <1>t, <2>3, <2>5, <4>1, <4>3
      <4>4. CASE x \notin DOMAIN nacked /\ y \in DOMAIN nacked
        BY <1>0, <1>t, <2>3, <2>5, <4>1, <4>4
      <4>5. CASE x \notin DOMAIN nacked /\ y \notin DOMAIN nacked
        <5>1. PICK i \in 1..size : x = <<c, i>>
          BY <2>5, <4>5
        <5>2. PICK k \in 1..size : y = <<c, k>>
          BY <2>5, <4>5
        <5>3. ms[i].job = ms[k].job /\ ms[i] \in waiting /\ ms[k] \in waiting
          BY <2>3, <5>1, <5>2
        <5>4. i = k
          BY <1>0, <2>3, <5>3
        <5> QED BY <5>1, <5>2, <5>4
      <4> QED BY <4>2, <4>3, <4>4, <4>5
    <3>3. (Waits \cap Pends = {})'
      BY <1>0, <2>2
    <3>4. (Waits \cup Pends \cup left \subseteq DOMAIN given)'
      BY <1>0, <2>2, <2>4
    <3>5. ((left \ prepared) \cap (Waits \cup Pends) = {})'
      BY <1>0, <2>2, <2>4
    <3> QED BY <3>1, <3>2, <3>3, <3>4, <3>5 DEF Placed
  <2>7. \A j \in Jobs : handed'[j] >= handed[j] /\ handed'[j] \in Nat
    BY <1>t, <2>2
  <2>8. Taken'
    <3>1. \A j \in Pends' : handed'[j] > 0
      BY <1>0, <1>t, <2>2
    <3>2. \A j \in Jobs : handed'[j] > 0 => j \in DOMAIN given'
      BY <1>0, <2>2, <2>4
    <3> QED BY <3>1, <3>2 DEF Taken
  <2>9. Ranked'
    <3>1. \A m \in waiting' : m.job \notin prepared' => m.score = given'[m.job]
      BY <1>0, <2>3, <2>4
    <3>2. ASSUME NEW x \in DOMAIN nacked', nacked'[x] \notin prepared'
          PROVE  x \in DOMAIN prio' /\ prio'[x] = given'[nacked'[x]]
      <4>1. CASE x \in DOMAIN nacked
        BY <1>0, <2>3, <2>4, <3>2, <4>1
      <4>2. CASE x \notin DOMAIN nacked
        <5>1. PICK i \in 1..size : x = <<c, i>>
          BY <2>5, <4>2
        <5>2. /\ x \in DOMAIN prio' /\ prio'[x] = ms[i].score
              /\ nacked'[x] = ms[i].job /\ ms[i] \in waiting
          BY <2>3, <5>1
        <5> QED BY <1>0, <2>4, <3>2, <5>2
      <4> QED BY <4>1, <4>2
    <3> QED BY <3>1, <3>2 DEF Ranked
  <2>10. InOrder'
    <3>1. \A j \in Jobs : handed'[j] = 0 => handed[j] = 0
      BY <1>t, <2>7
    <3>2. \A k, l \in waiting' :
            handed'[k.job] = 0 /\ handed'[l.job] = 0 /\ k.job < l.job => k.seq < l.seq
      BY <1>0, <1>t, <2>3, <3>1
    <3> QED BY <1>0, <2>4, <3>2 DEF InOrder
  <2> QED BY <2>6, <2>8, <2>9, <2>10 DEF PlaceInv
<1>6. ASSUME NEW j \in Jobs, PrepareForFutureAck(j) PROVE PlaceInv'
  <2>1. /\ j \in left \ prepared /\ handed[j] > 0
        /\ UserId \notin DOMAIN nacked
        /\ nacked' = Put(nacked, UserId, j)
        /\ prepared' = prepared \cup {j}
        /\ UNCHANGED <<waiting, prio, given, handed, left>>
    BY <1>6 DEF PrepareForFutureAck
  <2>2. /\ DOMAIN nacked' = DOMAIN nacked \cup {UserId} /\ nacked'[UserId] = j
        /\ \A x \in DOMAIN nacked : nacked'[x] = nacked[x]
    BY <2>1 DEF Put
  <2>3. j \notin Waits /\ j \notin Pends
    BY <1>0, <2>1
  <2>4. Waits' = Waits /\ Pends' = Pends \cup {j}
    BY <2>1, <2>2 DEF Waits, Pends, Range
  <2>5. Placed'
    <3>1. IsInjective(nacked)'
      <4>1. \A x \in DOMAIN nacked : nacked[x] # j
        BY <1>t, <2>3
      <4> QED BY <1>0, <2>1, <2>2, <4>1 DEF IsInjective
    <3> QED BY <1>0, <2>1, <2>3, <2>4, <3>1 DEF Placed
  <2>6. Taken'
    BY <1>0, <2>1, <2>4 DEF Taken
  <2>7. Ranked'
    BY <1>0, <2>1, <2>2 DEF Ranked
  <2>8. InOrder'
    BY <1>0, <2>1 DEF InOrder
  <2> QED BY <2>5, <2>6, <2>7, <2>8 DEF PlaceInv
<1>7. ASSUME NEW S \in SUBSET DOMAIN nacked, NEW ids \in Orders(S), Requeue(ids) PROVE PlaceInv'
  <2>1. PutsBack(S, ids)
    BY <1>7, RequeueFacts
  <2> DEFINE n == Len(ids)
  <2>2. /\ waiting' = waiting \cup {Back(ids, i) : i \in 1..n}
        /\ \A i \in 1..n :
             /\ Back(ids, i).job = nacked[ids[i]]
             /\ Back(ids, i).score = Score(ids[i])
        /\ DOMAIN nacked' = DOMAIN nacked \ S
        /\ \A x \in DOMAIN nacked \ S : nacked'[x] = nacked[x]
        /\ DOMAIN prio' = DOMAIN prio \ S
        /\ \A x \in DOMAIN prio \ S : prio'[x] = prio[x]
    BY <2>1 DEF PutsBack
  <2>3. /\ \A i \in 1..n : ids[i] \in S
        /\ \A i, k \in 1..n : ids[i] = ids[k] => i = k
    BY OrderFacts
  <2>4. /\ Moved(S) \subseteq Pends /\ Moved(S) \subseteq Jobs
        /\ Waits' = Waits \cup Moved(S)
        /\ Pends' = Pends \ Moved(S)
    BY <1>0, <1>7, RequeueMoves
  <2>5. UNCHANGED <<given, handed, left, prepared>>
    BY <1>7 DEF Requeue
  <2> HIDE DEF n
  <2>6. \A i \in 1..n : ids[i] \in DOMAIN nacked /\ Back(ids, i).job \in Pends
    BY <1>t, <2>2, <2>3
  <2>7. \A m \in waiting' : m \in waiting \/ \E i \in 1..n : m = Back(ids, i)
    BY <2>2
  <2>8. Placed'
    <3>1. ASSUME NEW m \in waiting', NEW k \in waiting', m.job = k.job PROVE m = k
      <4>1. CASE m \in waiting /\ k \in waiting
        BY <1>0, <3>1, <4>1
      <4>2. CASE m \in waiting /\ k \notin waiting
        BY <1>0, <1>t, <2>6, <2>7, <3>1, <4>2
      <4>3. CASE m \notin waiting /\ k \in waiting
        BY <1>0, <1>t, <2>6, <2>7, <3>1, <4>3
      <4>4. CASE m \notin waiting /\ k \notin waiting
        <5>1. PICK i \in 1..n : m = Back(ids, i)
          BY <2>7, <4>4
        <5>2. PICK l \in 1..n : k = Back(ids, l)
          BY <2>7, <4>4
        <5>3. nacked[ids[i]] = nacked[ids[l]]
          BY <2>2, <3>1, <5>1, <5>2
        <5>4. ids[i] = ids[l]
          BY <1>0, <2>6, <5>3 DEF IsInjective
        <5> QED BY <2>3, <5>1, <5>2, <5>4
      <4> QED BY <4>1, <4>2, <4>3, <4>4
    <3>2. IsInjective(nacked)'
      BY <1>0, <2>2, StaysInjective
    <3>3. (Waits \cap Pends = {})'
      BY <1>0, <2>4
    <3>4. (Waits \cup Pends \cup left \subseteq DOMAIN given)'
      BY <1>0, <2>4, <2>5
    <3>5. ((left \ prepared) \cap (Waits \cup Pends) = {})'
      BY <1>0, <2>4, <2>5
    <3> QED BY <3>1, <3>2, <3>3, <3>4, <3>5 DEF Placed
  <2>9. Taken'
    BY <1>0, <2>4, <2>5 DEF Taken
  <2>10. Ranked'
    <3>1. ASSUME NEW m \in waiting', m.job \notin prepared' PROVE m.score = given'[m.job]
      <4>1. CASE m \in waiting
        BY <1>0, <2>5, <3>1, <4>1
      <4>2. CASE m \notin waiting
        <5>1. PICK i \in 1..n : m = Back(ids, i)
          BY <2>7, <4>2
        <5>2. m.job = nacked[ids[i]] /\ m.score = Score(ids[i]) /\ ids[i] \in DOMAIN nacked
          BY <2>2, <2>6, <5>1
        <5> QED BY <1>0, <2>5, <3>1, <5>2 DEF Score
      <4> QED BY <4>1, <4>2
    <3>2. \A x \in DOMAIN nacked' : nacked'[x] \notin prepared' =>
            x \in DOMAIN prio' /\ prio'[x] = given'[nacked'[x]]
      BY <1>0, <2>2, <2>5
    <3> QED BY <3>1, <3>2 DEF Ranked
  <2>11. InOrder'
    <3>1. \A m \in waiting' : handed[m.job] = 0 => m \in waiting
      BY <1>0, <2>6, <2>7
    <3> QED BY <1>0, <2>5, <3>1 DEF InOrder
  <2> QED BY <2>8, <2>9, <2>10, <2>11 DEF PlaceInv
<1>8. ASSUME NEW o \in Objects, NEW id \in DOMAIN nacked, NEW state \in States,
             NEW old \in Ages, Finish(o, id, state, old)
      PROVE  PlaceInv'
  <2>1. /\ nacked' = Drop(nacked, {id}) /\ prio' = Drop(prio, {id})
        /\ UNCHANGED <<waiting, given, handed, left, prepared>>
    BY <1>8 DEF Finish
  <2>2. /\ Pends' = Pends \ {nacked[id]}
        /\ DOMAIN nacked' = DOMAIN nacked \ {id}
        /\ \A x \in DOMAIN nacked \ {id} : nacked'[x] = nacked[x]
    BY <1>0, <2>1, FinishMoves
  <2>3. /\ DOMAIN prio' = DOMAIN prio \ {id}
        /\ \A x \in DOMAIN prio \ {id} : prio'[x] = prio[x]
    BY <2>1 DEF Drop
  <2>4. Waits' = Waits
    BY <2>1 DEF Waits
  <2>5. Placed'
    <3>1. IsInjective(nacked)'
      BY <1>0, <2>2, StaysInjective
    <3> QED BY <1>0, <2>1, <2>2, <2>4, <3>1 DEF Placed
  <2>6. Taken'
    BY <1>0, <2>1, <2>2 DEF Taken
  <2>7. Ranked'
    BY <1>0, <2>1, <2>2, <2>3 DEF Ranked
  <2>8. InOrder'
    BY <1>0, <2>1 DEF InOrder
  <2> QED BY <2>5, <2>6, <2>7, <2>8 DEF PlaceInv
<1>9. ASSUME Purge PROVE PlaceInv'
  <2>1. /\ waiting' = {} /\ nacked' = EmptyMap
        /\ UNCHANGED <<given, handed, left, prepared>>
    BY <1>9 DEF Purge
  <2>2. Waits' = {} /\ Pends' = {} /\ DOMAIN nacked' = {}
    BY <2>1, EmptyFacts DEF Waits, Pends, Range
  <2>3. Placed'
    BY <1>0, <2>1, <2>2 DEF Placed, IsInjective
  <2>4. Taken' /\ Ranked' /\ InOrder'
    BY <1>0, <2>1, <2>2 DEF Taken, Ranked, InOrder
  <2> QED BY <2>3, <2>4 DEF PlaceInv
<1>10. ASSUME UNCHANGED <<waiting, nacked, prio, given, handed, left, prepared>> PROVE PlaceInv'
  BY <1>0, <1>10 DEF PlaceInv, Placed, Taken, Ranked, InOrder, Waits, Pends
<1>11. ASSUME NEW o \in Objects, NEW old \in [States -> Ages], Trim(o, old)
       PROVE  UNCHANGED <<waiting, nacked, prio, given, handed, left, prepared>>
  BY <1>11 DEF Trim
<1>12. ASSUME NEW o \in Setters, NEW state \in States, NEW k \in 0..MaxKeep,
              SetRetention(o, state, k)
       PROVE  UNCHANGED <<waiting, nacked, prio, given, handed, left, prepared>>
  BY <1>12 DEF SetRetention
<1>13. CASE UNCHANGED vars
  BY <1>10, <1>13 DEF vars
<1> QED
  <2>1. CASE Next
    BY <2>1, <1>1, <1>3, <1>4, <1>5, <1>6, <1>7, <1>8, <1>9, <1>10, <1>11, <1>12 DEF Next
  <2> QED BY <2>1, <1>13

(* No job has a place at first.                                            *)
LEMMA PlacesInit ==
  ASSUME Init
  PROVE  PlaceInv
<1>1. /\ waiting = {} /\ nacked = EmptyMap /\ given = EmptyMap /\ left = {}
      /\ \A j \in Jobs : handed[j] = 0
  BY DEF Init
<1>2. Waits = {} /\ Pends = {} /\ DOMAIN nacked = {} /\ DOMAIN given = {}
  BY <1>1, EmptyFacts DEF Waits, Pends, Range
<1>3. Placed /\ Taken /\ Ranked /\ InOrder
  BY <1>1, <1>2 DEF Placed, Taken, Ranked, InOrder, IsInjective
<1> QED BY <1>3 DEF PlaceInv

(* Lowest priority first, and in the order of submission within one, for   *)
(* jobs that have not been handed out before: whatever zsetPush, requeues, *)
(* late copies of zsetAckPop, sweeps and Purges came before.               *)
THEOREM LowestFirst == Spec => ServedInTurn
<1> DEFINE InTurn(j, k) ==
             /\ given[j] <= given[k]
             /\ given[j] = given[k] /\ handed[j] = 0 /\ handed[k] = 0 => j < k
           Turn == \A j \in Jobs : handed'[j] > handed[j] =>
                     \A k \in {m.job : m \in waiting'} \ prepared : j \notin prepared => InTurn(j, k)
<1>1. Init => TypeInv /\ PlaceInv
  BY TypesInit, PlacesInit
<1>2. TypeInv /\ PlaceInv /\ [Next]_vars => (TypeInv /\ PlaceInv)'
  BY TypesNext, PlacesNext
<1>3. TypeInv /\ PlaceInv /\ [Next]_vars => [Turn]_vars
  <2> SUFFICES ASSUME TypeInv, PlaceInv, [Next]_vars PROVE Turn
    OBVIOUS
  <2> USE DEF pending, recordVars, history
  <2>1. ASSUME NEW a \in waiting, NEW m \in waiting, a # m, Before(a, m),
               a.job \notin prepared, m.job \notin prepared
        PROVE  InTurn(a.job, m.job)
    <3>1. a.score = given[a.job] /\ m.score = given[m.job]
      BY <2>1 DEF PlaceInv, Ranked
    <3>2. /\ a.score \in Int /\ m.score \in Int /\ a.seq \in Int /\ m.seq \in Int
          /\ a.job \in Int /\ m.job \in Int
      <4>1. a.score \in Int /\ m.score \in Int /\ a.seq \in Int /\ m.seq \in Int
        BY WaitingSortable DEF Sortable
      <4>2. a.job \in Jobs /\ m.job \in Jobs
        BY WaitingSortable
      <4>3. \A j \in Jobs : j \in Int
        BY PriorityAssumption
      <4> QED BY <4>1, <4>2, <4>3
    <3>3. given[a.job] <= given[m.job]
      BY <2>1, <3>1, <3>2 DEF Before
    <3>4. ASSUME given[a.job] = given[m.job], handed[a.job] = 0, handed[m.job] = 0
          PROVE  a.job < m.job
      <4>1. a.seq < m.seq
        BY <2>1, <3>1, <3>2, <3>4 DEF Before
      <4>2. a.job # m.job
        BY <2>1 DEF PlaceInv, Placed
      <4>3. ~(m.job < a.job)
        BY <3>2, <3>4, <4>1 DEF PlaceInv, InOrder
      <4> QED BY <3>2, <4>2, <4>3
    <3> QED BY <3>3, <3>4
  <2>2. ASSUME NEW A \in SUBSET waiting,
               waiting' = waiting \ A,
               \A a \in A, m \in waiting' : Before(a, m),
               \A j \in Jobs : handed'[j] > handed[j] => \E a \in A : a.job = j
        PROVE  Turn
    <3> SUFFICES ASSUME NEW j \in Jobs, handed'[j] > handed[j], j \notin prepared,
                        NEW k \in {m.job : m \in waiting'} \ prepared
                 PROVE  InTurn(j, k)
      OBVIOUS
    <3>1. PICK a \in A : a.job = j
      BY <2>2
    <3>2. PICK m \in waiting' : m.job = k
      OBVIOUS
    <3>3. a \in waiting /\ m \in waiting /\ a # m /\ Before(a, m)
      BY <2>2, <3>1, <3>2
    <3> HIDE DEF InTurn
    <3> QED BY <2>1, <3>1, <3>2, <3>3
  <2>3. \A j \in Jobs : handed[j] \in Nat
    BY TypeFacts
  <2>4. ASSUME Dequeue PROVE Turn
    <3>1. PICK m \in waiting :
           /\ waiting' = waiting \ {m}
           /\ \A k \in waiting' : Before(m, k)
           /\ \A j \in Jobs : j # m.job => handed'[j] = handed[j]
      BY <2>4, DequeueFacts
    <3>2. \A j \in Jobs : handed'[j] > handed[j] => \E a \in {m} : a.job = j
      BY <2>3, <3>1
    <3> HIDE DEF Turn
    <3> QED BY <2>2, <3>1, <3>2
  <2>5. ASSUME NEW c \in 1..MaxCalls, NEW w \in 1..MaxWant, Pop(c, w) PROVE Turn
    <3>1. PICK size \in 1..w : Popped(c, w, size)
      BY <2>5, PopFacts
    <3> DEFINE ms == Lowest(w)
    <3>2. /\ \A i \in 1..size : ms[i] \in waiting
          /\ waiting' = waiting \ Range(ms)
          /\ Range(ms) = {ms[i] : i \in 1..size}
          /\ \A i \in 1..size, k \in waiting' : Before(ms[i], k)
      BY <3>1 DEF Popped
    <3>3. \A j \in Jobs \ Served(w, size) : handed'[j] = handed[j]
      BY <2>5, <3>1, PopMoves DEF PlaceInv
    <3>4. \A j \in Jobs : handed'[j] > handed[j] => j \in Served(w, size)
      BY <2>3, <3>3
    <3>5. \A j \in Served(w, size) : \E i \in 1..size : ms[i].job = j
      BY DEF Served
    <3> HIDE DEF ms, Turn
    <3>6. Range(ms) \in SUBSET waiting /\ \A a \in Range(ms), m \in waiting' : Before(a, m)
      BY <3>2
    <3>7. \A j \in Jobs : handed'[j] > handed[j] => \E a \in Range(ms) : a.job = j
      BY <3>2, <3>4, <3>5
    <3> QED BY <2>2, <3>2, <3>6, <3>7
  <2>6. ASSUME handed' = handed PROVE Turn
    <3>1. \A j \in Jobs : ~(handed'[j] > handed[j])
      BY <2>3, <2>6
    <3> QED BY <3>1
  <2> HIDE DEF Turn
  <2>7. ASSUME NEW j \in Jobs, NEW p \in Priorities, Enqueue(j, p) PROVE handed' = handed
    BY <2>7 DEF Enqueue
  <2>8. ASSUME NEW m \in waiting, RemoveItem(m) PROVE handed' = handed
    BY <2>8 DEF RemoveItem
  <2>9. ASSUME NEW j \in Jobs, PrepareForFutureAck(j) PROVE handed' = handed
    BY <2>9 DEF PrepareForFutureAck
  <2>10. ASSUME NEW S \in SUBSET DOMAIN nacked, NEW ids \in Orders(S), Requeue(ids)
         PROVE  handed' = handed
    BY <2>10 DEF Requeue
  <2>11. ASSUME NEW o \in Objects, NEW id \in DOMAIN nacked, NEW state \in States,
                NEW old \in Ages, Finish(o, id, state, old)
         PROVE  handed' = handed
    BY <2>11 DEF Finish
  <2>12. ASSUME NEW o \in Objects, NEW old \in [States -> Ages], Trim(o, old) PROVE handed' = handed
    BY <2>12 DEF Trim
  <2>13. ASSUME NEW o \in Setters, NEW state \in States, NEW k \in 0..MaxKeep,
                SetRetention(o, state, k)
         PROVE  handed' = handed
    BY <2>13 DEF SetRetention
  <2>14. ASSUME Purge PROVE handed' = handed
    BY <2>14 DEF Purge
  <2>15. CASE UNCHANGED vars
    BY <2>6, <2>15 DEF vars
  <2>16. CASE Next
    BY <2>16, <2>4, <2>5, <2>6, <2>7, <2>8, <2>9, <2>10, <2>11, <2>12, <2>13, <2>14 DEF Next
  <2> QED BY <2>15, <2>16
<1>4. Turn <=> \A j \in Jobs : handed'[j] > handed[j] =>
                 \A k \in {m.job : m \in waiting'} \ prepared : j \notin prepared =>
                   /\ given[j] <= given[k]
                   /\ given[j] = given[k] /\ handed[j] = 0 /\ handed[k] = 0 => j < k
  OBVIOUS
<1> HIDE DEF Turn
<1>5. Spec => [][Turn]_vars
  BY <1>1, <1>2, <1>3, PTL DEF Spec
<1>6. [][Turn]_vars => ServedInTurn
  BY <1>4, PTL DEF ServedInTurn
<1> QED BY <1>5, <1>6, PTL

-----------------------------------------------------------------------------
(* Attempts.                                                               *)

(* No other job has j's envelope id.                                       *)
OwnId(j) == EnvOf[j] \in Envs /\ \A k \in Jobs : EnvOf[k] = EnvOf[j] => k = j

(* The count of requeues and the number of times a job was handed out keep *)
(* in step: they are equal while it waits, one apart while it is pending,  *)
(* and a job with a record does neither.                                   *)
ToldOf(j) ==
  /\ j \in Waits => handed[j] = Tries(EnvOf[j])
  /\ j \in Pends => handed[j] = Tries(EnvOf[j]) + 1
  /\ EnvOf[j] \in DOMAIN records =>
       /\ records[EnvOf[j]].attempts = handed[j]
       /\ j \in DOMAIN given /\ j \notin Waits \cup Pends
Told == \A j \in Jobs \ prepared : OwnId(j) => ToldOf(j)

(* A job of which nothing changes keeps in step.                           *)
LEMMA ToldStays ==
  ASSUME NEW j, ToldOf(j),
         j \in Waits' => j \in Waits, j \in Pends' => j \in Pends,
         handed'[j] = handed[j], Tries(EnvOf[j])' = Tries(EnvOf[j]),
         EnvOf[j] \in DOMAIN records' =>
           EnvOf[j] \in DOMAIN records /\ records'[EnvOf[j]] = records[EnvOf[j]],
         DOMAIN given \subseteq DOMAIN given'
  PROVE  ToldOf(j)'
  BY DEF ToldOf

(* Each action keeps the counts in step.                                   *)
LEMMA ToldNext ==
  ASSUME TypeInv, NoLeftovers, PlaceInv, Told, [Next]_vars
  PROVE  Told'
<1>. USE DEF pending, recordVars, history
<1>0. /\ \A j \in Jobs \ prepared : OwnId(j) => ToldOf(j)
      /\ Waits \cap Pends = {}
      /\ Waits \cup Pends \cup left \subseteq DOMAIN given
      /\ \A j \in Jobs : handed[j] > 0 => j \in DOMAIN given
      /\ \A j \in Jobs : handed[j] \in Nat
      /\ Placed
  BY TypeFacts DEF Told, PlaceInv, Placed, Taken
<1>s. ASSUME \A j \in Jobs \ prepared' : OwnId(j) => ToldOf(j)' PROVE Told'
  BY <1>s DEF Told, OwnId
<1>1. ASSUME NEW j \in Jobs, NEW p \in Priorities, Enqueue(j, p) PROVE Told'
  <2>1. /\ j \notin DOMAIN given
        /\ waiting' = waiting \cup {Member(j, p, seq + 1)}
        /\ given' = Put(given, j, p)
        /\ UNCHANGED <<nacked, attempts, records, handed, left, prepared>>
    BY <1>1 DEF Enqueue
  <2>2. Waits' = Waits \cup {j} /\ Pends' = Pends
    <3>1. Member(j, p, seq + 1).job = j
      BY DEF Member
    <3> QED BY <2>1, <3>1 DEF Waits, Pends
  <2>3. DOMAIN given \subseteq DOMAIN given'
    BY <2>1 DEF Put
  <2>4. \A e : Tries(e)' = Tries(e)
    BY <2>1 DEF Tries
  <2>5. ASSUME OwnId(j), j \notin prepared PROVE ToldOf(j)'
    <3>1. handed[j] = 0 /\ j \notin Pends /\ j \notin Near
      BY <1>0, <2>1 DEF Near
    <3>2. EnvOf[j] \notin DOMAIN attempts
      BY <2>5, <3>1, LeftoverParts DEF OwnId
    <3>3. EnvOf[j] \notin DOMAIN records
      BY <1>0, <2>1, <2>5 DEF ToldOf
    <3>4. Tries(EnvOf[j])' = 0
      BY <2>4, <3>2 DEF Tries
    <3> QED BY <2>1, <2>2, <3>1, <3>3, <3>4 DEF ToldOf
  <2>6. ASSUME NEW k \in Jobs \ prepared', OwnId(k) PROVE ToldOf(k)'
    <3>1. CASE k = j
      BY <2>1, <2>5, <2>6, <3>1
    <3>2. CASE k # j
      <4>1. ToldOf(k)
        BY <1>0, <2>1, <2>6
      <4> QED BY <2>1, <2>2, <2>3, <2>4, <3>2, <4>1, ToldStays
    <3> QED BY <3>1, <3>2
  <2> QED BY <1>s, <2>6
<1>2. ASSUME NEW m \in waiting, waiting' = waiting \ {m},
             \A j \in Jobs : j # m.job => handed'[j] = handed[j],
             UNCHANGED <<nacked, attempts, records, given, prepared>>
      PROVE  Told'
  <2>1. m.job \in Waits /\ m.job \in Jobs /\ Waits' = Waits \ {m.job}
    BY <1>0, <1>2, TakeMoves
  <2>2. Pends' = Pends /\ \A e : Tries(e)' = Tries(e)
    BY <1>2 DEF Pends, Tries
  <2>3. ASSUME NEW k \in Jobs \ prepared', OwnId(k) PROVE ToldOf(k)'
    <3>1. ToldOf(k)
      BY <1>0, <1>2, <2>3
    <3>2. CASE k = m.job
      <4>1. k \notin Waits' /\ k \notin Pends' /\ EnvOf[k] \notin DOMAIN records'
        BY <1>0, <1>2, <2>1, <2>2, <3>1, <3>2 DEF ToldOf
      <4> QED BY <4>1 DEF ToldOf
    <3>3. CASE k # m.job
      BY <1>2, <2>1, <2>2, <3>1, <3>3, ToldStays
    <3> QED BY <3>2, <3>3
  <2> QED BY <1>s, <2>3
<1>3. ASSUME Dequeue PROVE Told'
  <2>1. PICK m \in waiting :
         /\ waiting' = waiting \ {m}
         /\ \A j \in Jobs : j # m.job => handed'[j] = handed[j]
    BY <1>3, DequeueFacts
  <2>2. UNCHANGED <<nacked, attempts, records, given, prepared>>
    BY <1>3 DEF Dequeue
  <2> QED BY <1>2, <2>1, <2>2
<1>4. ASSUME NEW m \in waiting, RemoveItem(m) PROVE Told'
  <2>1. /\ waiting' = waiting \ {m}
        /\ UNCHANGED <<nacked, attempts, records, given, handed, prepared>>
    BY <1>4 DEF RemoveItem
  <2>2. \A j \in Jobs : j # m.job => handed'[j] = handed[j]
    BY <2>1
  <2> QED BY <1>2, <2>1, <2>2
<1>5. ASSUME NEW c \in 1..MaxCalls, NEW w \in 1..MaxWant, Pop(c, w) PROVE Told'
  <2>1. PICK size \in 1..w : Popped(c, w, size)
    BY <1>5, PopFacts
  <2> DEFINE J == Served(w, size)
  <2>2. /\ J \subseteq Waits /\ J \subseteq Jobs
        /\ Waits' = Waits \ J
        /\ Pends' = Pends \cup J
        /\ \A j \in J : handed'[j] = handed[j] + 1
        /\ \A j \in Jobs \ J : handed'[j] = handed[j]
    BY <1>0, <1>5, <2>1, PopMoves
  <2>3. UNCHANGED <<attempts, records, given, prepared>>
    BY <1>5 DEF Pop
  <2> HIDE DEF J
  <2>4. \A e : Tries(e)' = Tries(e)
    BY <2>3 DEF Tries
  <2>5. ASSUME NEW k \in Jobs \ prepared', OwnId(k) PROVE ToldOf(k)'
    <3>1. ToldOf(k)
      BY <1>0, <2>3, <2>5
    <3>2. CASE k \in J
      <4>1. k \in Waits /\ handed[k] = Tries(EnvOf[k]) /\ EnvOf[k] \notin DOMAIN records
        BY <2>2, <3>1, <3>2 DEF ToldOf
      <4>2. k \notin Waits' /\ EnvOf[k] \notin DOMAIN records'
        BY <2>2, <2>3, <3>2, <4>1
      <4>3. handed'[k] = Tries(EnvOf[k])' + 1
        BY <2>2, <2>4, <3>2, <4>1
      <4> QED BY <4>2, <4>3 DEF ToldOf
    <3>3. CASE k \notin J
      BY <2>2, <2>3, <2>4, <3>1, <3>3, ToldStays
    <3> QED BY <3>2, <3>3
  <2> QED BY <1>s, <2>5
<1>6. ASSUME NEW j \in Jobs, PrepareForFutureAck(j) PROVE Told'
  <2>1. /\ nacked' = Put(nacked, UserId, j)
        /\ UserId \notin DOMAIN nacked
        /\ prepared' = prepared \cup {j}
        /\ UNCHANGED <<waiting, attempts, records, given, handed, left>>
    BY <1>6 DEF PrepareForFutureAck
  <2>2. Waits' = Waits /\ Pends' \subseteq Pends \cup {j}
    BY <2>1 DEF Waits, Pends, Range, Put
  <2>3. \A e : Tries(e)' = Tries(e)
    BY <2>1 DEF Tries
  <2>4. ASSUME NEW k \in Jobs \ prepared', OwnId(k) PROVE ToldOf(k)'
    <3>1. ToldOf(k) /\ k # j
      BY <1>0, <2>1, <2>4
    <3> QED BY <2>1, <2>2, <2>3, <3>1, ToldStays
  <2> QED BY <1>s, <2>4
<1>7. ASSUME NEW S \in SUBSET DOMAIN nacked, NEW ids \in Orders(S), Requeue(ids) PROVE Told'
  <2>1. /\ Moved(S) \subseteq Pends /\ Moved(S) \subseteq Jobs
        /\ Waits' = Waits \cup Moved(S)
        /\ Pends' = Pends \ Moved(S)
    BY <1>0, <1>7, RequeueMoves
  <2>2. /\ attempts' = Requeued(ids)
        /\ UNCHANGED <<records, given, handed, left, prepared>>
    BY <1>7 DEF Requeue
  <2>3. \A e \in Envs : Tries(e)' = Tries(e) + Cardinality(Times(ids, e))
    BY <2>2, RequeuedFacts
  <2>4. /\ DOMAIN ids = 1..Len(ids) /\ Range(ids) = S
        /\ \A i \in 1..Len(ids) : ids[i] \in S
        /\ \A i, k \in 1..Len(ids) : ids[i] = ids[k] => i = k
    BY OrderFacts
  <2>5. \A e : Tries(e) \in Nat
    BY TypeFacts DEF Tries, IsMap
  <2>6. ASSUME NEW k \in Jobs \ prepared', OwnId(k) PROVE ToldOf(k)'
    <3>1. ToldOf(k) /\ EnvOf[k] \in Envs
      BY <1>0, <2>2, <2>6 DEF OwnId
    <3>2. CASE k \in Moved(S)
      <4>1. PICK i \in 1..Len(ids) : nacked[ids[i]] = k
        BY <2>4, <3>2 DEF Moved, Range
      <4>2. Times(ids, EnvOf[k]) = {i}
        <5>1. ASSUME NEW l \in 1..Len(ids), EnvOf[nacked[ids[l]]] = EnvOf[k] PROVE l = i
          <6>1. ids[l] \in DOMAIN nacked /\ ids[i] \in DOMAIN nacked
            BY <2>4
          <6>2. nacked[ids[l]] \in Jobs
            BY <6>1, TypeFacts DEF IsMap
          <6>3. nacked[ids[l]] = nacked[ids[i]]
            BY <2>6, <4>1, <5>1, <6>2 DEF OwnId
          <6>4. ids[l] = ids[i]
            BY <1>0, <6>1, <6>3 DEF Placed, IsInjective
          <6> QED BY <2>4, <6>4
        <5> QED BY <2>4, <4>1, <5>1 DEF Times
      <4>3. Tries(EnvOf[k])' = Tries(EnvOf[k]) + 1
        <5>1. Cardinality({i}) = 1
          BY FS_Singleton
        <5> QED BY <2>3, <3>1, <4>2, <5>1
      <4>4. k \in Pends /\ handed[k] = Tries(EnvOf[k]) + 1 /\ EnvOf[k] \notin DOMAIN records
        BY <2>1, <3>1, <3>2 DEF ToldOf
      <4>5. k \notin Pends' /\ EnvOf[k] \notin DOMAIN records' /\ handed'[k] = Tries(EnvOf[k])'
        BY <2>1, <2>2, <3>2, <4>3, <4>4
      <4> QED BY <4>5 DEF ToldOf
    <3>3. CASE k \notin Moved(S)
      <4>1. Times(ids, EnvOf[k]) = {}
        <5>1. ASSUME NEW l \in 1..Len(ids), EnvOf[nacked[ids[l]]] = EnvOf[k] PROVE FALSE
          <6>1. nacked[ids[l]] \in Moved(S) /\ nacked[ids[l]] \in Jobs
            BY <2>1, <2>4 DEF Moved
          <6> QED BY <2>6, <3>3, <5>1, <6>1 DEF OwnId
        <5> QED BY <2>4, <5>1 DEF Times
      <4>2. Tries(EnvOf[k])' = Tries(EnvOf[k])
        <5>1. Tries(EnvOf[k])' = Tries(EnvOf[k]) + 0
          BY <2>3, <3>1, <4>1, FS_EmptySet
        <5> QED BY <2>5, <5>1
      <4> QED BY <2>1, <2>2, <3>1, <3>3, <4>2, ToldStays
    <3> QED BY <3>2, <3>3
  <2> QED BY <1>s, <2>6
<1>8. ASSUME NEW o \in Objects, NEW id \in DOMAIN nacked, NEW state \in States,
             NEW old \in Ages, Finish(o, id, state, old)
      PROVE  Told'
  <2> DEFINE job == nacked[id]
             e == EnvOf[job]
             rid == FinishedId(id)
             rs == FinishedRecords(o, id, state)
  <2>1. /\ nacked' = Drop(nacked, {id})
        /\ attempts' = Drop(attempts, {e})
        /\ UNCHANGED <<waiting, given, handed, prepared>>
    BY <1>8 DEF Finish
  <2>2. job \in Pends /\ job \in Jobs /\ Pends' = Pends \ {job} /\ Waits' = Waits
    BY <1>0, <2>1, FinishMoves DEF Waits
  <2>3. \E X : records' = Drop(rs, X)
    BY <1>8, FinishFacts
  <2>4. \A d : d # e => Tries(d)' = Tries(d)
    BY <2>1 DEF Tries, Drop
  <2>5. /\ DOMAIN records' \subseteq DOMAIN rs
        /\ \A x \in DOMAIN records' : records'[x] = rs[x]
    <3> HIDE DEF rs
    <3> QED BY <2>3 DEF Drop
  <2>6. \A x \in DOMAIN rs : x # rid => x \in DOMAIN records /\ rs[x] = records[x]
    <3>1. CASE keep[o][state] > 0
      BY <3>1 DEF FinishedRecords, Put
    <3>2. CASE ~(keep[o][state] > 0)
      BY <3>2 DEF FinishedRecords, Drop
    <3> QED BY <3>1, <3>2
  <2>7. rid \in DOMAIN rs => rs[rid].attempts = 1 + Tries(e)
    <3>1. CASE keep[o][state] > 0
      BY <3>1 DEF FinishedRecords, FinishedTries, Put
    <3>2. CASE ~(keep[o][state] > 0)
      BY <3>2 DEF FinishedRecords, Drop
    <3> QED BY <3>1, <3>2
  <2>8. rid = IF e = NoEnv THEN id ELSE e
    BY DEF FinishedId, RecordId
  <2>9. id \in AckIds \cup {UserId}
    BY TypeFacts DEF IsMap
  <2> HIDE DEF job, e, rid, rs
  <2>10. \A d \in Envs : d = rid => d = e
    BY <2>8, <2>9, IdAssumption
  <2>11. \A d : Tries(d) \in Nat
    BY TypeFacts DEF Tries, IsMap
  <2>12. ASSUME NEW k \in Jobs \ prepared', OwnId(k) PROVE ToldOf(k)'
    <3>1. ToldOf(k) /\ EnvOf[k] \in Envs
      BY <1>0, <2>1, <2>12 DEF OwnId
    <3>2. CASE k = job
      <4>1. EnvOf[k] = e /\ e # NoEnv /\ rid = e
        BY <2>8, <3>1, <3>2, EnvAssumption DEF e
      <4>2. k \in Pends /\ k \notin Waits /\ handed[k] = Tries(e) + 1
        BY <1>0, <2>2, <3>1, <3>2, <4>1 DEF ToldOf
      <4>3. k \notin Pends' /\ k \notin Waits' /\ k \in DOMAIN given'
        BY <1>0, <2>1, <2>2, <3>2, <4>2
      <4>4. EnvOf[k] \in DOMAIN records' => records'[EnvOf[k]].attempts = handed'[k]
        <5>1. Tries(e) + 1 = 1 + Tries(e)
          BY <2>11
        <5> QED BY <2>1, <2>5, <2>7, <4>1, <4>2, <5>1
      <4> QED BY <4>3, <4>4 DEF ToldOf
    <3>3. CASE k # job
      <4>1. EnvOf[k] # e /\ EnvOf[k] # rid
        BY <2>2, <2>10, <2>12, <3>1, <3>3 DEF OwnId, e
      <4>2. EnvOf[k] \in DOMAIN records' =>
              EnvOf[k] \in DOMAIN records /\ records'[EnvOf[k]] = records[EnvOf[k]]
        BY <2>5, <2>6, <4>1
      <4> QED BY <2>1, <2>2, <2>4, <3>1, <4>1, <4>2, ToldStays
    <3> QED BY <3>2, <3>3
  <2> QED BY <1>s, <2>12
<1>9. ASSUME NEW o \in Objects, NEW old \in [States -> Ages], Trim(o, old) PROVE Told'
  <2>1. UNCHANGED <<waiting, nacked, attempts, given, handed, prepared>>
    BY <1>9 DEF Trim
  <2>2. \E X : records' = Drop(records, X)
    BY <1>9, TrimFacts
  <2>3. \A x \in DOMAIN records' : x \in DOMAIN records /\ records'[x] = records[x]
    BY <2>2 DEF Drop
  <2>4. Waits' = Waits /\ Pends' = Pends /\ \A e : Tries(e)' = Tries(e)
    BY <2>1 DEF Waits, Pends, Tries
  <2>5. ASSUME NEW k \in Jobs \ prepared', OwnId(k) PROVE ToldOf(k)'
    <3>1. ToldOf(k)
      BY <1>0, <2>1, <2>5
    <3> QED BY <2>1, <2>3, <2>4, <3>1, ToldStays
  <2> QED BY <1>s, <2>5
<1>10. ASSUME Purge PROVE Told'
  <2>1. waiting' = {} /\ nacked' = EmptyMap /\ records' = EmptyMap
    BY <1>10 DEF Purge
  <2>2. Waits' = {} /\ Pends' = {} /\ DOMAIN records' = {}
    BY <2>1, EmptyFacts DEF Waits, Pends, Range
  <2>3. \A k : ToldOf(k)'
    BY <2>2 DEF ToldOf
  <2> QED BY <1>s, <2>3
<1>11. ASSUME UNCHANGED <<waiting, nacked, attempts, records, given, handed, prepared>> PROVE Told'
  BY <1>11 DEF Told, ToldOf, OwnId, Waits, Pends, Tries
<1>12. ASSUME NEW o \in Setters, NEW state \in States, NEW k \in 0..MaxKeep,
              SetRetention(o, state, k)
       PROVE  UNCHANGED <<waiting, nacked, attempts, records, given, handed, prepared>>
  BY <1>12 DEF SetRetention
<1>13. CASE UNCHANGED vars
  BY <1>11, <1>13 DEF vars
<1> QED
  <2>1. CASE Next
    BY <2>1, <1>1, <1>3, <1>4, <1>5, <1>6, <1>7, <1>8, <1>9, <1>10, <1>11, <1>12 DEF Next
  <2> QED BY <2>1, <1>13

(* The record of a finished job tells how often it was handed out: each    *)
(* requeue adds one to the count that requeued() keeps, and nothing else   *)
(* does, while finishScript adds the last (for jobs with an envelope id of *)
(* their own that were not prepared by hand).                              *)
THEOREM RecordsTellAttempts == Spec => []AttemptsTold
<1> DEFINE Inv == TypeInv /\ NoLeftovers /\ PlaceInv /\ Told
<1>1. Init => Inv
  <2> SUFFICES ASSUME Init PROVE Inv
    OBVIOUS
  <2>1. /\ waiting = {} /\ nacked = EmptyMap
        /\ prio = EmptyMap /\ started = {} /\ attempts = EmptyMap /\ records = EmptyMap
    BY DEF Init
  <2>2. /\ Waits = {} /\ Pends = {} /\ DOMAIN nacked = {}
        /\ DOMAIN prio = {} /\ DOMAIN attempts = {} /\ DOMAIN records = {}
    BY <2>1, EmptyFacts DEF Waits, Pends, Range
  <2>3. NoLeftovers /\ Told
    BY <2>1, <2>2 DEF NoLeftovers, Told, ToldOf
  <2> QED BY <2>3, TypesInit, PlacesInit
<1>2. Inv /\ [Next]_vars => Inv'
  BY TypesNext, LeftoversNext, PlacesNext, ToldNext
<1>3. Inv => AttemptsTold
  <2> SUFFICES ASSUME Inv, NEW j \in Jobs \ prepared, EnvOf[j] \in DOMAIN records,
                      \A k \in Jobs : EnvOf[k] = EnvOf[j] => k = j
               PROVE  records[EnvOf[j]].attempts = handed[j]
    BY DEF AttemptsTold
  <2>1. EnvOf[j] \in Envs
    <3>1. EnvOf[j] \in RecordIds
      BY TypeFacts DEF IsMap
    <3>2. EnvOf[j] \in Envs \cup {NoEnv}
      BY EnvAssumption
    <3> QED BY <3>1, <3>2, IdAssumption, EnvAssumption DEF RecordIds
  <2> QED BY <2>1 DEF Told, ToldOf, OwnId
<1> QED BY <1>1, <1>2, <1>3, PTL DEF Spec

=============================================================================
